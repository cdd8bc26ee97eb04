----------------------------- MODULE X86Proofs -----------------------------
(***************************************************************************)
(* Invariants of the two modules of AM on x86-qemu: of X86Boot for any     *)
(* number of processors; of X86Vm for any number of processors, spaces,    *)
(* tasks and pages and any depth of the page tables.  The two have no      *)
(* variable in common, and nothing is shown of them together.              *)
(***************************************************************************)
EXTENDS X86Boot, X86Vm, WellFoundedInduction, TLAPS

---------------------------------------------------------------------------
(* X86Boot.                                                                *)

LEMMA CpuFacts == N \in Nat /\ 0 \in CPUs /\ \A c \in CPUs : c \in Nat /\ c < N /\ c + 1 <= N
BY CpuAssumption DEF CPUs

LEMMA BootInit == Init => IInv
<1> SUFFICES ASSUME Init PROVE IInv
  OBVIOUS
<1> USE CpuAssumption DEF CPUs
<1>1. TypeOK
  <2>1. pc \in [CPUs -> {"start", "wait"}]
    BY DEF Init
  <2>2. ipi \in [CPUs -> SUBSET {"INIT", "SIPI"}]
    BY DEF Init
  <2>3. percpu \in [CPUs -> BOOLEAN] /\ halts \in SUBSET CPUs
    BY DEF Init
  <2>4. target \in [CPUs -> 0 .. N] /\ phase \in [CPUs -> 0 .. 3]
    BY DEF Init
  <2> QED
    BY <2>1, <2>2, <2>3, <2>4 DEF Init, TypeOK, OnBootStack
<1>2. Alone
  BY DEF Init, Alone, OnBootStack
<1> QED
  BY <1>1, <1>2 DEF Init, IInv

(* A turn of the loops over the processors keeps the types. *)
LEMMA TurnTypes ==
  ASSUME TypeOK, NEW c \in CPUs, NEW next \in 0 .. N,
         NEW at \in {"mpe", "stop", "user", "print"}, at \in {"mpe", "stop"} => next < N,
         target' = [target EXCEPT ![c] = next], phase' = [phase EXCEPT ![c] = 0], Go(c, at)
  PROVE  /\ target' \in [CPUs -> 0 .. N] /\ phase' \in [CPUs -> 0 .. 3]
         /\ pc' \in [CPUs -> OnBootStack \cup {"wait", "record", "othercpu", "ready",
                                               "main", "mpe", "user", "stop", "print"}]
         /\ \A d \in CPUs : pc'[d] \in {"mpe", "stop"} => target'[d] < N
<1>1. target' \in [CPUs -> 0 .. N] /\ phase' \in [CPUs -> 0 .. 3]
  BY DEF TypeOK
<1>2. pc' = [pc EXCEPT ![c] = at]
  BY DEF Go
<1>3. pc' \in [CPUs -> OnBootStack \cup {"wait", "record", "othercpu", "ready",
                                       "main", "mpe", "user", "stop", "print"}]
  BY <1>2 DEF TypeOK
<1>4. ASSUME NEW d \in CPUs, pc'[d] \in {"mpe", "stop"} PROVE target'[d] < N
  <2>1. CASE d = c
    BY <1>2, <1>4, <2>1 DEF TypeOK
  <2>2. CASE d # c
    BY <1>2, <1>4, <2>2 DEF TypeOK
  <2> QED BY <2>1, <2>2
<1> QED BY <1>1, <1>3, <1>4

(* Every step keeps the types. *)
LEMMA BootTypes == ASSUME TypeOK, [Next]_vars PROVE TypeOK'
<1> USE CpuAssumption DEF CPUs, TypeOK, Go, At
<1>1. CASE UNCHANGED vars
  BY <1>1 DEF vars, boot
<1>2. ASSUME NEW c \in CPUs, take_init(c) PROVE TypeOK'
  BY <1>2 DEF take_init, boot
<1>3. ASSUME NEW c \in CPUs, take_sipi(c) PROVE TypeOK'
  BY <1>3 DEF take_sipi, boot
<1>4. ASSUME NEW c \in CPUs, mpe_bootap(c) \/ stop_bootap(c) PROVE TypeOK'
  <2>1. target[c] \in CPUs
    BY <1>4 DEF mpe_bootap, stop_bootap
  <2>2. PICK k \in {"INIT", "SIPI"} : ipi' = [ipi EXCEPT ![target[c]] = @ \cup {k}]
    <3>1. PICK m \in {"INIT", "SIPI"} : m = IF phase[c] = 0 THEN "INIT" ELSE "SIPI"
      OBVIOUS
    <3> QED
      BY <1>4, <3>1 DEF mpe_bootap, stop_bootap, lapic_bootap
  <2>3. ipi' \in [CPUs -> SUBSET {"INIT", "SIPI"}]
    BY <2>1, <2>2
  <2>4. phase' = [phase EXCEPT ![c] = @ + 1] /\ phase[c] < 3
        /\ UNCHANGED <<boot, ap_ready, pc, percpu, target, off, halts>>
    BY <1>4 DEF mpe_bootap, stop_bootap, lapic_bootap
  <2>5. phase' \in [CPUs -> 0 .. 3]
    <3> HIDE DEF CPUs
    <3>1. phase \in [CPUs -> 0 .. 3] /\ phase[c] + 1 \in 0 .. 3
      BY <2>4, <1>4
    <3> QED
      BY <2>4, <3>1
  <2> QED
    BY <2>3, <2>4, <2>5 DEF boot
<1>5. ASSUME NEW c \in CPUs, run_record(c) \/ start(c) \/ load_kernel(c) \/ start64(c) PROVE TypeOK'
  <2>1. CASE run_record(c)
    BY <2>1 DEF run_record, OnBootStack, boot
  <2>2. CASE start(c)
    BY <2>2 DEF start, OnBootStack, boot
  <2>3. CASE load_kernel(c)
    BY <2>3 DEF load_kernel, OnBootStack, boot
  <2>4. CASE start64(c)
    BY <2>4 DEF start64, OnBootStack, boot
  <2> QED
    BY <1>5, <2>1, <2>2, <2>3, <2>4
<1>6. ASSUME NEW c \in CPUs, start_c(c) \/ bootcpu_init(c) PROVE TypeOK'
  <2>1. CASE start_c(c)
    BY <2>1 DEF start_c, OnBootStack, boot
  <2>2. CASE bootcpu_init(c)
    BY <2>2 DEF bootcpu_init, OnBootStack, boot
  <2> QED
    BY <1>6, <2>1, <2>2
<1>7. ASSUME NEW c \in CPUs, mpe_init(c) PROVE TypeOK'
  BY <1>7 DEF mpe_init, boot_next, boot
<1>8. ASSUME NEW c \in CPUs, await_ap(c) PROVE TypeOK'
  <2> DEFINE next == target[c] + 1
             at   == IF next < N THEN "mpe" ELSE "user"
  <2>1. next \in 0 .. N
    BY <1>8 DEF await_ap
  <2>2. target' = [target EXCEPT ![c] = next] /\ phase' = [phase EXCEPT ![c] = 0] /\ Go(c, at)
    BY <1>8 DEF await_ap, boot_next
  <2> HIDE DEF next, Go, TypeOK
  <2>3. at \in {"mpe", "stop", "user", "print"} /\ (at \in {"mpe", "stop"} => next < N)
    OBVIOUS
  <2> HIDE DEF at
  <2> QED
    BY <1>8, <2>1, <2>2, <2>3, TurnTypes DEF await_ap, TypeOK, boot
<1>9. ASSUME NEW c \in CPUs, percpu_init(c) \/ ready(c) PROVE TypeOK'
  <2>1. CASE percpu_init(c)
    BY <2>1 DEF percpu_init, boot
  <2>2. CASE ready(c)
    BY <2>2 DEF ready, boot
  <2> QED
    BY <1>9, <2>1, <2>2
<1>10. ASSUME NEW c \in CPUs, halt(c) PROVE TypeOK'
  <2> DEFINE next == stop_next(c, 0)
             at   == IF next < N THEN "stop" ELSE "print"
  <2>1. next \in 0 .. N
    BY DEF stop_next
  <2>2. target' = [target EXCEPT ![c] = next] /\ phase' = [phase EXCEPT ![c] = 0] /\ Go(c, at)
    BY <1>10 DEF halt, stop_to
  <2> HIDE DEF next, Go, TypeOK
  <2>3. at \in {"mpe", "stop", "user", "print"} /\ (at \in {"mpe", "stop"} => next < N)
    OBVIOUS
  <2> HIDE DEF at
  <2> QED
    BY <1>10, <2>1, <2>2, <2>3, TurnTypes DEF halt, TypeOK
<1>11. ASSUME NEW c \in CPUs, stop_turn(c) PROVE TypeOK'
  <2> DEFINE next == stop_next(c, target[c] + 1)
             at   == IF next < N THEN "stop" ELSE "print"
  <2>1. next \in 0 .. N
    <3>1. target[c] \in 0 .. N - 1 /\ c \in 0 .. N - 1 /\ N \in Nat
      BY <1>11 DEF stop_turn
    <3> HIDE DEF TypeOK, Go, At
    <3> QED BY <3>1 DEF stop_next
  <2>2. target' = [target EXCEPT ![c] = next] /\ phase' = [phase EXCEPT ![c] = 0] /\ Go(c, at)
    BY <1>11 DEF stop_turn, stop_to
  <2> HIDE DEF next, Go, TypeOK
  <2>3. at \in {"mpe", "stop", "user", "print"} /\ (at \in {"mpe", "stop"} => next < N)
    OBVIOUS
  <2> HIDE DEF at
  <2> QED
    BY <1>11, <2>1, <2>2, <2>3, TurnTypes DEF stop_turn, TypeOK, boot
<1>12. ASSUME NEW c \in CPUs, power_off(c) PROVE TypeOK'
  BY <1>12 DEF power_off, boot
<1> HIDE DEF TypeOK, Go, At
<1> QED
  BY <1>1, <1>2, <1>3, <1>4, <1>5, <1>6, <1>7, <1>8, <1>9, <1>10, <1>11, <1>12 DEF Next, Run, Take

(* One lemma per kind of step.  What the boot record says selects the part *)
(* of IInv that is at stake.                                               *)
LEMMA StepTakeInit == ASSUME IInv, TypeOK', NEW c \in CPUs, take_init(c) PROVE IInv'
<1> USE CpuFacts DEF TypeOK, IInv, take_init, Go, boot
<1>1. CASE jmp_code = "none"
  BY <1>1, SMTT(60) DEF Alone
<1>2. CASE jmp_code = "boot"
  BY <1>2, SMTT(60) DEF Handshake, Entering
<1>3. CASE jmp_code = "spin"
  BY <1>3, SMTT(60) DEF Stopping, Stopped, BootStackExclusive, OnBootStack
<1> QED
  BY <1>1, <1>2, <1>3

LEMMA StepTakeSipi == ASSUME IInv, TypeOK', NEW c \in CPUs, take_sipi(c) PROVE IInv'
<1> USE CpuFacts DEF TypeOK, IInv, take_sipi, Go, boot
<1>1. CASE jmp_code = "none"
  BY <1>1, SMTT(60) DEF Alone
<1>2. CASE jmp_code = "boot"
  BY <1>2, SMTT(60) DEF Handshake, Entering
<1>3. CASE jmp_code = "spin"
  BY <1>3, SMTT(60) DEF Stopping, Stopped, BootStackExclusive, OnBootStack
<1> QED
  BY <1>1, <1>2, <1>3

LEMMA StepBootap == ASSUME IInv, TypeOK', NEW c \in CPUs, mpe_bootap(c) \/ stop_bootap(c) PROVE IInv'
<1> USE CpuFacts DEF boot
<1>1. /\ c \in CPUs /\ pc[c] \in {"mpe", "stop"} /\ ~ off
      /\ lapic_bootap(c)
  BY DEF mpe_bootap, stop_bootap, At
<1>2. target[c] \in CPUs /\ phase[c] \in 0 .. 2
  BY <1>1 DEF IInv, TypeOK, lapic_bootap, CPUs
<1>3. /\ UNCHANGED <<jmp_code, is_ap, loaded, tables, lapic, ap_ready, pc, percpu, target, off, halts>>
      /\ \A d \in CPUs : phase'[d] = IF d = c THEN phase[c] + 1 ELSE phase[d]
      /\ \A d \in CPUs : d # target[c] => ipi'[d] = ipi[d]
      /\ phase[c] = 0 => ipi'[target[c]] = ipi[target[c]] \cup {"INIT"}
      /\ phase[c] # 0 => ipi'[target[c]] = ipi[target[c]] \cup {"SIPI"}
  BY <1>1, <1>2 DEF lapic_bootap, IInv, TypeOK
<1>4. CASE jmp_code = "none"
  BY <1>1, <1>4 DEF IInv, Alone, OnBootStack
<1>5. CASE jmp_code = "boot"
  <2>1. c = 0
    BY <1>1, <1>5 DEF IInv, Handshake, Entering
  <2>2. Handshake'
    <3>1. ASSUME NEW d \in CPUs \ {0}, d = target[0] PROVE
            /\ phase'[0] # 0
            /\ phase'[0] = 1 => "SIPI" \notin ipi'[d]
            /\ phase'[0] < 2 \/ "INIT" \in ipi'[d] => pc[d] = "wait"
      BY <1>2, <1>3, <1>5, <2>1, <3>1 DEF IInv, Handshake
    <3>2. ASSUME NEW d \in CPUs, d # target[0] PROVE ipi'[d] = ipi[d]
      BY <1>3, <2>1, <3>2
    <3> HIDE CpuFacts
    <3> QED
      BY CpuFacts, <1>2, <1>3, <1>5, <2>1, <3>1, <3>2 DEF IInv, Handshake
  <2> QED
    BY <1>1, <1>3, <1>5, <2>2 DEF IInv
<1>6. CASE jmp_code = "spin"
  <2>1. \A d \in CPUs : Stopped(d) => Stopped(d)'
    BY <1>3 DEF Stopped
  <2>2. phase[c] = 0 => Stopped(target[c])'
    BY <1>2, <1>3 DEF Stopped
  <2>3. ASSUME NEW e \in CPUs, pc[e] = "stop", NEW d \in CPUs \ {e},
               d < target[e] \/ (d = target[e] /\ phase'[e] > 0)
        PROVE  Stopped(d)'
    <3>1. CASE d < target[e] \/ (d = target[e] /\ phase[e] > 0)
      BY <1>6, <2>1, <2>3, <3>1 DEF IInv, Stopping
    <3>2. CASE d = target[e] /\ ~ phase[e] > 0
      BY <1>2, <1>3, <2>2, <2>3, <3>2 DEF IInv, TypeOK
    <3> QED
      BY <2>3, <3>1, <3>2
  <2>4. Stopping'
    BY <1>3, <1>6, <2>1, <2>3 DEF IInv, Stopping, BootStackExclusive
  <2> QED
    BY <1>1, <1>3, <1>6, <2>4 DEF IInv
<1> QED
  BY <1>4, <1>5, <1>6 DEF IInv, TypeOK

(* A step of a processor that changes only where it is, what it sets up    *)
(* and the handshake, once a halt has changed the record.                  *)
LEMMA SpinMoves ==
  ASSUME IInv, TypeOK', jmp_code = "spin", NEW c \in CPUs, NEW l,
         pc[c] \notin {"wait", "record", "stop", "print"}, pc' = [pc EXCEPT ![c] = l],
         l \in OnBootStack => pc[c] \in OnBootStack,
         l \notin {"main", "bootcpu", "stop", "print"}, ~ off,
         UNCHANGED <<jmp_code, is_ap, ipi, off, halts>>,
         \A d \in CPUs : pc[d] = "stop" => target'[d] = target[d] /\ phase'[d] = phase[d],
         loaded' /\ tables' /\ lapic'
  PROVE  IInv'
<1>1. /\ pc'[c] = l
      /\ \A d \in CPUs : d # c => pc'[d] = pc[d]
  BY DEF IInv, TypeOK
<1>2. \A d \in CPUs : Stopped(d) => Stopped(d)'
  BY <1>1 DEF Stopped
<1>3. BootStackExclusive'
  BY <1>1 DEF IInv, Stopping, BootStackExclusive
<1>4. ASSUME NEW d \in CPUs PROVE
        /\ pc'[d] \in OnBootStack => is_ap = 1 /\ d # 0
        /\ pc'[d] \notin {"main", "bootcpu"}
        /\ pc'[d] = "stop" =>
             \A e \in CPUs \ {d} : e < target'[d] \/ (e = target'[d] /\ phase'[d] > 0) => Stopped(e)'
        /\ pc'[d] = "print" => \A e \in CPUs \ {d} : Stopped(e)'
  BY <1>1, <1>2 DEF IInv, Stopping
<1> QED
  BY <1>3, <1>4 DEF IInv, Stopping

LEMMA StepBootCode ==
  ASSUME IInv, TypeOK', NEW c \in CPUs,
         run_record(c) \/ start(c) \/ load_kernel(c) \/ start64(c) \/ start_c(c) \/ bootcpu_init(c)
  PROVE  IInv'
<1> USE CpuFacts
<1>1. CASE jmp_code = "none"
  <2>1. c = 0 /\ is_ap = 0 /\ ~ off /\ jmp_code' = "none"
        /\ UNCHANGED <<is_ap, ap_ready, ipi, halts, off>>
    BY <1>1 DEF IInv, Alone, run_record, start, load_kernel, start64, start_c, bootcpu_init, At, boot
  <2>2. /\ \A d \in CPUs \ {0} : pc'[d] = pc[d]
        /\ pc[0] # "bootcpu" => lapic' = lapic /\ percpu' = percpu
    BY <2>1 DEF IInv, TypeOK, run_record, start, load_kernel, start64, start_c, bootcpu_init, Go, At, boot
  <2>3. \/ pc[0] = "start" /\ pc'[0] = "load"
        \/ pc[0] = "load" /\ pc'[0] = "start64" /\ loaded'
        \/ pc[0] = "start64" /\ pc'[0] = "start_c" /\ loaded' = loaded /\ tables'
        \/ pc[0] = "start_c" /\ pc'[0] = "bootcpu" /\ UNCHANGED <<loaded, tables>>
        \/ pc[0] = "bootcpu" /\ pc'[0] = "main" /\ UNCHANGED <<loaded, tables>> /\ lapic' /\ percpu'[0]
    BY <1>1, <2>1 DEF IInv, TypeOK, run_record, start, load_kernel, start64, start_c, bootcpu_init, Go, At, boot
  <2>4. Alone'
    BY <1>1, <2>1, <2>2, <2>3 DEF IInv, Alone, OnBootStack
  <2> QED
    BY <1>1, <2>1, <2>4 DEF IInv
<1>2. CASE jmp_code = "boot"
  <2>1. c # 0 /\ is_ap = 1 /\ c = target[0] /\ phase[0] >= 2 /\ pc[0] = "mpe"
    <3>1. pc[c] \in {"record", "start", "load", "start64", "start_c", "bootcpu"}
      BY DEF run_record, start, load_kernel, start64, start_c, bootcpu_init, At
    <3>2. c # 0 /\ c = target[0]
      BY <1>2, <3>1 DEF IInv, TypeOK, Handshake
    <3> QED
      BY <1>2, <3>1, <3>2 DEF IInv, TypeOK, Handshake
  <2>2. PICK l \in {"start", "load", "start64", "start_c", "othercpu"} :
          pc' = [pc EXCEPT ![c] = l] /\ ~ off
    BY <1>2, <2>1 DEF run_record, start, load_kernel, start64, start_c, bootcpu_init, Go, At, IInv, Handshake, Entering
  <2>3. /\ UNCHANGED <<jmp_code, is_ap, ap_ready, percpu, ipi, target, phase, off, halts>>
        /\ loaded' /\ tables' /\ lapic'
    BY <1>2, <2>1 DEF run_record, start, load_kernel, start64, start_c, bootcpu_init, At, boot, IInv, Handshake, Entering
  <2>4. pc[c] \notin {"wait", "ready", "user"}
    BY <1>2, <2>1 DEF run_record, start, load_kernel, start64, start_c, bootcpu_init, At, IInv, Handshake, Entering
  <2>5. pc'[c] = l /\ \A d \in CPUs : d # c => pc'[d] = pc[d]
    BY <2>2 DEF IInv, TypeOK
  <2>6. Handshake'
    BY <1>2, <2>1, <2>3, <2>4, <2>5 DEF IInv, Handshake, Entering
  <2> QED
    BY <1>2, <2>2, <2>3, <2>6 DEF IInv
<1>3. CASE jmp_code = "spin"
  <2>1. /\ pc[c] \in {"start", "load", "start64", "start_c"} /\ is_ap = 1 /\ ~ off
    BY <1>3 DEF run_record, start, load_kernel, start64, start_c, bootcpu_init, At, IInv, Stopping, OnBootStack
  <2>2. PICK l \in {"load", "start64", "start_c", "othercpu"} : pc' = [pc EXCEPT ![c] = l]
    BY <1>3, <2>1 DEF run_record, start, load_kernel, start64, start_c, bootcpu_init, Go, At
  <2>3. /\ UNCHANGED <<jmp_code, is_ap, ap_ready, percpu, ipi, target, phase, off, halts>>
        /\ loaded' /\ tables' /\ lapic'
    BY <1>3, <2>1 DEF run_record, start, load_kernel, start64, start_c, bootcpu_init, At, boot, IInv
  <2> QED
    BY <1>3, <2>1, <2>2, <2>3, SpinMoves DEF OnBootStack
<1> QED
  BY <1>1, <1>2, <1>3 DEF IInv, TypeOK

LEMMA StepMpeInit == ASSUME IInv, TypeOK', NEW c \in CPUs, mpe_init(c) PROVE IInv'
<1> USE CpuFacts
<1>1. jmp_code = "none" /\ c = 0
  BY DEF IInv, TypeOK, Alone, Handshake, Entering, Stopping, mpe_init, At
<1>2. /\ jmp_code' = "boot" /\ (N > 1 => is_ap' = 1) /\ pc[0] = "main" /\ ~ off
      /\ target'[0] = 1 /\ phase'[0] = 0
      /\ pc'[0] = IF 1 < N THEN "mpe" ELSE "user"
      /\ \A d \in CPUs : d # 0 => pc'[d] = pc[d]
      /\ UNCHANGED <<loaded, tables, lapic, ap_ready, percpu, ipi, off, halts>>
  BY <1>1 DEF IInv, TypeOK, mpe_init, boot_next, Go, At
<1>3. Handshake'
  BY <1>1, <1>2 DEF IInv, Alone, Handshake, Entering
<1> QED
  BY <1>1, <1>2, <1>3 DEF IInv, Alone

LEMMA StepAwait == ASSUME IInv, TypeOK', NEW c \in CPUs, await_ap(c) PROVE IInv'
<1> USE CpuFacts
<1>1. /\ pc[c] = "mpe" /\ ~ off /\ target[c] < N /\ target[c] + 1 \in 0 .. N
      /\ ap_ready = 1 /\ ap_ready' = 0 /\ phase[c] = 3
      /\ target' = [target EXCEPT ![c] = target[c] + 1] /\ phase' = [phase EXCEPT ![c] = 0]
      /\ pc' = [pc EXCEPT ![c] = IF target[c] + 1 < N THEN "mpe" ELSE "user"]
      /\ UNCHANGED <<boot, percpu, ipi, off, halts>>
  BY DEF IInv, TypeOK, await_ap, boot_next, Go, At
<1>2. CASE jmp_code = "none"
  BY <1>1, <1>2 DEF IInv, Alone
<1>3. CASE jmp_code = "boot"
  <2>1. c = 0
    BY <1>1, <1>3 DEF IInv, Handshake, Entering
  <2>2. /\ target'[0] = target[0] + 1 /\ phase'[0] = 0
        /\ pc'[0] = (IF target[0] + 1 < N THEN "mpe" ELSE "user")
        /\ \A d \in CPUs : d # 0 => pc'[d] = pc[d]
    BY <1>1, <2>1 DEF IInv, TypeOK
  <2>3. ASSUME NEW d \in CPUs \ {0} PROVE
          /\ d < target[0] + 1 => pc[d] = "user" /\ "INIT" \notin ipi[d] /\ percpu[d]
          /\ d > target[0] => pc[d] = "wait" /\ ipi[d] = {}
    BY <1>1, <1>3, <2>1 DEF IInv, TypeOK, Handshake
  <2>4. Handshake'
    BY <1>1, <1>3, <2>1, <2>2, <2>3 DEF IInv, TypeOK, Handshake, Entering, boot
  <2> QED
    BY <1>1, <1>3, <2>4 DEF IInv, boot
<1>4. CASE jmp_code = "spin"
  <2>1. \A d \in CPUs : pc[d] = "stop" => target'[d] = target[d] /\ phase'[d] = phase[d]
    BY <1>1 DEF IInv, TypeOK
  <2>2. PICK l \in {"mpe", "user"} : pc' = [pc EXCEPT ![c] = l]
    BY <1>1
  <2> QED
    BY <1>1, <1>4, <2>1, <2>2, SpinMoves DEF boot, OnBootStack, IInv
<1> QED
  BY <1>2, <1>3, <1>4 DEF IInv, TypeOK

LEMMA StepOther == ASSUME IInv, TypeOK', NEW c \in CPUs, percpu_init(c) \/ ready(c) PROVE IInv'
<1> USE CpuFacts
<1>1. /\ pc[c] \in {"othercpu", "ready"} /\ ~ off
      /\ pc' = [pc EXCEPT ![c] = IF pc[c] = "othercpu" THEN "ready" ELSE "user"]
      /\ UNCHANGED <<boot, ipi, target, phase, off, halts>>
      /\ pc[c] = "othercpu" => percpu' = [percpu EXCEPT ![c] = TRUE] /\ ap_ready' = ap_ready
      /\ pc[c] = "ready" => percpu' = percpu /\ ap_ready' = 1
  BY DEF percpu_init, ready, Go, At
<1>2. CASE jmp_code = "none"
  BY <1>1, <1>2 DEF IInv, Alone, OnBootStack
<1>3. CASE jmp_code = "boot"
  <2>1. c # 0 /\ c = target[0] /\ phase[0] >= 2 /\ pc[0] = "mpe"
    BY <1>1, <1>3 DEF IInv, TypeOK, Handshake
  <2>2. /\ pc'[c] = (IF pc[c] = "othercpu" THEN "ready" ELSE "user") /\ percpu'[c]
        /\ \A d \in CPUs : d # c => pc'[d] = pc[d] /\ percpu'[d] = percpu[d]
    BY <1>1, <1>3, <2>1 DEF IInv, TypeOK, Handshake
  <2>3. Handshake'
    BY <1>1, <1>3, <2>1, <2>2 DEF IInv, TypeOK, Handshake, Entering, boot
  <2> QED
    BY <1>1, <1>3, <2>3 DEF IInv, boot
<1>4. CASE jmp_code = "spin"
  <2>1. PICK l \in {"ready", "user"} : pc' = [pc EXCEPT ![c] = l]
    BY <1>1
  <2> QED
    BY <1>1, <1>4, <2>1, SpinMoves DEF boot, OnBootStack, IInv
<1> QED
  BY <1>2, <1>3, <1>4 DEF IInv, TypeOK

(* A processor at who in the loop of __am_stop_the_world, all before it    *)
(* stopped.                                                                *)
LEMMA SpinStops ==
  ASSUME IInv, TypeOK', NEW c \in CPUs, NEW who \in 0 .. N, stop_to(c, who), jmp_code' = "spin",
         loaded /\ tables /\ lapic,
         halts' # {}, ~ off, UNCHANGED <<is_ap, loaded, tables, lapic, ipi, off>>,
         BootStackExclusive,
         \A d \in CPUs : /\ pc[d] \in OnBootStack => is_ap = 1 /\ d # 0
                         /\ pc[d] \notin {"main", "bootcpu"} \/ d = c,
         jmp_code # "spin" => \A d \in CPUs : pc[d] \notin {"stop", "print"} \/ d = c,
         pc[c] \notin {"wait", "record"},
         \A d \in CPUs \ {c} : d < who => Stopped(d)
  PROVE  IInv'
<1> USE CpuFacts
<1> DEFINE nx == stop_next(c, who)
<1>1. nx \in Nat /\ \A d \in CPUs \ {c} : d < nx => d < who
  BY DEF stop_next
<1>2. /\ target'[c] = nx /\ phase'[c] = 0 /\ pc'[c] = IF nx < N THEN "stop" ELSE "print"
      /\ \A d \in CPUs : d # c => pc'[d] = pc[d] /\ target'[d] = target[d] /\ phase'[d] = phase[d]
  BY DEF stop_to, Go, IInv, TypeOK
<1>3. \A d \in CPUs \ {c} : Stopped(d) => Stopped(d)'
  BY <1>2 DEF Stopped
<1>4. BootStackExclusive'
  BY <1>2 DEF BootStackExclusive, OnBootStack
<1>5. ASSUME NEW d \in CPUs \ {c} PROVE Stopped(d) \/ d >= nx
  BY <1>1
<1>6. pc'[c] = "print" => \A d \in CPUs \ {c} : Stopped(d)'
  BY <1>1, <1>2, <1>3, <1>5
<1>7. ASSUME NEW e \in CPUs, e # c, jmp_code = "spin" PROVE
        /\ pc[e] = "stop" => \A d \in CPUs \ {e} : d < target[e] \/ (d = target[e] /\ phase[e] > 0) => Stopped(d)'
        /\ pc[e] = "print" => \A d \in CPUs \ {e} : Stopped(d)'
  <2>1. Stopped(c) => Stopped(c)'
    BY DEF Stopped
  <2> QED
    BY <1>3, <1>7, <2>1 DEF IInv, Stopping
<1>8. Stopping'
  BY <1>1, <1>2, <1>3, <1>4, <1>6, <1>7 DEF Stopping, IInv, TypeOK, OnBootStack
<1> QED
  BY <1>8 DEF IInv

LEMMA StepHalt == ASSUME IInv, TypeOK', NEW c \in CPUs, halt(c) \/ stop_turn(c) \/ power_off(c) PROVE IInv'
<1> USE CpuFacts
<1>1. CASE halt(c)
  <2>1. /\ pc[c] \in {"main", "user"} /\ ~ off /\ jmp_code' = "spin" /\ stop_to(c, 0) /\ halts' # {}
        /\ UNCHANGED <<is_ap, loaded, tables, lapic, ipi, off>>
    BY <1>1 DEF halt, At
  <2>2. loaded /\ tables /\ lapic /\ BootStackExclusive
    BY <2>1 DEF IInv, TypeOK, Alone, Handshake, Entering, Stopping, OnBootStack, BootStackExclusive
  <2>3. \A d \in CPUs : /\ pc[d] \in OnBootStack => is_ap = 1 /\ d # 0
                        /\ pc[d] \notin {"main", "bootcpu"} \/ d = c
    BY <2>1 DEF IInv, TypeOK, Alone, Handshake, Entering, Stopping, OnBootStack
  <2>4. jmp_code # "spin" => \A d \in CPUs : pc[d] \notin {"stop", "print"} \/ d = c
    BY <2>1 DEF IInv, TypeOK, Alone, Handshake, Entering, OnBootStack
  <2>5. \A d \in CPUs \ {c} : ~ d < 0
    OBVIOUS
  <2> QED
    BY <2>1, <2>2, <2>3, <2>4, <2>5, SpinStops
<1>2. ASSUME stop_turn(c) \/ power_off(c) PROVE jmp_code = "spin"
  BY <1>2 DEF stop_turn, power_off, At, IInv, TypeOK, Alone, Handshake, Entering, OnBootStack
<1>3. CASE stop_turn(c)
  <2>1. /\ pc[c] = "stop" /\ phase[c] = 3 /\ ~ off /\ stop_to(c, target[c] + 1) /\ target[c] + 1 \in 0 .. N
        /\ UNCHANGED <<boot, ap_ready, percpu, ipi, off, halts>>
    BY <1>3 DEF stop_turn, At, IInv, TypeOK
  <2>2. \A d \in CPUs \ {c} : d < target[c] + 1 => Stopped(d)
    BY <1>2, <1>3, <2>1 DEF IInv, TypeOK, Stopping
  <2> QED
    BY <1>2, <1>3, <2>1, <2>2, SpinStops DEF boot, IInv, Stopping
<1>4. CASE power_off(c)
  BY <1>2, <1>4 DEF power_off, At, boot, IInv, Stopping, Stopped, BootStackExclusive
<1> QED
  BY <1>1, <1>3, <1>4

(* The boot record decides who may come in: IInv is an invariant.          *)
THEOREM BootInvariant == Spec => []IInv
<1>1. ASSUME IInv, [Next]_vars PROVE IInv'
  <2>1. TypeOK'
    BY <1>1, BootTypes DEF IInv
  <2>2. CASE UNCHANGED vars
    BY <1>1, <2>1, <2>2 DEF vars, boot, IInv, Alone, Handshake, Stopping, Stopped, BootStackExclusive
  <2>3. CASE Next
    BY <1>1, <2>1, <2>3, StepTakeInit, StepTakeSipi, StepBootap, StepBootCode, StepMpeInit, StepAwait, StepOther, StepHalt
       DEF Next, Run, Take
  <2> QED
    BY <1>1, <2>2, <2>3
<1> QED
  BY <1>1, BootInit, PTL DEF Spec

(* Two processors are never on the boot stack, however many there are.     *)
THEOREM BootStackExclusiveHolds == Spec => []BootStackExclusive
<1>1. IInv => BootStackExclusive
  BY CpuFacts DEF IInv, TypeOK, Alone, Handshake, Stopping, BootStackExclusive, OnBootStack
<1> QED
  BY <1>1, BootInvariant, PTL

(* Every processor is set up before the boot processor enters the program, *)
(* and AM's data before any other processor uses it.                       *)
THEOREM SetUpInOrderHolds == Spec => []SetUpInOrder
<1>1. IInv => SetUpInOrder
  BY CpuFacts DEF IInv, TypeOK, Alone, Handshake, Stopping, SetUpInOrder, OnBootStack
<1> QED
  BY <1>1, BootInvariant, PTL

(* When the machine goes off no other processor goes on.                   *)
THEOREM WorldStoppedHolds == Spec => []WorldStopped
<1>1. IInv => WorldStopped
  BY DEF IInv, TypeOK, Stopping, WorldStopped
<1> QED
  BY <1>1, BootInvariant, PTL

---------------------------------------------------------------------------
(* X86Vm.  The invariant says where each table belongs.                    *)

VmTypeOK ==
  /\ live \subseteq Spaces /\ ptr \in [Spaces -> Pages \cup {NONE}]
  /\ DOMAIN pt = Pages \cup KernelTables
  /\ used \subseteq Pages \cup KernelTables
  /\ asked \in [Spaces -> [VA -> PA \cup {NONE}]]
  /\ cr3 \in [Processors -> Pages \cup {kpt}] /\ rsp0 \in [Processors -> UserTasks \cup {NONE}]
  /\ tlb \in [Processors -> SUBSET (VA \X PA)]
  /\ cur \in [Processors -> Tasks] /\ mode \in [Processors -> {"run", "trap"}]
  /\ ctx \in [Tasks -> Contexts \cup {NONE}]
  /\ remote \in [Processors -> BOOLEAN] /\ panicked \in BOOLEAN

(* A place in the tree of a space, by the indices on the way to it; a page *)
(* of the space passes one place at each level.                            *)
Place(a, l, path) == [space |-> a, level |-> l, path |-> path]
Prefix(va, l)     == [j \in 1 .. l - 1 |-> va[j]]
Deeper(path, l, i) == [j \in 1 .. l |-> IF j = l THEN i ELSE path[j]]

(* Every table in us but the kernel's has a place of its own: the root its *)
(* space's, another the one to which the entry of the table above leads.   *)
Placed(at, tabs, us, lv) ==
  /\ KernelTables \subseteq us /\ us \subseteq Pages \cup KernelTables
  /\ DOMAIN tabs = Pages \cup KernelTables /\ tabs[kpt] = [i \in {KIDX} |-> Entry(kpd, FALSE)]
  /\ \A p \in us \ KernelTables :
       /\ at[p].space \in lv /\ at[p].level \in 1 .. LEVELS
       /\ at[p] = Place(at[p].space, at[p].level, [j \in 1 .. at[p].level - 1 |-> at[p].path[j]])
  /\ \A p, q \in us \ KernelTables : at[p] = at[q] => p = q
Rooted(at, us, lv, root) ==
  \A a \in lv : root[a] \in us \ KernelTables /\ at[root[a]] = Place(a, 1, <<>>)
LeadDown(at, tabs, us) ==
  \A p \in us \ KernelTables : \A i \in DOMAIN tabs[p] :
    LET e == tabs[p][i] IN
    /\ ~ e.u => at[p].level = 1 /\ i = KIDX
    /\ e.u /\ at[p].level < LEVELS =>
         /\ e.to \in us \ KernelTables
         /\ at[e.to] = Place(at[p].space, at[p].level + 1, Deeper(at[p].path, at[p].level, i))
LedTo(at, tabs, us) ==
  \A p \in us \ KernelTables : at[p].level > 1 =>
    \E q \in us \ KernelTables : \E i \in DOMAIN tabs[q] :
      /\ tabs[q][i].u /\ tabs[q][i].to = p
      /\ at[q].space = at[p].space /\ at[q].level = at[p].level - 1

(* The entries of the last tables are what map was asked for. *)
AsAsked(at, tabs, us, lv, as) ==
  \A a \in lv, va \in VA :
    LET last == {p \in us \ KernelTables : at[p] = Place(a, LEVELS, Prefix(va, LEVELS))} IN
    /\ \A p \in last : as[a][va] = IF va[LEVELS] \in DOMAIN tabs[p] THEN tabs[p][va[LEVELS]].to ELSE NONE
    /\ last = {} => as[a][va] = NONE

Tree(at, tabs, us, lv, root, as) ==
  /\ Placed(at, tabs, us, lv) /\ Rooted(at, us, lv, root)
  /\ LeadDown(at, tabs, us) /\ LedTo(at, tabs, us) /\ AsAsked(at, tabs, us, lv, as)

TreeOK == \E at : Tree(at, pt, used, live, ptr, asked)

(* A user context, running or saved, is in its space and on its stack. *)
ContextsOK ==
  \A t \in UserTasks : ctx[t] # NONE =>
    SpaceOf[t] \in live /\ ctx[t].cr3 = ptr[SpaceOf[t]] /\ ctx[t].rsp0 = t

(* What a processor in a user task has kept was asked for, unless another  *)
(* one has unmapped something there.                                       *)
KeptOK ==
  \A c \in Processors : cur[c] \in UserTasks /\ mode[c] = "run" /\ ~ remote[c] =>
    \A e \in tlb[c] : e[2] # NONE /\ asked[SpaceOf[cur[c]]][e[1]] = e[2]

VmInv == VmTypeOK /\ TreeOK /\ ContextsOK /\ UserRunsOwn /\ KeptOK

---------------------------------------------------------------------------
(* Induction, and the functions that are defined by it.                    *)

(* A set of numbers that is not empty has a least one. *)
LEMMA LeastNumber ==
  ASSUME NEW T, T \subseteq Nat, T # {}
  PROVE  \E x \in T : \A y \in T : x <= y
<1> DEFINE R == OpToRel(<, Nat)
<1>1. IsWellFoundedOn(R, Nat)
  BY NatLessThanWellFounded, Zenon
<1>2. \A x, y \in Nat : x < y => <<x, y>> \in R
  BY DEF OpToRel
<1> HIDE DEF R
<1>3. PICK x \in T : \A y \in T : ~ (<<y, x>> \in R)
  BY <1>1, WFMin, Zenon
<1>4. \A y \in T : y \in Nat /\ x \in Nat /\ ~ (y < x)
  BY <1>2, <1>3
<1>5. QED BY <1>4

(* Level by level: what holds of the first and of each next one holds of all. *)
LEMMA LevelInduction ==
  ASSUME NEW n \in Nat, NEW T, 1 \in T, \A l \in 1 .. n - 1 : l \in T => l + 1 \in T
  PROVE  \A l \in 1 .. n : l \in T
<1> DEFINE U == {l \in 1 .. n : l \notin T}
<1> SUFFICES ASSUME U # {} PROVE FALSE
  OBVIOUS
<1>1. PICK x \in U : \A y \in U : x <= y
  <2>1. U \subseteq Nat /\ U # {}
    OBVIOUS
  <2> HIDE DEF U
  <2>2. QED BY <2>1, LeastNumber
<1>2. x - 1 \in 1 .. n - 1 /\ (x - 1) + 1 = x
  BY <1>1
<1>3. x - 1 \in T
  BY <1>1, <1>2
<1>4. QED BY <1>1, <1>2, <1>3

(* The processor's walk exists, and goes on entry by entry. *)
LEMMA FoundSteps ==
  ASSUME NEW root, NEW va
  PROVE  /\ found(root, va)[1] = root
         /\ \A l \in 1 .. LEVELS :
              found(root, va)[l + 1] =
                IF found(root, va)[l] = NONE \/ va[l] \notin DOMAIN pt[found(root, va)[l]]
                THEN NONE ELSE pt[found(root, va)[l]][va[l]].to
<1> USE VmAssumption
<1> DEFINE after(p, l) == IF p = NONE \/ va[l] \notin DOMAIN pt[p] THEN NONE ELSE pt[p][va[l]].to
           Walk(f, n) == f = [l \in 1 .. n |-> IF l = 1 THEN root ELSE after(f[l - 1], l - 1)]
           T == {n \in 1 .. LEVELS + 1 : \E f : Walk(f, n)}
<1>1. \E f : Walk(f, 1)
  <2> DEFINE f == [l \in 1 .. 1 |-> root]
  <2>1. Walk(f, 1)
    <3> HIDE DEF after
    <3> QED OBVIOUS
  <2>2. QED BY <2>1
<1>2. ASSUME NEW n \in 1 .. LEVELS, NEW f, Walk(f, n) PROVE \E g : Walk(g, n + 1)
  <2> HIDE DEF after
  <2> DEFINE g == [l \in 1 .. n + 1 |-> IF l = n + 1 THEN after(f[n], n) ELSE f[l]]
  <2>1. \A l \in 1 .. n + 1 : g[l] = IF l = 1 THEN root ELSE after(g[l - 1], l - 1)
    <3> SUFFICES ASSUME NEW l \in 1 .. n + 1
                 PROVE  g[l] = IF l = 1 THEN root ELSE after(g[l - 1], l - 1)
      OBVIOUS
    <3>1. CASE l = n + 1
      <4>1. n \in 1 .. n + 1 /\ n # n + 1 /\ l - 1 = n /\ l # 1
        BY <3>1
      <4>2. g[n] = f[n]
        BY <4>1
      <4>3. QED BY <3>1, <4>1, <4>2
    <3>2. CASE l \in 2 .. n
      <4>1. l \in 1 .. n /\ l - 1 \in 1 .. n /\ l - 1 \in 1 .. n + 1 /\ l - 1 # n + 1
        BY <3>2
      <4>2. g[l] = f[l] /\ g[l - 1] = f[l - 1]
        BY <4>1
      <4>3. f[l] = IF l = 1 THEN root ELSE after(f[l - 1], l - 1)
        BY <1>2, <4>1
      <4>4. QED BY <4>2, <4>3
    <3>3. CASE l = 1
      <4>1. g[1] = f[1]
        OBVIOUS
      <4>2. f[1] = root
        BY <1>2
      <4>3. QED BY <3>3, <4>1, <4>2
    <3>4. QED BY <3>1, <3>2, <3>3
  <2>2. Walk(g, n + 1)
    BY <2>1, Zenon
  <2>3. QED BY <2>2
<1>3. \E f : Walk(f, LEVELS + 1)
  <2> HIDE DEF Walk
  <2>1. 1 \in T
    BY <1>1
  <2>2. \A l \in 1 .. (LEVELS + 1) - 1 : l \in T => l + 1 \in T
    BY <1>2
  <2>3. \A l \in 1 .. LEVELS + 1 : l \in T
    <3>1. LEVELS + 1 \in Nat
      OBVIOUS
    <3> HIDE DEF T
    <3>2. QED BY <3>1, <2>1, <2>2, LevelInduction
  <2>4. QED BY <2>3
<1>4. found(root, va) = CHOOSE f : Walk(f, LEVELS + 1)
  BY DEF found
<1>5. Walk(found(root, va), LEVELS + 1)
  <2> HIDE DEF Walk
  <2> QED BY <1>3, <1>4, Zenon
<1>6. found(root, va)[1] = root
  BY <1>5
<1>7. ASSUME NEW l \in 1 .. LEVELS PROVE found(root, va)[l + 1] = after(found(root, va)[l], l)
  <2> HIDE DEF after
  <2>1. l + 1 \in 1 .. LEVELS + 1 /\ l + 1 # 1 /\ (l + 1) - 1 = l
    OBVIOUS
  <2>2. QED BY <2>1, <1>5
<1>8. QED BY <1>6, <1>7

(* So do the levels that teardown goes through. *)
LEMMA TablesSteps ==
  ASSUME NEW root
  PROVE  /\ Tables(root)[1] = {root}
         /\ \A l \in 1 .. LEVELS - 1 :
              Tables(root)[l + 1] = UNION {{pt[p][i].to : i \in users(p)} : p \in Tables(root)[l]}
<1> USE VmAssumption
<1> DEFINE after(S) == UNION {{pt[p][i].to : i \in users(p)} : p \in S}
           Walk(f, n) == f = [l \in 1 .. n |-> IF l = 1 THEN {root} ELSE after(f[l - 1])]
           T == {n \in 1 .. LEVELS : \E f : Walk(f, n)}
<1>1. \E f : Walk(f, 1)
  <2> DEFINE f == [l \in 1 .. 1 |-> {root}]
  <2>1. Walk(f, 1)
    <3> HIDE DEF after
    <3> QED OBVIOUS
  <2>2. QED BY <2>1
<1>2. ASSUME NEW n \in 1 .. LEVELS - 1, NEW f, Walk(f, n) PROVE \E g : Walk(g, n + 1)
  <2> HIDE DEF after
  <2> DEFINE g == [l \in 1 .. n + 1 |-> IF l = n + 1 THEN after(f[n]) ELSE f[l]]
  <2>1. \A l \in 1 .. n + 1 : g[l] = IF l = 1 THEN {root} ELSE after(g[l - 1])
    <3> SUFFICES ASSUME NEW l \in 1 .. n + 1
                 PROVE  g[l] = IF l = 1 THEN {root} ELSE after(g[l - 1])
      OBVIOUS
    <3>1. CASE l = n + 1
      <4>1. n \in 1 .. n + 1 /\ n # n + 1 /\ l - 1 = n /\ l # 1
        BY <3>1
      <4>2. g[n] = f[n]
        BY <4>1
      <4>3. QED BY <3>1, <4>1, <4>2
    <3>2. CASE l \in 2 .. n
      <4>1. l \in 1 .. n /\ l - 1 \in 1 .. n /\ l - 1 \in 1 .. n + 1 /\ l - 1 # n + 1
        BY <3>2
      <4>2. g[l] = f[l] /\ g[l - 1] = f[l - 1]
        BY <4>1
      <4>3. f[l] = IF l = 1 THEN {root} ELSE after(f[l - 1])
        BY <1>2, <4>1
      <4>4. QED BY <4>2, <4>3
    <3>3. CASE l = 1
      <4>1. g[1] = f[1]
        OBVIOUS
      <4>2. f[1] = {root}
        BY <1>2
      <4>3. QED BY <3>3, <4>1, <4>2
    <3>4. QED BY <3>1, <3>2, <3>3
  <2>2. Walk(g, n + 1)
    BY <2>1, Zenon
  <2>3. QED BY <2>2
<1>3. \E f : Walk(f, LEVELS)
  <2> HIDE DEF Walk
  <2>1. 1 \in T
    BY <1>1
  <2>2. \A l \in 1 .. LEVELS - 1 : l \in T => l + 1 \in T
    BY <1>2
  <2>3. \A l \in 1 .. LEVELS : l \in T
    <3>1. LEVELS \in Nat
      OBVIOUS
    <3> HIDE DEF T
    <3>2. QED BY <3>1, <2>1, <2>2, LevelInduction
  <2>4. QED BY <2>3
<1>4. Tables(root) = CHOOSE f : Walk(f, LEVELS)
  BY DEF Tables
<1>5. Walk(Tables(root), LEVELS)
  BY <1>3, <1>4
<1>6. Tables(root)[1] = {root}
  BY <1>5
<1>7. ASSUME NEW l \in 1 .. LEVELS - 1 PROVE Tables(root)[l + 1] = after(Tables(root)[l])
  <2> HIDE DEF after
  <2>1. l + 1 \in 1 .. LEVELS /\ l + 1 # 1 /\ (l + 1) - 1 = l
    OBVIOUS
  <2>2. QED BY <2>1, <1>5
<1>8. QED BY <1>6, <1>7

(* One step of ptwalk. *)
onward(w, i) ==
  IF w.table = NONE THEN w
  ELSE IF i \in DOMAIN w.pt[w.table] THEN [w EXCEPT !.table = w.pt[w.table][i].to]
  ELSE IF Free(w.used) = {} THEN [w EXCEPT !.table = NONE]
  ELSE [table |-> pgalloc(w.used), used |-> w.used \cup {pgalloc(w.used)},
        pt |-> [w.pt EXCEPT ![w.table] = With(@, i, pt_entry(pgalloc(w.used))), ![pgalloc(w.used)] = Zero]]

(* And ptwalk goes on table by table. *)
LEMMA WalkedSteps ==
  ASSUME NEW root, NEW va
  PROVE  /\ walked(root, va)[1] = [table |-> root, pt |-> pt, used |-> used]
         /\ \A l \in 1 .. LEVELS - 1 :
              walked(root, va)[l + 1] = onward(walked(root, va)[l], indexof(va, l))
<1> USE VmAssumption
<1> DEFINE after(w, l) == onward(w, indexof(va, l))
           first == [table |-> root, pt |-> pt, used |-> used]
           Walk(f, n) == f = [l \in 1 .. n |-> IF l = 1 THEN first ELSE after(f[l - 1], l - 1)]
           T == {n \in 1 .. LEVELS : \E f : Walk(f, n)}
<1>1. \E f : Walk(f, 1)
  <2> DEFINE f == [l \in 1 .. 1 |-> first]
  <2>1. Walk(f, 1)
    <3> HIDE DEF after, first
    <3> QED OBVIOUS
  <2>2. QED BY <2>1
<1>2. ASSUME NEW n \in 1 .. LEVELS - 1, NEW f, Walk(f, n) PROVE \E g : Walk(g, n + 1)
  <2> HIDE DEF after, first
  <2> DEFINE g == [l \in 1 .. n + 1 |-> IF l = n + 1 THEN after(f[n], n) ELSE f[l]]
  <2>1. \A l \in 1 .. n + 1 : g[l] = IF l = 1 THEN first ELSE after(g[l - 1], l - 1)
    <3> SUFFICES ASSUME NEW l \in 1 .. n + 1
                 PROVE  g[l] = IF l = 1 THEN first ELSE after(g[l - 1], l - 1)
      OBVIOUS
    <3>1. CASE l = n + 1
      <4>1. n \in 1 .. n + 1 /\ n # n + 1 /\ l - 1 = n /\ l # 1
        BY <3>1
      <4>2. g[n] = f[n]
        BY <4>1
      <4>3. QED BY <3>1, <4>1, <4>2
    <3>2. CASE l \in 2 .. n
      <4>1. l \in 1 .. n /\ l - 1 \in 1 .. n /\ l - 1 \in 1 .. n + 1 /\ l - 1 # n + 1
        BY <3>2
      <4>2. g[l] = f[l] /\ g[l - 1] = f[l - 1]
        BY <4>1
      <4>3. f[l] = IF l = 1 THEN first ELSE after(f[l - 1], l - 1)
        BY <1>2, <4>1
      <4>4. QED BY <4>2, <4>3
    <3>3. CASE l = 1
      <4>1. g[1] = f[1]
        OBVIOUS
      <4>2. f[1] = first
        BY <1>2
      <4>3. QED BY <3>3, <4>1, <4>2
    <3>4. QED BY <3>1, <3>2, <3>3
  <2>2. Walk(g, n + 1)
    BY <2>1, Zenon
  <2>3. QED BY <2>2
<1>3. \E f : Walk(f, LEVELS)
  <2> HIDE DEF Walk
  <2>1. 1 \in T
    BY <1>1
  <2>2. \A l \in 1 .. LEVELS - 1 : l \in T => l + 1 \in T
    BY <1>2
  <2>3. \A l \in 1 .. LEVELS : l \in T
    <3>1. LEVELS \in Nat
      OBVIOUS
    <3> HIDE DEF T
    <3>2. QED BY <3>1, <2>1, <2>2, LevelInduction
  <2>4. QED BY <2>3
<1>4. walked(root, va) = CHOOSE f : Walk(f, LEVELS)
  BY DEF walked, onward
<1>5. Walk(walked(root, va), LEVELS)
  BY <1>3, <1>4
<1>6. walked(root, va)[1] = first
  BY <1>5
<1>7. ASSUME NEW l \in 1 .. LEVELS - 1 PROVE walked(root, va)[l + 1] = after(walked(root, va)[l], l)
  <2> HIDE DEF after, first
  <2>1. l + 1 \in 1 .. LEVELS /\ l + 1 # 1 /\ (l + 1) - 1 = l
    OBVIOUS
  <2>2. QED BY <2>1, <1>5
<1>8. QED BY <1>6, <1>7

---------------------------------------------------------------------------
(* Trees.                                                                  *)

(* pgalloc gives a page that is free. *)
LEMMA FreePage ==
  ASSUME NEW us, Free(us) # {}
  PROVE  pgalloc(us) \in Pages /\ pgalloc(us) \notin us /\ pgalloc(us) \notin KernelTables
<1>1. Free(us) \subseteq Nat
  BY VmAssumption DEF Free
<1>2. \E p \in Free(us) : \A q \in Free(us) : p <= q
  BY <1>1, LeastNumber
<1>3. pgalloc(us) \in Free(us)
  BY <1>2 DEF pgalloc
<1>4. QED BY <1>3, VmAssumption DEF Free, KernelTables

(* A place says its space, its level and its path. *)
LEMMA PlaceFields ==
  ASSUME NEW a, NEW l, NEW path
  PROVE  /\ Place(a, l, path).space = a /\ Place(a, l, path).level = l /\ Place(a, l, path).path = path
         /\ \A b, m, other : Place(a, l, path) = Place(b, m, other) <=> a = b /\ l = m /\ path = other
<1>1. ASSUME NEW b, NEW m, NEW other, Place(a, l, path) = Place(b, m, other)
      PROVE  a = b /\ l = m /\ path = other
  BY <1>1 DEF Place
<1>2. QED BY <1>1 DEF Place

(* A page of the space leads one level down along its indices. *)
LEMMA StepDown ==
  ASSUME NEW at, NEW tabs, NEW us, Tree(at, tabs, us, live, ptr, asked),
         NEW a, NEW va \in VA, NEW l \in 1 .. LEVELS - 1,
         NEW p \in us \ KernelTables, at[p] = Place(a, l, Prefix(va, l)), va[l] \in DOMAIN tabs[p]
  PROVE  /\ tabs[p][va[l]].to \in us \ KernelTables
         /\ at[tabs[p][va[l]].to] = Place(a, l + 1, Prefix(va, l + 1))
<1>1. at[p].space = a /\ at[p].level = l /\ at[p].path = Prefix(va, l)
  BY PlaceFields
<1>2. tabs[p][va[l]].u
  BY <1>1, VmAssumption DEF Tree, LeadDown
<1>3. l < LEVELS
  BY VmAssumption
<1>4. /\ tabs[p][va[l]].to \in us \ KernelTables
      /\ at[tabs[p][va[l]].to] = Place(a, l + 1, Deeper(Prefix(va, l), l, va[l]))
  BY <1>1, <1>2, <1>3 DEF Tree, LeadDown
<1>5. Deeper(Prefix(va, l), l, va[l]) = Prefix(va, l + 1)
  BY VmAssumption DEF Deeper, Prefix
<1>6. QED BY <1>4, <1>5

(* And a table below the root is where the one above leads. *)
LEMMA StepUp ==
  ASSUME NEW at, NEW tabs, NEW us, Tree(at, tabs, us, live, ptr, asked),
         NEW a, NEW va \in VA, NEW l \in 1 .. LEVELS - 1,
         NEW q \in us \ KernelTables, at[q] = Place(a, l + 1, Prefix(va, l + 1))
  PROVE  \E p \in us \ KernelTables :
           /\ at[p] = Place(a, l, Prefix(va, l))
           /\ va[l] \in DOMAIN tabs[p] /\ tabs[p][va[l]].to = q
<1> USE VmAssumption
<1>1. at[q].space = a /\ at[q].level = l + 1
  BY PlaceFields
<1>p. PICK p \in us \ KernelTables : \E i \in DOMAIN tabs[p] :
        /\ tabs[p][i].u /\ tabs[p][i].to = q
        /\ at[p].space = a /\ at[p].level = l
  <2>1. at[q].level > 1 /\ at[q].level - 1 = l
    BY <1>1
  <2>2. QED BY <1>1, <2>1 DEF Tree, LedTo
<1>2. PICK i \in DOMAIN tabs[p] :
        /\ tabs[p][i].u /\ tabs[p][i].to = q
        /\ at[p].space = a /\ at[p].level = l
  BY <1>p
<1>3. at[q] = Place(a, l + 1, Deeper(at[p].path, l, i))
  <2>1. LeadDown(at, tabs, us) /\ l < LEVELS
    BY DEF Tree
  <2>2. at[tabs[p][i].to] = Place(at[p].space, at[p].level + 1, Deeper(at[p].path, at[p].level, i))
    BY <1>2, <2>1 DEF LeadDown
  <2>3. QED BY <1>2, <2>2
<1>4. Prefix(va, l + 1) = Deeper(at[p].path, l, i)
  BY <1>3, PlaceFields
<1>5. \A j \in 1 .. l : va[j] = IF j = l THEN i ELSE at[p].path[j]
  BY <1>4 DEF Prefix, Deeper
<1>6. at[p] = Place(a, l, [j \in 1 .. l - 1 |-> at[p].path[j]])
  BY <1>2 DEF Tree, Placed
<1>7. [j \in 1 .. l - 1 |-> at[p].path[j]] = Prefix(va, l)
  <2>1. \A j \in 1 .. l - 1 : at[p].path[j] = va[j]
    BY <1>5
  <2>2. QED BY <2>1 DEF Prefix
<1>8. i = va[l]
  BY <1>5
<1>9. QED BY <1>2, <1>6, <1>7, <1>8

(* The processor finds what was asked for. *)
LEMMA TranslateIsAsked ==
  ASSUME NEW at, Tree(at, pt, used, live, ptr, asked), NEW a \in live, NEW va \in VA
  PROVE  Translate(ptr[a], va) = asked[a][va]
<1> USE VmAssumption
<1> DEFINE f == found(ptr[a], va)
           There(l) == {p \in used \ KernelTables : at[p] = Place(a, l, Prefix(va, l))}
           T == {l \in 1 .. LEVELS : f[l] \in There(l) \/ (f[l] = NONE /\ There(l) = {})}
<1>a. NONE \notin used
  BY DEF Tree, Placed
<1>f. /\ f[1] = ptr[a]
      /\ \A l \in 1 .. LEVELS : f[l + 1] = IF f[l] = NONE \/ va[l] \notin DOMAIN pt[f[l]] THEN NONE
                                          ELSE pt[f[l]][va[l]].to
  BY FoundSteps
<1> HIDE DEF f
<1>1. 1 \in T
  <2>1. Prefix(va, 1) = <<>>
    BY DEF Prefix
  <2>2. ptr[a] \in There(1)
    BY <2>1 DEF Tree, Rooted
  <2>3. QED BY <2>2, <1>f
<1>2. ASSUME NEW l \in 1 .. LEVELS - 1, l \in T PROVE l + 1 \in T
  <2>1. CASE f[l] \in There(l) /\ va[l] \in DOMAIN pt[f[l]]
    <3>1. f[l + 1] = pt[f[l]][va[l]].to
      BY <2>1, <1>a, <1>f
    <3>2. f[l + 1] \in There(l + 1)
      <4> DEFINE p == f[l]
      <4>1. p \in used \ KernelTables /\ at[p] = Place(a, l, Prefix(va, l)) /\ va[l] \in DOMAIN pt[p]
        BY <2>1
      <4>2. f[l + 1] = pt[p][va[l]].to
        BY <3>1
      <4> HIDE VmAssumption DEF p
      <4>3. /\ pt[p][va[l]].to \in used \ KernelTables
            /\ at[pt[p][va[l]].to] = Place(a, l + 1, Prefix(va, l + 1))
        BY <4>1, StepDown
      <4>4. QED BY <4>2, <4>3
    <3>3. QED BY <3>2
  <2>2. CASE ~ (f[l] \in There(l) /\ va[l] \in DOMAIN pt[f[l]])
    <3>1. f[l + 1] = NONE
      BY <2>2, <1>2, <1>f
    <3>2. ASSUME NEW q \in There(l + 1) PROVE FALSE
      <4>1. PICK p \in There(l) : va[l] \in DOMAIN pt[p]
        BY StepUp
      <4>2. f[l] \in There(l)
        BY <4>1, <1>2
      <4>3. p = f[l]
        BY <4>1, <4>2 DEF Tree, Placed
      <4>4. QED BY <4>1, <4>2, <4>3, <2>2
    <3>3. QED BY <3>1, <3>2
  <2>3. QED BY <2>1, <2>2
<1>3. LEVELS \in T
  <2> HIDE DEF T
  <2>1. \A l \in 1 .. LEVELS - 1 : l \in T => l + 1 \in T
    BY <1>2
  <2>2. LEVELS \in Nat /\ LEVELS \in 1 .. LEVELS
    OBVIOUS
  <2>3. \A l \in 1 .. LEVELS : l \in T
    BY <2>1, <2>2, <1>1, LevelInduction
  <2>4. QED BY <2>2, <2>3
<1>4. Translate(ptr[a], va) = f[LEVELS + 1]
  BY DEF Translate, f
<1>5. f[LEVELS + 1] = IF f[LEVELS] = NONE \/ va[LEVELS] \notin DOMAIN pt[f[LEVELS]] THEN NONE
                      ELSE pt[f[LEVELS]][va[LEVELS]].to
  BY <1>f
<1>6. CASE f[LEVELS] \in There(LEVELS)
  BY <1>4, <1>5, <1>6, <1>a DEF Tree, AsAsked
<1>7. CASE f[LEVELS] = NONE /\ There(LEVELS) = {}
  BY <1>4, <1>5, <1>7 DEF Tree, AsAsked
<1>8. QED BY <1>3, <1>6, <1>7

(* What ptwalk's new entry makes of a table. *)
LEMMA WithFacts ==
  ASSUME NEW f, NEW i, NEW e
  PROVE  /\ DOMAIN With(f, i, e) = DOMAIN f \cup {i} /\ With(f, i, e)[i] = e
         /\ \A j \in DOMAIN f \ {i} : With(f, i, e)[j] = f[j]
  BY DEF With

(* A new table, empty, below one that had no entry for the page. *)
grown(tabs, q, i, p) == [tabs EXCEPT ![q] = With(@, i, pt_entry(p)), ![p] = Zero]
placedAt(at, us, p, place) == [r \in (us \cup {p}) \ KernelTables |-> IF r = p THEN place ELSE at[r]]

LEMMA GrowTree ==
  ASSUME NEW at, NEW tabs, NEW us, Tree(at, tabs, us, live, ptr, asked),
         NEW a, NEW va \in VA, NEW l \in 1 .. LEVELS - 1,
         NEW q \in us \ KernelTables, at[q] = Place(a, l, Prefix(va, l)), va[l] \notin DOMAIN tabs[q],
         NEW p \in Pages, p \notin us, p \notin KernelTables,
         NEW at2, at2 = placedAt(at, us, p, Place(a, l + 1, Prefix(va, l + 1))),
         NEW tabs2, tabs2 = grown(tabs, q, va[l], p)
  PROVE  Tree(at2, tabs2, us \cup {p}, live, ptr, asked)
<1> USE VmAssumption
<1> DEFINE us2 == us \cup {p}
<1>d. /\ DOMAIN tabs2 = Pages \cup KernelTables /\ p # q
      /\ tabs2[p] = Zero /\ tabs2[q] = With(tabs[q], va[l], pt_entry(p))
      /\ \A r \in (Pages \cup KernelTables) \ {p, q} : tabs2[r] = tabs[r]
  BY DEF Tree, Placed, grown
<1>w. /\ DOMAIN tabs2[q] = DOMAIN tabs[q] \cup {va[l]}
      /\ tabs2[q][va[l]] = Entry(p, TRUE)
      /\ \A i \in DOMAIN tabs[q] : tabs2[q][i] = tabs[q][i]
  <2> DEFINE new == With(tabs[q], va[l], Entry(p, TRUE))
  <2>1. /\ DOMAIN new = DOMAIN tabs[q] \cup {va[l]} /\ new[va[l]] = Entry(p, TRUE)
        /\ \A j \in DOMAIN tabs[q] \ {va[l]} : new[j] = tabs[q][j]
    BY DEF With
  <2>2. tabs2[q] = new
    BY <1>d DEF pt_entry
  <2> HIDE DEF new
  <2>3. QED BY <2>1, <2>2
<1>z. DOMAIN tabs2[p] = {}
  BY <1>d DEF Zero
<1>a. /\ at2[p] = Place(a, l + 1, Prefix(va, l + 1))
      /\ \A r \in us \ KernelTables : at2[r] = at[r]
      /\ us2 \ KernelTables = (us \ KernelTables) \cup {p}
  BY DEF placedAt
<1>f. /\ at[q].space = a /\ at[q].level = l /\ at[q].path = Prefix(va, l)
      /\ at2[p].space = a /\ at2[p].level = l + 1 /\ at2[p].path = Prefix(va, l + 1)
  BY <1>a, PlaceFields
<1>n. \A r \in us \ KernelTables : at[r] # at2[p]
  <2> SUFFICES ASSUME NEW r \in us \ KernelTables, at[r] = at2[p] PROVE FALSE
    OBVIOUS
  <2>1. PICK x \in us \ KernelTables : at[x] = at[q] /\ va[l] \in DOMAIN tabs[x]
    BY <1>a, StepUp
  <2>2. x = q
    BY <2>1 DEF Tree, Placed
  <2>3. QED BY <2>1, <2>2
<1> HIDE DEF us2
<1>1. Placed(at2, tabs2, us2, live)
  <2>1. KernelTables \subseteq us2 /\ us2 \subseteq Pages \cup KernelTables
    BY DEF us2, Tree, Placed
  <2>2. tabs2[kpt] = [i \in {KIDX} |-> Entry(kpd, FALSE)]
    BY <1>d DEF Tree, Placed, KernelTables
  <2>3. ASSUME NEW r \in us2 \ KernelTables
        PROVE  /\ at2[r].space \in live /\ at2[r].level \in 1 .. LEVELS
               /\ at2[r] = Place(at2[r].space, at2[r].level, [j \in 1 .. at2[r].level - 1 |-> at2[r].path[j]])
    <3>1. CASE r \in us \ KernelTables
      <4>1. /\ at[r].space \in live /\ at[r].level \in 1 .. LEVELS
            /\ at[r] = Place(at[r].space, at[r].level, [j \in 1 .. at[r].level - 1 |-> at[r].path[j]])
        BY <3>1 DEF Tree, Placed
      <4>2. at2[r] = at[r]
        BY <3>1, <1>a
      <4>3. QED BY <4>1, <4>2, Zenon
    <3>2. CASE r = p
      <4>1. a \in live
        BY <1>f DEF Tree, Placed
      <4>2. Prefix(va, l + 1) = [j \in 1 .. (l + 1) - 1 |-> Prefix(va, l + 1)[j]]
        BY DEF Prefix
      <4>3. (l + 1) \in 1 .. LEVELS
        OBVIOUS
      <4>4. Place(at2[p].space, at2[p].level, [j \in 1 .. at2[p].level - 1 |-> at2[p].path[j]])
              = Place(a, l + 1, [j \in 1 .. (l + 1) - 1 |-> Prefix(va, l + 1)[j]])
        BY <1>f
      <4>5. at2[p] = Place(at2[p].space, at2[p].level, [j \in 1 .. at2[p].level - 1 |-> at2[p].path[j]])
        BY <4>2, <4>4, <1>a, Zenon
      <4>6. at2[p].space \in live /\ at2[p].level \in 1 .. LEVELS
        BY <4>1, <4>3, <1>f
      <4>7. QED BY <3>2, <4>5, <4>6, Zenon
    <3>3. QED BY <3>1, <3>2, <1>a
  <2>4. ASSUME NEW r \in us2 \ KernelTables, NEW x \in us2 \ KernelTables, at2[r] = at2[x]
        PROVE  r = x
    <3>1. \A y, z \in us \ KernelTables : at[y] = at[z] => y = z
      BY DEF Tree, Placed
    <3>2. CASE r = p \/ x = p
      BY <2>4, <3>2, <1>a, <1>n
    <3>3. CASE r \in us \ KernelTables /\ x \in us \ KernelTables
      BY <2>4, <3>1, <3>3, <1>a
    <3>4. QED BY <3>2, <3>3, <1>a
  <2>5. QED BY <2>1, <2>2, <2>3, <2>4, <1>d DEF Placed
<1>2. Rooted(at2, us2, live, ptr)
  BY <1>a DEF Tree, Rooted
<1>3. LeadDown(at2, tabs2, us2)
  <2> SUFFICES ASSUME NEW r \in us2 \ KernelTables, NEW i \in DOMAIN tabs2[r]
               PROVE  LET e == tabs2[r][i] IN
                      /\ ~ e.u => at2[r].level = 1 /\ i = KIDX
                      /\ e.u /\ at2[r].level < LEVELS =>
                           /\ e.to \in us2 \ KernelTables
                           /\ at2[e.to] = Place(at2[r].space, at2[r].level + 1, Deeper(at2[r].path, at2[r].level, i))
    BY DEF LeadDown
  <2>1. r \in us \ KernelTables /\ at2[r] = at[r]
    BY <1>z, <1>a
  <2>2. CASE r = q /\ i = va[l]
    <3>1. Deeper(Prefix(va, l), l, va[l]) = Prefix(va, l + 1)
      BY DEF Deeper, Prefix
    <3>2. tabs2[r][i].to = p /\ tabs2[r][i].u
      BY <2>2, <1>w DEF Entry
    <3>3. p \in us2 \ KernelTables
      BY <1>a
    <3>4. at2[r].space = a /\ at2[r].level = l /\ at2[r].path = Prefix(va, l)
      BY <2>1, <2>2, <1>f
    <3>5. QED BY <3>1, <3>2, <3>3, <3>4, <2>2, <1>a
  <2>3. CASE ~ (r = q /\ i = va[l])
    <3>1. i \in DOMAIN tabs[r] /\ tabs2[r][i] = tabs[r][i]
      BY <2>1, <2>3, <1>d, <1>w DEF Tree, Placed
    <3>2. QED BY <2>1, <3>1, <1>a DEF Tree, LeadDown
  <2>4. QED BY <2>2, <2>3
<1>4. LedTo(at2, tabs2, us2)
  <2> SUFFICES ASSUME NEW r \in us2 \ KernelTables, at2[r].level > 1
               PROVE  \E x \in us2 \ KernelTables : \E i \in DOMAIN tabs2[x] :
                        /\ tabs2[x][i].u /\ tabs2[x][i].to = r
                        /\ at2[x].space = at2[r].space /\ at2[x].level = at2[r].level - 1
    BY DEF LedTo
  <2>1. CASE r = p
    <3>1. q \in us2 \ KernelTables /\ va[l] \in DOMAIN tabs2[q] /\ at2[q] = at[q]
      BY <1>a, <1>w
    <3>2. tabs2[q][va[l]].u /\ tabs2[q][va[l]].to = p
      BY <1>w DEF Entry
    <3>3. at2[q].space = at2[p].space /\ at2[q].level = at2[p].level - 1
      <4>1. (l + 1) - 1 = l
        OBVIOUS
      <4>2. at2[q].space = a /\ at2[q].level = l
        BY <3>1, <1>f, Zenon
      <4>3. QED BY <4>1, <4>2, <1>f, Zenon
    <3>4. QED BY <2>1, <3>1, <3>2, <3>3
  <2>2. CASE r \in us \ KernelTables
    <3>1. at2[r] = at[r]
      BY <2>2, <1>a
    <3>2. PICK x \in us \ KernelTables : \E i \in DOMAIN tabs[x] :
            /\ tabs[x][i].u /\ tabs[x][i].to = r
            /\ at[x].space = at[r].space /\ at[x].level = at[r].level - 1
      BY <2>2, <3>1 DEF Tree, LedTo
    <3>3. PICK i \in DOMAIN tabs[x] :
            /\ tabs[x][i].u /\ tabs[x][i].to = r
            /\ at[x].space = at[r].space /\ at[x].level = at[r].level - 1
      BY <3>2
    <3>4. i \in DOMAIN tabs2[x] /\ tabs2[x][i] = tabs[x][i]
      <4>1. CASE x = q
        BY <4>1, <1>w
      <4>2. CASE x # q
        <5>1. x \in (Pages \cup KernelTables) \ {p, q}
          BY <4>2 DEF Tree, Placed
        <5>2. QED BY <5>1, <1>d
      <4>3. QED BY <4>1, <4>2
    <3>5. x \in us2 \ KernelTables /\ at2[x] = at[x]
      BY <1>a
    <3>6. QED BY <3>1, <3>3, <3>4, <3>5
  <2>3. QED BY <2>1, <2>2, <1>a
<1>5. AsAsked(at2, tabs2, us2, live, asked)
  <2> SUFFICES ASSUME NEW b \in live, NEW vb \in VA
               PROVE  LET last == {r \in us2 \ KernelTables : at2[r] = Place(b, LEVELS, Prefix(vb, LEVELS))} IN
                      /\ \A r \in last : asked[b][vb] = IF vb[LEVELS] \in DOMAIN tabs2[r]
                                                        THEN tabs2[r][vb[LEVELS]].to ELSE NONE
                      /\ last = {} => asked[b][vb] = NONE
    BY DEF AsAsked
  <2> DEFINE place == Place(b, LEVELS, Prefix(vb, LEVELS))
             old == {r \in us \ KernelTables : at[r] = place}
             new == {r \in us2 \ KernelTables : at2[r] = place}
  <2>1. CASE at2[p] = place
    <3>1. new = {p} /\ old = {}
      BY <2>1, <1>a, <1>n
    <3>2. asked[b][vb] = NONE
      BY <3>1 DEF Tree, AsAsked
    <3>3. QED BY <3>1, <3>2, <1>z
  <2>2. CASE at2[p] # place
    <3>1. new = old
      BY <2>2, <1>a
    <3>2. place.level = LEVELS
      BY PlaceFields
    <3>3. \A r \in old : tabs2[r] = tabs[r]
      BY <3>2, <1>d, <1>f DEF Tree, Placed
    <3>4. /\ \A r \in old : asked[b][vb] = IF vb[LEVELS] \in DOMAIN tabs[r]
                                        THEN tabs[r][vb[LEVELS]].to ELSE NONE
          /\ old = {} => asked[b][vb] = NONE
      BY DEF Tree, AsAsked
    <3> HIDE DEF old, new
    <3>5. /\ \A r \in new : asked[b][vb] = IF vb[LEVELS] \in DOMAIN tabs2[r]
                                        THEN tabs2[r][vb[LEVELS]].to ELSE NONE
          /\ new = {} => asked[b][vb] = NONE
      BY <3>1, <3>3, <3>4
    <3>6. QED BY <3>5 DEF new
  <2>3. QED BY <2>1, <2>2
<1>6. QED BY <1>1, <1>2, <1>3, <1>4, <1>5 DEF Tree, us2

(* ptwalk ends at the page's last table, of the tree it found or of one    *)
(* that it made larger; a table that it made has no entry.                 *)
WalkOK(at, w, a, va, l) ==
  /\ w = [table |-> w.table, pt |-> w.pt, used |-> w.used]
  /\ w.table # NONE =>
       /\ Tree(at, w.pt, w.used, live, ptr, asked)
       /\ w.table \in w.used \ KernelTables /\ at[w.table] = Place(a, l, Prefix(va, l))
       /\ (w.pt = pt /\ w.used = used) \/ w.pt[w.table] = Zero

LEMMA WalkOnward ==
  ASSUME NEW a, NEW va \in VA, NEW l \in 1 .. LEVELS - 1,
         NEW w, NEW at, WalkOK(at, w, a, va, l)
  PROVE  \E at2 : WalkOK(at2, onward(w, va[l]), a, va, l + 1)
<1> DEFINE w2 == onward(w, va[l])
           p  == pgalloc(w.used)
<1>1. CASE w.table = NONE
  BY <1>1 DEF onward, WalkOK
<1>2. CASE w.table # NONE /\ va[l] \in DOMAIN w.pt[w.table]
  <2>1. w2 = [w EXCEPT !.table = w.pt[w.table][va[l]].to]
    BY <1>2 DEF onward
  <2>2. w2 = [table |-> w.pt[w.table][va[l]].to, pt |-> w.pt, used |-> w.used]
    BY <2>1 DEF WalkOK
  <2>3. w.pt = pt /\ w.used = used
    BY <1>2 DEF WalkOK, Zero
  <2>4. Tree(at, w.pt, w.used, live, ptr, asked) /\ w.table \in w.used \ KernelTables /\ at[w.table] = Place(a, l, Prefix(va, l))
    BY <1>2 DEF WalkOK
  <2>5. /\ w.pt[w.table][va[l]].to \in w.used \ KernelTables
        /\ at[w.pt[w.table][va[l]].to] = Place(a, l + 1, Prefix(va, l + 1))
    <3> DEFINE q == w.table  tabs == w.pt  us == w.used
    <3>1. Tree(at, tabs, us, live, ptr, asked) /\ q \in us \ KernelTables /\ at[q] = Place(a, l, Prefix(va, l))
      BY <2>4
    <3>2. va[l] \in DOMAIN tabs[q]
      BY <1>2
    <3> HIDE DEF q, tabs, us
    <3>3. tabs[q][va[l]].to \in us \ KernelTables /\ at[tabs[q][va[l]].to] = Place(a, l + 1, Prefix(va, l + 1))
      BY <3>1, <3>2, StepDown
    <3>4. QED BY <3>3 DEF q, tabs, us
  <2>6. WalkOK(at, w2, a, va, l + 1)
    BY <2>2, <2>3, <2>4, <2>5 DEF WalkOK
  <2>7. QED BY <2>6
<1>3. CASE w.table # NONE /\ va[l] \notin DOMAIN w.pt[w.table] /\ Free(w.used) = {}
  <2>1. w2 = [w EXCEPT !.table = NONE]
    BY <1>3 DEF onward
  <2>2. w2 = [table |-> NONE, pt |-> w.pt, used |-> w.used]
    BY <2>1 DEF WalkOK
  <2>3. WalkOK(at, w2, a, va, l + 1)
    BY <2>2 DEF WalkOK
  <2>4. QED BY <2>3
<1>4. CASE w.table # NONE /\ va[l] \notin DOMAIN w.pt[w.table] /\ Free(w.used) # {}
  <2> DEFINE q == w.table
             tabs2 == grown(w.pt, q, va[l], p)
             at2 == placedAt(at, w.used, p, Place(a, l + 1, Prefix(va, l + 1)))
  <2>1. w2 = [table |-> p, used |-> w.used \cup {p}, pt |-> tabs2]
    BY <1>4 DEF onward, grown
  <2>2. p \in Pages /\ p \notin w.used /\ p \notin KernelTables
    BY <1>4, FreePage
  <2>3. Tree(at, w.pt, w.used, live, ptr, asked) /\ q \in w.used \ KernelTables /\ at[q] = Place(a, l, Prefix(va, l))
    BY <1>4 DEF WalkOK
  <2>4. tabs2[p] = Zero
    BY <2>2, <2>3 DEF Tree, Placed, grown
  <2>5. at2[p] = Place(a, l + 1, Prefix(va, l + 1))
    BY <2>2 DEF placedAt
  <2>6. Tree(at2, tabs2, w.used \cup {p}, live, ptr, asked)
    <3> DEFINE tabs == w.pt  us == w.used
    <3>1. va[l] \notin DOMAIN tabs[q]
      BY <1>4
    <3>2. at2 = placedAt(at, us, p, Place(a, l + 1, Prefix(va, l + 1)))
      OBVIOUS
    <3>3. tabs2 = grown(tabs, q, va[l], p)
      OBVIOUS
    <3>4. p \in Pages /\ p \notin us /\ p \notin KernelTables
      BY <2>2
    <3>5. Tree(at, tabs, us, live, ptr, asked) /\ q \in us \ KernelTables /\ at[q] = Place(a, l, Prefix(va, l))
      BY <2>3
    <3> HIDE DEF at2, tabs2, p, q, tabs, us
    <3>6. Tree(at2, tabs2, us \cup {p}, live, ptr, asked)
      BY <3>1, <3>2, <3>3, <3>4, <3>5, GrowTree
    <3>7. QED BY <3>6 DEF us
  <2> HIDE DEF at2, tabs2, p
  <2>7. WalkOK(at2, w2, a, va, l + 1)
    <3>1. w2.table = p /\ w2.pt = tabs2 /\ w2.used = w.used \cup {p}
      BY <2>1
    <3>2. QED BY <2>1, <3>1, <2>2, <2>4, <2>5, <2>6 DEF WalkOK
  <2>8. QED BY <2>7
<1>5. QED BY <1>1, <1>2, <1>3, <1>4

LEMMA WalkTree ==
  ASSUME TreeOK, NEW a \in live, NEW va \in VA
  PROVE  \E at : WalkOK(at, ptwalk(ptr[a], va), a, va, LEVELS)
<1> USE VmAssumption
<1> DEFINE w == walked(ptr[a], va)
           T == {l \in 1 .. LEVELS : \E at : WalkOK(at, w[l], a, va, l)}
<1>w. /\ w[1] = [table |-> ptr[a], pt |-> pt, used |-> used]
      /\ \A l \in 1 .. LEVELS - 1 : w[l + 1] = onward(w[l], va[l])
  BY WalkedSteps DEF indexof
<1> HIDE DEF w
<1>1. 1 \in T
  <2>1. PICK at : Tree(at, pt, used, live, ptr, asked)
    BY DEF TreeOK
  <2>2. Prefix(va, 1) = <<>>
    BY DEF Prefix
  <2>3. ptr[a] \in used \ KernelTables /\ at[ptr[a]] = Place(a, 1, Prefix(va, 1))
    BY <2>1, <2>2 DEF Tree, Rooted
  <2>4. WalkOK(at, w[1], a, va, 1)
    BY <2>1, <2>3, <1>w DEF WalkOK
  <2>5. QED BY <2>4
<1>2. \A l \in 1 .. LEVELS - 1 : l \in T => l + 1 \in T
  <2> SUFFICES ASSUME NEW l \in 1 .. LEVELS - 1, l \in T PROVE l + 1 \in T
    OBVIOUS
  <2>1. PICK at : WalkOK(at, w[l], a, va, l)
    OBVIOUS
  <2>2. \E at2 : WalkOK(at2, w[l + 1], a, va, l + 1)
    BY <2>1, <1>w, WalkOnward
  <2>3. QED BY <2>2
<1>3. LEVELS \in T
  <2>1. LEVELS \in Nat /\ LEVELS \in 1 .. LEVELS
    OBVIOUS
  <2> HIDE DEF T
  <2>2. QED BY <1>1, <1>2, <2>1, LevelInduction
<1>4. QED BY <1>3 DEF ptwalk, w

(* The entry for one page changes in its last table. *)
replaced(tabs, q, table) == [tabs EXCEPT ![q] = table]
Differs(old, new, i) ==
  /\ \A j \in DOMAIN old \ {i} : j \in DOMAIN new /\ new[j] = old[j]
  /\ \A j \in DOMAIN new : j \in DOMAIN old \/ j = i
  /\ i \in DOMAIN new => new[i].u
nowAsked(a, va, table) ==
  [asked EXCEPT ![a][va] = IF va[LEVELS] \in DOMAIN table THEN table[va[LEVELS]].to ELSE NONE]

LEMMA SetLeaf ==
  ASSUME NEW at, NEW tabs, NEW us, Tree(at, tabs, us, live, ptr, asked),
         live \subseteq Spaces, asked \in [Spaces -> [VA -> PA \cup {NONE}]],
         NEW a \in live, NEW va \in VA,
         NEW q \in us \ KernelTables, at[q] = Place(a, LEVELS, Prefix(va, LEVELS)),
         NEW tabs2, DOMAIN tabs2 = DOMAIN tabs,
         \A r \in DOMAIN tabs \ {q} : tabs2[r] = tabs[r],
         Differs(tabs[q], tabs2[q], va[LEVELS]),
         NEW asked2, asked2 = nowAsked(a, va, tabs2[q])
  PROVE  Tree(at, tabs2, us, live, ptr, asked2)
<1>l. LEVELS \in Nat \ {0} /\ VA \subseteq [1 .. LEVELS -> Nat]
  BY VmAssumption
<1>f. at[q].space = a /\ at[q].level = LEVELS
  BY PlaceFields
<1>c. /\ \A i \in DOMAIN tabs[q] \ {va[LEVELS]} : i \in DOMAIN tabs2[q] /\ tabs2[q][i] = tabs[q][i]
      /\ \A i \in DOMAIN tabs2[q] : i \in DOMAIN tabs[q] \/ i = va[LEVELS]
      /\ va[LEVELS] \in DOMAIN tabs2[q] => tabs2[q][va[LEVELS]].u
  BY DEF Differs
<1>1. Placed(at, tabs2, us, live)
  BY VmAssumption DEF Tree, Placed, KernelTables
<1>2. LeadDown(at, tabs2, us)
  <2> SUFFICES ASSUME NEW p \in us \ KernelTables, NEW i \in DOMAIN tabs2[p]
               PROVE  LET e == tabs2[p][i] IN
                      /\ ~ e.u => at[p].level = 1 /\ i = KIDX
                      /\ e.u /\ at[p].level < LEVELS =>
                           /\ e.to \in us \ KernelTables
                           /\ at[e.to] = Place(at[p].space, at[p].level + 1, Deeper(at[p].path, at[p].level, i))
    BY DEF LeadDown
  <2>1. CASE p = q /\ i = va[LEVELS]
    BY <2>1, <1>f, <1>l, <1>c
  <2>2. CASE ~ (p = q /\ i = va[LEVELS])
    <3>1. i \in DOMAIN tabs[p] /\ tabs2[p][i] = tabs[p][i]
      BY <2>2, <1>c DEF Tree, Placed
    <3>2. QED BY <3>1 DEF Tree, LeadDown
  <2>3. QED BY <2>1, <2>2
<1>3. LedTo(at, tabs2, us)
  <2> SUFFICES ASSUME NEW p \in us \ KernelTables, at[p].level > 1
               PROVE  \E x \in us \ KernelTables : \E i \in DOMAIN tabs2[x] :
                        /\ tabs2[x][i].u /\ tabs2[x][i].to = p
                        /\ at[x].space = at[p].space /\ at[x].level = at[p].level - 1
    BY DEF LedTo
  <2>1. PICK x \in us \ KernelTables : \E i \in DOMAIN tabs[x] :
          /\ tabs[x][i].u /\ tabs[x][i].to = p
          /\ at[x].space = at[p].space /\ at[x].level = at[p].level - 1
    BY DEF Tree, LedTo
  <2>2. x # q
    <3>1. at[p].level \in 1 .. LEVELS
      BY DEF Tree, Placed
    <3>2. QED BY <2>1, <3>1, <1>f, <1>l
  <2>3. tabs2[x] = tabs[x]
    BY <2>2 DEF Tree, Placed
  <2>4. QED BY <2>1, <2>3
<1>4. AsAsked(at, tabs2, us, live, asked2)
  <2> SUFFICES ASSUME NEW b \in live, NEW vb \in VA
               PROVE  LET last == {p \in us \ KernelTables : at[p] = Place(b, LEVELS, Prefix(vb, LEVELS))} IN
                      /\ \A p \in last : asked2[b][vb] = IF vb[LEVELS] \in DOMAIN tabs2[p]
                                                         THEN tabs2[p][vb[LEVELS]].to ELSE NONE
                      /\ last = {} => asked2[b][vb] = NONE
    BY DEF AsAsked
  <2> DEFINE last == {p \in us \ KernelTables : at[p] = Place(b, LEVELS, Prefix(vb, LEVELS))}
  <2>o. /\ \A p \in last : asked[b][vb] = IF vb[LEVELS] \in DOMAIN tabs[p]
                                          THEN tabs[p][vb[LEVELS]].to ELSE NONE
        /\ last = {} => asked[b][vb] = NONE
    BY DEF Tree, AsAsked
  <2>s. last \subseteq DOMAIN tabs
    BY DEF Tree, Placed
  <2>1. CASE b = a /\ vb = va
    <3>1. last = {q}
      BY <2>1 DEF Tree, Placed
    <3>2. asked2[a][va] = IF va[LEVELS] \in DOMAIN tabs2[q] THEN tabs2[q][va[LEVELS]].to ELSE NONE
      BY DEF nowAsked
    <3> HIDE DEF last
    <3>3. /\ \A p \in last : asked2[b][vb] = IF vb[LEVELS] \in DOMAIN tabs2[p]
                                            THEN tabs2[p][vb[LEVELS]].to ELSE NONE
          /\ last = {} => asked2[b][vb] = NONE
      BY <3>1, <3>2, <2>1
    <3>4. QED BY <3>3 DEF last
  <2>2. CASE ~ (b = a /\ vb = va)
    <3>1. asked2[b][vb] = asked[b][vb]
      BY <2>2 DEF nowAsked
    <3>2. ASSUME q \in last PROVE vb[LEVELS] # va[LEVELS]
      <4>1. b = a /\ Prefix(va, LEVELS) = Prefix(vb, LEVELS)
        BY <3>2, PlaceFields
      <4>2. \A j \in 1 .. LEVELS - 1 : va[j] = vb[j]
        BY <4>1 DEF Prefix
      <4>3. va \in [1 .. LEVELS -> Nat] /\ vb \in [1 .. LEVELS -> Nat]
        BY <1>l
      <4>4. SUFFICES ASSUME vb[LEVELS] = va[LEVELS] PROVE FALSE
        OBVIOUS
      <4>5. \A j \in 1 .. LEVELS : va[j] = vb[j]
        BY <4>2, <4>4, <1>l
      <4>6. va = vb
        <5>1. va = [j \in 1 .. LEVELS |-> va[j]] /\ vb = [j \in 1 .. LEVELS |-> vb[j]]
          BY <4>3
        <5>2. [j \in 1 .. LEVELS |-> va[j]] = [j \in 1 .. LEVELS |-> vb[j]]
          BY <4>5
        <5>3. QED BY <5>1, <5>2, Zenon
      <4>7. QED BY <4>1, <4>6, <2>2
    <3>3. ASSUME NEW p \in last
          PROVE  /\ vb[LEVELS] \in DOMAIN tabs2[p] <=> vb[LEVELS] \in DOMAIN tabs[p]
                 /\ vb[LEVELS] \in DOMAIN tabs[p] => tabs2[p][vb[LEVELS]] = tabs[p][vb[LEVELS]]
      <4>1. CASE p = q
        BY <4>1, <3>2, <1>c
      <4>2. CASE p # q
        BY <4>2, <2>s
      <4>3. QED BY <4>1, <4>2
    <3> HIDE DEF last
    <3>4. /\ \A p \in last : asked2[b][vb] = IF vb[LEVELS] \in DOMAIN tabs2[p]
                                            THEN tabs2[p][vb[LEVELS]].to ELSE NONE
          /\ last = {} => asked2[b][vb] = NONE
      BY <3>1, <3>3, <2>o
    <3>5. QED BY <3>4 DEF last
  <2>3. QED BY <2>1, <2>2
<1>5. QED BY <1>1, <1>2, <1>3, <1>4 DEF Tree

(* A new space has a root, with the kernel's entry. *)
LEMMA NewTree ==
  ASSUME NEW at, Tree(at, pt, used, live, ptr, asked),
         live \subseteq Spaces, ptr \in [Spaces -> Pages \cup {NONE}],
         asked \in [Spaces -> [VA -> PA \cup {NONE}]],
         NEW a \in Spaces, a \notin live,
         NEW p \in Pages, p \notin used, p \notin KernelTables,
         NEW at2, at2 = placedAt(at, used, p, Place(a, 1, <<>>)),
         NEW tabs, tabs = [pt EXCEPT ![p] = [i \in {KIDX} |-> pt[kpt][i]]]
  PROVE  Tree(at2, tabs, used \cup {p}, live \cup {a}, [ptr EXCEPT ![a] = p],
              [asked EXCEPT ![a] = [va \in VA |-> NONE]])
<1> DEFINE us == used \cup {p}
           lv == live \cup {a}
           root == [ptr EXCEPT ![a] = p]
           as == [asked EXCEPT ![a] = [va \in VA |-> NONE]]
<1>l. LEVELS \in Nat \ {0} /\ \A va \in VA : va[1] # KIDX
  BY VmAssumption
<1>d. /\ DOMAIN tabs = Pages \cup KernelTables /\ p # kpt
      /\ \A r \in used : r # p /\ tabs[r] = pt[r]
  BY DEF Tree, Placed, KernelTables
<1>k. DOMAIN tabs[p] = {KIDX} /\ tabs[p][KIDX] = Entry(kpd, FALSE)
  BY DEF Tree, Placed, KernelTables
<1>a. /\ at2[p] = Place(a, 1, <<>>)
      /\ \A r \in used \ KernelTables : at2[r] = at[r]
      /\ us \ KernelTables = (used \ KernelTables) \cup {p}
  BY DEF placedAt
<1>f. at2[p].space = a /\ at2[p].level = 1 /\ at2[p].path = <<>>
  BY <1>a, PlaceFields
<1>o. \A r \in used \ KernelTables : at[r].space \in live
  BY DEF Tree, Placed
<1> HIDE DEF us
<1>1. Placed(at2, tabs, us, lv)
  <2>1. KernelTables \subseteq us /\ us \subseteq Pages \cup KernelTables
    BY DEF us, Tree, Placed
  <2>2. tabs[kpt] = [i \in {KIDX} |-> Entry(kpd, FALSE)]
    BY <1>d DEF Tree, Placed, KernelTables
  <2>3. ASSUME NEW r \in us \ KernelTables
        PROVE  /\ at2[r].space \in lv /\ at2[r].level \in 1 .. LEVELS
               /\ at2[r] = Place(at2[r].space, at2[r].level, [j \in 1 .. at2[r].level - 1 |-> at2[r].path[j]])
    <3>1. CASE r \in used \ KernelTables
      <4>1. /\ at[r].space \in live /\ at[r].level \in 1 .. LEVELS
            /\ at[r] = Place(at[r].space, at[r].level, [j \in 1 .. at[r].level - 1 |-> at[r].path[j]])
        BY <3>1 DEF Tree, Placed
      <4>2. at2[r] = at[r]
        BY <3>1, <1>a
      <4>3. at[r].space \in lv
        BY <4>1
      <4>4. QED BY <4>1, <4>2, <4>3, Zenon
    <3>2. CASE r = p
      <4>1. [j \in 1 .. 1 - 1 |-> at2[p].path[j]] = <<>>
        OBVIOUS
      <4>2. at2[p].space \in lv /\ at2[p].level \in 1 .. LEVELS
        BY <1>f, <1>l
      <4>3. at2[p] = Place(at2[p].space, at2[p].level, [j \in 1 .. at2[p].level - 1 |-> at2[p].path[j]])
        BY <1>a, <1>f, <4>1
      <4>4. QED BY <3>2, <4>2, <4>3
    <3>3. QED BY <3>1, <3>2, <1>a
  <2>4. \A r, x \in us \ KernelTables : at2[r] = at2[x] => r = x
    BY <1>a, <1>o, <1>f DEF Tree, Placed
  <2>5. QED BY <2>1, <2>2, <2>3, <2>4, <1>d DEF Placed
<1>2. Rooted(at2, us, lv, root)
  <2> SUFFICES ASSUME NEW b \in lv PROVE root[b] \in us \ KernelTables /\ at2[root[b]] = Place(b, 1, <<>>)
    BY DEF Rooted
  <2>1. CASE b = a
    BY <2>1, <1>a
  <2>2. CASE b # a
    <3>1. b \in live /\ root[b] = ptr[b]
      BY <2>2
    <3>2. QED BY <3>1, <1>a DEF Tree, Rooted
  <2>3. QED BY <2>1, <2>2
<1>3. LeadDown(at2, tabs, us)
  <2> SUFFICES ASSUME NEW r \in us \ KernelTables, NEW i \in DOMAIN tabs[r]
               PROVE  LET e == tabs[r][i] IN
                      /\ ~ e.u => at2[r].level = 1 /\ i = KIDX
                      /\ e.u /\ at2[r].level < LEVELS =>
                           /\ e.to \in us \ KernelTables
                           /\ at2[e.to] = Place(at2[r].space, at2[r].level + 1, Deeper(at2[r].path, at2[r].level, i))
    BY DEF LeadDown
  <2>1. CASE r = p
    <3>1. i = KIDX /\ ~ tabs[r][i].u
      BY <2>1, <1>k DEF Entry
    <3>2. QED BY <2>1, <3>1, <1>f
  <2>2. CASE r \in used \ KernelTables
    <3>1. at2[r] = at[r] /\ tabs[r] = pt[r]
      BY <2>2, <1>a, <1>d
    <3>2. QED BY <2>2, <3>1, <1>a DEF Tree, LeadDown
  <2>3. QED BY <2>1, <2>2, <1>a
<1>4. LedTo(at2, tabs, us)
  <2> SUFFICES ASSUME NEW r \in us \ KernelTables, at2[r].level > 1
               PROVE  \E x \in us \ KernelTables : \E i \in DOMAIN tabs[x] :
                        /\ tabs[x][i].u /\ tabs[x][i].to = r
                        /\ at2[x].space = at2[r].space /\ at2[x].level = at2[r].level - 1
    BY DEF LedTo
  <2>1. r \in used \ KernelTables /\ at2[r] = at[r]
    BY <1>a, <1>f
  <2>2. PICK x \in used \ KernelTables : \E i \in DOMAIN pt[x] :
          /\ pt[x][i].u /\ pt[x][i].to = r
          /\ at[x].space = at[r].space /\ at[x].level = at[r].level - 1
    BY <2>1 DEF Tree, LedTo
  <2>3. x \in us \ KernelTables /\ at2[x] = at[x] /\ tabs[x] = pt[x]
    BY <1>a, <1>d
  <2>4. QED BY <2>1, <2>2, <2>3
<1>5. AsAsked(at2, tabs, us, lv, as)
  <2> SUFFICES ASSUME NEW b \in lv, NEW vb \in VA
               PROVE  LET last == {r \in us \ KernelTables : at2[r] = Place(b, LEVELS, Prefix(vb, LEVELS))} IN
                      /\ \A r \in last : as[b][vb] = IF vb[LEVELS] \in DOMAIN tabs[r]
                                                     THEN tabs[r][vb[LEVELS]].to ELSE NONE
                      /\ last = {} => as[b][vb] = NONE
    BY DEF AsAsked
  <2> DEFINE place == Place(b, LEVELS, Prefix(vb, LEVELS))
             last == {r \in us \ KernelTables : at2[r] = place}
  <2>p. place.space = b /\ place.level = LEVELS
    BY PlaceFields
  <2> HIDE DEF place
  <2>1. CASE b = a
    <3>1. as[b][vb] = NONE
      BY <2>1
    <3>2. ASSUME NEW r \in last PROVE vb[LEVELS] \notin DOMAIN tabs[r]
      <4>1. r = p
        BY <2>1, <2>p, <1>a, <1>o
      <4>2. LEVELS = 1
        BY <4>1, <2>p, <1>f
      <4>3. QED BY <4>1, <4>2, <1>k, <1>l
    <3>3. /\ \A r \in last : as[b][vb] = IF vb[LEVELS] \in DOMAIN tabs[r]
                                         THEN tabs[r][vb[LEVELS]].to ELSE NONE
          /\ last = {} => as[b][vb] = NONE
      BY <3>1, <3>2
    <3>4. QED BY <3>3 DEF place
  <2>2. CASE b # a
    <3> DEFINE old == {r \in used \ KernelTables : at[r] = place}
    <3>1. as[b][vb] = asked[b][vb] /\ b \in live
      BY <2>2
    <3>2. last = old
      BY <2>2, <2>p, <1>a, <1>f
    <3>3. \A r \in old : tabs[r] = pt[r]
      BY <1>d
    <3>4. /\ \A r \in old : asked[b][vb] = IF vb[LEVELS] \in DOMAIN pt[r]
                                        THEN pt[r][vb[LEVELS]].to ELSE NONE
          /\ old = {} => asked[b][vb] = NONE
      BY <3>1 DEF Tree, AsAsked, place
    <3> HIDE DEF old, last
    <3>5. /\ \A r \in last : as[b][vb] = IF vb[LEVELS] \in DOMAIN tabs[r]
                                         THEN tabs[r][vb[LEVELS]].to ELSE NONE
          /\ last = {} => as[b][vb] = NONE
      BY <3>1, <3>2, <3>3, <3>4
    <3>6. QED BY <3>5 DEF last, place
  <2>3. QED BY <2>1, <2>2
<1>6. QED BY <1>1, <1>2, <1>3, <1>4, <1>5 DEF Tree, us

(* teardown goes through the tables of the space, level by level. *)
LEMMA TablesOf ==
  ASSUME NEW at, Tree(at, pt, used, live, ptr, asked), NEW a \in live
  PROVE  \A l \in 1 .. LEVELS :
           Tables(ptr[a])[l] = {p \in used \ KernelTables : at[p].space = a /\ at[p].level = l}
<1> DEFINE f == Tables(ptr[a])
           There(l) == {p \in used \ KernelTables : at[p].space = a /\ at[p].level = l}
           T == {l \in 1 .. LEVELS : f[l] = There(l)}
<1>l. LEVELS \in Nat \ {0}
  BY VmAssumption
<1>f. /\ f[1] = {ptr[a]}
      /\ \A l \in 1 .. LEVELS - 1 : f[l + 1] = UNION {{pt[p][i].to : i \in users(p)} : p \in f[l]}
  BY TablesSteps
<1> HIDE DEF f
<1>1. 1 \in T
  <2>1. ptr[a] \in used \ KernelTables /\ at[ptr[a]] = Place(a, 1, <<>>)
    BY DEF Tree, Rooted
  <2>2. at[ptr[a]].space = a /\ at[ptr[a]].level = 1
    BY <2>1, PlaceFields
  <2>3. ASSUME NEW p \in There(1) PROVE p = ptr[a]
    <3>1. at[p] = Place(a, 1, [j \in 1 .. 1 - 1 |-> at[p].path[j]])
      BY DEF Tree, Placed
    <3>2. [j \in 1 .. 1 - 1 |-> at[p].path[j]] = <<>>
      OBVIOUS
    <3>3. at[p] = at[ptr[a]]
      BY <3>1, <3>2, <2>1
    <3>4. QED BY <3>3, <2>1 DEF Tree, Placed
  <2>4. There(1) = {ptr[a]}
    BY <2>1, <2>2, <2>3
  <2>5. QED BY <2>4, <1>f, <1>l
<1>2. ASSUME NEW l \in 1 .. LEVELS - 1, l \in T PROVE l + 1 \in T
  <2>1. f[l] = There(l) /\ l < LEVELS /\ l + 1 \in 1 .. LEVELS
    BY <1>2, <1>l
  <2>2. ASSUME NEW p \in There(l), NEW i \in users(p) PROVE pt[p][i].to \in There(l + 1)
    <3>1. /\ pt[p][i].to \in used \ KernelTables
          /\ at[pt[p][i].to] = Place(a, l + 1, Deeper(at[p].path, l, i))
      BY <2>1 DEF users, Tree, LeadDown
    <3>2. QED BY <3>1, PlaceFields
  <2>3. ASSUME NEW q \in There(l + 1) PROVE \E p \in There(l) : \E i \in users(p) : pt[p][i].to = q
    <3>1. PICK p \in used \ KernelTables : \E i \in DOMAIN pt[p] :
            /\ pt[p][i].u /\ pt[p][i].to = q
            /\ at[p].space = at[q].space /\ at[p].level = at[q].level - 1
      <4>1. at[q].level > 1
        OBVIOUS
      <4>2. QED BY <4>1 DEF Tree, LedTo
    <3>2. p \in There(l)
      BY <3>1
    <3>3. QED BY <3>1, <3>2 DEF users
  <2>4. There(l + 1) = UNION {{pt[p][i].to : i \in users(p)} : p \in There(l)}
    <3> HIDE DEF There
    <3>1. QED BY <2>2, <2>3
  <2>5. QED BY <2>1, <2>4, <1>f
<1>3. \A l \in 1 .. LEVELS : l \in T
  <2>1. LEVELS \in Nat
    BY <1>l
  <2> HIDE DEF T
  <2>2. QED BY <2>1, <1>1, <1>2, LevelInduction
<1>4. QED BY <1>3 DEF f

(* Without the tables of one space the others are as before. *)
LEMMA FreeTree ==
  ASSUME NEW at, Tree(at, pt, used, live, ptr, asked),
         live \subseteq Spaces, ptr \in [Spaces -> Pages \cup {NONE}],
         asked \in [Spaces -> [VA -> PA \cup {NONE}]],
         NEW a \in live,
         NEW freed, freed = {p \in used \ KernelTables : at[p].space = a},
         NEW tabs, tabs = [p \in DOMAIN pt |-> IF p \in freed THEN Zero ELSE pt[p]]
  PROVE  Tree(at, tabs, used \ freed, live \ {a}, [ptr EXCEPT ![a] = NONE],
              [asked EXCEPT ![a] = [va \in VA |-> NONE]])
<1> DEFINE us == used \ freed
           lv == live \ {a}
           root == [ptr EXCEPT ![a] = NONE]
           as == [asked EXCEPT ![a] = [va \in VA |-> NONE]]
<1>d. /\ DOMAIN tabs = Pages \cup KernelTables
      /\ \A p \in us : tabs[p] = pt[p]
  BY DEF Tree, Placed
<1>u. us \ KernelTables = {p \in used \ KernelTables : at[p].space # a}
  OBVIOUS
<1> HIDE DEF us
<1>1. Placed(at, tabs, us, lv)
  <2>1. KernelTables \subseteq us /\ us \subseteq Pages \cup KernelTables
    BY DEF us, Tree, Placed
  <2>2. tabs[kpt] = [i \in {KIDX} |-> Entry(kpd, FALSE)]
    BY <2>1, <1>d DEF Tree, Placed, KernelTables
  <2>3. QED BY <2>1, <2>2, <1>d, <1>u DEF Tree, Placed
<1>2. Rooted(at, us, lv, root)
  <2> SUFFICES ASSUME NEW b \in lv PROVE root[b] \in us \ KernelTables /\ at[root[b]] = Place(b, 1, <<>>)
    BY DEF Rooted
  <2>1. root[b] = ptr[b] /\ b \in live /\ b # a
    OBVIOUS
  <2>2. ptr[b] \in used \ KernelTables /\ at[ptr[b]] = Place(b, 1, <<>>)
    BY <2>1 DEF Tree, Rooted
  <2>3. QED BY <2>1, <2>2, <1>u, PlaceFields
<1>3. LeadDown(at, tabs, us)
  <2> SUFFICES ASSUME NEW p \in us \ KernelTables, NEW i \in DOMAIN tabs[p]
               PROVE  LET e == tabs[p][i] IN
                      /\ ~ e.u => at[p].level = 1 /\ i = KIDX
                      /\ e.u /\ at[p].level < LEVELS =>
                           /\ e.to \in us \ KernelTables
                           /\ at[e.to] = Place(at[p].space, at[p].level + 1, Deeper(at[p].path, at[p].level, i))
    BY DEF LeadDown
  <2>1. p \in used \ KernelTables /\ at[p].space # a /\ tabs[p] = pt[p]
    BY <1>d, <1>u
  <2>2. /\ ~ pt[p][i].u => at[p].level = 1 /\ i = KIDX
        /\ pt[p][i].u /\ at[p].level < LEVELS =>
             /\ pt[p][i].to \in used \ KernelTables
             /\ at[pt[p][i].to] = Place(at[p].space, at[p].level + 1, Deeper(at[p].path, at[p].level, i))
    BY <2>1 DEF Tree, LeadDown
  <2>3. ASSUME pt[p][i].u, at[p].level < LEVELS PROVE at[pt[p][i].to].space = at[p].space
    BY <2>2, <2>3, PlaceFields
  <2>4. QED BY <2>1, <2>2, <2>3, <1>u
<1>4. LedTo(at, tabs, us)
  <2> SUFFICES ASSUME NEW p \in us \ KernelTables, at[p].level > 1
               PROVE  \E x \in us \ KernelTables : \E i \in DOMAIN tabs[x] :
                        /\ tabs[x][i].u /\ tabs[x][i].to = p
                        /\ at[x].space = at[p].space /\ at[x].level = at[p].level - 1
    BY DEF LedTo
  <2>1. PICK x \in used \ KernelTables : \E i \in DOMAIN pt[x] :
          /\ pt[x][i].u /\ pt[x][i].to = p
          /\ at[x].space = at[p].space /\ at[x].level = at[p].level - 1
    BY <1>u DEF Tree, LedTo
  <2>2. x \in us \ KernelTables /\ tabs[x] = pt[x]
    BY <2>1, <1>u, <1>d
  <2>3. QED BY <2>1, <2>2
<1>5. AsAsked(at, tabs, us, lv, as)
  <2> SUFFICES ASSUME NEW b \in lv, NEW vb \in VA
               PROVE  LET last == {r \in us \ KernelTables : at[r] = Place(b, LEVELS, Prefix(vb, LEVELS))} IN
                      /\ \A r \in last : as[b][vb] = IF vb[LEVELS] \in DOMAIN tabs[r]
                                                     THEN tabs[r][vb[LEVELS]].to ELSE NONE
                      /\ last = {} => as[b][vb] = NONE
    BY DEF AsAsked
  <2> DEFINE place == Place(b, LEVELS, Prefix(vb, LEVELS))
             last == {r \in us \ KernelTables : at[r] = place}
             old == {r \in used \ KernelTables : at[r] = place}
  <2>p. place.space = b
    BY PlaceFields
  <2> HIDE DEF place
  <2>1. as[b][vb] = asked[b][vb] /\ b \in live /\ b # a
    OBVIOUS
  <2>2. last = old
    BY <2>1, <2>p, <1>u
  <2>3. \A r \in last : tabs[r] = pt[r]
    BY <1>d
  <2>4. /\ \A r \in old : asked[b][vb] = IF vb[LEVELS] \in DOMAIN pt[r]
                                      THEN pt[r][vb[LEVELS]].to ELSE NONE
        /\ old = {} => asked[b][vb] = NONE
    BY <2>1 DEF Tree, AsAsked, place
  <2> HIDE DEF old, last
  <2>5. /\ \A r \in last : as[b][vb] = IF vb[LEVELS] \in DOMAIN tabs[r]
                                       THEN tabs[r][vb[LEVELS]].to ELSE NONE
        /\ last = {} => as[b][vb] = NONE
    BY <2>1, <2>2, <2>3, <2>4
  <2>6. QED BY <2>5 DEF last, place
<1>6. QED BY <1>1, <1>2, <1>3, <1>4, <1>5 DEF Tree, us

---------------------------------------------------------------------------
(* The steps.                                                              *)

LEMMA VmInitially ==
  ASSUME VmInit PROVE VmInv
<1> USE VmAssumption DEF VmInit
<1>1. VmTypeOK
  BY DEF VmTypeOK, KernelTables, Tasks
<1>2. TreeOK
  <2>1. used \ KernelTables = {} /\ KernelTables \subseteq used
    BY DEF KernelTables
  <2>2. DOMAIN pt = Pages \cup KernelTables /\ pt[kpt] = [i \in {KIDX} |-> Entry(kpd, FALSE)]
    BY DEF KernelTables
  <2>3. Tree(<<>>, pt, used, live, ptr, asked)
    BY <2>1, <2>2 DEF Tree, Placed, Rooted, LeadDown, LedTo, AsAsked, KernelTables
  <2>4. QED BY <2>3 DEF TreeOK
<1>3. ContextsOK
  BY DEF ContextsOK, Tasks
<1>4. UserRunsOwn /\ KeptOK
  BY DEF UserRunsOwn, KeptOK
<1>5. QED BY <1>1, <1>2, <1>3, <1>4 DEF VmInv

(* The root of a space in use is one of its pages. *)
LEMMA RootPage ==
  ASSUME TreeOK, NEW a \in live PROVE ptr[a] \in Pages /\ ptr[a] # NONE
<1>1. PICK at : Tree(at, pt, used, live, ptr, asked)
  BY DEF TreeOK
<1>2. Placed(at, pt, used, live) /\ Rooted(at, used, live, ptr)
  BY <1>1 DEF Tree
<1>3. used \subseteq Pages \cup KernelTables
  BY <1>2 DEF Placed
<1>4. ptr[a] \in used \ KernelTables
  BY <1>2 DEF Rooted
<1>5. NONE \notin Pages
  BY VmAssumption
<1>6. QED BY <1>3, <1>4, <1>5

LEMMA ProtectStep ==
  ASSUME VmInv, NEW c \in Processors, NEW a \in Spaces, protect(c, a) PROVE VmInv'
<1> DEFINE p == pgalloc(used)
<1>t. VmTypeOK /\ TreeOK /\ ContextsOK /\ UserRunsOwn /\ KeptOK
  BY DEF VmInv
<1>p. p \in Pages /\ p \notin used /\ p \notin KernelTables
  BY FreePage DEF protect
<1>a. /\ a \notin live /\ live' = live \cup {a} /\ used' = used \cup {p}
      /\ pt' = [pt EXCEPT ![p] = [i \in {KIDX} |-> pt[kpt][i]]]
      /\ ptr' = [ptr EXCEPT ![a] = p]
      /\ asked' = [asked EXCEPT ![a] = [va \in VA |-> NONE]]
      /\ UNCHANGED <<cr3, rsp0, tlb, cur, mode, ctx, remote, panicked>>
  BY DEF protect, cpu
<1> HIDE DEF p
<1>o. \A b \in live : b # a /\ ptr'[b] = ptr[b] /\ asked'[b] = asked[b]
  BY <1>a, <1>t DEF VmTypeOK
<1>1. VmTypeOK'
  BY <1>t, <1>p, <1>a DEF VmTypeOK
<1>2. TreeOK'
  <2>1. PICK at : Tree(at, pt, used, live, ptr, asked)
    BY <1>t DEF TreeOK
  <2>2. live \subseteq Spaces /\ ptr \in [Spaces -> Pages \cup {NONE}] /\ asked \in [Spaces -> [VA -> PA \cup {NONE}]]
    BY <1>t DEF VmTypeOK
  <2> DEFINE at2 == placedAt(at, used, p, Place(a, 1, <<>>))
             tabs == [pt EXCEPT ![p] = [i \in {KIDX} |-> pt[kpt][i]]]
             root == [ptr EXCEPT ![a] = p]
             as == [asked EXCEPT ![a] = [va \in VA |-> NONE]]
  <2>3. Tree(at2, tabs, used \cup {p}, live \cup {a}, root, as)
    BY <2>1, <2>2, <1>p, <1>a, NewTree
  <2>4. pt' = tabs /\ ptr' = root /\ asked' = as
    BY <1>a
  <2> HIDE DEF at2, tabs, root, as
  <2>5. Tree(at2, pt', used', live', ptr', asked')
    BY <2>3, <2>4, <1>a
  <2>6. QED BY <2>5 DEF TreeOK
<1>3. ContextsOK' /\ UserRunsOwn'
  BY <1>t, <1>a, <1>o DEF ContextsOK, UserRunsOwn
<1>4. KeptOK'
  BY <1>t, <1>a, <1>o DEF KeptOK, UserRunsOwn
<1>5. QED BY <1>1, <1>2, <1>3, <1>4 DEF VmInv

LEMMA UnprotectStep ==
  ASSUME VmInv, NEW c \in Processors, NEW a \in Spaces, unprotect(c, a) PROVE VmInv'
<1> DEFINE freed == UNION {Tables(ptr[a])[l] : l \in 1 .. LEVELS}
<1>t. VmTypeOK /\ TreeOK /\ ContextsOK /\ UserRunsOwn /\ KeptOK
  BY DEF VmInv
<1>a. /\ a \in live /\ live' = live \ {a} /\ used' = used \ freed
      /\ pt' = [p \in DOMAIN pt |-> IF p \in freed THEN Zero ELSE pt[p]]
      /\ ptr' = [ptr EXCEPT ![a] = NONE]
      /\ asked' = [asked EXCEPT ![a] = [va \in VA |-> NONE]]
      /\ UNCHANGED <<cr3, rsp0, tlb, cur, mode, ctx, remote, panicked>>
  BY DEF unprotect, cpu
<1>g. /\ \A d \in Processors : cur[d] \in UserTasks /\ mode[d] = "run" => SpaceOf[cur[d]] # a
      /\ \A t \in UserTasks : ctx[t] # NONE => SpaceOf[t] # a
  BY DEF unprotect
<1> HIDE DEF freed
<1>o. \A b \in live \ {a} : b \in live' /\ ptr'[b] = ptr[b] /\ asked'[b] = asked[b]
  BY <1>a, <1>t DEF VmTypeOK
<1>1. VmTypeOK'
  BY <1>t, <1>a DEF VmTypeOK
<1>2. TreeOK'
  <2>1. PICK at : Tree(at, pt, used, live, ptr, asked)
    BY <1>t DEF TreeOK
  <2>2. live \subseteq Spaces /\ ptr \in [Spaces -> Pages \cup {NONE}] /\ asked \in [Spaces -> [VA -> PA \cup {NONE}]]
    BY <1>t DEF VmTypeOK
  <2>3. freed = {p \in used \ KernelTables : at[p].space = a}
    <3>1. \A l \in 1 .. LEVELS :
            Tables(ptr[a])[l] = {p \in used \ KernelTables : at[p].space = a /\ at[p].level = l}
      BY <2>1, <1>a, TablesOf
    <3>2. \A p \in used \ KernelTables : at[p].level \in 1 .. LEVELS
      BY <2>1 DEF Tree, Placed
    <3>3. QED BY <3>1, <3>2 DEF freed
  <2> DEFINE tabs == [p \in DOMAIN pt |-> IF p \in freed THEN Zero ELSE pt[p]]
             root == [ptr EXCEPT ![a] = NONE]
             as == [asked EXCEPT ![a] = [va \in VA |-> NONE]]
  <2>4. Tree(at, tabs, used \ freed, live \ {a}, root, as)
    BY <2>1, <2>2, <2>3, <1>a, FreeTree
  <2>5. pt' = tabs /\ ptr' = root /\ asked' = as
    BY <1>a
  <2> HIDE DEF tabs, root, as
  <2>6. Tree(at, pt', used', live', ptr', asked')
    BY <2>4, <2>5, <1>a
  <2>7. QED BY <2>6 DEF TreeOK
<1>3. ContextsOK' /\ UserRunsOwn'
  BY <1>t, <1>a, <1>g, <1>o DEF ContextsOK, UserRunsOwn
<1>4. KeptOK'
  BY <1>t, <1>a, <1>g, <1>o DEF KeptOK, UserRunsOwn
<1>5. QED BY <1>1, <1>2, <1>3, <1>4 DEF VmInv

LEMMA PanicStep ==
  ASSUME VmInv, panic PROVE VmInv'
<1>1. UNCHANGED <<live, ptr, pt, used, asked, cr3, rsp0, tlb, cur, mode, ctx, remote>> /\ panicked' = TRUE
  BY DEF panic, space, cpu
<1>2. VmTypeOK'
  BY <1>1 DEF VmInv, VmTypeOK
<1>3. TreeOK'
  BY <1>1 DEF VmInv, TreeOK
<1>4. (ContextsOK /\ UserRunsOwn /\ KeptOK)'
  BY <1>1 DEF VmInv, ContextsOK, UserRunsOwn, KeptOK
<1>5. QED BY <1>2, <1>3, <1>4 DEF VmInv

(* At the end of the walk: no page was taken if the entry is there, and if *)
(* it is not nothing was asked for.                                        *)
LEMMA LeafFacts ==
  ASSUME NEW a \in live, NEW va \in VA, NEW at, NEW w, WalkOK(at, w, a, va, LEVELS), w.table # NONE
  PROVE  /\ DOMAIN w.pt = Pages \cup KernelTables /\ w.used \subseteq Pages \cup KernelTables
         /\ w.table \in DOMAIN w.pt
         /\ va[LEVELS] \in DOMAIN w.pt[w.table] => w.used = used
         /\ va[LEVELS] \notin DOMAIN w.pt[w.table] => asked[a][va] = NONE
<1> DEFINE q == w.table  old == w.pt  us == w.used
<1>1. /\ Tree(at, old, us, live, ptr, asked)
      /\ q \in us \ KernelTables /\ at[q] = Place(a, LEVELS, Prefix(va, LEVELS))
      /\ (old = pt /\ us = used) \/ old[q] = Zero
  BY DEF WalkOK
<1>2. DOMAIN old = Pages \cup KernelTables /\ us \subseteq Pages \cup KernelTables /\ q \in DOMAIN old
  BY <1>1 DEF Tree, Placed
<1>3. va[LEVELS] \in DOMAIN old[q] => us = used
  BY <1>1 DEF Zero
<1> HIDE DEF q, old, us
<1>4. va[LEVELS] \notin DOMAIN old[q] => asked[a][va] = NONE
  BY <1>1 DEF Tree, AsAsked
<1>5. QED BY <1>2, <1>3, <1>4 DEF q, old, us

(* map and unmap differ in what becomes of the entry: both change it in    *)
(* the last table of the page.                                             *)
LEMMA LeafStep ==
  ASSUME VmTypeOK, NEW a \in live, NEW va \in VA,
         NEW at, NEW w, WalkOK(at, w, a, va, LEVELS), w.table # NONE,
         NEW new, Differs(w.pt[w.table], new, va[LEVELS]),
         NEW tabs, tabs = replaced(w.pt, w.table, new),
         NEW as, as = nowAsked(a, va, new)
  PROVE  Tree(at, tabs, w.used, live, ptr, as)
<1> DEFINE q == w.table  old == w.pt  us == w.used
<1>1. /\ Tree(at, old, us, live, ptr, asked)
      /\ q \in us \ KernelTables /\ at[q] = Place(a, LEVELS, Prefix(va, LEVELS))
      /\ q \in DOMAIN old
  <2>1. Tree(at, w.pt, w.used, live, ptr, asked) /\ q \in us \ KernelTables /\ at[q] = Place(a, LEVELS, Prefix(va, LEVELS))
    BY DEF WalkOK
  <2>2. w.table \in DOMAIN w.pt
    BY LeafFacts
  <2>3. QED BY <2>1, <2>2
<1>2. /\ DOMAIN tabs = DOMAIN old /\ tabs[q] = new
      /\ \A r \in DOMAIN old \ {q} : tabs[r] = old[r]
  <2>1. tabs = [old EXCEPT ![q] = new]
    BY DEF replaced
  <2>2. q \in DOMAIN old
    BY <1>1
  <2> HIDE DEF q, old
  <2>3. QED BY <2>1, <2>2
<1>3. live \subseteq Spaces /\ asked \in [Spaces -> [VA -> PA \cup {NONE}]]
  BY DEF VmTypeOK
<1>4. Differs(old[q], tabs[q], va[LEVELS]) /\ as = nowAsked(a, va, tabs[q])
  BY <1>2
<1> HIDE DEF q, old, us
<1>5. Tree(at, tabs, us, live, ptr, as)
  BY <1>1, <1>2, <1>3, <1>4, SetLeaf
<1>6. QED BY <1>5 DEF us

LEMMA MapStep ==
  ASSUME VmInv, NEW c \in Processors, NEW a \in Spaces, NEW va \in VA, NEW pa \in PA, map(c, a, va, pa)
  PROVE  VmInv'
<1> DEFINE w == ptwalk(ptr[a], va)
<1>t. VmTypeOK /\ TreeOK /\ ContextsOK /\ UserRunsOwn /\ KeptOK
  BY DEF VmInv
<1>v. VA \subseteq [1 .. LEVELS -> Nat] /\ NONE \notin PA
  BY VmAssumption
<1>1. CASE w.table = NONE \/ va[LEVELS] \in DOMAIN w.pt[w.table]
  BY <1>1, PanicStep DEF map, indexof
<1>2. CASE w.table # NONE /\ va[LEVELS] \notin DOMAIN w.pt[w.table]
  <2> DEFINE new == With(w.pt[w.table], va[LEVELS], Entry(pa, TRUE))
  <2>a. /\ a \in live
        /\ pt' = [w.pt EXCEPT ![w.table] = new]
        /\ used' = w.used
        /\ asked' = [asked EXCEPT ![a][va] = pa]
        /\ UNCHANGED <<live, ptr, cr3, rsp0, tlb, cur, mode, ctx, remote, panicked>>
    BY <1>2 DEF map, indexof, cpu
  <2>n. /\ DOMAIN new = DOMAIN w.pt[w.table] \cup {va[LEVELS]}
        /\ new[va[LEVELS]] = Entry(pa, TRUE)
        /\ \A i \in DOMAIN w.pt[w.table] \ {va[LEVELS]} : new[i] = w.pt[w.table][i]
    BY DEF With
  <2>e. Entry(pa, TRUE).u /\ Entry(pa, TRUE).to = pa
    BY DEF Entry
  <2> DEFINE ww == w  tabs == [w.pt EXCEPT ![w.table] = new]
             as == [asked EXCEPT ![a][va] = pa]
  <2>k. PICK at : WalkOK(at, w, a, va, LEVELS)
    BY <1>t, <2>a, WalkTree
  <2>w. /\ WalkOK(at, ww, a, va, LEVELS) /\ ww.table # NONE
        /\ tabs = replaced(ww.pt, ww.table, new)
        /\ Differs(ww.pt[ww.table], new, va[LEVELS]) /\ as = nowAsked(a, va, new)
    <3> HIDE DEF new, w
    <3>1. va[LEVELS] \in DOMAIN new /\ new[va[LEVELS]].u /\ new[va[LEVELS]].to = pa
      BY <2>n, <2>e
    <3>2. Differs(w.pt[w.table], new, va[LEVELS])
      BY <2>n, <3>1 DEF Differs
    <3>3. QED BY <1>2, <2>k, <3>1, <3>2 DEF replaced, nowAsked
  <2>x. /\ pt' = tabs /\ used' = ww.used /\ asked' = as
        /\ va[LEVELS] \notin DOMAIN ww.pt[ww.table]
    BY <1>2, <2>a
  <2> HIDE DEF ww, new, tabs, as
  <2>l. a \in live
    BY <2>a
  <2>1. /\ Tree(at, tabs, ww.used, live, ptr, as)
        /\ DOMAIN tabs = Pages \cup KernelTables /\ ww.used \subseteq Pages \cup KernelTables
        /\ asked[a][va] = NONE
    <3>1. Tree(at, tabs, ww.used, live, ptr, as)
      BY <1>t, <2>l, <2>w, LeafStep
    <3>2. QED BY <2>l, <2>w, <2>x, <3>1, LeafFacts DEF replaced
  <2>2. VmTypeOK'
    <3>1. asked' \in [Spaces -> [VA -> PA \cup {NONE}]]
      BY <1>t, <2>a DEF VmTypeOK
    <3>2. DOMAIN pt' = Pages \cup KernelTables /\ used' \subseteq Pages \cup KernelTables
      BY <1>t, <2>a, <2>1, <2>x DEF VmTypeOK
    <3>3. QED BY <1>t, <2>a, <3>1, <3>2 DEF VmTypeOK
  <2>3. TreeOK'
    <3>1. Tree(at, pt', used', live', ptr', asked')
      BY <2>1, <2>a, <2>x
    <3>2. QED BY <3>1 DEF TreeOK
  <2>4. ContextsOK' /\ UserRunsOwn'
    BY <1>t, <2>a DEF ContextsOK, UserRunsOwn
  <2>5. KeptOK'
    <3> SUFFICES ASSUME NEW d \in Processors, cur[d] \in UserTasks, mode[d] = "run", ~ remote[d],
                        NEW e \in tlb[d]
                 PROVE  e[2] # NONE /\ asked'[SpaceOf[cur[d]]][e[1]] = e[2]
      BY <2>a DEF KeptOK
    <3>1. e[2] # NONE /\ asked[SpaceOf[cur[d]]][e[1]] = e[2]
      BY <1>t DEF KeptOK
    <3>2. ~ (SpaceOf[cur[d]] = a /\ e[1] = va)
      BY <3>1, <2>1
    <3>3. asked'[SpaceOf[cur[d]]][e[1]] = asked[SpaceOf[cur[d]]][e[1]]
      BY <3>2, <2>a, <1>t DEF VmTypeOK
    <3>4. QED BY <3>1, <3>3
  <2>6. QED BY <2>2, <2>3, <2>4, <2>5 DEF VmInv
<1>3. QED BY <1>1, <1>2

LEMMA UnmapStep ==
  ASSUME VmInv, NEW c \in Processors, NEW a \in Spaces, NEW va \in VA, unmap(c, a, va)
  PROVE  VmInv'
<1> DEFINE w == ptwalk(ptr[a], va)
<1>t. VmTypeOK /\ TreeOK /\ ContextsOK /\ UserRunsOwn /\ KeptOK
  BY DEF VmInv
<1>1. CASE w.table = NONE \/ va[LEVELS] \notin DOMAIN w.pt[w.table]
  BY <1>1, PanicStep DEF unmap, indexof
<1>2. CASE w.table # NONE /\ va[LEVELS] \in DOMAIN w.pt[w.table]
  <2> DEFINE new == [j \in DOMAIN w.pt[w.table] \ {va[LEVELS]} |-> w.pt[w.table][j]]
  <2>a. /\ a \in live /\ InKernel(c)
        /\ pt' = [w.pt EXCEPT ![w.table] = new]
        /\ asked' = [asked EXCEPT ![a][va] = NONE]
        /\ remote' = [d \in Processors |-> remote[d] \/ (d # c /\ cr3[d] = ptr[a])]
        /\ UNCHANGED <<live, ptr, used, cr3, rsp0, tlb, cur, mode, ctx, panicked>>
    BY <1>2 DEF unmap, indexof
  <2> DEFINE ww == w  tabs == [w.pt EXCEPT ![w.table] = new]
             as == [asked EXCEPT ![a][va] = NONE]
  <2>k. PICK at : WalkOK(at, w, a, va, LEVELS)
    BY <1>t, <2>a, WalkTree
  <2>w. /\ WalkOK(at, ww, a, va, LEVELS) /\ ww.table # NONE
        /\ tabs = replaced(ww.pt, ww.table, new)
        /\ Differs(ww.pt[ww.table], new, va[LEVELS]) /\ as = nowAsked(a, va, new)
    BY <1>2, <2>k DEF Differs, replaced, nowAsked
  <2>x. /\ pt' = tabs /\ asked' = as
        /\ va[LEVELS] \in DOMAIN ww.pt[ww.table]
    BY <1>2, <2>a
  <2> HIDE DEF ww, new, tabs, as
  <2>l. a \in live
    BY <2>a
  <2>1. /\ Tree(at, tabs, ww.used, live, ptr, as)
        /\ DOMAIN tabs = Pages \cup KernelTables /\ ww.used = used
    <3>1. Tree(at, tabs, ww.used, live, ptr, as)
      BY <1>t, <2>l, <2>w, LeafStep
    <3>2. QED BY <2>l, <2>w, <2>x, <3>1, LeafFacts DEF replaced
  <2>2. VmTypeOK'
    <3>1. asked' \in [Spaces -> [VA -> PA \cup {NONE}]]
      BY <1>t, <2>a DEF VmTypeOK
    <3>2. DOMAIN pt' = Pages \cup KernelTables /\ used' \subseteq Pages \cup KernelTables
      BY <1>t, <2>a, <2>1, <2>x DEF VmTypeOK
    <3>3. QED BY <1>t, <2>a, <3>1, <3>2 DEF VmTypeOK
  <2>3. TreeOK'
    <3>1. Tree(at, pt', used', live', ptr', asked')
      BY <2>1, <2>a, <2>x
    <3>2. QED BY <3>1 DEF TreeOK
  <2>4. ContextsOK' /\ UserRunsOwn'
    BY <1>t, <2>a DEF ContextsOK, UserRunsOwn
  <2>5. KeptOK'
    <3> SUFFICES ASSUME NEW d \in Processors, cur[d] \in UserTasks, mode[d] = "run", ~ remote'[d],
                        NEW e \in tlb[d]
                 PROVE  e[2] # NONE /\ asked'[SpaceOf[cur[d]]][e[1]] = e[2]
      BY <2>a DEF KeptOK
    <3>1. ~ remote[d] /\ (d = c \/ cr3[d] # ptr[a])
      BY <2>a
    <3>2. d # c
      BY <2>a, VmAssumption DEF InKernel
    <3>3. SpaceOf[cur[d]] # a
      BY <1>t, <3>1, <3>2 DEF UserRunsOwn
    <3>4. asked'[SpaceOf[cur[d]]] = asked[SpaceOf[cur[d]]]
      BY <3>3, <2>a, <1>t DEF VmTypeOK
    <3>5. QED BY <3>1, <3>4, <1>t DEF KeptOK
  <2>6. QED BY <2>2, <2>3, <2>4, <2>5 DEF VmInv
<1>3. QED BY <1>1, <1>2

LEMMA ContextStep ==
  ASSUME VmInv, NEW c \in Processors, NEW t \in Tasks, ucontext(c, t) \/ kcontext(c, t) \/ exit(c, t)
  PROVE  VmInv'
<1>t. VmTypeOK /\ TreeOK /\ ContextsOK /\ UserRunsOwn /\ KeptOK
  BY DEF VmInv
<1>a. UNCHANGED <<live, ptr, pt, used, asked, cr3, rsp0, tlb, cur, mode, remote, panicked>>
  BY DEF ucontext, kcontext, exit, space
<1>n. NONE \notin Contexts /\ UserTasks \cap KernelTasks = {}
  BY VmAssumption
<1>1. PICK x \in Contexts \cup {NONE} :
        /\ ctx' = [ctx EXCEPT ![t] = x]
        /\ x # NONE /\ t \in UserTasks => SpaceOf[t] \in live /\ x.cr3 = ptr[SpaceOf[t]] /\ x.rsp0 = t
  <2>1. CASE ucontext(c, t)
    <3> DEFINE x == [cr3 |-> ptr[SpaceOf[t]], rsp0 |-> t]
    <3>1. t \in UserTasks /\ SpaceOf[t] \in live /\ ctx' = [ctx EXCEPT ![t] = x]
      BY <2>1 DEF ucontext
    <3>2. x \in Contexts
      BY <3>1, <1>t, RootPage DEF Contexts
    <3>3. x.cr3 = ptr[SpaceOf[t]] /\ x.rsp0 = t
      OBVIOUS
    <3>4. QED BY <3>1, <3>2, <3>3
  <2>2. CASE kcontext(c, t)
    <3> DEFINE x == [cr3 |-> NONE, rsp0 |-> NONE]
    <3>1. t \notin UserTasks /\ ctx' = [ctx EXCEPT ![t] = x]
      BY <2>2, <1>n DEF kcontext
    <3>2. x \in Contexts
      BY DEF Contexts
    <3>3. QED BY <3>1, <3>2
  <2>3. CASE exit(c, t)
    BY <2>3 DEF exit
  <2>4. QED BY <2>1, <2>2, <2>3
<1>2. VmTypeOK'
  BY <1>t, <1>a, <1>1 DEF VmTypeOK
<1>3. TreeOK'
  BY <1>t, <1>a DEF TreeOK
<1>4. ContextsOK'
  BY <1>t, <1>a, <1>1 DEF ContextsOK, VmTypeOK, Tasks
<1>5. UserRunsOwn' /\ KeptOK'
  BY <1>t, <1>a DEF UserRunsOwn, KeptOK
<1>6. QED BY <1>2, <1>3, <1>4, <1>5 DEF VmInv

LEMMA AccessStep ==
  ASSUME VmInv, NEW c \in Processors, NEW va \in VA, access(c, va)
  PROVE  VmInv'
<1> DEFINE to == Translate(cr3[c], va)
           a == SpaceOf[cur[c]]
<1>t. VmTypeOK /\ TreeOK /\ ContextsOK /\ UserRunsOwn /\ KeptOK
  BY DEF VmInv
<1>a. /\ mode[c] = "run" /\ cur[c] \in UserTasks /\ to # NONE
      /\ tlb' = [tlb EXCEPT ![c] = @ \cup {<<va, to>>}]
      /\ UNCHANGED <<live, ptr, pt, used, asked, cr3, rsp0, cur, mode, ctx, remote, panicked>>
  BY DEF access, space
<1>1. a \in live /\ cr3[c] = ptr[a] /\ a \in Spaces
  BY <1>a, <1>t DEF UserRunsOwn, VmTypeOK
<1>2. to = asked[a][va]
  BY <1>1, <1>t, TranslateIsAsked DEF TreeOK
<1>3. to \in PA
  BY <1>1, <1>2, <1>a, <1>t DEF VmTypeOK
<1> HIDE DEF to, a
<1>4. VmTypeOK'
  BY <1>t, <1>a, <1>3 DEF VmTypeOK
<1>5. TreeOK' /\ ContextsOK' /\ UserRunsOwn'
  BY <1>t, <1>a DEF TreeOK, ContextsOK, UserRunsOwn
<1>6. KeptOK'
  <2> SUFFICES ASSUME NEW d \in Processors, cur[d] \in UserTasks, mode[d] = "run", ~ remote[d],
                      NEW e \in tlb'[d]
               PROVE  e[2] # NONE /\ asked[SpaceOf[cur[d]]][e[1]] = e[2]
    BY <1>a DEF KeptOK
  <2>1. CASE e \in tlb[d]
    BY <2>1, <1>t DEF KeptOK
  <2>2. CASE e \notin tlb[d]
    <3>1. d = c /\ e = <<va, to>>
      BY <2>2, <1>a, <1>t DEF VmTypeOK
    <3>2. QED BY <3>1, <1>2, <1>a DEF a
  <2>3. QED BY <2>1, <2>2
<1>7. QED BY <1>4, <1>5, <1>6 DEF VmInv

LEMMA TrapStep ==
  ASSUME VmInv, NEW c \in Processors, trap(c)
  PROVE  VmInv'
<1> DEFINE x == [cr3 |-> cr3[c], rsp0 |-> rsp0[c]]
<1>t. VmTypeOK /\ TreeOK /\ ContextsOK /\ UserRunsOwn /\ KeptOK
  BY DEF VmInv
<1>a. /\ mode[c] = "run"
      /\ ctx' = [ctx EXCEPT ![cur[c]] = x] /\ mode' = [mode EXCEPT ![c] = "trap"]
      /\ UNCHANGED <<live, ptr, pt, used, asked, cr3, rsp0, tlb, cur, remote, panicked>>
  BY DEF trap, space
<1>1. x \in Contexts /\ x.cr3 = cr3[c] /\ x.rsp0 = rsp0[c]
  BY <1>t DEF VmTypeOK, Contexts
<1> HIDE DEF x
<1>2. VmTypeOK'
  BY <1>t, <1>a, <1>1 DEF VmTypeOK
<1>3. TreeOK'
  BY <1>t, <1>a DEF TreeOK
<1>4. ContextsOK'
  BY <1>t, <1>a, <1>1 DEF ContextsOK, UserRunsOwn, VmTypeOK, Tasks
<1>5. UserRunsOwn' /\ KeptOK'
  BY <1>t, <1>a DEF UserRunsOwn, KeptOK, VmTypeOK
<1>6. QED BY <1>2, <1>3, <1>4, <1>5 DEF VmInv

(* The way back to a user task goes through the loading of its table. *)
LEMMA ReturnStep ==
  ASSUME VmInv, NEW c \in Processors, NEW t \in Tasks, irq_return(c, t)
  PROVE  VmInv'
<1>t. VmTypeOK /\ TreeOK /\ ContextsOK /\ UserRunsOwn /\ KeptOK
  BY DEF VmInv
<1>a. /\ ctx[t] # NONE
      /\ rsp0' = [rsp0 EXCEPT ![c] = rsp0_after(c, t)]
      /\ cur' = [cur EXCEPT ![c] = t] /\ ctx' = [ctx EXCEPT ![t] = NONE]
      /\ mode' = [mode EXCEPT ![c] = "run"]
      /\ UNCHANGED <<live, ptr, pt, used, asked, panicked>>
  BY DEF irq_return, space
<1>b. IF ctx[t].cr3 # NONE
      THEN /\ cr3' = [cr3 EXCEPT ![c] = ctx[t].cr3] /\ tlb' = [tlb EXCEPT ![c] = {}]
           /\ remote' = [remote EXCEPT ![c] = FALSE]
      ELSE UNCHANGED <<cr3, tlb, remote>>
  BY DEF irq_return, loads
<1>c. /\ ctx[t] \in Contexts /\ ctx[t].cr3 \in Pages \cup {kpt, NONE} /\ ctx[t].rsp0 \in UserTasks \cup {NONE}
  BY <1>a, <1>t DEF VmTypeOK, Contexts
<1>r. rsp0_after(c, t) = IF ctx[t].cr3 # NONE THEN ctx[t].rsp0 ELSE rsp0[c]
  BY DEF rsp0_after
<1>u. ASSUME t \in UserTasks
      PROVE  SpaceOf[t] \in live /\ ctx[t].cr3 = ptr[SpaceOf[t]] /\ ctx[t].rsp0 = t /\ ctx[t].cr3 # NONE
  BY <1>u, <1>a, <1>t, RootPage DEF ContextsOK
<1>1. VmTypeOK'
  <2>1. cr3' \in [Processors -> Pages \cup {kpt}] /\ tlb' \in [Processors -> SUBSET (VA \X PA)]
        /\ remote' \in [Processors -> BOOLEAN]
    <3>1. CASE ctx[t].cr3 # NONE
      BY <3>1, <1>b, <1>c, <1>t DEF VmTypeOK
    <3>2. CASE ctx[t].cr3 = NONE
      BY <3>2, <1>b, <1>t DEF VmTypeOK
    <3>3. QED BY <3>1, <3>2
  <2>2. rsp0' \in [Processors -> UserTasks \cup {NONE}]
    BY <1>a, <1>c, <1>r, <1>t DEF VmTypeOK
  <2>3. QED BY <2>1, <2>2, <1>a, <1>t DEF VmTypeOK
<1>2. TreeOK' /\ ContextsOK'
  BY <1>a, <1>t DEF TreeOK, ContextsOK, VmTypeOK
<1>3. \A d \in Processors \ {c} :
        /\ cur'[d] = cur[d] /\ mode'[d] = mode[d] /\ rsp0'[d] = rsp0[d]
        /\ cr3'[d] = cr3[d] /\ tlb'[d] = tlb[d] /\ remote'[d] = remote[d]
  <2>1. CASE ctx[t].cr3 # NONE
    BY <2>1, <1>a, <1>b, <1>t DEF VmTypeOK
  <2>2. CASE ctx[t].cr3 = NONE
    BY <2>2, <1>a, <1>b, <1>t DEF VmTypeOK
  <2>3. QED BY <2>1, <2>2
<1>4. /\ cur'[c] = t
      /\ t \in UserTasks => cr3'[c] = ptr[SpaceOf[t]] /\ rsp0'[c] = t /\ tlb'[c] = {}
  BY <1>a, <1>b, <1>r, <1>u, <1>t DEF VmTypeOK
<1>5. UserRunsOwn'
  <2> SUFFICES ASSUME NEW d \in Processors, cur'[d] \in UserTasks, mode'[d] = "run"
               PROVE  /\ SpaceOf[cur'[d]] \in live /\ cr3'[d] = ptr[SpaceOf[cur'[d]]]
                      /\ rsp0'[d] = cur'[d]
    BY <1>a DEF UserRunsOwn
  <2>1. CASE d = c
    BY <2>1, <1>4, <1>u
  <2>2. CASE d # c
    BY <2>2, <1>3, <1>t DEF UserRunsOwn
  <2>3. QED BY <2>1, <2>2
<1>6. KeptOK'
  <2> SUFFICES ASSUME NEW d \in Processors, cur'[d] \in UserTasks, mode'[d] = "run", ~ remote'[d],
                      NEW e \in tlb'[d]
               PROVE  e[2] # NONE /\ asked[SpaceOf[cur'[d]]][e[1]] = e[2]
    BY <1>a DEF KeptOK
  <2>1. d # c
    BY <1>4
  <2>2. QED BY <2>1, <1>3, <1>t DEF KeptOK
<1>7. QED BY <1>1, <1>2, <1>5, <1>6 DEF VmInv

LEMMA VmStep ==
  ASSUME VmInv, [VmNext]_vmvars PROVE VmInv'
<1>1. CASE UNCHANGED vmvars
  <2>1. UNCHANGED <<live, ptr, pt, used, asked, cr3, rsp0, tlb, cur, mode, ctx, remote, panicked>>
    BY <1>1 DEF vmvars, space, cpu
  <2>2. VmTypeOK' /\ TreeOK'
    BY <2>1 DEF VmInv, VmTypeOK, TreeOK
  <2>3. (ContextsOK /\ UserRunsOwn /\ KeptOK)'
    BY <2>1 DEF VmInv, ContextsOK, UserRunsOwn, KeptOK
  <2>4. QED BY <2>2, <2>3 DEF VmInv
<1>2. ASSUME NEW c \in Processors, NEW a \in Spaces, protect(c, a) \/ unprotect(c, a) PROVE VmInv'
  BY <1>2, ProtectStep, UnprotectStep
<1>3. ASSUME NEW c \in Processors, protect_panic(c) PROVE VmInv'
  BY <1>3, PanicStep DEF protect_panic
<1>4. ASSUME NEW c \in Processors, NEW a \in Spaces, NEW va \in VA,
             unmap(c, a, va) \/ \E pa \in PA : map(c, a, va, pa)
      PROVE  VmInv'
  BY <1>4, MapStep, UnmapStep
<1>5. ASSUME NEW c \in Processors, NEW t \in Tasks,
             ucontext(c, t) \/ kcontext(c, t) \/ exit(c, t) \/ irq_return(c, t)
      PROVE  VmInv'
  BY <1>5, ContextStep, ReturnStep
<1>6. ASSUME NEW c \in Processors, (\E va \in VA : access(c, va)) \/ trap(c) PROVE VmInv'
  BY <1>6, AccessStep, TrapStep
<1>7. QED BY <1>1, <1>2, <1>3, <1>4, <1>5, <1>6 DEF VmNext

---------------------------------------------------------------------------

(* In every state of the specification each page given out has one place   *)
(* in the tree of one space, what the last tables hold is what map was     *)
(* asked for, a saved user context is in its space and on its stack, and   *)
(* a processor in a user task keeps no translation that is gone.           *)
THEOREM VmInvariant == VmSpec => []VmInv
<1>1. VmInit => VmInv
  BY VmInitially
<1>2. VmInv /\ [VmNext]_vmvars => VmInv'
  BY VmStep
<1>3. QED BY <1>1, <1>2, PTL DEF VmSpec

(* unprotect frees every page of its space, once, and no other: vme.c's    *)
(* teardown goes through exactly the tables that ptwalk made.              *)
THEOREM PagesOwnedHolds == VmSpec => []PagesOwned
<1>1. VmInv => PagesOwned
  <2> SUFFICES ASSUME VmInv PROVE PagesOwned
    OBVIOUS
  <2>1. PICK at : Tree(at, pt, used, live, ptr, asked)
    BY DEF VmInv, TreeOK
  <2> DEFINE tabs == [a \in live |-> Tables(ptr[a])]
  <2>2. \A a \in live, l \in 1 .. LEVELS :
          tabs[a][l] = {p \in used \ KernelTables : at[p].space = a /\ at[p].level = l}
    BY <2>1, TablesOf
  <2>3. \A p \in used \ KernelTables : at[p].space \in live /\ at[p].level \in 1 .. LEVELS
    BY <2>1 DEF Tree, Placed
  <2>4. KernelTables \subseteq used
    BY <2>1 DEF Tree, Placed
  <2> HIDE DEF tabs
  <2>5. used \ KernelTables = UNION {tabs[a][l] : a \in live, l \in 1 .. LEVELS}
    BY <2>2, <2>3
  <2>6. \A a, b \in live, l, m \in 1 .. LEVELS :
          <<a, l>> # <<b, m>> => tabs[a][l] \cap tabs[b][m] = {}
    BY <2>2
  <2>7. Owned(tabs)
    BY <2>4, <2>5, <2>6 DEF Owned
  <2>8. QED BY <2>7 DEF PagesOwned, tabs
<1>2. QED BY <1>1, VmInvariant, PTL

(* What the processor finds at a page of any space is what map was last    *)
(* asked to put there: ptwalk shares no table between spaces or pages that *)
(* differ, and teardown and pgalloc leave none behind.                     *)
THEOREM TranslatesAsAskedHolds == VmSpec => []TranslatesAsAsked
<1>1. VmInv => TranslatesAsAsked
  BY TranslateIsAsked DEF VmInv, TreeOK, TranslatesAsAsked
<1>2. QED BY <1>1, VmInvariant, PTL

(* __am_irq_handle returns to a user task in its own space, and with its   *)
(* own kernel stack for the next trap.                                     *)
THEOREM UserRunsOwnHolds == VmSpec => []UserRunsOwn
<1>1. VmInv => UserRunsOwn
  BY DEF VmInv
<1>2. QED BY <1>1, VmInvariant, PTL

(* A user task goes through no translation that map has removed, although  *)
(* map flushes none: set_cr3 on the way back does.                         *)
THEOREM NoStaleTranslationHolds == VmSpec => []NoStaleTranslation
<1>1. VmInv => NoStaleTranslation
  <2> SUFFICES ASSUME VmInv, NEW c \in Processors, cur[c] \in UserTasks, mode[c] = "run", ~ remote[c],
                      NEW e \in tlb[c]
               PROVE  Translate(cr3[c], e[1]) = e[2]
    BY DEF NoStaleTranslation
  <2>1. asked[SpaceOf[cur[c]]][e[1]] = e[2]
    BY DEF VmInv, KeptOK
  <2>2. SpaceOf[cur[c]] \in live /\ cr3[c] = ptr[SpaceOf[cur[c]]]
    BY DEF VmInv, UserRunsOwn
  <2>3. e[1] \in VA
    BY DEF VmInv, VmTypeOK
  <2>4. Translate(ptr[SpaceOf[cur[c]]], e[1]) = asked[SpaceOf[cur[c]]][e[1]]
    BY <2>2, <2>3, TranslateIsAsked DEF VmInv, TreeOK
  <2>5. QED BY <2>1, <2>2, <2>4
<1>2. QED BY <1>1, VmInvariant, PTL
=============================================================================

------------------------------ MODULE X86Boot ------------------------------
(***************************************************************************)
(* The processors of AM on x86-qemu, from the boot sector to halt:         *)
(* boot/start.S, boot/main.c, start64.S, trm.c, mpe.c and the              *)
(* inter-processor interrupts of ioe.c.  Processor 0 boots from disk and   *)
(* starts the others one after the other; each enters through the boot     *)
(* record at 0x7000 and runs, until it has switched to a stack of its own, *)
(* on the one stack at 0xa000.  An interrupt between processors is posted  *)
(* at once and taken by its target some time later.                        *)
(***************************************************************************)
EXTENDS Integers

CONSTANT N  \* __am_ncpu

ASSUME CpuAssumption == N \in Nat \ {0}

CPUs == 0 .. N - 1

VARIABLES
  jmp_code, is_ap,    \* the boot record
  loaded, tables, lapic, \* kernel image, PML4/PDPT, __am_lapic and the heap
  ap_ready,
  pc,                 \* where each processor is
  percpu,             \* its GDT, local APIC and IDT are set up
  ipi,                \* interrupts posted to it and not taken yet
  target, phase,      \* whom it is sending to in __am_lapic_bootap, and how far it is
  off,                \* the machine is off
  halts               \* ghost: processors that called halt so far

boot == <<jmp_code, is_ap, loaded, tables, lapic>>
vars == <<boot, ap_ready, pc, percpu, ipi, target, phase, off, halts>>

(* Between the jump of the boot record and stack_switch_call.              *)
OnBootStack == {"start", "load", "start64", "start_c", "bootcpu"}

Init ==
  /\ jmp_code = "none" /\ is_ap = 0
  /\ loaded = FALSE /\ tables = FALSE /\ lapic = FALSE
  /\ ap_ready = 0
  /\ pc = [c \in CPUs |-> IF c = 0 THEN "start" ELSE "wait"]
  /\ percpu = [c \in CPUs |-> FALSE]
  /\ ipi = [c \in CPUs |-> {}]
  /\ target = [c \in CPUs |-> 0] /\ phase = [c \in CPUs |-> 0]
  /\ off = FALSE /\ halts = {}

At(c, l)    == pc[c] = l /\ ~ off
Go(c, l)    == pc' = [pc EXCEPT ![c] = l]

---------------------------------------------------------------------------
(* Interrupts.                                                             *)

(* INIT resets the processor, which then waits for a start-up interrupt. *)
take_init(c) ==
  /\ "INIT" \in ipi[c] /\ ~ off
  /\ ipi' = [ipi EXCEPT ![c] = @ \ {"INIT"}]
  /\ Go(c, "wait")
  /\ percpu' = [percpu EXCEPT ![c] = FALSE]
  /\ UNCHANGED <<boot, ap_ready, target, phase, off, halts>>

(* A start-up interrupt is ignored by a processor that runs. *)
take_sipi(c) ==
  /\ "SIPI" \in ipi[c] /\ "INIT" \notin ipi[c] /\ ~ off
  /\ ipi' = [ipi EXCEPT ![c] = @ \ {"SIPI"}]
  /\ IF pc[c] = "wait" THEN Go(c, "record") ELSE UNCHANGED pc
  /\ UNCHANGED <<boot, ap_ready, percpu, target, phase, off, halts>>

(* __am_lapic_bootap: one INIT, then the start-up interrupt twice. *)
lapic_bootap(c) ==
  /\ phase[c] < 3
  /\ ipi' = [ipi EXCEPT ![target[c]] = @ \cup {IF phase[c] = 0 THEN "INIT" ELSE "SIPI"}]
  /\ phase' = [phase EXCEPT ![c] = @ + 1]
  /\ UNCHANGED <<boot, ap_ready, pc, percpu, target, off, halts>>

---------------------------------------------------------------------------
(* From the boot record to the kernel.                                     *)

(* jmp (0x7c00), or jmp . *)
run_record(c) ==
  /\ At(c, "record") /\ jmp_code = "boot"
  /\ Go(c, "start")
  /\ UNCHANGED <<boot, ap_ready, percpu, ipi, target, phase, off, halts>>

(* start.S: protected mode, esp = 0xa000, call load_kernel *)
start(c) ==
  /\ At(c, "start")
  /\ Go(c, "load")
  /\ UNCHANGED <<boot, ap_ready, percpu, ipi, target, phase, off, halts>>

(* Everything is loaded already when an application processor comes. *)
load_kernel(c) ==
  /\ At(c, "load")
  /\ loaded' = (loaded \/ is_ap = 0)
  /\ Go(c, "start64")
  /\ UNCHANGED <<jmp_code, is_ap, tables, lapic, ap_ready, percpu, ipi, target, phase, off, halts>>

(* start64.S: the identity map is built unless its root is there, long mode *)
start64(c) ==
  /\ At(c, "start64")
  /\ tables' = TRUE
  /\ Go(c, "start_c")
  /\ UNCHANGED <<jmp_code, is_ap, loaded, lapic, ap_ready, percpu, ipi, target, phase, off, halts>>

(* stack_switch_call leaves the boot stack, for CPU's own one. *)
start_c(c) ==
  /\ At(c, "start_c")
  /\ Go(c, IF is_ap = 1 THEN "othercpu" ELSE "bootcpu")
  /\ UNCHANGED <<boot, ap_ready, percpu, ipi, target, phase, off, halts>>

(* heap, local APIC's address, IOAPIC, and the processor's own tables *)
bootcpu_init(c) ==
  /\ At(c, "bootcpu")
  /\ lapic' = TRUE
  /\ percpu' = [percpu EXCEPT ![c] = TRUE]
  /\ Go(c, "main")
  /\ UNCHANGED <<jmp_code, is_ap, loaded, tables, ap_ready, ipi, target, phase, off, halts>>

---------------------------------------------------------------------------
(* mpe_init and the application processors.                                *)

(* the next turn of its loop, or the end of it *)
boot_next(c, cpu) ==
  /\ target' = [target EXCEPT ![c] = cpu]
  /\ phase' = [phase EXCEPT ![c] = 0]
  /\ Go(c, IF cpu < N THEN "mpe" ELSE "user")

(* Mutated: is_ap is left as it is. *)
mpe_initNoAp(c) ==
  /\ At(c, "main")
  /\ jmp_code' = "boot"
  /\ boot_next(c, 1)
  /\ UNCHANGED <<is_ap, loaded, tables, lapic, ap_ready, percpu, ipi, off, halts>>

mpe_init(c) ==
  /\ At(c, "main")
  /\ jmp_code' = "boot"
  /\ is_ap' = IF N > 1 THEN 1 ELSE is_ap
  /\ boot_next(c, 1)
  /\ UNCHANGED <<loaded, tables, lapic, ap_ready, percpu, ipi, off, halts>>

mpe_bootap(c) == At(c, "mpe") /\ lapic_bootap(c)

(* Mutated: the next processor is started without waiting for this one. *)
await_apNot(c) ==
  /\ At(c, "mpe") /\ phase[c] = 3
  /\ ap_ready' = 0
  /\ boot_next(c, target[c] + 1)
  /\ UNCHANGED <<boot, percpu, ipi, off, halts>>

(* while (xchg(&ap_ready, 0) != 1) *)
await_ap(c) ==
  /\ At(c, "mpe") /\ phase[c] = 3
  /\ ap_ready = 1
  /\ ap_ready' = 0
  /\ boot_next(c, target[c] + 1)
  /\ UNCHANGED <<boot, percpu, ipi, off, halts>>

(* Mutated: the processor reports before it has set itself up. *)
percpu_initLate(c) ==
  /\ At(c, "othercpu")
  /\ ap_ready' = 1
  /\ Go(c, "ready")
  /\ UNCHANGED <<boot, percpu, ipi, target, phase, off, halts>>

(* othercpu_entry, on the processor's own stack *)
percpu_init(c) ==
  /\ At(c, "othercpu")
  /\ percpu' = [percpu EXCEPT ![c] = TRUE]
  /\ Go(c, "ready")
  /\ UNCHANGED <<boot, ap_ready, ipi, target, phase, off, halts>>

ready(c) ==
  /\ At(c, "ready")
  /\ ap_ready' = 1
  /\ Go(c, "user")
  /\ UNCHANGED <<boot, percpu, ipi, target, phase, off, halts>>

---------------------------------------------------------------------------
(* halt, called by the program or because main or the entry returned.      *)

(* Mutated: the processor resets itself, too. *)
stop_nextSelf(c, cpu) == cpu

(* the loop's next processor: itself is passed over *)
stop_next(c, cpu) == IF cpu = c THEN cpu + 1 ELSE cpu

stop_to(c, cpu) ==
  /\ target' = [target EXCEPT ![c] = stop_next(c, cpu)]
  /\ phase' = [phase EXCEPT ![c] = 0]
  /\ Go(c, IF stop_next(c, cpu) < N THEN "stop" ELSE "print")

(* Mutated: the loop is mpe_init's, which starts at processor 1. *)
haltFrom1(c) ==
  /\ (At(c, "main") \/ At(c, "user"))
  /\ jmp_code' = "spin"
  /\ halts' = halts \cup {c}
  /\ stop_to(c, 1)
  /\ UNCHANGED <<is_ap, loaded, tables, lapic, ap_ready, percpu, ipi, off>>

halt(c) ==
  /\ (At(c, "main") \/ At(c, "user"))
  /\ jmp_code' = "spin"
  /\ halts' = halts \cup {c}
  /\ stop_to(c, 0)
  /\ UNCHANGED <<is_ap, loaded, tables, lapic, ap_ready, percpu, ipi, off>>

stop_bootap(c) == At(c, "stop") /\ lapic_bootap(c)

stop_turn(c) ==
  /\ At(c, "stop") /\ phase[c] = 3
  /\ stop_to(c, target[c] + 1)
  /\ UNCHANGED <<boot, ap_ready, percpu, ipi, off, halts>>

(* The message is written, then QEMU is told to end. *)
power_off(c) ==
  /\ At(c, "print")
  /\ off' = TRUE
  /\ UNCHANGED <<boot, ap_ready, pc, percpu, ipi, target, phase, halts>>

---------------------------------------------------------------------------
(* What a processor does by itself, once the program is not asked. *)
Run(c) ==
  \/ run_record(c) \/ start(c) \/ load_kernel(c) \/ start64(c) \/ start_c(c)
  \/ bootcpu_init(c) \/ mpe_bootap(c) \/ await_ap(c) \/ percpu_init(c) \/ ready(c)
  \/ stop_bootap(c) \/ stop_turn(c) \/ power_off(c)

Take(c) == take_init(c) \/ take_sipi(c)

Next == \E c \in CPUs : Run(c) \/ Take(c) \/ mpe_init(c) \/ halt(c)

Spec == Init /\ [][Next]_vars

(* Every processor runs, and takes the interrupts posted to it. *)
FairSpec == Spec /\ \A c \in CPUs : WF_vars(Run(c)) /\ WF_vars(Take(c))

---------------------------------------------------------------------------
TypeOK ==
  /\ jmp_code \in {"none", "boot", "spin"} /\ is_ap \in {0, 1} /\ ap_ready \in {0, 1}
  /\ loaded \in BOOLEAN /\ tables \in BOOLEAN /\ lapic \in BOOLEAN /\ off \in BOOLEAN
  /\ pc \in [CPUs -> OnBootStack \cup {"wait", "record", "othercpu", "ready",
                                       "main", "mpe", "user", "stop", "print"}]
  /\ percpu \in [CPUs -> BOOLEAN] /\ ipi \in [CPUs -> SUBSET {"INIT", "SIPI"}]
  /\ target \in [CPUs -> 0 .. N] /\ phase \in [CPUs -> 0 .. 3] /\ halts \in SUBSET CPUs
  /\ \A c \in CPUs : pc[c] \in {"mpe", "stop"} => target[c] < N

(* Two processors never run on the boot stack at the same time. *)
BootStackExclusive ==
  \A c, d \in CPUs : pc[c] \in OnBootStack /\ pc[d] \in OnBootStack => c = d

(* The boot processor enters the program only after every other one has    *)
(* set up its tables, unless a processor has called halt; and no processor *)
(* is in AM's code before the image, the page tables and __am_lapic, from  *)
(* which it learns its own number, are there.                              *)
SetUpInOrder ==
  /\ pc[0] = "user" /\ halts = {} => \A c \in CPUs : percpu[c]
  /\ \A c \in CPUs \ {0} : pc[c] \in {"othercpu", "ready", "user"} => loaded /\ tables /\ lapic

(* When the machine goes off, every processor but the one that ended it    *)
(* has been stopped or has its reset posted: none goes on.                 *)
Stopped(d) == pc[d] \in {"wait", "record"} \/ "INIT" \in ipi[d]

WorldStopped ==
  off => \E c \in CPUs : pc[c] = "print" /\ \A d \in CPUs \ {c} : Stopped(d)

(* mpe_init brings every processor into the program, unless one halts. *)
AllEnter == pc[0] = "mpe" ~> ((\A c \in CPUs : pc[c] = "user") \/ halts # {})

(* A halt ends the machine if no second processor calls halt meanwhile:    *)
(* two of them may reset each other.                                       *)
HaltEnds == \A c \in CPUs : halts = {c} ~> (off \/ halts # {c})

---------------------------------------------------------------------------
(* Inductive, by what the boot record says.  At first only processor 0     *)
(* runs, and what it has passed is set up.                                 *)
Alone ==
  /\ is_ap = 0 /\ ap_ready = 0 /\ halts = {}
  /\ pc[0] \in OnBootStack \cup {"main"}
  /\ pc[0] \in {"start64", "start_c", "bootcpu", "main"} => loaded
  /\ pc[0] \in {"start_c", "bootcpu", "main"} => tables
  /\ pc[0] = "main" => lapic /\ percpu[0]
  /\ ipi[0] = {}
  /\ \A c \in CPUs \ {0} : pc[c] = "wait" /\ ipi[c] = {}

(* While mpe_init's loop is at a processor, those before it are in the     *)
(* program, those after it wait, and only this one is under way.           *)
Entering == {"wait", "record", "start", "load", "start64", "start_c", "othercpu", "ready", "user"}

Handshake ==
  /\ halts = {} /\ percpu[0] /\ ipi[0] = {} /\ (N > 1 => is_ap = 1)
  /\ pc[0] \in {"mpe", "user"}
  /\ pc[0] = "user" => target[0] = N /\ ap_ready = 0
  /\ target[0] \in 1 .. N
  /\ \A c \in CPUs \ {0} :
       /\ c < target[0] => pc[c] = "user" /\ "INIT" \notin ipi[c] /\ percpu[c]
       /\ c > target[0] => pc[c] = "wait" /\ ipi[c] = {}
       /\ c = target[0] =>
            /\ pc[c] \in Entering
            /\ phase[0] = 0 => ipi[c] = {}
            /\ phase[0] = 1 => "SIPI" \notin ipi[c]
            /\ phase[0] < 2 \/ "INIT" \in ipi[c] => pc[c] = "wait"
            /\ pc[c] \in {"ready", "user"} => percpu[c]
            /\ ap_ready = 1 <=> pc[c] = "user"

(* Once a halt has changed the record nobody comes in by it any more; a    *)
(* processor that halts has stopped those its loop has passed.             *)
Stopping ==
  /\ halts # {} /\ BootStackExclusive
  /\ \A c \in CPUs :
       /\ pc[c] \in OnBootStack => is_ap = 1 /\ c # 0
       /\ pc[c] \notin {"main", "bootcpu"}
       /\ pc[c] = "stop" =>
            \A d \in CPUs \ {c} : d < target[c] \/ (d = target[c] /\ phase[c] > 0) => Stopped(d)
       /\ pc[c] = "print" => \A d \in CPUs \ {c} : Stopped(d)

IInv ==
  /\ TypeOK
  /\ jmp_code = "none" => Alone
  /\ jmp_code # "none" => loaded /\ tables /\ lapic
  /\ jmp_code = "boot" => Handshake
  /\ jmp_code = "spin" => Stopping
  /\ off => jmp_code = "spin" /\ \E c \in CPUs : pc[c] = "print"
=============================================================================

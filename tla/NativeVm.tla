------------------------------ MODULE NativeVm ------------------------------
(***************************************************************************)
(* AM on Linux processes: platform.c, mpe.c, vme.c, cte.c of am/src/native.*)
(* A processor is a process, an interrupt a signal, an address space a     *)
(* list of pages that a process mmaps when it switches to the space.  Data *)
(* and heap are shared by the processes, thiscpu and mappings are not.     *)
(* The kernel above AM is external: it decides what to map and which saved *)
(* context its handler returns, maps no page of a space twice, and takes   *)
(* pages zeroed from pgalloc.  Its handler may unblock the signals but     *)
(* returns with them blocked: none comes between __am_switch and iret,     *)
(* which irq_handle does nothing to prevent.  A task is named by its       *)
(* kernel stack.                                                           *)
(***************************************************************************)
EXTENDS Naturals, Sequences

CONSTANTS
  ncpu,
  Spaces, UserTasks, KernelTasks,
  SpaceOf,   \* the space of each user task
  BootTask,  \* what each processor runs from main or entry
  Runs,      \* the tasks the kernel runs on a processor
  VA, PA,    \* pages; frames with a protection
  Async,     \* the signals from outside: "timer", "iodev"
  Depth,     \* bound: traps nested in each task
  NONE

CPUs  == 0 .. ncpu - 1
Tasks == UserTasks \cup KernelTasks

\* Each processor boots on a stack of its own.
ASSUME NativeVmAssumption ==
  /\ ncpu \in Nat \ {0}
  /\ UserTasks \cap KernelTasks = {}
  /\ SpaceOf \in [UserTasks -> Spaces]
  /\ BootTask \in [CPUs -> KernelTasks]
  /\ \A p, q \in CPUs : BootTask[p] = BootTask[q] => p = q
  /\ Runs \in [CPUs -> SUBSET Tasks]
  /\ Depth \in [Tasks -> Nat]
  /\ NONE \notin Spaces \cup Tasks \cup PA

VARIABLES
  phase,    \* of each process: "none", "main", "wait", "release", "run",
            \* "signalled" (irq_handle comes next), "irq" (in the kernel's handler)
  released, pipe, has_ioe, ioe_init_done,   \* '+' written and '+' not yet read
  vm_head, ksp, ev,   \* thiscpu
  mmaps,    \* the pages of USER_SPACE in each process
  intr,     \* whether the signals are unblocked
  cur, user,          \* the task in each process; whether in user mode
  list,     \* the pages of each space, latest first
  saved,    \* the contexts on each kernel stack, innermost last
  cause     \* ghost: the event of the context that irq_handle comes for

boot == <<released, pipe, has_ioe, ioe_init_done>>
regs == <<vm_head, mmaps>>
vars == <<phase, boot, regs, ksp, ev, intr, cur, user, list, saved, cause>>

Unmapped == [va \in VA |-> NONE]

(* init_platform, then main with what it does before mpe_init *)
Init ==
  /\ phase = [p \in CPUs |-> IF p = 0 THEN "main" ELSE "none"]
  /\ released = 0 /\ pipe = 0 /\ has_ioe \in BOOLEAN /\ ioe_init_done = FALSE
  /\ vm_head = [p \in CPUs |-> NONE] /\ ksp = [p \in CPUs |-> NONE] /\ ev = [p \in CPUs |-> NONE]
  /\ mmaps = [p \in CPUs |-> Unmapped]
  /\ intr = [p \in CPUs |-> FALSE]
  /\ cur = BootTask /\ user = [p \in CPUs |-> FALSE]
  /\ list = [s \in Spaces |-> <<>>]
  /\ saved = [t \in Tasks |-> <<>>]
  /\ cause = [p \in CPUs |-> NONE]

---------------------------------------------------------------------------
(* The start of the processors: mpe.c and do_io.                           *)
To(p, ph) == phase' = [phase EXCEPT ![p] = ph]
NotBoot   == UNCHANGED <<regs, ksp, ev, intr, cur, user, list, saved, cause>>

(* fork copies thiscpu, which is a private mapping. *)
fork(i) ==
  /\ phase[0] = "main" /\ phase[i] = "none"
  /\ \A j \in 1 .. i - 1 : phase[j] # "none"
  /\ To(i, "wait")
  /\ UNCHANGED boot /\ NotBoot

mpe_ioe ==
  /\ phase[0] = "main" /\ \A i \in CPUs : phase[i] # "none"
  /\ ioe_init_done' = (ioe_init_done \/ has_ioe)
  /\ To(0, "release")
  /\ UNCHANGED <<released, pipe, has_ioe>> /\ NotBoot

(* Mutated: the children are released as they are forked. *)
mpe_releaseEarly ==
  /\ phase[0] \in {"main", "release"} /\ released < ncpu - 1
  /\ released' = released + 1 /\ pipe' = pipe + 1
  /\ UNCHANGED <<phase, has_ioe, ioe_init_done>> /\ NotBoot

mpe_release ==
  /\ phase[0] = "release" /\ released < ncpu - 1
  /\ released' = released + 1 /\ pipe' = pipe + 1
  /\ UNCHANGED <<phase, has_ioe, ioe_init_done>> /\ NotBoot

mpe_entry ==
  /\ phase[0] = "release" /\ released = ncpu - 1
  /\ To(0, "run")
  /\ UNCHANGED boot /\ NotBoot

child_entry(p) ==
  /\ phase[p] = "wait" /\ pipe > 0
  /\ pipe' = pipe - 1
  /\ To(p, "run")
  /\ UNCHANGED <<released, has_ioe, ioe_init_done>> /\ NotBoot

(* do_io, by a kernel that has called ioe_init *)
do_io(p) ==
  /\ phase[p] \in {"main", "run", "irq"} /\ ~ user[p] /\ has_ioe
  /\ ioe_init_done' = TRUE
  /\ UNCHANGED <<phase, released, pipe, has_ioe>> /\ NotBoot

---------------------------------------------------------------------------
(* Address spaces: vme.c.                                                  *)
InKernel(p) == phase[p] \in {"run", "irq"} /\ ~ user[p]

Node(va, pa, mapped) == [va |-> va, pa |-> pa, is_mapped |-> mapped]
Vas(s) == {list[s][i].va : i \in DOMAIN list[s]}

(* Called in the space itself, it is done at once. *)
map(p, s, va, pa) ==
  /\ InKernel(p) /\ va \notin Vas(s)
  /\ list' = [list EXCEPT ![s] = <<Node(va, pa, vm_head[p] = s)>> \o @]
  /\ mmaps' = IF vm_head[p] = s THEN [mmaps EXCEPT ![p][va] = pa] ELSE mmaps
  /\ UNCHANGED <<phase, boot, vm_head, ksp, ev, intr, cur, user, saved, cause>>

(* What munmap and mmap make of a process's pages. *)
munmap(pages, nodes) ==
  [va \in VA |-> IF \E i \in DOMAIN nodes : nodes[i].va = va /\ nodes[i].is_mapped THEN NONE ELSE pages[va]]
mmap(pages, nodes) ==
  [va \in VA |-> IF \E i \in DOMAIN nodes : nodes[i].va = va
                 THEN nodes[CHOOSE i \in DOMAIN nodes : nodes[i].va = va].pa ELSE pages[va]]
Marked(nodes, mapped) == [i \in DOMAIN nodes |-> [nodes[i] EXCEPT !.is_mapped = mapped]]

(* Mutated: the pages of the space left stay mapped when a kernel's context *)
(* comes, which uses none of them.                                          *)
am_switchLazy(p, head) ==
  IF head \in {vm_head[p], NONE} THEN UNCHANGED <<mmaps, vm_head, list>>
  ELSE /\ mmaps' = [mmaps EXCEPT ![p] = mmap(@, list[head])]
       /\ list' = [list EXCEPT ![head] = Marked(@, TRUE)]
       /\ vm_head' = [vm_head EXCEPT ![p] = head]

(* __am_switch *)
am_switch(p, head) ==
  IF head = vm_head[p] THEN UNCHANGED <<mmaps, vm_head, list>>
  ELSE LET old   == vm_head[p]
           left  == IF old = NONE THEN mmaps[p] ELSE munmap(mmaps[p], list[old])
       IN  /\ mmaps' = [mmaps EXCEPT ![p] = IF head = NONE THEN left ELSE mmap(left, list[head])]
           /\ list' = [s \in Spaces |-> IF s = head THEN Marked(list[s], TRUE)
                                        ELSE IF s = old THEN Marked(list[s], FALSE) ELSE list[s]]
           /\ vm_head' = [vm_head EXCEPT ![p] = head]

---------------------------------------------------------------------------
(* Contexts and signals: cte.c.                                            *)
Context(ph, u, i, head, stack, c) ==
  [phase |-> ph, user |-> u, intr |-> i, vm_head |-> head, ksp |-> stack, cause |-> c]

Exists(t) == saved[t] # <<>> \/ \E p \in CPUs : cur[p] = t

make(p, t, c) ==
  /\ InKernel(p) /\ ~ Exists(t)
  /\ saved' = [saved EXCEPT ![t] = <<c>>]
  /\ UNCHANGED <<phase, boot, regs, ksp, ev, intr, cur, user, list, cause>>

ucontext(p, t) == t \in UserTasks /\ make(p, t, Context("run", TRUE, TRUE, SpaceOf[t], t, NONE))

(* It leaves the context's ksp as it finds it. *)
kcontext(p, t) == t \in KernelTasks /\ make(p, t, Context("run", FALSE, TRUE, NONE, NONE, NONE))

iset(p) ==
  /\ InKernel(p)
  /\ \E enable \in BOOLEAN : intr' = [intr EXCEPT ![p] = enable]
  /\ UNCHANGED <<phase, boot, regs, ksp, ev, cur, user, list, saved, cause>>

(* Mutated: the handler returns with the signals as they were. *)
mask_afterSame(p) == intr[p]

mask_after(p) == FALSE

(* sig_handler and setup_stack: the context is saved on the kernel stack,  *)
(* from user mode at its top; irq_handle fills in the rest (below).        *)
signal(p, event) ==
  /\ user[p] \/ Len(saved[cur[p]]) < Depth[cur[p]]
  /\ ev' = [ev EXCEPT ![p] = event] /\ cause' = [cause EXCEPT ![p] = event]
  /\ LET c == Context(phase[p], user[p], intr[p], vm_head[p], ksp[p], cause[p])
     IN  saved' = IF user[p] THEN [saved EXCEPT ![ksp[p]] = <<c>>]
                             ELSE [saved EXCEPT ![cur[p]] = Append(@, c)]
  /\ user' = [user EXCEPT ![p] = FALSE] /\ intr' = [intr EXCEPT ![p] = mask_after(p)]
  /\ To(p, "signalled")
  /\ UNCHANGED <<boot, regs, ksp, cur, list>>

yield(p)   == phase[p] \in {"run", "irq"} /\ signal(p, "yield")
syscall(p) == phase[p] = "run" /\ user[p] /\ signal(p, "syscall")
fault(p, va) == user[p] /\ mmaps[p][va] = NONE /\ signal(p, "pagefault")

interrupt(p, event) == intr[p] /\ phase[p] \in {"run", "signalled", "irq"} /\ signal(p, event)

(* In the code of a shared library the signal is taken for missed. *)
missed(p, event) ==
  /\ intr[p] /\ InKernel(p)
  /\ ev' = [ev EXCEPT ![p] = event]
  /\ UNCHANGED <<phase, boot, regs, ksp, intr, cur, user, list, saved, cause>>

(* irq_handle, up to the kernel's handler, which is given thiscpu->ev *)
irq_handle(p) ==
  /\ phase[p] = "signalled"
  /\ To(p, "irq")
  /\ cause' = [cause EXCEPT ![p] = NONE]
  /\ UNCHANGED <<boot, regs, ksp, ev, intr, cur, user, list, saved>>

(* Mutated: ksp is not restored. *)
ksp_afterNone(p, c) == ksp[p]

ksp_after(p, c) == c.ksp

(* All of the processor but the pages and their space comes from c; iret is *)
(* a signal too, and sig_handler clears ev before it knows which.           *)
iret(p, c) ==
  /\ ev' = [ev EXCEPT ![p] = "error"]
  /\ ksp' = [ksp EXCEPT ![p] = ksp_after(p, c)]
  /\ To(p, c.phase)
  /\ user' = [user EXCEPT ![p] = c.user] /\ intr' = [intr EXCEPT ![p] = c.intr]
  /\ cause' = [cause EXCEPT ![p] = c.cause]

(* The rest of irq_handle, to the latest context of a task that no other   *)
(* processor is in; one step, as the handler returns with signals blocked. *)
irq_return(p, t) ==
  /\ phase[p] = "irq" /\ ~ intr[p] /\ t \in Runs[p] /\ saved[t] # <<>>
  /\ \A q \in CPUs \ {p} : cur[q] # t
  /\ LET c == saved[t][Len(saved[t])] IN am_switch(p, c.vm_head) /\ iret(p, c)
  /\ saved' = [saved EXCEPT ![t] = SubSeq(@, 1, Len(@) - 1)]
  /\ cur' = [cur EXCEPT ![p] = t]
  /\ UNCHANGED boot

---------------------------------------------------------------------------
Next ==
  \/ mpe_ioe \/ mpe_release \/ mpe_entry
  \/ \E p \in CPUs :
    \/ fork(p) \/ child_entry(p) \/ do_io(p)
    \/ \E s \in Spaces, va \in VA, pa \in PA : map(p, s, va, pa)
    \/ \E t \in Tasks : ucontext(p, t) \/ kcontext(p, t) \/ irq_return(p, t)
    \/ iset(p)
    \/ yield(p) \/ syscall(p) \/ irq_handle(p)
    \/ \E va \in VA : fault(p, va)
    \/ \E event \in Async : interrupt(p, event) \/ missed(p, event)

Spec == Init /\ [][Next]_vars

---------------------------------------------------------------------------
(* The pages that a list of nodes calls mapped. *)
MappedIn(nodes, va) == {i \in DOMAIN nodes : nodes[i].va = va /\ nodes[i].is_mapped}
Mapped(nodes) ==
  [va \in VA |-> IF MappedIn(nodes, va) = {} THEN NONE ELSE nodes[CHOOSE i \in MappedIn(nodes, va) : TRUE].pa]

(* The pages a process really has are those that the list of the space it  *)
(* is in calls mapped, and a user task is in its own space: no page of a   *)
(* space left behind can be touched, although is_mapped is one flag for    *)
(* all processes.                                                          *)
MmapsAreTheSpaces ==
  \A p \in CPUs :
    /\ mmaps[p] = IF vm_head[p] = NONE THEN Unmapped ELSE Mapped(list[vm_head[p]])
    /\ user[p] => vm_head[p] = SpaceOf[cur[p]]

(* A trap from a user task goes to the top of its own kernel stack, where  *)
(* no context is saved; ksp is left by whoever ran before.                 *)
TrapOnOwnStack ==
  \A p \in CPUs : user[p] => ksp[p] = cur[p] /\ saved[cur[p]] = <<>>

(* thiscpu->ev, which every signal overwrites, is the event of the context *)
(* when irq_handle reads it.                                               *)
EventIsOwn == \A p \in CPUs : phase[p] = "signalled" => ev[p] = cause[p]

(* No processor enters the program before the devices are set up. *)
EntryAfterIoe ==
  has_ioe => \A p \in CPUs : phase[p] \in {"run", "signalled", "irq"} => ioe_init_done

(* What vme.c:46 says of a switch: no page of another space stays mapped. *)
LeavesNothing ==
  \A p \in CPUs, va \in VA : mmaps[p][va] # NONE => vm_head[p] # NONE /\ va \in Vas(vm_head[p])

---------------------------------------------------------------------------
(* The inductive invariant.                                                *)
Events   == {"yield", "syscall", "pagefault", "error"} \cup Async \cup {NONE}
Heads    == Spaces \cup {NONE}
Stacks   == Tasks \cup {NONE}
Nodes    == [va : VA, pa : PA, is_mapped : BOOLEAN]
Contexts == [phase : {"run", "irq"}, user : BOOLEAN, intr : BOOLEAN, vm_head : Heads, ksp : Stacks, cause : Events]

TypeOK ==
  /\ phase \in [CPUs -> {"none", "main", "wait", "release", "run", "signalled", "irq"}]
  /\ released \in Nat /\ pipe \in Nat /\ has_ioe \in BOOLEAN /\ ioe_init_done \in BOOLEAN
  /\ vm_head \in [CPUs -> Heads] /\ ksp \in [CPUs -> Stacks]
  /\ ev \in [CPUs -> Events] /\ cause \in [CPUs -> Events]
  /\ mmaps \in [CPUs -> [VA -> PA \cup {NONE}]]
  /\ intr \in [CPUs -> BOOLEAN] /\ user \in [CPUs -> BOOLEAN]
  /\ cur \in [CPUs -> Tasks]
  /\ list \in [Spaces -> Seq(Nodes)]
  /\ saved \in [Tasks -> Seq(Contexts)]

(* Nothing is entered or let through before the devices are set up. *)
BootOK ==
  has_ioe /\ ~ ioe_init_done => pipe = 0 /\ \A p \in CPUs : phase[p] \in {"none", "main", "wait"}

(* The space a task runs in, in either mode and on every stack. *)
HeadOf(t) == IF t \in UserTasks THEN SpaceOf[t] ELSE NONE

(* On the stack of a user task its user context lies at the top, which is  *)
(* the first, and nowhere else.                                            *)
StacksOK ==
  \A t \in Tasks : \A i \in 1 .. Len(saved[t]) : LET c == saved[t][i] IN
    /\ c.vm_head = HeadOf(t)
    /\ c.user <=> t \in UserTasks /\ i = 1
    /\ c.user => c.ksp = t /\ c.phase = "run"

(* A task is in one processor; a user task is in user mode, with nothing   *)
(* saved, or has its user context saved.                                   *)
RunningOK ==
  /\ \A p, q \in CPUs : cur[p] = cur[q] => p = q
  /\ \A p \in CPUs :
       /\ vm_head[p] = HeadOf(cur[p])
       /\ user[p] => cur[p] \in UserTasks /\ ksp[p] = cur[p] /\ phase[p] = "run"
       /\ cur[p] \in UserTasks => (user[p] <=> saved[cur[p]] = <<>>)

(* The signals stay blocked until irq_handle has read the event. *)
SignalsOK == \A p \in CPUs : phase[p] = "signalled" => ~ intr[p] /\ ev[p] = cause[p]

IInv == TypeOK /\ BootOK /\ StacksOK /\ RunningOK /\ SignalsOK

(* Where no two tasks share a space, no two processors are in one.         *)
OneTaskPerSpace == \A t, u \in UserTasks : SpaceOf[t] = SpaceOf[u] => t = u

ListsOK ==
  \A s \in Spaces : \A i, j \in DOMAIN list[s] : list[s][i].va = list[s][j].va => i = j
PagesOK == \A p \in CPUs : mmaps[p] = IF vm_head[p] = NONE THEN Unmapped ELSE Mapped(list[vm_head[p]])
=============================================================================

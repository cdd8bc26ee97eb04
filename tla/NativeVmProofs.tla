--------------------------- MODULE NativeVmProofs ---------------------------
(* The processes of AM native take their traps on the right stacks, with   *)
(* the right events and pages, for every number of processors and tasks,   *)
(* by the invariant IInv.                                                  *)
EXTENDS NativeVm, TLAPS

(* The first processor is one of them. *)
LEMMA CpuFacts == 0 \in CPUs /\ \A p \in CPUs : p \in Nat
  BY NativeVmAssumption DEF CPUs

(* A stack is empty when it has no context. *)
LEMMA EmptyStack == \A s \in Seq(Contexts) : s = <<>> <=> Len(s) = 0
  OBVIOUS

(* A user task is no kernel task, so its space tells it from one. *)
LEMMA HeadFacts ==
  \A t \in Tasks : /\ HeadOf(t) \in Heads
                   /\ HeadOf(t) = NONE <=> t \in KernelTasks
                   /\ t \in KernelTasks <=> t \notin UserTasks
  BY NativeVmAssumption DEF HeadOf, Heads, Tasks

(* The invariant holds of what each processor boots with. *)
LEMMA InitIInv == Init => IInv
<1> SUFFICES ASSUME Init PROVE IInv
  OBVIOUS
<1> USE NativeVmAssumption, CpuFacts
<1>1. cur \in [CPUs -> KernelTasks] /\ \A p \in CPUs : cur[p] \notin UserTasks
  BY DEF Init
<1>2. TypeOK
  <2>1. mmaps \in [CPUs -> [VA -> PA \cup {NONE}]]
    BY DEF Init, Unmapped
  <2>2. list \in [Spaces -> Seq(Nodes)] /\ saved \in [Tasks -> Seq(Contexts)]
    BY DEF Init
  <2>3. phase \in [CPUs -> {"none", "main", "wait", "release", "run", "signalled", "irq"}]
    BY DEF Init
  <2>4. QED BY <1>1, <2>1, <2>2, <2>3 DEF Init, TypeOK, Events, Heads, Stacks, Tasks
<1>3. BootOK
  BY DEF Init, BootOK
<1>4. StacksOK
  BY DEF Init, StacksOK
<1>5. RunningOK
  BY <1>1 DEF Init, RunningOK, HeadOf
<1>6. SignalsOK
  BY DEF Init, SignalsOK
<1>7. QED
  BY <1>2, <1>3, <1>4, <1>5, <1>6 DEF IInv

(* The start of the processors touches nothing but phase and the pipe. *)
LEMMA BootIInv ==
  ASSUME IInv,
         mpe_ioe \/ mpe_release \/ mpe_entry
           \/ \E p \in CPUs : fork(p) \/ child_entry(p) \/ do_io(p)
  PROVE  IInv'
<1> USE CpuFacts DEF IInv, NotBoot, regs, boot
<1>p. PICK q \in CPUs, ph \in {"none", "main", "wait", "release", "run", "signalled", "irq"} :
        /\ phase' = [phase EXCEPT ![q] = ph]
        /\ ph # phase[q] => phase[q] \in {"none", "main", "wait", "release"} /\ ph \in {"wait", "release", "run"}
  BY DEF mpe_ioe, mpe_release, mpe_entry, fork, child_entry, do_io, To, TypeOK
<1>n. NotBoot /\ has_ioe' = has_ioe
  BY DEF mpe_ioe, mpe_release, mpe_entry, fork, child_entry, do_io
<1>1. TypeOK'
  <2>1. phase' \in [CPUs -> {"none", "main", "wait", "release", "run", "signalled", "irq"}]
    BY <1>p DEF TypeOK
  <2>2. /\ released' \in {released, released + 1}
        /\ pipe' \in {pipe, pipe + 1} \/ (pipe > 0 /\ pipe' = pipe - 1)
        /\ ioe_init_done' \in {ioe_init_done, TRUE, ioe_init_done \/ has_ioe}
    BY DEF mpe_ioe, mpe_release, mpe_entry, fork, child_entry, do_io
  <2>3. released' \in Nat /\ pipe' \in Nat
    BY <2>2 DEF TypeOK
  <2>4. ioe_init_done' \in BOOLEAN
    BY <2>2 DEF TypeOK
  <2>5. QED BY <2>1, <2>3, <2>4, <1>n DEF TypeOK
<1>2. BootOK'
  <2> SUFFICES ASSUME has_ioe, ~ ioe_init_done'
               PROVE  pipe' = 0 /\ \A p \in CPUs : phase'[p] \in {"none", "main", "wait"}
    BY <1>n DEF BootOK
  <2>1. ~ ioe_init_done
    BY DEF TypeOK, mpe_ioe, mpe_release, mpe_entry, fork, child_entry, do_io
  <2>2. pipe = 0 /\ \A p \in CPUs : phase[p] \in {"none", "main", "wait"}
    BY <2>1 DEF BootOK
  <2>a. ~ mpe_ioe
    BY <2>1 DEF mpe_ioe
  <2>b. \A p \in CPUs : ~ do_io(p)
    BY DEF do_io
  <2>c. ~ mpe_release /\ ~ mpe_entry
    BY <2>2 DEF mpe_release, mpe_entry
  <2>d. \A p \in CPUs : ~ child_entry(p)
    BY <2>2 DEF child_entry
  <2>3. PICK p \in CPUs : fork(p)
    BY <2>a, <2>b, <2>c, <2>d
  <2>4. QED BY <2>2, <2>3 DEF fork, To, TypeOK
<1>3. StacksOK'
  BY <1>n DEF StacksOK
<1>4. RunningOK'
  BY <1>n, <1>p DEF RunningOK, TypeOK
<1>5. SignalsOK'
  BY <1>n, <1>p DEF SignalsOK, TypeOK
<1>6. QED
  BY <1>1, <1>2, <1>3, <1>4, <1>5

(* map adds a page to a list, and to the processor's if it is in the space. *)
LEMMA mapIInv ==
  ASSUME IInv, NEW p \in CPUs, NEW s \in Spaces, NEW va \in VA, NEW pa \in PA, map(p, s, va, pa)
  PROVE  IInv'
<1> USE DEF IInv, map, boot, Vas
<1>1. TypeOK'
  <2>1. Node(va, pa, vm_head[p] = s) \in Nodes
    BY DEF Node, Nodes
  <2>2. list[s] \in Seq(Nodes)
    BY DEF TypeOK
  <2>3. <<Node(va, pa, vm_head[p] = s)>> \o list[s] \in Seq(Nodes)
    BY <2>1, <2>2
  <2>4. list' \in [Spaces -> Seq(Nodes)]
    BY <2>3 DEF TypeOK
  <2>5. mmaps' \in [CPUs -> [VA -> PA \cup {NONE}]]
    BY DEF TypeOK
  <2>6. QED BY <2>4, <2>5 DEF TypeOK
<1>2. BootOK' /\ StacksOK'
  BY DEF BootOK, StacksOK
<1>3. RunningOK' /\ SignalsOK'
  BY DEF RunningOK, SignalsOK
<1>4. QED BY <1>1, <1>2, <1>3

(* ucontext and kcontext make the first context of a task that has none. *)
LEMMA makeIInv ==
  ASSUME IInv, NEW p \in CPUs, NEW t \in Tasks, ucontext(p, t) \/ kcontext(p, t)
  PROVE  IInv'
<1> USE NativeVmAssumption DEF IInv, boot, regs
<1>1. PICK c \in Contexts :
        /\ make(p, t, c)
        /\ c.vm_head = HeadOf(t)
        /\ c.user <=> t \in UserTasks
        /\ c.user => c.ksp = t /\ c.phase = "run"
  <2>1. CASE ucontext(p, t)
    <3>1. Context("run", TRUE, TRUE, SpaceOf[t], t, NONE) \in Contexts
      BY <2>1 DEF ucontext, Context, Contexts, Heads, Stacks, Events
    <3>2. QED BY <2>1, <3>1 DEF ucontext, Context, HeadOf
  <2>2. CASE kcontext(p, t)
    <3>1. Context("run", FALSE, TRUE, NONE, NONE, NONE) \in Contexts
      BY DEF Context, Contexts, Heads, Stacks, Events
    <3>2. QED BY <2>2, <3>1, HeadFacts DEF kcontext, Context
  <2>3. QED BY <2>1, <2>2
<1>2. /\ saved' = [saved EXCEPT ![t] = <<c>>]
      /\ \A q \in CPUs : cur[q] # t
      /\ UNCHANGED <<phase, boot, regs, ksp, ev, intr, cur, user, list, cause>>
  BY <1>1 DEF make, Exists
<1>3. TypeOK'
  BY <1>2 DEF TypeOK
<1>4. StacksOK'
  BY <1>1, <1>2 DEF StacksOK, TypeOK
<1>5. BootOK' /\ SignalsOK'
  BY <1>2 DEF BootOK, SignalsOK
<1>6. RunningOK'
  BY <1>2 DEF RunningOK, TypeOK
<1>7. QED BY <1>3, <1>4, <1>5, <1>6

(* iset and a missed signal are the kernel's, which has no event to read. *)
LEMMA QuietIInv ==
  ASSUME IInv, NEW p \in CPUs, iset(p) \/ (\E event \in Async : missed(p, event)) \/ irq_handle(p)
  PROVE  IInv'
<1> USE DEF IInv, boot, regs
<1>1. CASE iset(p)
  <2>1. TypeOK' BY <1>1 DEF iset, TypeOK
  <2>2. BootOK' /\ StacksOK' /\ RunningOK' BY <1>1 DEF iset, BootOK, StacksOK, RunningOK
  <2>3. SignalsOK' BY <1>1 DEF iset, InKernel, SignalsOK, TypeOK
  <2>4. QED BY <2>1, <2>2, <2>3
<1>2. ASSUME NEW event \in Async, missed(p, event) PROVE IInv'
  <2>1. TypeOK' BY <1>2 DEF missed, TypeOK, Events
  <2>2. BootOK' /\ StacksOK' /\ RunningOK' BY <1>2 DEF missed, BootOK, StacksOK, RunningOK
  <2>3. SignalsOK' BY <1>2 DEF missed, InKernel, SignalsOK, TypeOK
  <2>4. QED BY <2>1, <2>2, <2>3
<1>3. CASE irq_handle(p)
  <2>1. TypeOK' BY <1>3 DEF irq_handle, To, TypeOK, Events
  <2>2. BootOK' BY <1>3 DEF irq_handle, To, BootOK, TypeOK
  <2>3. StacksOK' BY <1>3 DEF irq_handle, StacksOK
  <2>4. RunningOK' BY <1>3 DEF irq_handle, To, RunningOK, TypeOK
  <2>5. SignalsOK' BY <1>3 DEF irq_handle, To, SignalsOK, TypeOK
  <2>6. QED BY <2>1, <2>2, <2>3, <2>4, <2>5
<1>4. QED BY <1>1, <1>2, <1>3

(* A signal saves the context on the stack of the task it interrupts: ksp, *)
(* in user mode, is that stack, and the signals are blocked while an       *)
(* event waits to be read.                                                 *)
LEMMA signalIInv ==
  ASSUME IInv, NEW p \in CPUs, NEW event \in Events, signal(p, event), phase[p] \in {"run", "irq"}
  PROVE  IInv'
<1> USE NativeVmAssumption DEF IInv, boot, regs, mask_after
<1> DEFINE c == Context(phase[p], user[p], intr[p], vm_head[p], ksp[p], cause[p])
           t == cur[p]
<1>c. /\ c \in Contexts /\ t \in Tasks
      /\ c.vm_head = HeadOf(t) /\ c.user = user[p]
      /\ c.user => t \in UserTasks /\ c.ksp = t /\ c.phase = "run"
  BY DEF Context, Contexts, TypeOK, RunningOK
<1>s. saved[t] \in Seq(Contexts) /\ (user[p] => saved[t] = <<>>)
  BY <1>c DEF TypeOK, RunningOK
<1>a. saved' = [saved EXCEPT ![t] = Append(saved[t], c)]
  <2>1. CASE user[p]
    <3>1. ksp[p] = t
      BY <2>1 DEF RunningOK
    <3>2. Append(<<>>, c) = <<c>>
      OBVIOUS
    <3>3. saved[t] = <<>>
      BY <2>1, <1>s
    <3>4. QED BY <2>1, <3>1, <3>2, <3>3 DEF signal
  <2>2. CASE ~ user[p]
    BY <2>2 DEF signal
  <2>3. QED BY <2>1, <2>2
<1>u. /\ ev' = [ev EXCEPT ![p] = event] /\ cause' = [cause EXCEPT ![p] = event]
      /\ user' = [user EXCEPT ![p] = FALSE] /\ intr' = [intr EXCEPT ![p] = FALSE]
      /\ phase' = [phase EXCEPT ![p] = "signalled"]
      /\ UNCHANGED <<released, pipe, has_ioe, ioe_init_done, vm_head, mmaps, ksp, cur, list>>
  BY DEF signal, To
<1> HIDE DEF c, t
<1>n. /\ Append(saved[t], c) \in Seq(Contexts)
      /\ Len(Append(saved[t], c)) = Len(saved[t]) + 1
      /\ \A i \in 1 .. Len(saved[t]) : Append(saved[t], c)[i] = saved[t][i]
      /\ Append(saved[t], c)[Len(saved[t]) + 1] = c
      /\ Append(saved[t], c) # <<>>
      /\ Len(saved[t]) \in Nat /\ (saved[t] = <<>> <=> Len(saved[t]) = 0)
  BY <1>c, <1>s
<1>1. TypeOK'
  <2>1. saved' \in [Tasks -> Seq(Contexts)]
    BY <1>a, <1>n DEF TypeOK
  <2>2. QED BY <1>u, <2>1 DEF TypeOK
<1>2. BootOK'
  BY <1>u DEF BootOK, TypeOK
<1>3. StacksOK'
  <2>1. c.user <=> t \in UserTasks /\ Len(saved[t]) + 1 = 1
    <3>1. t \in UserTasks => (user[p] <=> saved[t] = <<>>)
      BY DEF RunningOK, t
    <3>2. QED BY <3>1, <1>c, <1>n
  <2>2. ASSUME NEW i \in 1 .. Len(saved[t]) + 1
        PROVE  LET d == Append(saved[t], c)[i] IN
               /\ d.vm_head = HeadOf(t)
               /\ d.user <=> t \in UserTasks /\ i = 1
               /\ d.user => d.ksp = t /\ d.phase = "run"
    <3>1. CASE i = Len(saved[t]) + 1
      BY <3>1, <2>1, <1>n, <1>c
    <3>2. CASE i \in 1 .. Len(saved[t])
      BY <3>2, <1>n, <1>c DEF StacksOK
    <3>3. QED BY <3>1, <3>2, <1>n
  <2>3. QED BY <2>2, <1>a, <1>n, <1>c DEF StacksOK, TypeOK
<1>4. RunningOK'
  <2>1. \A q \in CPUs \ {p} : cur[q] # t
    BY DEF RunningOK, t
  <2>2. \A q \in CPUs \ {p} : saved'[cur[q]] = saved[cur[q]]
    BY <2>1, <1>a DEF TypeOK
  <2>3. saved'[t] # <<>>
    BY <1>a, <1>n, <1>c DEF TypeOK
  <2>4. QED BY <2>2, <2>3, <1>u DEF RunningOK, TypeOK, t
<1>5. SignalsOK'
  BY <1>u DEF SignalsOK, TypeOK
<1>6. QED BY <1>1, <1>2, <1>3, <1>4, <1>5

(* What munmap and mmap leave, and what marks a list's nodes. *)
LEMMA PageTypes ==
  ASSUME NEW pages \in [VA -> PA \cup {NONE}], NEW nodes \in Seq(Nodes), NEW b \in BOOLEAN
  PROVE  /\ munmap(pages, nodes) \in [VA -> PA \cup {NONE}]
         /\ mmap(pages, nodes) \in [VA -> PA \cup {NONE}]
         /\ Marked(nodes, b) \in Seq(Nodes)
<1>n. \A i \in DOMAIN nodes : nodes[i] \in Nodes
  OBVIOUS
<1>1. munmap(pages, nodes) \in [VA -> PA \cup {NONE}]
  BY DEF munmap
<1>2. mmap(pages, nodes) \in [VA -> PA \cup {NONE}]
  <2>1. ASSUME NEW va \in VA, \E i \in DOMAIN nodes : nodes[i].va = va
        PROVE  nodes[CHOOSE i \in DOMAIN nodes : nodes[i].va = va].pa \in PA
    <3>1. (CHOOSE i \in DOMAIN nodes : nodes[i].va = va) \in DOMAIN nodes
      BY <2>1
    <3>2. QED BY <3>1, <1>n DEF Nodes
  <2>2. QED BY <2>1 DEF mmap
<1>3. Marked(nodes, b) \in Seq(Nodes)
  <2>1. \A i \in DOMAIN nodes : [nodes[i] EXCEPT !.is_mapped = b] \in Nodes
    BY <1>n DEF Nodes
  <2>2. DOMAIN nodes = 1 .. Len(nodes) /\ Len(nodes) \in Nat
    OBVIOUS
  <2>3. QED BY <2>1, <2>2 DEF Marked
<1>4. QED BY <1>1, <1>2, <1>3

(* A switch to a space, or to none. *)
LEMMA SwitchTypes ==
  ASSUME TypeOK, NEW p \in CPUs, NEW head \in Heads, am_switch(p, head)
  PROVE  /\ vm_head' = [vm_head EXCEPT ![p] = head]
         /\ mmaps' \in [CPUs -> [VA -> PA \cup {NONE}]]
         /\ list' \in [Spaces -> Seq(Nodes)]
<1> USE NativeVmAssumption DEF TypeOK, Heads
<1>1. CASE head = vm_head[p]
  BY <1>1 DEF am_switch
<1>2. CASE head # vm_head[p]
  <2> DEFINE old == vm_head[p]
             left == IF old = NONE THEN mmaps[p] ELSE munmap(mmaps[p], list[old])
  <2>1. left \in [VA -> PA \cup {NONE}]
    BY PageTypes
  <2>2. (IF head = NONE THEN left ELSE mmap(left, list[head])) \in [VA -> PA \cup {NONE}]
    BY <2>1, PageTypes
  <2>3. \A s \in Spaces : Marked(list[s], TRUE) \in Seq(Nodes) /\ Marked(list[s], FALSE) \in Seq(Nodes)
    BY PageTypes
  <2>4. /\ mmaps' = [mmaps EXCEPT ![p] = IF head = NONE THEN left ELSE mmap(left, list[head])]
        /\ list' = [s \in Spaces |-> IF s = head THEN Marked(list[s], TRUE)
                                     ELSE IF s = old THEN Marked(list[s], FALSE) ELSE list[s]]
        /\ vm_head' = [vm_head EXCEPT ![p] = head]
    BY <1>2 DEF am_switch
  <2> HIDE DEF left
  <2>5. mmaps' \in [CPUs -> [VA -> PA \cup {NONE}]]
    BY <2>2, <2>4
  <2>6. list' \in [Spaces -> Seq(Nodes)]
    BY <2>3, <2>4
  <2>7. QED BY <2>4, <2>5, <2>6
<1>3. QED BY <1>1, <1>2

(* irq_handle returns to the latest context of a task: it takes it off the *)
(* task's stack, and with the last one the task is back in user mode.      *)
LEMMA irq_returnIInv ==
  ASSUME IInv, NEW p \in CPUs, NEW t \in Tasks, irq_return(p, t)
  PROVE  IInv'
<1> USE NativeVmAssumption DEF IInv
<1> DEFINE n == Len(saved[t])
           c == saved[t][n]
           rest == SubSeq(saved[t], 1, n - 1)
<1>s. saved[t] \in Seq(Contexts) /\ saved[t] # <<>>
  BY DEF TypeOK, irq_return
<1>n. /\ n \in Nat /\ n > 0 /\ c \in Contexts
      /\ rest \in Seq(Contexts) /\ Len(rest) = n - 1
      /\ \A i \in 1 .. n - 1 : rest[i] = saved[t][i]
      /\ rest = <<>> <=> n = 1
  <2>1. n \in Nat /\ n > 0 /\ c \in Contexts
    BY <1>s
  <2>2. rest \in Seq(Contexts) /\ Len(rest) = n - 1 /\ \A i \in 1 .. n - 1 : rest[i] = saved[t][i]
    BY <1>s, <2>1
  <2> HIDE DEF n, c, rest
  <2>3. rest = <<>> <=> Len(rest) = 0
    BY <2>2, EmptyStack
  <2>4. QED BY <2>1, <2>2, <2>3
<1>c. /\ c.vm_head = HeadOf(t)
      /\ c.user <=> t \in UserTasks /\ n = 1
      /\ c.user => c.ksp = t /\ c.phase = "run"
  BY <1>n DEF StacksOK
<1>u. /\ phase[p] = "irq" /\ \A q \in CPUs \ {p} : cur[q] # t
      /\ am_switch(p, c.vm_head)
      /\ ev' = [ev EXCEPT ![p] = "error"] /\ ksp' = [ksp EXCEPT ![p] = c.ksp]
      /\ phase' = [phase EXCEPT ![p] = c.phase]
      /\ user' = [user EXCEPT ![p] = c.user] /\ intr' = [intr EXCEPT ![p] = c.intr]
      /\ cause' = [cause EXCEPT ![p] = c.cause]
      /\ saved' = [saved EXCEPT ![t] = rest] /\ cur' = [cur EXCEPT ![p] = t]
      /\ UNCHANGED <<released, pipe, has_ioe, ioe_init_done>>
  BY DEF irq_return, iret, ksp_after, To, boot
<1>t. /\ c.phase \in {"run", "irq"} /\ c.user \in BOOLEAN /\ c.intr \in BOOLEAN
      /\ c.vm_head \in Heads /\ c.ksp \in Stacks /\ c.cause \in Events
  BY <1>n DEF Contexts
<1> HIDE DEF n, c, rest
<1>v. /\ vm_head' = [vm_head EXCEPT ![p] = HeadOf(t)]
      /\ mmaps' \in [CPUs -> [VA -> PA \cup {NONE}]]
      /\ list' \in [Spaces -> Seq(Nodes)]
  BY <1>u, <1>t, <1>c, SwitchTypes
<1>1. TypeOK'
  <2>1. saved' \in [Tasks -> Seq(Contexts)]
    BY <1>u, <1>n DEF TypeOK
  <2>2. vm_head' \in [CPUs -> Heads]
    BY <1>v, HeadFacts DEF TypeOK
  <2>3. QED BY <1>u, <1>t, <1>v, <2>1, <2>2 DEF TypeOK, Events
<1>2. BootOK'
  BY <1>u DEF BootOK, TypeOK
<1>3. StacksOK'
  <2>1. \A v \in Tasks : saved'[v] = IF v = t THEN rest ELSE saved[v]
    BY <1>u DEF TypeOK
  <2>2. \A i \in 1 .. n - 1 : LET d == saved[t][i] IN
          /\ d.vm_head = HeadOf(t)
          /\ d.user <=> t \in UserTasks /\ i = 1
          /\ d.user => d.ksp = t /\ d.phase = "run"
    BY <1>n DEF StacksOK, n
  <2>3. QED BY <2>1, <2>2, <1>n DEF StacksOK
<1>4. RunningOK'
  <2>1. \A q, r \in CPUs : cur'[q] = cur'[r] => q = r
    BY <1>u DEF RunningOK, TypeOK
  <2>2. \A q \in CPUs : vm_head'[q] = HeadOf(cur'[q])
    BY <1>u, <1>v DEF RunningOK, TypeOK
  <2>3. ASSUME NEW q \in CPUs
        PROVE  /\ user'[q] => cur'[q] \in UserTasks /\ ksp'[q] = cur'[q] /\ phase'[q] = "run"
               /\ cur'[q] \in UserTasks => (user'[q] <=> saved'[cur'[q]] = <<>>)
    <3>1. CASE q = p
      BY <3>1, <1>u, <1>n, <1>c DEF TypeOK
    <3>2. CASE q # p
      <4>1. /\ cur'[q] = cur[q] /\ user'[q] = user[q] /\ ksp'[q] = ksp[q] /\ phase'[q] = phase[q]
            /\ saved'[cur[q]] = saved[cur[q]]
        BY <3>2, <1>u DEF TypeOK
      <4>2. QED BY <4>1 DEF RunningOK
    <3>3. QED BY <3>1, <3>2
  <2>4. QED BY <2>1, <2>2, <2>3 DEF RunningOK
<1>5. SignalsOK'
  BY <1>u, <1>t DEF SignalsOK, TypeOK
<1>6. QED BY <1>1, <1>2, <1>3, <1>4, <1>5

(* Every step keeps the invariant. *)
LEMMA NextIInv == IInv /\ [Next]_vars => IInv'
<1> SUFFICES ASSUME IInv, [Next]_vars PROVE IInv'
  OBVIOUS
<1>1. CASE mpe_ioe \/ mpe_release \/ mpe_entry \/ \E p \in CPUs : fork(p) \/ child_entry(p) \/ do_io(p)
  BY <1>1, BootIInv
<1>2. ASSUME NEW p \in CPUs, NEW s \in Spaces, NEW va \in VA, NEW pa \in PA, map(p, s, va, pa)
      PROVE  IInv'
  BY <1>2, mapIInv
<1>3. ASSUME NEW p \in CPUs, NEW t \in Tasks, ucontext(p, t) \/ kcontext(p, t) PROVE IInv'
  BY <1>3, makeIInv
<1>4. ASSUME NEW p \in CPUs, NEW t \in Tasks, irq_return(p, t) PROVE IInv'
  BY <1>4, irq_returnIInv
<1>5. ASSUME NEW p \in CPUs, iset(p) \/ irq_handle(p) \/ \E event \in Async : missed(p, event) PROVE IInv'
  BY <1>5, QuietIInv
<1>6. ASSUME NEW p \in CPUs,
             yield(p) \/ syscall(p) \/ (\E va \in VA : fault(p, va)) \/ \E event \in Async : interrupt(p, event)
      PROVE  IInv'
  <2>1. phase[p] \in {"run", "irq"}
    BY <1>6 DEF yield, syscall, fault, interrupt, IInv, RunningOK, SignalsOK
  <2>2. PICK event \in Events : signal(p, event)
    BY <1>6 DEF yield, syscall, fault, interrupt, Events
  <2>3. QED BY <2>1, <2>2, signalIInv
<1>7. CASE UNCHANGED vars
  <2> USE <1>7 DEF IInv, vars, boot, regs
  <2>1. TypeOK'
    BY DEF TypeOK
  <2>2. BootOK' /\ StacksOK'
    BY DEF BootOK, StacksOK
  <2>3. RunningOK' /\ SignalsOK'
    BY DEF RunningOK, SignalsOK
  <2>4. QED BY <2>1, <2>2, <2>3
<1>8. QED
  BY <1>1, <1>2, <1>3, <1>4, <1>5, <1>6, <1>7 DEF Next

(* The invariant holds in every reachable state. *)
THEOREM NativeVmInvariant == Spec => []IInv
<1>1. Init => IInv
  BY InitIInv
<1>2. IInv /\ [Next]_vars => IInv'
  BY NextIInv
<1>3. QED
  BY <1>1, <1>2, PTL DEF Spec

(* A trap from a user task goes to the top of its own kernel stack, where  *)
(* no context is saved, for any number of processors and any nesting.      *)
THEOREM TrapOnOwnStackHolds == Spec => []TrapOnOwnStack
<1>1. IInv => TrapOnOwnStack
  BY DEF IInv, RunningOK, TrapOnOwnStack
<1>2. QED
  BY <1>1, NativeVmInvariant, PTL

(* The event irq_handle reads is the one of the context it comes for.      *)
THEOREM EventIsOwnHolds == Spec => []EventIsOwn
<1>1. IInv => EventIsOwn
  BY DEF IInv, SignalsOK, EventIsOwn
<1>2. QED
  BY <1>1, NativeVmInvariant, PTL

(* No processor enters the program before the devices are set up.          *)
THEOREM EntryAfterIoeHolds == Spec => []EntryAfterIoe
<1>1. IInv => EntryAfterIoe
  BY DEF IInv, BootOK, EntryAfterIoe
<1>2. QED
  BY <1>1, NativeVmInvariant, PTL

---------------------------------------------------------------------------
(* The pages of the processes.                                             *)

(* No page is in a list twice. *)
Once(nodes) == \A i, j \in DOMAIN nodes : nodes[i].va = nodes[j].va => i = j

(* What a list calls mapped, page by page. *)
LEMMA MappedIs ==
  ASSUME NEW nodes, Once(nodes), NEW va \in VA
  PROVE  /\ \A i \in DOMAIN nodes :
               nodes[i].va = va /\ nodes[i].is_mapped => Mapped(nodes)[va] = nodes[i].pa
         /\ (\A i \in DOMAIN nodes : ~ (nodes[i].va = va /\ nodes[i].is_mapped)) => Mapped(nodes)[va] = NONE
         /\ Mapped(nodes) = [v \in VA |-> Mapped(nodes)[v]]
<1>1. ASSUME NEW i \in DOMAIN nodes, nodes[i].va = va, nodes[i].is_mapped
      PROVE  Mapped(nodes)[va] = nodes[i].pa
  <2>1. MappedIn(nodes, va) # {}
    BY <1>1 DEF MappedIn
  <2>2. (CHOOSE j \in MappedIn(nodes, va) : TRUE) \in MappedIn(nodes, va)
    BY <2>1
  <2>3. (CHOOSE j \in MappedIn(nodes, va) : TRUE) = i
    BY <1>1, <2>2 DEF MappedIn, Once
  <2>4. QED BY <2>1, <2>3 DEF Mapped
<1>2. ASSUME \A i \in DOMAIN nodes : ~ (nodes[i].va = va /\ nodes[i].is_mapped)
      PROVE  Mapped(nodes)[va] = NONE
  <2>1. MappedIn(nodes, va) = {}
    BY <1>2 DEF MappedIn
  <2>2. QED BY <2>1 DEF Mapped
<1>3. Mapped(nodes) = [v \in VA |-> Mapped(nodes)[v]]
  BY DEF Mapped
<1>4. QED BY <1>1, <1>2, <1>3

(* A new node at the front, for a page the list does not have. *)
LEMMA MappedPrepend ==
  ASSUME NEW nodes \in Seq(Nodes), Once(nodes), NEW node \in Nodes,
         \A i \in DOMAIN nodes : nodes[i].va # node.va
  PROVE  /\ Once(<<node>> \o nodes)
         /\ Mapped(<<node>> \o nodes) =
              IF node.is_mapped THEN [Mapped(nodes) EXCEPT ![node.va] = node.pa] ELSE Mapped(nodes)
<1> DEFINE longer == <<node>> \o nodes
<1>1. /\ longer \in Seq(Nodes) /\ Len(nodes) \in Nat
      /\ DOMAIN nodes = 1 .. Len(nodes) /\ DOMAIN longer = 1 .. Len(nodes) + 1
      /\ longer[1] = node /\ \A i \in 1 .. Len(nodes) : longer[i + 1] = nodes[i]
  OBVIOUS
<1> HIDE DEF longer
<1>2. \A j \in DOMAIN longer : j = 1 \/ (j - 1 \in DOMAIN nodes /\ longer[j] = nodes[j - 1])
  <2> TAKE j \in DOMAIN longer
  <2>1. CASE j # 1
    <3>1. j - 1 \in 1 .. Len(nodes) /\ (j - 1) + 1 = j
      BY <2>1, <1>1
    <3>2. QED BY <3>1, <1>1
  <2>2. QED BY <2>1
<1>3. Once(longer)
  <2> SUFFICES ASSUME NEW i \in DOMAIN longer, NEW j \in DOMAIN longer, longer[i].va = longer[j].va
               PROVE  i = j
    BY DEF Once
  <2>1. CASE i = 1 \/ j = 1
    BY <2>1, <1>1, <1>2
  <2>2. CASE i # 1 /\ j # 1
    <3>1. i - 1 = j - 1
      BY <2>2, <1>2 DEF Once
    <3>2. QED BY <3>1, <1>1
  <2>3. QED BY <2>1, <2>2
<1>4. ASSUME NEW va \in VA
      PROVE  Mapped(longer)[va] =
               IF node.is_mapped /\ va = node.va THEN node.pa ELSE Mapped(nodes)[va]
  <2>1. CASE node.is_mapped /\ va = node.va
    <3>1. 1 \in DOMAIN longer
      BY <1>1
    <3>2. QED BY <2>1, <3>1, <1>1, <1>3, MappedIs
  <2>2. CASE ~ (node.is_mapped /\ va = node.va)
    <3>1. CASE \E i \in DOMAIN nodes : nodes[i].va = va /\ nodes[i].is_mapped
      <4>1. PICK i \in DOMAIN nodes : nodes[i].va = va /\ nodes[i].is_mapped
        BY <3>1
      <4>2. i + 1 \in DOMAIN longer /\ longer[i + 1] = nodes[i]
        BY <1>1
      <4>3. Mapped(longer)[va] = nodes[i].pa
        BY <4>1, <4>2, <1>3, MappedIs
      <4>4. Mapped(nodes)[va] = nodes[i].pa
        BY <4>1, MappedIs
      <4>5. QED BY <4>3, <4>4, <2>2
    <3>2. CASE \A i \in DOMAIN nodes : ~ (nodes[i].va = va /\ nodes[i].is_mapped)
      <4>1. \A j \in DOMAIN longer : ~ (longer[j].va = va /\ longer[j].is_mapped)
        BY <3>2, <2>2, <1>1, <1>2
      <4>2. QED BY <3>2, <4>1, <2>2, <1>3, MappedIs
    <3>3. QED BY <3>1, <3>2
  <2>3. QED BY <2>1, <2>2
<1>5. node.va \in VA
  BY DEF Nodes
<1>6. Mapped(longer) = IF node.is_mapped THEN [Mapped(nodes) EXCEPT ![node.va] = node.pa] ELSE Mapped(nodes)
  BY <1>4, <1>5 DEF Mapped
<1>7. QED BY <1>3, <1>6 DEF longer

(* Marking changes no page; all marked, mmap maps what the list then says. *)
LEMMA MarkedFacts ==
  ASSUME NEW nodes \in Seq(Nodes), Once(nodes), NEW b \in BOOLEAN
  PROVE  /\ Once(Marked(nodes, b))
         /\ \A va \in VA : mmap(Unmapped, nodes)[va] = Mapped(Marked(nodes, TRUE))[va]
<1>n. \A i \in DOMAIN nodes : nodes[i] \in Nodes
  OBVIOUS
<1>1. ASSUME NEW m \in BOOLEAN
      PROVE  /\ DOMAIN Marked(nodes, m) = DOMAIN nodes
             /\ \A i \in DOMAIN nodes : /\ Marked(nodes, m)[i].va = nodes[i].va
                                      /\ Marked(nodes, m)[i].pa = nodes[i].pa
                                      /\ Marked(nodes, m)[i].is_mapped = m
  BY <1>n DEF Marked, Nodes
<1>2. \A m \in BOOLEAN : Once(Marked(nodes, m))
  BY <1>1 DEF Once
<1>3. ASSUME NEW va \in VA
      PROVE  mmap(Unmapped, nodes)[va] = Mapped(Marked(nodes, TRUE))[va]
  <2> DEFINE all == Marked(nodes, TRUE)
  <2>a. /\ Once(all) /\ DOMAIN all = DOMAIN nodes
        /\ \A i \in DOMAIN nodes : all[i].va = nodes[i].va /\ all[i].pa = nodes[i].pa /\ all[i].is_mapped
    BY <1>1, <1>2
  <2> HIDE DEF all
  <2>1. CASE \E i \in DOMAIN nodes : nodes[i].va = va
    <3> DEFINE i == CHOOSE j \in DOMAIN nodes : nodes[j].va = va
    <3>1. i \in DOMAIN nodes /\ nodes[i].va = va
      BY <2>1
    <3>2. mmap(Unmapped, nodes)[va] = nodes[i].pa
      BY <2>1 DEF mmap
    <3> HIDE DEF i
    <3>3. Mapped(all)[va] = all[i].pa
      BY <3>1, <2>a, MappedIs
    <3>4. QED BY <3>1, <3>2, <3>3, <2>a DEF all
  <2>2. CASE ~ \E i \in DOMAIN nodes : nodes[i].va = va
    <3>1. mmap(Unmapped, nodes)[va] = NONE
      BY <2>2 DEF mmap, Unmapped
    <3>2. Mapped(all)[va] = NONE
      BY <2>2, <2>a, MappedIs
    <3>3. QED BY <3>1, <3>2 DEF all
  <2>3. QED BY <2>1, <2>2
<1>4. QED BY <1>2, <1>3

(* munmap takes away all that the list calls mapped. *)
LEMMA MunmapAll ==
  ASSUME NEW nodes, Once(nodes)
  PROVE  munmap(Mapped(nodes), nodes) = Unmapped
<1>1. ASSUME NEW va \in VA PROVE munmap(Mapped(nodes), nodes)[va] = NONE
  BY MappedIs DEF munmap
<1>2. QED BY <1>1 DEF munmap, Unmapped

(* Two processors are never in one space. *)
LEMMA SpacesApart ==
  ASSUME IInv, OneTaskPerSpace, NEW p \in CPUs, NEW q \in CPUs, vm_head[p] = vm_head[q], vm_head[p] # NONE
  PROVE  p = q
<1>1. HeadOf(cur[p]) = HeadOf(cur[q]) /\ HeadOf(cur[p]) # NONE
  BY DEF IInv, RunningOK
<1>2. cur[p] \in UserTasks /\ cur[q] \in UserTasks /\ SpaceOf[cur[p]] = SpaceOf[cur[q]]
  BY <1>1 DEF HeadOf
<1>3. QED BY <1>2 DEF OneTaskPerSpace, IInv, RunningOK

(* What map does to the lists and to the processors' pages. *)
LEMMA mapPages ==
  ASSUME IInv, ListsOK, PagesOK, OneTaskPerSpace,
         NEW p \in CPUs, NEW s \in Spaces, NEW va \in VA, NEW pa \in PA, map(p, s, va, pa)
  PROVE  ListsOK' /\ PagesOK'
<1> DEFINE node == Node(va, pa, vm_head[p] = s)
           longer == <<node>> \o list[s]
<1>1. /\ node \in Nodes /\ list[s] \in Seq(Nodes) /\ Once(list[s])
      /\ \A i \in DOMAIN list[s] : list[s][i].va # node.va
  BY DEF Node, Nodes, IInv, TypeOK, map, Vas, ListsOK, Once
<1>2. /\ node.va = va /\ node.pa = pa /\ node.is_mapped = (vm_head[p] = s)
      /\ UNCHANGED vm_head
      /\ list' = [list EXCEPT ![s] = longer]
      /\ mmaps' = IF vm_head[p] = s THEN [mmaps EXCEPT ![p][va] = pa] ELSE mmaps
  BY DEF Node, map
<1> HIDE DEF node
<1>3. /\ Once(longer)
      /\ Mapped(longer) = IF vm_head[p] = s THEN [Mapped(list[s]) EXCEPT ![va] = pa] ELSE Mapped(list[s])
  BY <1>1, <1>2, MappedPrepend
<1> HIDE DEF longer
<1>4. \A r \in Spaces : list'[r] = IF r = s THEN longer ELSE list[r]
  BY <1>2 DEF IInv, TypeOK
<1>5. ListsOK'
  BY <1>3, <1>4 DEF ListsOK, Once
<1>6. ASSUME NEW q \in CPUs
      PROVE  mmaps'[q] = IF vm_head'[q] = NONE THEN Unmapped ELSE Mapped(list'[vm_head'[q]])
  <2>1. CASE vm_head[q] # s
    <3>1. mmaps'[q] = mmaps[q]
      BY <2>1, <1>2 DEF IInv, TypeOK
    <3>2. QED BY <2>1, <3>1, <1>2, <1>4 DEF PagesOK, IInv, TypeOK, Heads
  <2>2. CASE vm_head[q] = s /\ q = p
    <3>1. mmaps[q] = Mapped(list[s]) /\ s # NONE
      BY <2>2, NativeVmAssumption DEF PagesOK
    <3>2. mmaps'[q] = [Mapped(list[s]) EXCEPT ![va] = pa]
      BY <2>2, <3>1, <1>2 DEF IInv, TypeOK
    <3>3. QED BY <2>2, <3>1, <3>2, <1>2, <1>3, <1>4
  <2>3. CASE vm_head[q] = s /\ q # p
    <3>1. vm_head[p] # s
      BY <2>3, NativeVmAssumption, SpacesApart
    <3>2. mmaps[q] = Mapped(list[s]) /\ s # NONE
      BY <2>3, NativeVmAssumption DEF PagesOK
    <3>3. QED BY <2>3, <3>1, <3>2, <1>2, <1>3, <1>4
  <2>4. QED BY <2>1, <2>2, <2>3
<1>7. QED BY <1>5, <1>6 DEF PagesOK

(* What a switch does to them: no other processor is in the space left or  *)
(* in the one entered, so that the flags of both are this processor's.     *)
LEMMA switchPages ==
  ASSUME IInv, ListsOK, PagesOK, OneTaskPerSpace,
         NEW p \in CPUs, NEW head \in Heads, am_switch(p, head),
         \A q \in CPUs \ {p} : head # NONE => vm_head[q] # head
  PROVE  ListsOK' /\ PagesOK'
<1> DEFINE old == vm_head[p]
<1>t. /\ \A s \in Spaces : list[s] \in Seq(Nodes) /\ Once(list[s]) /\ s # NONE
      /\ vm_head \in [CPUs -> Heads]
      /\ mmaps \in [CPUs -> [VA -> PA \cup {NONE}]]
  BY NativeVmAssumption DEF IInv, TypeOK, ListsOK, Once
<1>1. CASE head = old
  BY <1>1 DEF am_switch, ListsOK, PagesOK
<1>2. CASE head # old
  <2>1. /\ mmaps' = [mmaps EXCEPT ![p] = IF head = NONE
                       THEN IF old = NONE THEN mmaps[p] ELSE munmap(mmaps[p], list[old])
                       ELSE mmap(IF old = NONE THEN mmaps[p] ELSE munmap(mmaps[p], list[old]), list[head])]
        /\ list' = [s \in Spaces |-> IF s = head THEN Marked(list[s], TRUE)
                                     ELSE IF s = old THEN Marked(list[s], FALSE) ELSE list[s]]
        /\ vm_head' = [vm_head EXCEPT ![p] = head]
    BY <1>2 DEF am_switch
  <2>2. (IF old = NONE THEN mmaps[p] ELSE munmap(mmaps[p], list[old])) = Unmapped
    BY <1>t, MunmapAll DEF PagesOK, Heads
  <2>3. mmaps'[p] = IF head = NONE THEN Unmapped ELSE mmap(Unmapped, list[head])
    BY <1>t, <2>1, <2>2
  <2>4. ListsOK'
    <3>1. \A s \in Spaces : Once(list'[s])
      BY <1>t, <2>1, MarkedFacts
    <3>2. QED BY <3>1 DEF ListsOK, Once
  <2>5. ASSUME NEW q \in CPUs \ {p}
        PROVE  mmaps'[q] = IF vm_head'[q] = NONE THEN Unmapped ELSE Mapped(list'[vm_head'[q]])
    <3>1. vm_head'[q] = vm_head[q] /\ mmaps'[q] = mmaps[q]
      BY <1>t, <2>1
    <3>2. vm_head[q] # NONE => vm_head[q] # head /\ vm_head[q] # old
      BY SpacesApart
    <3>3. vm_head[q] # NONE => list'[vm_head[q]] = list[vm_head[q]]
      BY <3>2, <2>1, <1>t DEF Heads
    <3>4. QED BY <3>1, <3>3 DEF PagesOK
  <2>6. mmaps'[p] = IF vm_head'[p] = NONE THEN Unmapped ELSE Mapped(list'[vm_head'[p]])
    <3>1. vm_head'[p] = head
      BY <2>1, <1>t
    <3>2. CASE head = NONE
      BY <3>1, <3>2, <2>3
    <3>3. CASE head # NONE
      <4>1. head \in Spaces /\ list'[head] = Marked(list[head], TRUE)
        BY <3>3, <2>1 DEF Heads
      <4>2. \A va \in VA : mmap(Unmapped, list[head])[va] = Mapped(Marked(list[head], TRUE))[va]
        BY <4>1, <1>t, MarkedFacts
      <4>3. mmap(Unmapped, list[head]) = Mapped(Marked(list[head], TRUE))
        BY <4>2 DEF mmap, Mapped
      <4>4. QED BY <3>1, <3>3, <4>1, <4>3, <2>3
    <3>4. QED BY <3>2, <3>3
  <2>7. QED BY <2>4, <2>5, <2>6 DEF PagesOK
<1>3. QED BY <1>1, <1>2

(* Every step keeps the lists and the pages in agreement. *)
LEMMA NextPages ==
  ASSUME OneTaskPerSpace, IInv, ListsOK, PagesOK, [Next]_vars
  PROVE  ListsOK' /\ PagesOK'
<1>1. ASSUME NEW p \in CPUs, NEW s \in Spaces, NEW va \in VA, NEW pa \in PA, map(p, s, va, pa)
      PROVE  ListsOK' /\ PagesOK'
  BY <1>1, mapPages
<1>2. ASSUME NEW p \in CPUs, NEW t \in Tasks, irq_return(p, t)
      PROVE  ListsOK' /\ PagesOK'
  <2> DEFINE c == saved[t][Len(saved[t])]
  <2>1. am_switch(p, c.vm_head) /\ \A q \in CPUs \ {p} : cur[q] # t
    BY <1>2 DEF irq_return
  <2>2. saved[t] \in Seq(Contexts) /\ saved[t] # <<>>
    BY <1>2 DEF irq_return, IInv, TypeOK
  <2>3. Len(saved[t]) \in 1 .. Len(saved[t])
    BY <2>2
  <2>4. c.vm_head = HeadOf(t)
    BY <2>3 DEF IInv, StacksOK
  <2>5. HeadOf(t) \in Heads
    BY HeadFacts
  <2>6. \A q \in CPUs \ {p} : HeadOf(t) # NONE => vm_head[q] # HeadOf(t)
    BY <2>1, NativeVmAssumption DEF IInv, TypeOK, RunningOK, HeadOf, OneTaskPerSpace
  <2>7. QED BY <2>1, <2>4, <2>5, <2>6, switchPages
<1>3. CASE UNCHANGED <<list, vm_head, mmaps>>
  BY <1>3 DEF ListsOK, PagesOK
<1>4. ASSUME mpe_ioe \/ mpe_release \/ mpe_entry \/ UNCHANGED vars
      PROVE  UNCHANGED <<list, vm_head, mmaps>>
  BY <1>4 DEF vars, regs, NotBoot, mpe_ioe, mpe_release, mpe_entry
<1>5. ASSUME NEW p \in CPUs,
             \/ fork(p) \/ child_entry(p) \/ do_io(p) \/ iset(p)
             \/ \E t \in Tasks : ucontext(p, t) \/ kcontext(p, t)
      PROVE  UNCHANGED <<list, vm_head, mmaps>>
  BY <1>5 DEF regs, NotBoot, fork, child_entry, do_io, iset, ucontext, kcontext, make
<1>6. ASSUME NEW p \in CPUs,
             \/ yield(p) \/ syscall(p) \/ irq_handle(p)
             \/ \E va \in VA : fault(p, va)
             \/ \E event \in Async : interrupt(p, event) \/ missed(p, event)
      PROVE  UNCHANGED <<list, vm_head, mmaps>>
  BY <1>6 DEF regs, NotBoot, yield, syscall, fault, interrupt, signal, missed, irq_handle
<1>7. QED
  BY <1>1, <1>2, <1>3, <1>4, <1>5, <1>6 DEF Next

(* The processes have the pages that the lists say, and only those of the  *)
(* space they are in, as long as no space has two tasks.                   *)
THEOREM PagesInvariant == OneTaskPerSpace => (Spec => [](IInv /\ ListsOK /\ PagesOK))
<1> SUFFICES ASSUME OneTaskPerSpace PROVE Spec => [](IInv /\ ListsOK /\ PagesOK)
  OBVIOUS
<1>1. Init => IInv /\ ListsOK /\ PagesOK
  BY InitIInv DEF Init, ListsOK, PagesOK
<1>2. IInv /\ ListsOK /\ PagesOK /\ [Next]_vars => (IInv /\ ListsOK /\ PagesOK)'
  BY NextIInv, NextPages
<1>3. QED
  BY <1>1, <1>2, PTL DEF Spec

(* The pages a process really has are those of its space, and a user task  *)
(* is in its own: it needs a task for each space, since is_mapped is one   *)
(* flag for all processes.                                                 *)
THEOREM MmapsAreTheSpacesHolds == OneTaskPerSpace => (Spec => []MmapsAreTheSpaces)
<1> SUFFICES ASSUME OneTaskPerSpace PROVE Spec => []MmapsAreTheSpaces
  OBVIOUS
<1>1. IInv /\ PagesOK => MmapsAreTheSpaces
  BY DEF IInv, RunningOK, HeadOf, PagesOK, MmapsAreTheSpaces
<1>2. QED
  BY <1>1, PagesInvariant, PTL

(* Then a switch leaves no page of another space, as vme.c:46 says.        *)
THEOREM LeavesNothingHolds == OneTaskPerSpace => (Spec => []LeavesNothing)
<1> SUFFICES ASSUME OneTaskPerSpace PROVE Spec => []LeavesNothing
  OBVIOUS
<1>1. IInv /\ PagesOK => LeavesNothing
  <2> SUFFICES ASSUME PagesOK, NEW p \in CPUs, NEW va \in VA, mmaps[p][va] # NONE
               PROVE  vm_head[p] # NONE /\ va \in Vas(vm_head[p])
    BY DEF LeavesNothing
  <2>1. vm_head[p] # NONE /\ Mapped(list[vm_head[p]])[va] # NONE
    BY DEF PagesOK, Unmapped
  <2>2. MappedIn(list[vm_head[p]], va) # {}
    BY <2>1 DEF Mapped
  <2>3. QED BY <2>1, <2>2 DEF MappedIn, Vas
<1>2. QED
  BY <1>1, PagesInvariant, PTL
=============================================================================

------------------------------- MODULE X86Vm -------------------------------
(***************************************************************************)
(* Address spaces and contexts of AM on x86-qemu: vme.c, cte.c, trap64.S.  *)
(* The kernel above AM decides when to call map, unprotect, ucontext, ...  *)
(* and which saved context its trap handler returns; it is external and    *)
(* only assumed not to tear down a space that is loaded or still has       *)
(* tasks, and to map whole pages of the user's area (vme.c:142-144).  A    *)
(* task is named by its kernel stack.                                      *)
(***************************************************************************)
EXTENDS Naturals

CONSTANTS
  Processors, Spaces,
  UserTasks, KernelTasks,
  SpaceOf,   \* the space of each user task
  BootTask,  \* the kernel task each processor boots with
  Runs,      \* the tasks the kernel runs on a processor
  Pages,     \* what pgalloc hands out
  kpt, kpd,  \* the kernel's root table and the one below it
  LEVELS,    \* mmu.ptlevels
  VA,        \* virtual pages: the index of each level
  PA,        \* frames with a protection
  NONE

Tasks == UserTasks \cup KernelTasks
KIDX  == 0   \* the index of the kernel's area in a root table

KernelTables == {kpt, kpd}
Contexts == [cr3 : Pages \cup {kpt, NONE}, rsp0 : UserTasks \cup {NONE}]

\* No page of a user's area lies under the kernel's entry.
ASSUME VmAssumption ==
  /\ LEVELS \in Nat \ {0}
  /\ Pages \subseteq Nat /\ kpt \notin Pages /\ kpd \notin Pages /\ kpt # kpd
  /\ UserTasks \cap KernelTasks = {}
  /\ SpaceOf \in [UserTasks -> Spaces]
  /\ BootTask \in [Processors -> KernelTasks]
  /\ Runs \in [Processors -> SUBSET Tasks]
  /\ VA \subseteq [1 .. LEVELS -> Nat] /\ \A va \in VA : va[1] # KIDX
  /\ NONE \notin Pages \cup KernelTables \cup PA \cup Contexts

VARIABLES
  live, ptr,   \* the spaces in use; as->ptr
  pt, used,    \* the present entries of each table; the pages given out
  cr3, rsp0, tlb,
  cur, mode,   \* the task of each processor; in it or in the trap handler
  ctx,         \* the saved context of each task, or NONE
  panicked,
  asked,       \* ghost: what map was asked to make of each page
  remote       \* ghost: another processor unmapped a page of the space loaded here

space  == <<live, ptr, pt, used, asked>>
cpu    == <<cr3, rsp0, tlb, cur, mode, ctx, remote>>
vmvars == <<space, cpu, panicked>>

Entry(to, u) == [to |-> to, u |-> u]
Zero == [i \in {} |-> 0]  \* a table without a present entry

VmInit ==
  /\ live = {} /\ ptr = [a \in Spaces |-> NONE]
  /\ pt = [p \in Pages \cup {kpt, kpd} |-> IF p = kpt THEN [i \in {KIDX} |-> Entry(kpd, FALSE)] ELSE Zero]
  /\ used = {kpt, kpd}
  /\ cr3 = [c \in Processors |-> kpt] /\ rsp0 = [c \in Processors |-> NONE] /\ tlb = [c \in Processors |-> {}]
  /\ cur = BootTask /\ mode = [c \in Processors |-> "run"]
  /\ ctx = [t \in Tasks |-> NONE]
  /\ panicked = FALSE
  /\ asked = [a \in Spaces |-> [va \in VA |-> NONE]]
  /\ remote = [c \in Processors |-> FALSE]

---------------------------------------------------------------------------
(* Page tables.                                                            *)

Free(u)    == Pages \ u
pgalloc(u) == CHOOSE p \in Free(u) : \A q \in Free(u) : p <= q
With(f, i, e) == [j \in DOMAIN f \cup {i} |-> IF j = i THEN e ELSE f[j]]

(* Mutated: the entries on the way are not the user's. *)
pt_entryKernel(p) == Entry(p, FALSE)

pt_entry(p) == Entry(p, TRUE)

(* Mutated: every level is indexed by the first one's bits. *)
indexofFirst(va, level) == va[1]

indexof(va, level) == va[level]

(* ptwalk: the tables on the way to va's last one, those missing made; the *)
(* table is NONE if no page was left.                                      *)
walked(root, va) ==
  LET walk[l \in 1 .. LEVELS] ==
        IF l = 1 THEN [table |-> root, pt |-> pt, used |-> used]
        ELSE LET w == walk[l - 1]
                 i == indexof(va, l - 1)
             IN  IF w.table = NONE THEN w
                 ELSE IF i \in DOMAIN w.pt[w.table] THEN [w EXCEPT !.table = w.pt[w.table][i].to]
                 ELSE IF Free(w.used) = {} THEN [w EXCEPT !.table = NONE]
                 ELSE LET p == pgalloc(w.used)
                      IN  [table |-> p, used |-> w.used \cup {p},
                           pt |-> [w.pt EXCEPT ![w.table] = With(@, i, pt_entry(p)), ![p] = Zero]]
  IN  walk

ptwalk(root, va) == walked(root, va)[LEVELS]

(* What the processor finds: the tables on its way to va and, last, the    *)
(* page mapped there, or NONE.                                             *)
found(root, va) ==
  LET walk[l \in 1 .. LEVELS + 1] ==
        IF l = 1 THEN root
        ELSE IF walk[l - 1] = NONE \/ va[l - 1] \notin DOMAIN pt[walk[l - 1]] THEN NONE
        ELSE pt[walk[l - 1]][va[l - 1]].to
  IN  walk

Translate(root, va) == found(root, va)[LEVELS + 1]

(* The tables teardown reaches from a root, level by level. *)
users(p) == {i \in DOMAIN pt[p] : pt[p][i].u}
Tables(root) ==
  LET at[l \in 1 .. LEVELS] ==
        IF l = 1 THEN {root} ELSE UNION {{pt[p][i].to : i \in users(p)} : p \in at[l - 1]}
  IN  at

---------------------------------------------------------------------------
(* The operations, called in a trap handler or by a kernel task.           *)
InKernel(c) == ~ panicked /\ (mode[c] = "trap" \/ cur[c] \in KernelTasks)

panic == panicked' = TRUE /\ UNCHANGED <<space, cpu>>

protect(c, a) ==
  /\ InKernel(c) /\ a \notin live
  /\ Free(used) # {}
  /\ LET upt == pgalloc(used)
     IN  /\ used' = used \cup {upt}
         /\ pt' = [pt EXCEPT ![upt] = [i \in {KIDX} |-> pt[kpt][i]]]
         /\ ptr' = [ptr EXCEPT ![a] = upt]
  /\ live' = live \cup {a}
  /\ asked' = [asked EXCEPT ![a] = [va \in VA |-> NONE]]
  /\ UNCHANGED <<cpu, panicked>>

protect_panic(c) == InKernel(c) /\ Free(used) = {} /\ panic

(* Every table reached is freed.  (as->ptr keeps its value in the code;    *)
(* what a free page holds is nobody's business.)                           *)
unprotect(c, a) ==
  /\ InKernel(c) /\ a \in live
  /\ \A d \in Processors : cr3[d] # ptr[a] /\ (cur[d] \in UserTasks => SpaceOf[cur[d]] # a \/ mode[d] = "trap")
  /\ \A t \in UserTasks : ctx[t] # NONE => SpaceOf[t] # a
  /\ LET freed == UNION {Tables(ptr[a])[l] : l \in 1 .. LEVELS}
     IN  /\ used' = used \ freed
         /\ pt' = [p \in DOMAIN pt |-> IF p \in freed THEN Zero ELSE pt[p]]
  /\ live' = live \ {a}
  /\ ptr' = [ptr EXCEPT ![a] = NONE]
  /\ asked' = [asked EXCEPT ![a] = [va \in VA |-> NONE]]
  /\ UNCHANGED <<cpu, panicked>>

map(c, a, va, pa) ==
  /\ InKernel(c) /\ a \in live
  /\ LET w == ptwalk(ptr[a], va)
         i == indexof(va, LEVELS)
     IN  IF w.table = NONE \/ i \in DOMAIN w.pt[w.table]
         THEN panic
         ELSE /\ pt' = [w.pt EXCEPT ![w.table] = With(@, i, Entry(pa, TRUE))]
              /\ used' = w.used
              /\ asked' = [asked EXCEPT ![a][va] = pa]
              /\ UNCHANGED <<live, ptr, cpu, panicked>>

(* map with MMAP_NONE; nothing is flushed *)
unmap(c, a, va) ==
  /\ InKernel(c) /\ a \in live
  /\ LET w == ptwalk(ptr[a], va)
         i == indexof(va, LEVELS)
     IN  IF w.table = NONE \/ i \notin DOMAIN w.pt[w.table]
         THEN panic
         ELSE /\ pt' = [w.pt EXCEPT ![w.table] = [j \in DOMAIN @ \ {i} |-> @[j]]]
              /\ asked' = [asked EXCEPT ![a][va] = NONE]
              /\ remote' = [d \in Processors |-> remote[d] \/ (d # c /\ cr3[d] = ptr[a])]
              /\ UNCHANGED <<live, ptr, used, cr3, rsp0, tlb, cur, mode, ctx, panicked>>

Exists(t) == ctx[t] # NONE \/ \E d \in Processors : cur[d] = t

ucontext(c, t) ==
  /\ InKernel(c) /\ t \in UserTasks /\ ~ Exists(t) /\ SpaceOf[t] \in live
  /\ ctx' = [ctx EXCEPT ![t] = [cr3 |-> ptr[SpaceOf[t]], rsp0 |-> t]]
  /\ UNCHANGED <<space, cr3, rsp0, tlb, cur, mode, remote, panicked>>

(* cr3 = 0: the context runs in whatever space is loaded *)
kcontext(c, t) ==
  /\ InKernel(c) /\ t \in KernelTasks /\ ~ Exists(t)
  /\ ctx' = [ctx EXCEPT ![t] = [cr3 |-> NONE, rsp0 |-> NONE]]
  /\ UNCHANGED <<space, cr3, rsp0, tlb, cur, mode, remote, panicked>>

(* The kernel forgets a task. *)
exit(c, t) ==
  /\ InKernel(c) /\ ctx[t] # NONE
  /\ ctx' = [ctx EXCEPT ![t] = NONE]
  /\ UNCHANGED <<space, cr3, rsp0, tlb, cur, mode, remote, panicked>>

---------------------------------------------------------------------------
(* Processors.                                                             *)

(* A user task touches a page: the processor may keep the translation. *)
access(c, va) ==
  /\ ~ panicked /\ mode[c] = "run" /\ cur[c] \in UserTasks
  /\ Translate(cr3[c], va) # NONE
  /\ tlb' = [tlb EXCEPT ![c] = @ \cup {<<va, Translate(cr3[c], va)>>}]
  /\ UNCHANGED <<space, cr3, rsp0, cur, mode, ctx, remote, panicked>>

(* trap64.S and the first half of __am_irq_handle *)
trap(c) ==
  /\ ~ panicked /\ mode[c] = "run"
  /\ ctx' = [ctx EXCEPT ![cur[c]] = [cr3 |-> cr3[c], rsp0 |-> rsp0[c]]]
  /\ mode' = [mode EXCEPT ![c] = "trap"]
  /\ UNCHANGED <<space, cr3, rsp0, tlb, cur, remote, panicked>>

(* Mutated: the table is loaded only if it is another one. *)
loadsWhenOther(c, t) == ctx[t].cr3 # NONE /\ ctx[t].cr3 # cr3[c]

(* Mutated: the kernel stack is not changed with the table. *)
rsp0_after0(c, t) == rsp0[c]

loads(c, t) == ctx[t].cr3 # NONE

rsp0_after(c, t) == IF ctx[t].cr3 # NONE THEN ctx[t].rsp0 ELSE rsp0[c]

(* the rest of it and __am_iret, to a context no other processor is in *)
irq_return(c, t) ==
  /\ ~ panicked /\ mode[c] = "trap" /\ t \in Runs[c] /\ ctx[t] # NONE
  /\ \A d \in Processors \ {c} : cur[d] # t
  /\ IF loads(c, t)
     THEN /\ cr3' = [cr3 EXCEPT ![c] = ctx[t].cr3]
          /\ tlb' = [tlb EXCEPT ![c] = {}]
          /\ remote' = [remote EXCEPT ![c] = FALSE]
     ELSE UNCHANGED <<cr3, tlb, remote>>
  /\ rsp0' = [rsp0 EXCEPT ![c] = rsp0_after(c, t)]
  /\ cur' = [cur EXCEPT ![c] = t]
  /\ ctx' = [ctx EXCEPT ![t] = NONE]
  /\ mode' = [mode EXCEPT ![c] = "run"]
  /\ UNCHANGED <<space, panicked>>

VmNext ==
  \E c \in Processors :
    \/ \E a \in Spaces : protect(c, a) \/ unprotect(c, a)
    \/ protect_panic(c)
    \/ \E a \in Spaces, va \in VA : unmap(c, a, va) \/ \E pa \in PA : map(c, a, va, pa)
    \/ \E t \in Tasks : ucontext(c, t) \/ kcontext(c, t) \/ exit(c, t) \/ irq_return(c, t)
    \/ \E va \in VA : access(c, va)
    \/ trap(c)

VmSpec == VmInit /\ [][VmNext]_vmvars

---------------------------------------------------------------------------
(* Every page given out is in the tree of exactly one live space, at one   *)
(* place: unprotect frees it, once, and never one of the kernel's.         *)
Owned(at) ==
  /\ used \ KernelTables = UNION {at[a][l] : a \in live, l \in 1 .. LEVELS}
  /\ KernelTables \subseteq used
  /\ \A a, b \in live, l, m \in 1 .. LEVELS :
       <<a, l>> # <<b, m>> => at[a][l] \cap at[b][m] = {}
PagesOwned == Owned([a \in live |-> Tables(ptr[a])])

(* What map was asked for is what the processor finds, and nothing else:   *)
(* changing one page of one space changes no other, through shared tables  *)
(* and reused ones.                                                        *)
TranslatesAsAsked ==
  \A a \in live, va \in VA : Translate(ptr[a], va) = asked[a][va]

(* A user task runs in its own space, which exists, and a trap from it     *)
(* goes onto its own kernel stack.                                         *)
UserRunsOwn ==
  \A c \in Processors : cur[c] \in UserTasks /\ mode[c] = "run" =>
    /\ SpaceOf[cur[c]] \in live /\ cr3[c] = ptr[SpaceOf[cur[c]]]
    /\ rsp0[c] = cur[c]

(* A user task never goes through a translation that the kernel has        *)
(* removed, although map flushes nothing: every way back to it loads cr3.  *)
(* The exception is an unmapping by another processor while it runs.       *)
NoStaleTranslation ==
  \A c \in Processors : cur[c] \in UserTasks /\ mode[c] = "run" /\ ~ remote[c] =>
    \A e \in tlb[c] : Translate(cr3[c], e[1]) = e[2]
=============================================================================

----------------------------- MODULE WatchPool -----------------------------
(***************************************************************************)
(* nemu/src/monitor/debug/watchpoint.c and the commands of ui.c that use   *)
(* it.  The pool is an array of nodes threaded on two singly linked lists, *)
(* the watchpoints in use (head) and the spare nodes (free_).              *)
(*                                                                         *)
(* A place that holds a WP pointer, what the code reaches through a WP **, *)
(* is a member of Cells: the variables head and free_ (HEAD and FREE) and  *)
(* the next field of each node (the node itself).  link says what each     *)
(* cell points to.  malloc of a text is taken to succeed (ui.c:199).        *)
(***************************************************************************)
EXTENDS Integers, FiniteSets, Functions

CONSTANTS
  NR_WP,      \* number of nodes of wp_pool
  Exprs,      \* texts a user may watch
  NULL, HEAD, FREE,
  MaxSeq      \* bound of the model: watchpoint numbers handed out

Slots == 0 .. NR_WP - 1

Cells == Slots \cup {HEAD, FREE}

ASSUME PoolAssumption ==
  /\ NR_WP \in Nat \ {0}
  /\ MaxSeq \in Nat
  /\ NULL \notin Slots /\ HEAD \notin Slots /\ FREE \notin Slots
  /\ HEAD # FREE
  /\ NULL \notin Exprs

VARIABLES
  link,       \* Cells -> node or NULL
  NO,         \* the number in each node; stale in a spare one
  what,       \* the text pointer of each node; dangling in a spare one
  heap,       \* ghost: nodes whose what is allocated and not yet freed
  seq,        \* cmd_w's static counter
  pc,         \* "prompt", or "walk" inside free_wp's loop
  target,     \* free_wp's argument
  current,    \* free_wp's cursor
  front,      \* free_wp's WP **: the cell that points to current
  proc        \* "up", "exit" or "abort"

pool == <<link, NO, what, heap, seq>>
walk == <<pc, target, current, front>>
vars == <<pool, walk, proc>>

(* init_wp_pool on the zeroed static array *)
init_wp_pool ==
  /\ link = [c \in Cells |-> IF c = HEAD THEN NULL
                             ELSE IF c = FREE THEN 0
                             ELSE IF c = NR_WP - 1 THEN NULL ELSE c + 1]
  /\ NO = [s \in Slots |-> s]
  /\ what = [s \in Slots |-> NULL]
  /\ heap = {}

Init ==
  /\ init_wp_pool
  /\ seq = 0
  /\ pc = "prompt" /\ target = 0 /\ current = NULL /\ front = HEAD
  /\ proc = "up"

Prompt == pc = "prompt" /\ proc = "up"

---------------------------------------------------------------------------
(* Mutated forms of the definitions that follow. *)

fill_wpNoText(e) ==                    \* the text is not stored
  /\ NO' = [NO EXCEPT ![link[FREE]] = seq]
  /\ UNCHANGED what
  /\ heap' = heap \cup {link[FREE]}

free_whatSkipped ==                    \* the text is not released
  UNCHANGED heap

free_wp_nextStale ==                   \* front is not advanced
  /\ pc = "walk" /\ current # NULL /\ NO[current] # target
  /\ current' = link[current]
  /\ UNCHANGED <<pc, target, front, pool, proc>>

free_wp_nextStuck ==                   \* the cursor is not advanced
  /\ pc = "walk" /\ current # NULL /\ NO[current] # target
  /\ front' = current
  /\ UNCHANGED <<pc, target, current, pool, proc>>

---------------------------------------------------------------------------
(* Moves the first node of the list at cell src to the front of dest. *)
element_exchange(dest, src) ==
  LET t == link[src]
  IN  link' = [link EXCEPT ![src] = link[t], ![t] = link[dest], ![dest] = t]

(* What cmd_w stores in the node new_wp gives it. *)
fill_wp(e) ==
  /\ NO' = [NO EXCEPT ![link[FREE]] = seq]
  /\ what' = [what EXCEPT ![link[FREE]] = e]
  /\ heap' = heap \cup {link[FREE]}

(* w EXPR, the expression having a value *)
cmd_w(e) ==
  /\ Prompt
  /\ seq < MaxSeq
  /\ link[FREE] # NULL
  /\ element_exchange(HEAD, FREE)
  /\ fill_wp(e)
  /\ seq' = seq + 1
  /\ UNCHANGED <<walk, proc>>

(* new_wp's Assert(free_) *)
new_wp_assert ==
  /\ Prompt
  /\ link[FREE] = NULL
  /\ proc' = "abort"
  /\ UNCHANGED <<pool, walk>>

(* d N enters free_wp *)
cmd_d(n) ==
  /\ Prompt
  /\ pc' = "walk"
  /\ target' = n
  /\ current' = link[HEAD]
  /\ front' = HEAD
  /\ UNCHANGED <<pool, proc>>

free_wp_next ==
  /\ pc = "walk" /\ current # NULL /\ NO[current] # target
  /\ front' = current
  /\ current' = link[current]
  /\ UNCHANGED <<pc, target, pool, proc>>

(* The locals are dead once free_wp has returned. *)
free_wp_return ==
  pc' = "prompt" /\ target' = 0 /\ current' = NULL /\ front' = HEAD

(* free(current->what) *)
free_what ==
  heap' = IF what[current] # NULL THEN heap \ {current} ELSE heap

free_wp_hit ==
  /\ pc = "walk" /\ current # NULL /\ NO[current] = target
  /\ free_what
  /\ element_exchange(FREE, front)
  /\ free_wp_return
  /\ UNCHANGED <<NO, what, seq, proc>>

(* "no watchpoint number" *)
free_wp_miss ==
  /\ pc = "walk" /\ current = NULL
  /\ free_wp_return
  /\ UNCHANGED <<pool, proc>>

(* q: free() is given the nodes themselves, which are not on the heap, and *)
(* then each freed node's next is read.  The C library kills the process,  *)
(* or the loop runs to its end.                                            *)
cmd_q ==
  /\ Prompt
  /\ proc' \in IF link[HEAD] = NULL THEN {"exit"} ELSE {"exit", "abort"}
  /\ UNCHANGED <<pool, walk>>

Walk == free_wp_next \/ free_wp_hit \/ free_wp_miss

Next ==
  \/ \E e \in Exprs : cmd_w(e)
  \/ new_wp_assert
  \/ \E n \in 0 .. MaxSeq : cmd_d(n)
  \/ free_wp_next
  \/ free_wp_hit
  \/ free_wp_miss
  \/ cmd_q

Spec == Init /\ [][Next]_vars

(* free_wp runs on the only thread and never blocks. *)
FairSpec == Spec /\ WF_vars(Walk)

---------------------------------------------------------------------------
(* The shape of the pool, given the order of its nodes: the first k are    *)
(* the list at head, the others the list at free_.                         *)

Follows(o, i, last) == link[o[i]] = IF i = last THEN NULL ELSE o[i + 1]

ListsOK(o, k) ==
  /\ link[HEAD] = IF k = 0 THEN NULL ELSE o[1]
  /\ link[FREE] = IF k = NR_WP THEN NULL ELSE o[k + 1]
  /\ \A i \in 1 .. k : Follows(o, i, k)
  /\ \A i \in k + 1 .. NR_WP : Follows(o, i, NR_WP)

HeapOK(o, k) ==
  /\ \A i \in 1 .. k : o[i] \in heap /\ what[o[i]] \in Exprs
  /\ \A i \in k + 1 .. NR_WP : o[i] \notin heap

NumbersOK(o, k) ==
  /\ \A i \in 1 .. k : NO[o[i]] < seq
  /\ \A i, j \in 1 .. k : i < j => NO[o[i]] > NO[o[j]]

WalkOK(o, k) ==
  pc = "walk" =>
    \E i \in 1 .. k + 1 :
      /\ front = IF i = 1 THEN HEAD ELSE o[i - 1]
      /\ current = IF i = k + 1 THEN NULL ELSE o[i]
      /\ \A j \in 1 .. i - 1 : NO[o[j]] # target

Orders == Bijection(1 .. NR_WP, Slots)

TypeOK ==
  /\ link \in [Cells -> Slots \cup {NULL}]
  /\ NO \in [Slots -> Nat]
  /\ what \in [Slots -> Exprs \cup {NULL}]
  /\ heap \in SUBSET Slots
  /\ seq \in 0 .. MaxSeq
  /\ pc \in {"prompt", "walk"}
  /\ target \in 0 .. MaxSeq
  /\ current \in Slots \cup {NULL}
  /\ front \in Slots \cup {HEAD}
  /\ proc \in {"up", "exit", "abort"}

(* Inductive: everything below at once, for one order of the nodes. *)
IInv ==
  /\ TypeOK
  /\ \E o \in Orders, k \in 0 .. NR_WP :
       ListsOK(o, k) /\ HeapOK(o, k) /\ NumbersOK(o, k) /\ WalkOK(o, k)

(* Whatever sequence of w and d has run, every node of wp_pool is on       *)
(* exactly one of the two lists, once, and both lists end (watchpoint.c,   *)
(* element_exchange with a dest and a src that may be a node's own next).  *)
PoolPartition == \E o \in Orders, k \in 0 .. NR_WP : ListsOK(o, k)

(* The nodes on the list at head are exactly those whose text is           *)
(* allocated: new_wp's reset, cmd_w's malloc and free_wp's free leave no   *)
(* text leaked, freed twice or printed by "info w" after its release.      *)
TextOwned ==
  \E o \in Orders, k \in 0 .. NR_WP : ListsOK(o, k) /\ HeapOK(o, k)

(* The list at head runs from the newest watchpoint to the oldest, with    *)
(* no number twice, although nodes are reused in any order: so d N names   *)
(* one watchpoint, and "info w" and the scan in cpu_exec go newest first.  *)
NewestFirst ==
  \E o \in Orders, k \in 0 .. NR_WP : ListsOK(o, k) /\ NumbersOK(o, k)

(* When free_wp's loop reaches a node, front is the cell that points to it *)
(* and its text is allocated: the exchange unlinks the node whose text has *)
(* just been released and no other.                                        *)
UnlinksWhatItFrees ==
  (pc = "walk" /\ current # NULL) => (link[front] = current /\ current \in heap)

(* Number -> text, wherever the node lies. *)
watched == [n \in {NO[s] : s \in heap} |-> what[CHOOSE s \in heap : NO[s] = n]]

WL == INSTANCE WatchList WITH active <- watched

(* The pool implements the bounded set of numbered watchpoints: w adds     *)
(* exactly one under a fresh number, d N removes exactly number N, the     *)
(* assertion in new_wp fails exactly when NR_WP watchpoints are live.      *)
WatchListSpec == WL!Spec

(* free_wp returns to the prompt, for a live number and for any other. *)
FreeReturns == (pc = "walk") ~> (pc = "prompt")
=============================================================================

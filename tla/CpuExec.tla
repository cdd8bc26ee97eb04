------------------------------ MODULE CpuExec ------------------------------
(***************************************************************************)
(* nemu/src/monitor/cpu-exec.c with what drives it: the debugger's prompt  *)
(* (ui.c), the device poll after each instruction (device.c), the alarm    *)
(* signal (alarm.c) and the window's event queue.  The watchpoints are     *)
(* those of WatchList; WatchPool shows that the code's pool provides them. *)
(***************************************************************************)
EXTENDS Integers, FiniteSets, Sequences, Functions

CONSTANTS
  NR_WP,       \* size of the watchpoint pool
  Exprs,       \* expressions the user watches
  Vals,        \* values an expression can have
  UNDEF,       \* it has none now: a division by zero, an address outside memory
  DEBUG,       \* built with DEBUG: cpu_exec looks at the watchpoints
  DIFF_TEST,   \* built with DIFF_TEST: an instruction may mismatch
  Forever,     \* the count cpu_exec(-1) is called with
  MaxSeq,      \* bound: watchpoints ever set
  MaxStep,     \* bound: largest N of "si N"
  MaxEvents    \* bound: events waiting in the window's queue

ASSUME CpuExecAssumption ==
  /\ NR_WP \in Nat \ {0} /\ MaxSeq \in Nat /\ MaxStep \in Nat /\ MaxEvents \in Nat
  /\ {DEBUG, DIFF_TEST} \subseteq BOOLEAN
  /\ Forever \notin Int
  /\ Vals # {} /\ UNDEF \notin Vals

VARIABLES
  batch_mode,  \* started with --batch: one "c" and out
  state,       \* nemu_state.state
  halt_ret,    \* nemu_state.halt_ret: 0, or 1 for any other value
  pc,          \* where the emulator is, see Pcs
  n,           \* cpu_exec's argument, counted down
  val,         \* the value each expression has now
  seq, active, \* the watchpoints
  wval,        \* the val field of each live watchpoint
  flag,        \* device_update_flag
  events,      \* SDL's event queue
  proc,        \* "up", "exit" or "abort"
  \* ghosts
  asked,       \* count the last cpu_exec was called with
  ran,         \* instructions it has executed
  hit,         \* it has stopped at a watchpoint
  prev,        \* val before the instruction now executing
  stale,       \* watchpoints out of date when it began
  ended,       \* how the guest ended: "no", "good" or "bad"
  closed       \* an SDL_QUIT was handled after that

ghosts  == <<asked, ran, hit, prev, stale, ended, closed>>
watches == <<seq, active, wval>>
vars    == <<batch_mode, state, halt_ret, pc, n, val, watches, flag, events, proc, ghosts>>

States == {"STOP", "RUNNING", "END", "ABORT", "QUIT"}
Pcs    == {"prompt", "loop", "scan", "update", "poll", "check"}
Counts == (0 .. MaxStep) \cup {Forever}

Evals  == Vals \cup {UNDEF}

WL == INSTANCE WatchList

Init ==
  /\ batch_mode \in BOOLEAN
  /\ state = "STOP" /\ halt_ret = 0 /\ pc = "prompt" /\ n = 0
  /\ val \in [Exprs -> Evals]
  /\ WL!Init
  /\ wval = [no \in {} |-> 0]
  /\ flag = FALSE /\ events = <<>>
  /\ asked = 0 /\ ran = 0 /\ hit = FALSE /\ prev = val /\ stale = {}
  /\ ended = "no" /\ closed = FALSE

OutOfDate(no) == wval[no] # val[active[no]]
Undefined(no) == val[active[no]] = UNDEF

---------------------------------------------------------------------------
(* The prompt.  ui_mainloop empties the event queue before each command.   *)

Command ==
  /\ pc = "prompt" /\ proc = "up" /\ ~ batch_mode
  /\ events' = <<>>

(* cpu_exec up to its loop; END and ABORT are refused. *)
cpu_exec(count) ==
  IF state \in {"END", "ABORT"}
  THEN UNCHANGED <<state, pc, n, asked, ran, hit>>
  ELSE /\ state' = "RUNNING" /\ pc' = "loop" /\ n' = count
       /\ asked' = count /\ ran' = 0 /\ hit' = FALSE

cmd_exec(count) ==      \* c, si N
  /\ Command
  /\ cpu_exec(count)
  /\ UNCHANGED <<batch_mode, halt_ret, val, watches, flag, proc, prev, stale, ended, closed>>

cmd_w(e) ==
  /\ Command
  /\ val[e] # UNDEF
  /\ WL!Set(e)
  /\ wval' = [no \in DOMAIN wval \cup {seq} |-> IF no = seq THEN val[e] ELSE wval[no]]
  /\ UNCHANGED <<batch_mode, state, halt_ret, pc, n, val, flag, ghosts>>

cmd_w_exhausted ==
  /\ Command
  /\ \E e \in Exprs : val[e] # UNDEF
  /\ WL!Exhausted
  /\ UNCHANGED <<batch_mode, state, halt_ret, pc, n, val, wval, flag, ghosts>>

cmd_d(no) ==
  /\ Command
  /\ WL!Delete(no)
  /\ wval' = Restrict(wval, DOMAIN wval \ {no})
  /\ UNCHANGED <<batch_mode, state, halt_ret, pc, n, val, flag, ghosts>>

cmd_q ==
  /\ Command
  /\ WL!Quit
  /\ UNCHANGED <<batch_mode, state, halt_ret, pc, n, val, wval, flag, ghosts>>

(* every command that only prints, and a command that fails *)
cmd_other ==
  /\ Command
  /\ UNCHANGED <<batch_mode, state, halt_ret, pc, n, val, watches, flag, proc, ghosts>>

(* end of input at the prompt: the loop ends before the queue is emptied *)
end_of_input ==
  /\ pc = "prompt" /\ proc = "up" /\ ~ batch_mode
  /\ proc' = "exit"
  /\ UNCHANGED <<batch_mode, state, halt_ret, pc, n, val, watches, flag, events, ghosts>>

(* batch mode: cmd_c, once *)
batch_start ==
  /\ pc = "prompt" /\ proc = "up" /\ batch_mode
  /\ cpu_exec(Forever)
  /\ UNCHANGED <<batch_mode, halt_ret, val, watches, flag, events, proc, prev, stale, ended, closed>>

---------------------------------------------------------------------------
(* cpu_exec's loop.                                                        *)

(* Mutated: nemu_trap's argument is not kept. *)
halt_retAfterDropped(outcome) == halt_ret

halt_retAfter(outcome) ==
  CASE outcome = "good"           -> 0
    [] outcome \in {"bad", "inv"} -> 1
    [] OTHER                      -> halt_ret

(* isa_exec_once and difftest_step: any value may change.  A nemu_trap     *)
(* ends the program with its argument and is not compared; an invalid      *)
(* opcode or a mismatch aborts it, the mismatch leaving halt_ret alone.    *)
Outcomes == {"plain", "good", "bad", "inv"} \cup (IF DIFF_TEST THEN {"mismatch"} ELSE {})

exec(v, outcome) ==
  /\ pc = "loop" /\ n # 0 /\ proc = "up"
  /\ val' = v
  /\ state' = CASE outcome \in {"good", "bad"}     -> "END"
                [] outcome \in {"inv", "mismatch"} -> "ABORT"
                [] OTHER                           -> state
  /\ halt_ret' = halt_retAfter(outcome)
  /\ pc' = IF DEBUG THEN "scan" ELSE "update"
  /\ ran' = IF n = Forever THEN ran ELSE ran + 1
  /\ prev' = val
  /\ stale' = {no \in DOMAIN active : OutOfDate(no)}
  /\ ended' = CASE outcome = "plain" -> ended
                [] outcome = "good"  -> "good"
                [] OTHER             -> "bad"
  /\ closed' = IF outcome = "plain" THEN closed ELSE FALSE
  /\ UNCHANGED <<batch_mode, n, watches, flag, events, proc, asked, hit>>

(* Mutated: the scan stops at the newest watchpoint. *)
scanNewestOnly ==
  LET differ == {no \in DOMAIN active :
                   OutOfDate(no) /\ \A m \in DOMAIN active : m <= no}
      fires  == state = "RUNNING" /\ differ # {}
      first  == CHOOSE no \in differ : \A m \in differ : m <= no
  IN  /\ pc = "scan" /\ \A no \in DOMAIN active : ~ Undefined(no)
      /\ wval' = IF fires THEN [wval EXCEPT ![first] = val[active[first]]] ELSE wval
      /\ state' = IF fires THEN "STOP" ELSE state
      /\ hit' = (hit \/ fires)
      /\ pc' = "update"
      /\ UNCHANGED <<batch_mode, halt_ret, n, val, seq, active, flag, events, proc,
                     asked, ran, prev, stale, ended, closed>>

(* Mutated: a watchpoint fires in a state other than RUNNING too. *)
scanAnyState ==
  LET differ == {no \in DOMAIN active : OutOfDate(no)}
      first  == CHOOSE no \in differ : \A m \in differ : m <= no
  IN  /\ pc = "scan" /\ \A no \in DOMAIN active : ~ Undefined(no)
      /\ wval' = IF differ # {} THEN [wval EXCEPT ![first] = val[active[first]]] ELSE wval
      /\ state' = IF differ # {} THEN "STOP" ELSE state
      /\ hit' = (hit \/ differ # {})
      /\ pc' = "update"
      /\ UNCHANGED <<batch_mode, halt_ret, n, val, seq, active, flag, events, proc,
                     asked, ran, prev, stale, ended, closed>>

(* The watchpoints, newest first.  The first that differs is reported and  *)
(* brought up to date; that leaves RUNNING, so the others are not.         *)
scan ==
  LET differ == {no \in DOMAIN active : OutOfDate(no)}
      fires  == state = "RUNNING" /\ differ # {}
      first  == CHOOSE no \in differ : \A m \in differ : m <= no
  IN  /\ pc = "scan" /\ \A no \in DOMAIN active : ~ Undefined(no)
      /\ wval' = IF fires THEN [wval EXCEPT ![first] = val[active[first]]] ELSE wval
      /\ state' = IF fires THEN "STOP" ELSE state
      /\ hit' = (hit \/ fires)
      /\ pc' = "update"
      /\ UNCHANGED <<batch_mode, halt_ret, n, val, seq, active, flag, events, proc,
                     asked, ran, prev, stale, ended, closed>>

(* assert(success), reached for every watchpoint in every state *)
scan_assert ==
  /\ pc = "scan" /\ proc = "up" /\ \E no \in DOMAIN active : Undefined(no)
  /\ proc' = "abort"
  /\ UNCHANGED <<batch_mode, state, halt_ret, pc, n, val, watches, flag, events, ghosts>>

(* device_update: nothing to do until the alarm has set the flag *)
device_update ==
  /\ pc = "update"
  /\ flag' = FALSE
  /\ pc' = IF flag THEN "poll" ELSE "check"
  /\ UNCHANGED <<batch_mode, state, halt_ret, n, val, watches, events, proc, ghosts>>

(* Mutated: the window's close button is not heard. *)
poll_eventIgnoresQuit ==
  /\ pc = "poll" /\ events # <<>> /\ proc = "up"
  /\ events' = Tail(events)
  /\ UNCHANGED <<batch_mode, state, halt_ret, pc, n, val, watches, flag, proc, ghosts>>

(* one turn of its SDL_PollEvent loop; keys do not concern this module *)
poll_event ==
  /\ pc = "poll" /\ events # <<>> /\ proc = "up"
  /\ events' = Tail(events)
  /\ state' = IF Head(events) = "quit" THEN "QUIT" ELSE state
  /\ closed' = (closed \/ Head(events) = "quit")
  /\ UNCHANGED <<batch_mode, halt_ret, pc, n, val, watches, flag, proc,
                 asked, ran, hit, prev, stale, ended>>

poll_done ==
  /\ pc = "poll" /\ events = <<>>
  /\ pc' = "check"
  /\ UNCHANGED <<batch_mode, state, halt_ret, n, val, watches, flag, events, proc, ghosts>>

(* An assertion or a fault of the host in isa_exec_once (an address that no *)
(* map answers, say) or in difftest_step, or send_key's assertion that the  *)
(* keyboard's queue is not full, which KeyQueue has in detail.              *)
die ==
  /\ proc = "up"
  /\ \/ pc = "loop" /\ n # 0
     \/ pc = "poll" /\ events # <<>> /\ Head(events) = "key"
  /\ proc' = "abort"
  /\ UNCHANGED <<batch_mode, state, halt_ret, pc, n, val, watches, flag, events, ghosts>>

next_instr ==
  /\ pc = "check" /\ state = "RUNNING"
  /\ n' = IF n = Forever THEN n ELSE n - 1
  /\ pc' = "loop"
  /\ UNCHANGED <<batch_mode, state, halt_ret, val, watches, flag, events, proc, ghosts>>

(* Mutated: the state stays RUNNING when the count runs out. *)
cpu_exec_returnRunning ==
  /\ \/ pc = "check" /\ state # "RUNNING"
     \/ pc = "loop" /\ n = 0
  /\ state' = state
  /\ pc' = "prompt" /\ n' = 0
  /\ proc' = IF batch_mode THEN "exit" ELSE proc
  /\ prev' = val /\ stale' = {}
  /\ UNCHANGED <<batch_mode, halt_ret, val, watches, flag, events, asked, ran, hit, ended, closed>>

(* the break, or the count used up; then back to the prompt or to main *)
cpu_exec_return ==
  /\ \/ pc = "check" /\ state # "RUNNING"
     \/ pc = "loop" /\ n = 0
  /\ state' = IF state = "RUNNING" THEN "STOP" ELSE state
  /\ pc' = "prompt" /\ n' = 0
  /\ proc' = IF batch_mode THEN "exit" ELSE proc
  /\ prev' = val /\ stale' = {}
  /\ UNCHANGED <<batch_mode, halt_ret, val, watches, flag, events, asked, ran, hit, ended, closed>>

---------------------------------------------------------------------------
(* The signal handler and the window, at any time.                         *)

alarm ==
  /\ proc = "up" /\ ~ flag
  /\ flag' = TRUE
  /\ UNCHANGED <<batch_mode, state, halt_ret, pc, n, val, watches, events, proc, ghosts>>

window(ev) ==
  /\ proc = "up" /\ Len(events) < MaxEvents
  /\ events' = Append(events, ev)
  /\ UNCHANGED <<batch_mode, state, halt_ret, pc, n, val, watches, flag, proc, ghosts>>

Loop ==
  \/ \E v \in [Exprs -> Evals], outcome \in Outcomes : exec(v, outcome)
  \/ scan
  \/ scan_assert
  \/ device_update
  \/ poll_event
  \/ poll_done
  \/ die
  \/ next_instr
  \/ cpu_exec_return

Prompt ==
  \/ \E count \in Counts : cmd_exec(count)
  \/ \E e \in Exprs : cmd_w(e)
  \/ cmd_w_exhausted
  \/ \E no \in 0 .. MaxSeq : cmd_d(no)
  \/ cmd_q
  \/ cmd_other
  \/ end_of_input
  \/ batch_start

Next ==
  \/ Prompt
  \/ Loop
  \/ alarm
  \/ \E ev \in {"quit", "key"} : window(ev)

Spec == Init /\ [][Next]_vars

(* The emulator's loop never blocks.  The interval timer counts the        *)
(* processor time the loop itself spends, so it fires while the loop runs. *)
FairSpec == Spec /\ WF_vars(Loop) /\ WF_vars(alarm)

---------------------------------------------------------------------------
is_exit_status_bad == ~ \/ state = "END" /\ halt_ret = 0
                        \/ state = "QUIT"

WatchesOK ==
  /\ val \in [Exprs -> Evals] /\ prev \in [Exprs -> Evals]
  /\ seq \in 0 .. MaxSeq
  /\ DOMAIN active \in SUBSET (0 .. seq - 1)
  /\ active \in [DOMAIN active -> Exprs]
  /\ wval \in [DOMAIN active -> Vals]
  /\ stale \in SUBSET Nat

EventsOK == events \in Seq({"quit", "key"}) /\ Len(events) <= MaxEvents

TypeOK ==
  /\ batch_mode \in BOOLEAN
  /\ state \in States /\ halt_ret \in {0, 1} /\ pc \in Pcs
  /\ n \in Counts /\ asked \in Counts /\ ran \in Nat
  /\ flag \in BOOLEAN /\ hit \in BOOLEAN /\ closed \in BOOLEAN
  /\ proc \in {"up", "exit", "abort"}
  /\ ended \in {"no", "good", "bad"}
  /\ WatchesOK
  /\ EventsOK

Scanned == DEBUG /\ pc \in {"update", "poll", "check"}

(* Past the scan with the guest still running, every live watchpoint holds *)
(* the present value of its expression: nothing the scan should have       *)
(* stopped at is carried into the next instruction.                        *)
UpToDateWhenRunning ==
  (Scanned /\ state = "RUNNING") => \A no \in DOMAIN active : ~ OutOfDate(no)

(* A watchpoint that was up to date when an instruction began and whose    *)
(* expression that instruction changed leaves the guest stopped, however   *)
(* many watchpoints are live and whichever of them is reported.            *)
ChangeStops ==
  \A no \in DOMAIN active :
    (Scanned /\ no \notin stale /\ val[active[no]] # prev[active[no]])
      => state # "RUNNING"

(* Back at the prompt the guest is not running, and STOP has a reason: a   *)
(* watchpoint fired or exactly the instructions asked for were executed.   *)
StopHasReason ==
  pc = "prompt" => /\ state # "RUNNING"
                   /\ state = "STOP" => (hit \/ ran = asked)

(* A program that ended stays ended: neither the watchpoints nor the       *)
(* return of cpu_exec nor any command takes it out of END and ABORT; only  *)
(* closing the window does.                                                *)
EndStays == (ended # "no" /\ ~ closed) => state \in {"END", "ABORT"}

(* Inductive: where the emulator is decides what its state can be, ...     *)
Flow ==
  /\ pc = "loop" => state = "RUNNING"
  /\ pc = "scan" => state \in {"RUNNING", "END", "ABORT"}
  /\ pc = "prompt" => state # "RUNNING"
  /\ (pc # "prompt" /\ state = "STOP") => hit

(* ... how much of the count is used up, ...                               *)
Counted ==
  /\ pc # "prompt" => (n = Forever <=> asked = Forever)
  /\ (pc = "loop" /\ n # Forever) => ran + n = asked
  /\ (pc \in {"scan", "update", "poll", "check"} /\ n # Forever)
       => n > 0 /\ ran + n = asked + 1

(* ... while the guest runs on, what the watchpoints have recorded.   *)
Recorded ==
  (pc = "scan" \/ (Scanned /\ state = "RUNNING")) =>
    \A no \in DOMAIN active \ stale : wval[no] = prev[active[no]]

(* ... and what halt_ret says of a program that ended.                     *)
Told ==
  (ended # "no" /\ ~ closed)
    => ((state = "END" /\ halt_ret = 0) <=> ended = "good")

IInv ==
  /\ TypeOK /\ Flow /\ Counted /\ Recorded /\ Told
  /\ UpToDateWhenRunning /\ StopHasReason /\ EndStays

(* main's exit status, for a program that ended and a window not closed    *)
(* since, is good exactly for a nemu_trap with 0.                          *)
StatusTellsOutcome ==
  (proc = "exit" /\ ended # "no" /\ ~ closed)
    => (is_exit_status_bad <=> ended = "bad")

(* Closing the window stops the guest, however long "c" would run.         *)
CloseStops ==
  (pc # "prompt" /\ \E i \in 1 .. Len(events) : events[i] = "quit")
    ~> (state # "RUNNING" \/ proc = "abort")
=============================================================================

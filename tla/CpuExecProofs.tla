--------------------------- MODULE CpuExecProofs ---------------------------
(* The safety of cpu_exec for every number of watchpoints, every set of    *)
(* values and every length of the event queue, by the invariant IInv.      *)
EXTENDS CpuExec, TLAPS

LEMMA InitIInv == Init => IInv
<1> SUFFICES ASSUME Init PROVE IInv
  OBVIOUS
<1> USE CpuExecAssumption DEF Init, WL!Init
<1>w. WatchesOK
  BY DEF WatchesOK
<1>e. EventsOK
  BY DEF EventsOK
<1>b. batch_mode \in BOOLEAN /\ flag \in BOOLEAN /\ hit \in BOOLEAN /\ closed \in BOOLEAN
  BY Zenon
<1>1. TypeOK
  BY <1>w, <1>e, <1>b DEF TypeOK, States, Pcs, Counts
<1>2. Flow /\ Counted /\ Recorded /\ UpToDateWhenRunning /\ StopHasReason /\ EndStays /\ Told
  BY DEF Told, Flow, Counted, Recorded, Scanned, UpToDateWhenRunning, StopHasReason, EndStays
<1>3. QED
  BY <1>1, <1>2 DEF IInv

(* The queue is emptied, keeps what it holds, or loses its first event. *)
LEMMA QueueChange ==
  ASSUME EventsOK, events' \in {<<>>, events} \/ (events # <<>> /\ events' = Tail(events))
  PROVE  EventsOK'
<1>1. CASE events' = <<>>
  BY <1>1, CpuExecAssumption DEF EventsOK
<1>2. CASE events' = events
  BY <1>2 DEF EventsOK
<1>3. CASE events # <<>> /\ events' = Tail(events)
  <2>1. events' \in Seq({"quit", "key"}) /\ Len(events') = Len(events) - 1
    BY <1>3 DEF EventsOK
  <2>2. QED BY <2>1, CpuExecAssumption DEF EventsOK
<1>4. QED
  BY <1>1, <1>2, <1>3

(***************************************************************************)
(* The commands.                                                           *)
(***************************************************************************)
LEMMA cpu_execIInv ==
  ASSUME IInv, NEW count \in Counts, pc = "prompt",
         cpu_exec(count), events' \in {<<>>, events}, proc' = proc,
         UNCHANGED <<batch_mode, halt_ret, val, watches, flag, prev, stale, ended, closed>>
  PROVE  IInv'
<1> USE CpuExecAssumption DEF cpu_exec, watches
<1>w. WatchesOK'
  BY DEF IInv, TypeOK, WatchesOK
<1>e. EventsOK'
  BY QueueChange DEF IInv, TypeOK
<1>b. batch_mode' \in BOOLEAN /\ flag' \in BOOLEAN /\ hit' \in BOOLEAN /\ closed' \in BOOLEAN
  BY Zenon DEF IInv, TypeOK
<1>1. TypeOK'
  BY <1>w, <1>e, <1>b DEF IInv, TypeOK, States, Pcs, Counts
<1>2. Flow' /\ Counted' /\ StopHasReason' /\ EndStays' /\ Told'
  BY DEF IInv, Flow, Counted, StopHasReason, EndStays, Told, TypeOK, Counts
<1>3. Recorded' /\ UpToDateWhenRunning'
  BY DEF IInv, Flow, Recorded, Scanned, UpToDateWhenRunning, OutOfDate
<1>4. QED
  BY <1>1, <1>2, <1>3 DEF IInv

LEMMA CommandIInv ==
  ASSUME IInv, pc = "prompt",
         UNCHANGED <<batch_mode, state, halt_ret, pc, n, val, flag, ghosts>>,
         seq' \in 0 .. MaxSeq,
         DOMAIN active' \in SUBSET (0 .. seq' - 1),
         active' \in [DOMAIN active' -> Exprs],
         wval' \in [DOMAIN active' -> Vals],
         events' \in {<<>>, events}, proc' \in {"up", "exit", "abort"}
  PROVE  IInv'
<1> USE CpuExecAssumption DEF ghosts
<1>w. WatchesOK'
  BY DEF IInv, TypeOK, WatchesOK
<1>e. EventsOK'
  BY QueueChange DEF IInv, TypeOK
<1>1. TypeOK'
  BY <1>w, <1>e DEF IInv, TypeOK, States, Pcs, Counts
<1>2. Flow' /\ Counted' /\ StopHasReason' /\ EndStays' /\ Told'
  BY DEF IInv, Flow, Counted, StopHasReason, EndStays, Told
<1>3. Recorded' /\ UpToDateWhenRunning'
  BY DEF Recorded, Scanned, UpToDateWhenRunning
<1>4. QED
  BY <1>1, <1>2, <1>3 DEF IInv

LEMMA PromptIInv == IInv /\ Prompt => IInv'
<1> SUFFICES ASSUME IInv, Prompt PROVE IInv'
  OBVIOUS
<1> USE CpuExecAssumption
<1>t. /\ seq \in 0 .. MaxSeq /\ DOMAIN active \in SUBSET (0 .. seq - 1)
      /\ active \in [DOMAIN active -> Exprs] /\ wval \in [DOMAIN active -> Vals]
      /\ val \in [Exprs -> Evals] /\ proc \in {"up", "exit", "abort"}
  BY DEF IInv, TypeOK, WatchesOK
<1>1. ASSUME NEW count \in Counts, cmd_exec(count) PROVE IInv'
  BY <1>1, cpu_execIInv DEF cmd_exec, Command
<1>2. ASSUME NEW e \in Exprs, cmd_w(e) PROVE IInv'
  <2> USE <1>2 DEF cmd_w, Command, WL!Set
  <2>1. seq' = seq + 1 /\ seq' \in 0 .. MaxSeq
    BY <1>t
  <2>2. DOMAIN active' = DOMAIN active \cup {seq}
    OBVIOUS
  <2>3. active' \in [DOMAIN active' -> Exprs]
    BY <1>t, <2>2
  <2>4. wval' \in [DOMAIN active' -> Vals]
    <3>1. val[e] \in Vals
      BY <1>t DEF Evals
    <3>2. QED BY <1>t, <2>2, <3>1
  <2>5. DOMAIN active' \in SUBSET (0 .. seq' - 1)
    BY <1>t, <2>1, <2>2
  <2>6. QED BY <1>t, <2>1, <2>3, <2>4, <2>5, CommandIInv
<1>3. CASE cmd_w_exhausted
  BY <1>3, <1>t, CommandIInv DEF cmd_w_exhausted, Command, WL!Exhausted
<1>4. ASSUME NEW no \in 0 .. MaxSeq, cmd_d(no) PROVE IInv'
  <2> USE <1>4 DEF cmd_d, Command, WL!Delete, WL!Restrict, Restrict
  <2>1. DOMAIN active' = DOMAIN active \ {no} /\ DOMAIN wval = DOMAIN active
    BY <1>t
  <2>2. active' \in [DOMAIN active' -> Exprs] /\ wval' \in [DOMAIN active' -> Vals]
    BY <1>t, <2>1
  <2>3. QED BY <1>t, <2>1, <2>2, CommandIInv
<1>5. CASE cmd_q
  BY <1>5, <1>t, CommandIInv DEF cmd_q, Command, WL!Quit
<1>6. CASE cmd_other
  BY <1>6, <1>t, CommandIInv DEF cmd_other, Command, watches
<1>7. CASE end_of_input
  BY <1>7, <1>t, CommandIInv DEF end_of_input, watches
<1>8. CASE batch_start
  <2>1. Forever \in Counts
    BY DEF Counts
  <2>2. QED BY <1>8, <2>1, cpu_execIInv DEF batch_start
<1>9. QED
  BY <1>1, <1>2, <1>3, <1>4, <1>5, <1>6, <1>7, <1>8 DEF Prompt

(***************************************************************************)
(* The loop.                                                               *)
(***************************************************************************)
LEMMA execIInv ==
  ASSUME IInv, NEW v \in [Exprs -> Evals], NEW outcome \in Outcomes, exec(v, outcome)
  PROVE  IInv'
<1> USE CpuExecAssumption DEF exec, halt_retAfter, watches
<1>s. state = "RUNNING" /\ (ended = "no" \/ closed)
  BY DEF IInv, Flow, EndStays
<1>0. /\ state' \in {"RUNNING", "END", "ABORT"}
      /\ ended' # "no" /\ ~ closed' => state' \in {"END", "ABORT"}
      /\ Told'
  <2> USE DEF Told
  <2>1. CASE outcome = "plain"
    BY <2>1, <1>s
  <2>2. CASE outcome \in {"good", "bad", "inv", "mismatch"}
    BY <2>2, <1>s
  <2>3. QED BY <2>1, <2>2 DEF Outcomes
<1>1. TypeOK'
  <2>1. WatchesOK'
    BY DEF IInv, TypeOK, WatchesOK
  <2>e. EventsOK'
    BY DEF IInv, TypeOK, EventsOK
  <2>2. halt_ret' \in {0, 1} /\ ended' \in {"no", "good", "bad"} /\ closed' \in BOOLEAN
    BY DEF IInv, TypeOK
  <2>3. ran' \in Nat
    BY DEF IInv, TypeOK
  <2>4. QED BY <1>0, <2>1, <2>e, <2>2, <2>3 DEF IInv, TypeOK, States, Pcs
<1>2. Flow' /\ StopHasReason' /\ EndStays'
  BY <1>0 DEF Flow, StopHasReason, EndStays
<1>3. Counted'
  BY DEF IInv, Counted, TypeOK, Counts
<1>4. Recorded'
  BY DEF Recorded, Scanned, OutOfDate
<1>5. UpToDateWhenRunning'
  BY DEF UpToDateWhenRunning, Scanned
<1>6. QED
  BY <1>0, <1>1, <1>2, <1>3, <1>4, <1>5 DEF IInv

LEMMA scanIInv ==
  ASSUME IInv, scan
  PROVE  IInv'
<1> USE CpuExecAssumption
<1> DEFINE differ == {no \in DOMAIN active : OutOfDate(no)}
           fires  == state = "RUNNING" /\ differ # {}
           first  == CHOOSE no \in differ : \A m \in differ : m <= no
<1>t. TypeOK
  BY DEF IInv
<1>u. /\ pc = "scan" /\ pc' = "update"
      /\ UNCHANGED <<batch_mode, halt_ret, n, val, seq, active, flag, events, proc,
                     asked, ran, prev, stale, ended, closed>>
  BY DEF scan
<1>1. CASE fires
  <2>1. state' = "STOP" /\ hit' = TRUE
    BY <1>1 DEF scan
  <2>2. wval' \in [DOMAIN active -> Vals]
    <3>1. PICK f : wval' = [wval EXCEPT ![f] = val[active[f]]]
      BY <1>1 DEF scan
    <3>2. f \in DOMAIN active => val[active[f]] \in Vals
      BY <1>t DEF scan, TypeOK, WatchesOK, Undefined, Evals
    <3>3. QED BY <3>1, <3>2, <1>t DEF TypeOK, WatchesOK
  <2>3. TypeOK'
    <3>1. WatchesOK' /\ EventsOK'
      BY <1>t, <1>u, <2>2 DEF TypeOK, WatchesOK, EventsOK
    <3>2. QED BY <1>t, <1>u, <2>1, <3>1 DEF TypeOK, States, Pcs
  <2>4. Flow' /\ StopHasReason' /\ Counted'
    BY <1>u, <2>1 DEF IInv, Flow, StopHasReason, Counted
  <2>5. EndStays' /\ Told'
    BY <1>1, <1>u DEF IInv, EndStays, Told
  <2>6. Recorded' /\ UpToDateWhenRunning'
    BY <1>u, <2>1 DEF Recorded, Scanned, UpToDateWhenRunning
  <2>7. QED BY <2>3, <2>4, <2>5, <2>6 DEF IInv
<1>2. CASE ~ fires
  <2>1. state' = state /\ wval' = wval /\ hit' = hit
    BY <1>2, <1>t DEF scan, TypeOK
  <2>2. TypeOK'
    <3>1. WatchesOK' /\ EventsOK'
      BY <1>t, <1>u, <2>1 DEF TypeOK, WatchesOK, EventsOK
    <3>2. QED BY <1>t, <1>u, <2>1, <3>1 DEF TypeOK, Pcs
  <2>3. Flow' /\ StopHasReason' /\ Counted' /\ EndStays' /\ Told' /\ Recorded'
    BY <1>u, <2>1 DEF IInv, Told, Flow, StopHasReason, Counted, EndStays, Recorded, Scanned
  <2>4. UpToDateWhenRunning'
    BY <1>2, <1>u, <2>1 DEF UpToDateWhenRunning, Scanned, OutOfDate
  <2>5. QED BY <2>2, <2>3, <2>4 DEF IInv
<1>3. QED
  BY <1>1, <1>2

(* The process is gone, and nothing else has changed. *)
LEMMA AbortIInv ==
  ASSUME IInv, scan_assert \/ die
  PROVE  IInv'
<1> USE DEF scan_assert, die, watches, ghosts
<1>1. TypeOK'
  BY DEF IInv, TypeOK, WatchesOK, EventsOK
<1>2. Flow' /\ Counted' /\ StopHasReason' /\ EndStays' /\ Told'
  BY DEF IInv, Flow, Counted, StopHasReason, EndStays, Told
<1>3. Recorded' /\ UpToDateWhenRunning'
  BY DEF IInv, Recorded, UpToDateWhenRunning, Scanned, OutOfDate
<1>4. QED
  BY <1>1, <1>2, <1>3 DEF IInv

LEMMA device_updateIInv ==
  ASSUME IInv, device_update
  PROVE  IInv'
<1> USE CpuExecAssumption DEF device_update, watches, ghosts
<1>1. TypeOK'
  <2>1. WatchesOK' /\ EventsOK'
    BY DEF IInv, TypeOK, WatchesOK, EventsOK
  <2>2. flag' \in BOOLEAN /\ pc' \in Pcs
    BY DEF Pcs
  <2>3. QED BY <2>1, <2>2 DEF IInv, TypeOK
<1>2. Flow' /\ Counted' /\ StopHasReason' /\ EndStays' /\ Told'
  BY DEF IInv, Flow, Counted, StopHasReason, EndStays, Told
<1>3. Recorded' /\ UpToDateWhenRunning'
  BY DEF IInv, Recorded, UpToDateWhenRunning, Scanned, OutOfDate
<1>4. QED
  BY <1>1, <1>2, <1>3 DEF IInv

LEMMA poll_eventIInv ==
  ASSUME IInv, poll_event
  PROVE  IInv'
<1> USE CpuExecAssumption DEF poll_event, watches
<1>1. TypeOK'
  <2>1. WatchesOK'
    BY DEF IInv, TypeOK, WatchesOK
  <2>2. EventsOK'
    BY QueueChange DEF IInv, TypeOK
  <2>3. state' \in States
    BY DEF IInv, TypeOK, States
  <2>4. closed' \in BOOLEAN
    BY Zenon DEF IInv, TypeOK
  <2>5. QED BY <2>1, <2>2, <2>3, <2>4 DEF IInv, TypeOK
<1>2. Flow' /\ Counted' /\ StopHasReason' /\ EndStays' /\ Told'
  BY DEF IInv, Flow, Counted, StopHasReason, EndStays, Told
<1>3. Recorded' /\ UpToDateWhenRunning'
  BY DEF IInv, Recorded, UpToDateWhenRunning, Scanned, OutOfDate
<1>4. QED
  BY <1>1, <1>2, <1>3 DEF IInv

LEMMA poll_doneIInv ==
  ASSUME IInv, poll_done
  PROVE  IInv'
<1> USE CpuExecAssumption DEF poll_done, watches, ghosts
<1>1. TypeOK'
  BY DEF IInv, TypeOK, WatchesOK, EventsOK, Pcs
<1>2. Flow' /\ Counted' /\ StopHasReason' /\ EndStays' /\ Told'
  BY DEF IInv, Flow, Counted, StopHasReason, EndStays, Told
<1>3. Recorded' /\ UpToDateWhenRunning'
  BY DEF IInv, Recorded, UpToDateWhenRunning, Scanned, OutOfDate
<1>4. QED
  BY <1>1, <1>2, <1>3 DEF IInv

LEMMA next_instrIInv ==
  ASSUME IInv, next_instr
  PROVE  IInv'
<1> USE CpuExecAssumption DEF next_instr, watches, ghosts
<1>0. n' \in Counts /\ (n # Forever => n \in Nat /\ n' = n - 1)
  BY DEF IInv, TypeOK, Counted, Counts
<1>1. TypeOK'
  BY <1>0 DEF IInv, TypeOK, WatchesOK, EventsOK, Pcs
<1>2. Counted'
  BY <1>0 DEF IInv, TypeOK, Counted, Counts
<1>3. Flow' /\ StopHasReason' /\ EndStays' /\ Told'
  BY DEF IInv, Flow, StopHasReason, EndStays, Told
<1>4. Recorded' /\ UpToDateWhenRunning'
  BY DEF Recorded, UpToDateWhenRunning, Scanned
<1>5. QED
  BY <1>1, <1>2, <1>3, <1>4 DEF IInv

(* A return with the state still RUNNING is a count used up: n is 0, so    *)
(* ran is asked by Counted.                                                *)
LEMMA cpu_exec_returnIInv ==
  ASSUME IInv, cpu_exec_return
  PROVE  IInv'
<1> USE CpuExecAssumption DEF cpu_exec_return, watches
<1>1. TypeOK'
  <2>1. WatchesOK' /\ EventsOK'
    BY DEF IInv, TypeOK, WatchesOK, EventsOK
  <2>2. n' \in Counts
    BY DEF Counts
  <2>3. QED BY <2>1, <2>2 DEF IInv, TypeOK, States, Pcs
<1>2. StopHasReason'
  <2>1. CASE pc = "loop" /\ n = 0
    BY <2>1 DEF IInv, TypeOK, Counted, StopHasReason
  <2>2. CASE pc = "check" /\ state # "RUNNING"
    BY <2>2 DEF IInv, Flow, StopHasReason
  <2>3. QED BY <2>1, <2>2
<1>3. Flow' /\ Counted' /\ EndStays' /\ Told'
  BY DEF IInv, Flow, Counted, EndStays, Told
<1>4. Recorded' /\ UpToDateWhenRunning'
  BY DEF Recorded, UpToDateWhenRunning, Scanned
<1>5. QED
  BY <1>1, <1>2, <1>3, <1>4 DEF IInv

(***************************************************************************)
(* The signal and the window, which disturb only the flag and the queue.   *)
(***************************************************************************)
LEMMA OutsideIInv ==
  ASSUME IInv, flag' \in BOOLEAN, EventsOK',
         UNCHANGED <<batch_mode, state, halt_ret, pc, n, val, watches, proc, ghosts>>
  PROVE  IInv'
<1> USE DEF watches, ghosts
<1>1. TypeOK'
  BY DEF IInv, TypeOK, WatchesOK
<1>2. Flow' /\ Counted' /\ StopHasReason' /\ EndStays' /\ Told'
  BY DEF IInv, Flow, Counted, StopHasReason, EndStays, Told
<1>3. Recorded' /\ UpToDateWhenRunning'
  BY DEF IInv, Recorded, UpToDateWhenRunning, Scanned, OutOfDate
<1>4. QED
  BY <1>1, <1>2, <1>3 DEF IInv

LEMMA NextIInv == IInv /\ [Next]_vars => IInv'
<1> SUFFICES ASSUME IInv, [Next]_vars PROVE IInv'
  OBVIOUS
<1>e. EventsOK /\ flag \in BOOLEAN
  BY DEF IInv, TypeOK
<1>1. CASE Prompt
  BY <1>1, PromptIInv
<1>2. CASE Loop
  BY <1>2, execIInv, scanIInv, AbortIInv, device_updateIInv, poll_eventIInv, poll_doneIInv,
     next_instrIInv, cpu_exec_returnIInv DEF Loop
<1>3. CASE alarm
  <2>1. EventsOK'
    BY <1>3, <1>e DEF alarm, EventsOK
  <2>2. QED BY <1>3, <2>1, OutsideIInv DEF alarm
<1>4. ASSUME NEW ev \in {"quit", "key"}, window(ev) PROVE IInv'
  <2>1. EventsOK'
    BY <1>4, <1>e, CpuExecAssumption DEF window, EventsOK
  <2>2. QED BY <1>4, <1>e, <2>1, OutsideIInv DEF window
<1>5. CASE UNCHANGED vars
  <2> USE <1>5 DEF vars
  <2>1. EventsOK'
    BY <1>e DEF EventsOK
  <2>2. QED BY <1>e, <2>1, OutsideIInv
<1>6. QED
  BY <1>1, <1>2, <1>3, <1>4, <1>5 DEF Next

(***************************************************************************)
(* The theorems.                                                           *)
(***************************************************************************)

(* The inductive invariant of cpu_exec and what drives it. *)
THEOREM CpuExecInvariant == Spec => []IInv
<1>1. QED
  BY InitIInv, NextIInv, PTL DEF Spec

(* Past the scan with the guest running every live watchpoint is up to     *)
(* date (cpu-exec.c, the scan of the watchpoints).                         *)
THEOREM UpToDateWhenRunningHolds == Spec => []UpToDateWhenRunning
<1>1. IInv => UpToDateWhenRunning
  BY DEF IInv
<1>2. QED
  BY <1>1, CpuExecInvariant, PTL

(* What an instruction changed under an up-to-date watchpoint stops the    *)
(* guest: Recorded says that such a watchpoint still holds the old value,  *)
(* UpToDateWhenRunning that it holds the new one if the guest runs on.     *)
THEOREM ChangeStopsHolds == Spec => []ChangeStops
<1>1. IInv => ChangeStops
  BY DEF IInv, Recorded, UpToDateWhenRunning, ChangeStops, OutOfDate
<1>2. QED
  BY <1>1, CpuExecInvariant, PTL

(* At the prompt the guest is not running, and STOP has a reason           *)
(* (cpu-exec.c, the end of cpu_exec).                                      *)
THEOREM StopHasReasonHolds == Spec => []StopHasReason
<1>1. IInv => StopHasReason
  BY DEF IInv
<1>2. QED
  BY <1>1, CpuExecInvariant, PTL

(* main's exit status is good exactly for a program that ended well, as    *)
(* long as the window was not closed since (is_exit_status_bad).           *)
THEOREM StatusTellsOutcomeHolds == Spec => []StatusTellsOutcome
<1>1. IInv => StatusTellsOutcome
  BY DEF IInv, TypeOK, Told, EndStays, StatusTellsOutcome, is_exit_status_bad
<1>2. QED
  BY <1>1, CpuExecInvariant, PTL

(* Nothing but closing the window takes a program that ended out of END    *)
(* and ABORT (the RUNNING guard of the scan, the refusal in cpu_exec).     *)
THEOREM EndStaysHolds == Spec => []EndStays
<1>1. IInv => EndStays
  BY DEF IInv
<1>2. QED
  BY <1>1, CpuExecInvariant, PTL
=============================================================================

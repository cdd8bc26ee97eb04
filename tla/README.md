# NEMU and Abstract-Machine: models, checks and proofs

This directory holds TLA+ models of the repository: NEMU, an instruction-set
emulator with an interactive debugger and a few devices (`nemu/`), and
Abstract-Machine, the runtime that guest programs are linked with
(`abstract-machine/`). Every definition is translated from the C source;
`PROJECT.json` names the lines behind each of them. TLC checks the models on
small instances, TLAPS proves the main safety properties for every size.

Paths below are relative to the repository; `N/` is `nemu/src/`, `A/` is
`abstract-machine/am/src/`.

## The system

| Part | State | Operations | What makes it correct |
|---|---|---|---|
| Watchpoint pool, `N/monitor/debug/watchpoint.c` | array `wp_pool` threaded on two lists, `head` and `free_`; the texts on the heap; `cmd_w`'s counter | `w`, `d`, `info w`, `q` | the lists partition the array; a number names one watchpoint; no text leaks or is freed twice |
| Execution loop, `N/monitor/cpu-exec.c` | `nemu_state`, the count `n`, each watchpoint's recorded value | `cpu_exec`: execute, compare with the reference, scan watchpoints, poll devices, test the state | a change stops the guest; an ended guest stays ended; the exit status tells how it ended |
| Debugger prompt, `N/monitor/debug/ui.c` | batch mode | a line read, the event queue emptied, one command run | nothing of the prompt leaks into the guest |
| Expressions, `N/monitor/debug/expr.c` | the token array, `error_flag` | `expr` | the value of the C expression, or an error |
| Alarm, `N/device/alarm.c`, `device.c` | `device_update_flag` | a signal handler at 60 Hz of processor time; the poll after an instruction | the poll runs again and again |
| Keyboard, `N/device/keyboard.c`, `A/nemu/ioe/input.c` | ring `key_queue`, `key_f`, `key_r` | `send_key` from the poll, a port read by the guest | a FIFO |
| Sound, `N/device/audio.c`, `A/nemu/ioe/audio.c` | ring `sbuf`, `count`, `qhead`; the guest's `qtail` | SDL's thread calls `audio_play`; the guest's `audio_write` | the guest's bytes once and in order, silence otherwise |
| IO maps, memory, `N/device/io/*`, `N/memory/paddr.c` | map tables, `io_space`, `pmem` | `new_space`, `add_*_map`, `paddr_read/write` | an access reaches one device or memory, and nothing beside it |
| Screen, timer, serial, `N/device/{vga,timer,serial}.c` | sync register, RTC words | port accesses | a frame drawn when asked for; time that does not jump |
| Differential testing, `N/monitor/difftest/dut.c`, `nemu/tools/{qemu,kvm}-diff` | `is_skip_ref`, `skip_dut_nr_instr`, the reference's registers; the connection to QEMU | `difftest_step`, `skip_ref`, `skip_dut`; requests of the GDB protocol | a difference is reported, an equality never; each reply belongs to its request |
| Instruction sets, `N/isa/{riscv32,mips32,x86}` | registers | `isa_exec_once` | the ISA manual |
| AM on NEMU, `A/nemu` | none to speak of | `ioe_read/write`, `putch`, `halt` | |
| AM native, `A/native` | signal masks, per-processor `thiscpu`, lists of mappings, rings | signals, `fork`, `mmap`, `map`, `__am_switch` | contexts, kernel stacks and address spaces switched together; a trap told its own event |
| AM x86-qemu, `A/x86/qemu` | boot record, per-processor stacks, page tables, `cr3` and `rsp0` | start of the application processors, `halt`, `map`, `unprotect`, traps | one processor at a time on the boot stack; tables freed once; no translation used after its removal |
| klib, `abstract-machine/klib` | the bump allocator | string and format routines, 64-bit division | the C library's contracts |

How they interact: one thread runs prompt, loop and devices; the alarm signal
interrupts it anywhere and only sets a flag; SDL's audio thread shares `count`
and `sbuf` with it; the window's event queue is filled by the user and emptied
by the poll and by the prompt. The guest talks to devices through IO maps, whose
callbacks run inside the guest's load or store.

What is hard here: the signal and the event queue against the loop (END, STOP
and QUIT may all be due after one instruction), values recorded by watchpoints
against several changes at once, the unlocked `count`, rings at their limits,
pointer surgery on the pool, start-up and halt of several processors on one boot
record, signals against the state of a forked processor, page tables and kernel
stacks under every order of switches.

## Modules

| Module | Models |
|---|---|
| `WatchList` | what the pool promises: a bounded set of numbered watchpoints |
| `WatchPool` | `watchpoint.c` and the commands of `ui.c` on it, pointer by pointer |
| `WatchPoolProofs` | its invariants, and that it implements `WatchList` |
| `CpuExec` | `cpu-exec.c`, the prompt, the poll, the alarm and the window |
| `CpuExecProofs` | its invariants |
| `KeyFifo` | what the keyboard promises: a bounded FIFO |
| `KeyQueue` | `keyboard.c`, the poll and the prompt around it, the guest's driver |
| `KeyQueueProofs` | its invariants, and that the ring implements `KeyFifo` |
| `Audio` | the sound stream, one step per access to shared memory |
| `Expr` | `expr.c` against a grammar |
| `Bus` | the IO maps as the devices register them, and the clock on them |
| `DeviceProofs` | the invariants of the sound stream, of the clock and of the IO maps |
| `Riscv32Decode` | the bit-fields and immediates of riscv32, at 32 bits, against the manual |
| `Riscv32` | the riscv32 interpreter over words of `W` bits, against the manual |
| `WordProofs` | arithmetic at every width: the decoding, invariants and steps of `Riscv32`, `Int64`'s division; the invariant of `KlibString` |
| `Difftest` | `dut.c`: the comparison with QEMU and the catch-ups |
| `DifftestProofs` | its invariants |
| `Gdb` | the GDB client of `qemu-diff`: packets, acknowledgement, transfers |
| `X86Boot` | the processors of AM x86-qemu from the boot sector to `halt` |
| `X86Vm` | page tables, contexts and traps of AM x86-qemu |
| `X86Proofs` | the invariants of `X86Boot` and `X86Vm` |
| `NativeVm` | AM on Linux processes: start, signals, contexts, address spaces |
| `NativeVmProofs` | its invariants |
| `Int64` | `int64.c`, the 64-bit division of 32-bit guests |
| `KlibString` | `string.c`, one step for each pass through a loop |
| `Klib` | `stdio.c`, `atoi` |
| `MCDevices` | `KeyQueue` and `Bus`, which share no state, in one state space |
| `MCFunctions` | `Expr`, `Int64`, `KlibString`, `Klib` and `Gdb` on all small inputs, in one state space |
| other `MC*` | instances for TLC |

A definition preceded by "Mutated" is a mistake one could make in the code: each
property is shown to fail with at least one of them in place of the definition
it stands for.

### How states and actions correspond to the code

**WatchPool.** `link` is every `WP *` in memory: the variables `head` and `free_`
(cells `HEAD`, `FREE`) and each node's `next`, so that the `WP **` of
`element_exchange` is a cell. `heap` is a ghost, the nodes whose `what` is
allocated. `cmd_w` is `new_wp` and the stores of the command in one step (one
thread, no wait in between); `cmd_d` enters `free_wp`, whose loop goes node by
node (`free_wp_next`, `free_wp_hit`, `free_wp_miss`) with its cursor and its
`WP **` in `current` and `front`. `new_wp_assert` is the failing `Assert`, `cmd_q`
the loop of `free` calls. `WatchList` has one action per outcome of a command;
its `active` is what `watched` reads off the pool.

**CpuExec.** `pc` says where the thread is: at the prompt, before an instruction
(`loop`), before the watchpoint scan (`scan`), before `device_update`
(`update`), in its event loop (`poll`), before the test of the state (`check`).
`exec` is `isa_exec_once` with `difftest_step`: it may change every watched value
and end in any of the ways `Outcomes` names; or the process ends in it (`die`: an
address that no map answers, a fault of the host, an assertion of `difftest_step`), as
it may in `send_key`. The live watchpoints are those of
`WatchList`; `wval` is their field `val`. `alarm` and `window` are the signal
handler and the user, and may come between any two steps. The variables called
ghosts record what the properties speak of and influence nothing.

**KeyQueue.** `key_queue`, `key_f`, `key_r` are the static variables; `send_key`
with the poll around it is `poll_key`, `i8042_data_io_handler` with the guest's
`inl` is `inl_KBD`, which leaves what `__am_input_keybrd` returns in `kbd`.
Everything else a guest does is `instr`.

**Audio.** Two program counters: `gpc` for the guest in `audio_write`, whose `outb`
is a store to the ring (`outb_store`) and `count += 1` as a load and a store
(`sbuf_handler_load`, `sbuf_handler_add`); `tpc` for SDL's thread in
`audio_play`, which reads `count` once or twice, copies byte by byte and takes off
what it copied as a load and a store. Bytes are numbered in the order the guest
writes them, so `heard` and `glitch` can tell whether the stream is in order;
`torn` says that a store to `count` overwrote one of the other side.

**Expr.** No state but the text, which grows token by token. `expr` and the
operators above it follow the functions of `expr.c` one by one; `Meanings` is the
grammar, written without a look at how the code finds the main operator.

**Riscv32.** `fetch` takes any instruction, with any fields; the action named for
its opcode runs the helper over the RTL (`c_op`, `interpret_relop`), `write_rd`
ends with `reset_zero`, `update_pc` writes the program counter. The data access
stays visible in `access` for one step; the memory that answers it is external.
`host` says whether the emulator process is alive: an assertion or a fault of the
host's divide instruction kills it.

**Difftest.** A machine state is the number of instructions executed and a tag for
where its registers are wrong. `isa_exec_once` executes an instruction of any
kind, with or without a bug, and calls `difftest_skip_ref` (device access,
`nemu_trap`) or `difftest_skip_dut` (`jalr`); `caught_up`, `not_yet`,
`skip_checking` and `compare` are the paths through `difftest_step`. A single step
of QEMU is external: one instruction, or a jump together with the next one, as
the comment in `dut.c` says.

**Bus.** `init_device` is the list of `new_space` and `add_*_map` calls the devices
make, in the order of `init_device()`, with the code's own sizes and addresses;
`register` performs the next one. `paddr_access` and `pio_common` are the two ways
in; `first_byte` is the place in `io_space` from which an access takes a word,
which is what `map_read` reads whatever the length asked for. On top of it the
clock: `inl` is `rtc_io_handler` with the guest's load, `evaluate` the arithmetic of
`__am_timer_init` the first time and of `__am_timer_uptime` afterwards. C does not
say which of the two `inl` of one sum comes first, so either may. The sum is of 32
bits (`WORD`), the difference of the uptime of 64 without a sign (`UINT64`).

**X86Boot.** `pc` is where each processor is: waiting for a start-up interrupt, in
the boot record, on the boot stack (`start` to `bootcpu`, named for the functions), in
`mpe_init`, in `othercpu_entry` (`othercpu`, then `ready`), in the program (`user`), in
`__am_stop_the_world` (`stop`), and printing on the way off.
`ipi` holds the INIT and start-up interrupts of `__am_lapic_bootap` that are posted
and not taken; `target` and `phase` are the sender's loop. INIT resets its target
wherever it is.

**X86Vm.** `pt` holds the present entries of each table, `ptr` the root of each space,
`used` what `pgalloc` has given out. `ptwalk` follows and makes tables as the C loop
does, `Tables` is `teardown`. A processor's `tlb` fills by `access`, a free choice of
a user task, and is emptied by a load of `cr3`; `trap` saves the context and
`irq_return` is the end of `__am_irq_handle` and `__am_iret`. `asked` and `remote` are
ghosts.

**NativeVm.** A process is a processor. `signal` is `sig_handler` with `setup_stack`:
it saves the context and leaves the process at `irq_handle` (`signalled`), which is a
step of its own, as the signal has returned by then; `irq_return` is the rest of
`irq_handle` with `__am_switch` and `iret`, one step because the kernel's handler is
taken to return with the signals blocked, as it was called. `mmaps` is what the process really has
mapped, `list` the shared `PageMap` nodes with their flag. `cause` is a ghost: the
event the context was made for. A processor's start is `fork`, the read of the
pipe (`child_entry`) and on the other side `mpe_ioe`, `mpe_release`, `mpe_entry`.

**Int64, Klib, Gdb.** Each C function is an operator, a loop a recursion with the
loop's variables as its parameters. `Int64` takes words of `2^LOG` bits and keeps the
code's case split; its loops are functions from a state to the next that `Iterate`
applies so many times, which is recursion the provers can follow, and its only
variable holds the `operands` of the division a program asks for. In `Gdb` a stream is a
sequence of bytes with a position, and what the client writes is returned beside
what it reads.

**KlibString.** `memory` is a function from addresses to bytes. `start` is a call, with
what it finds in memory; then each pass through a loop of `string.c` is a step. The
pointers that the code advances are `dp` and `sp`, its index is `cnt`, what is left of
`n` is `left`, and `running` is the loop: `strcpy` and the second half of `strcat` share
`copy`. `LegalCall` is what C asks of a caller: strings that end, room for the result,
no overlap. `before` is a ghost, memory as the call found it.

## What is checked

Each run's configuration says what its bounds let happen. The runs that pass
finish; the two marked *violation* each check a sentence of the repository's own
comments that the code does not keep, and are kept as a record of it.

| Run | Instance | Shows |
|---|---|---|
| `WatchPool` | 3 nodes, 6 numbers, 2 texts | the pool in any order of `w` and `d`, with refinement of `WatchList` and termination of `free_wp`. Three nodes are the fewest with a first, an inner and a last one; six numbers reuse each node in any order |
| `CpuExec` | 2 watchpoints, 2 expressions with values 0, 1 or undefined, `si 0`, `si 1`, `c`, 1 waiting event, batch or not | which state the guest is left in, why, and main's exit status. Two watchpoints are what it takes for one to hide the other; more waiting events only repeat the poll's loop |
| `Devices` | keyboard: ring of 3, scancodes of 2 bits, one beyond them, one without a key, 2 waiting events. IO maps: the code's own sizes, both screens. Clock: 2 ticks a second, words modulo 16, started at 7 | the ring is a FIFO of capacity 2, through wrap-around and overflow; nothing typed at the prompt reaches the guest. No access that passes the check of its first byte touches what another device keeps or leaves `io_space`. The uptime is off by less than a second at either end: its lower word always, all its 64 bits until the 32-bit sum wraps, except that a time below zero, possible in the first two seconds, comes out 2^64 larger. The clock crosses several seconds and the wrap, and the start may be read across a second, which gives such a time. Keyboard and clock share no state, so each moves while the other stands still |
| `Audio` | ring of 3, callbacks for 2, 7 bytes | `count` in range under every interleaving, order kept as long as no update is lost, `audio_write` returns. The ring goes round twice, is full, empty and in between, and callbacks are short and not |
| `Riscv32` | 4-bit words, 3 registers, immediates 1, 7, -8, -1, jumps forward and backward | every instruction on every pair of operands, `rd = rs1` and the zero register as any operand included; no opcode, `funct3` or `funct7` is left out. Four bits have every boundary 32 have: the signs, the overflow of division, shift amounts beyond the width; the theorem covers the others |
| `Difftest` | programs of 6 instructions | every mix of plain instructions, jumps, device accesses and traps, packed or not by QEMU, with a bug anywhere; six instructions allow two catch-ups, three jumps in a row with a device access at either end, and a bug before or after |
| `Functions` | expressions of 7 tokens over three alphabets; all pairs of 8-bit double words (4-bit words); all pairs of strings of 2 over three characters, one of them beyond 127, with `char` unsigned, and the comparisons of one with its own tail; formats of 5 characters; replies of 3 pieces after up to 2 refusals and 2 damaged copies, transfers of 5 bytes in chunks of 3 | `expr` computes what the grammar means and accepts nothing else; division, the functions on strings and memory, and formats do what C says; the GDB client repeats what is refused or damaged, decodes what is meant, and tells when a chunk of a transfer was refused. Seven tokens hold three operators with their operands, or two around a parenthesis; every case of `__udivmoddi4` has an instance at four bits, and the theorem covers the other widths, as it does the other strings |
| `X86Boot` | 3 processors | one processor at a time on the boot stack, each set up before it runs the program, all of them reach it; a processor that halts stops the others and ends the machine, unless another halts meanwhile: two may reset each other. Three are what it takes for one to start while another runs the program, and for two to halt with a third running |
| `X86Vm` | 2 processors, 2 spaces with a user task each, 2 boot tasks, 3 pages, 2 levels | tables owned once and freed whole; `map` changes one page only; a user task always comes back to its own table and kernel stack; no removed translation is used. One task runs on either processor, the pages run out, tables and spaces are reused |
| `NativeVm` | 2 processes, 2 user tasks in a space each, 2 boot tasks and a kernel task made later, traps 2 deep in a boot task and a user task, a timer | a process has the pages its space's list calls mapped and no others; a trap goes to the top of the task's own kernel stack and is told its own event; no one enters the program before the devices exist |
| `NativeVmShared` *(violation)* | 2 tasks in one space | `is_mapped` is one flag for all processes: the second processor to leave a space unmaps nothing (`A/native/vme.c:48`), against the comment "munmap all mappings" at line 46 |
| `StringOrder` *(violation)* | strings of one character or none, 1 or 200, `char` signed | `strcmp` subtracts plain `char`s, signed on x86 and mips (`string.c:43`): a string that goes on with a character from 128 on is found less than the one it extends, against the comment at line 39, "s1_len > s2_len <-> s1[s2_len] > s2[s2_len]", and against C, which compares unsigned characters. `strncmp` does the same in line 53 |

A process ends in most of these models (a failed assertion, `q`, power-off), so
deadlock is not checked there; the liveness properties below say what must not
hang. `NativeVm` never ends, and its run checks for deadlock.

### Fairness

| Specification | Assumes | Because |
|---|---|---|
| `WatchPool!FairSpec` | the loop of `free_wp` goes on | one thread, nothing in the loop waits |
| `CpuExec!FairSpec` | `cpu_exec`'s loop goes on; the alarm rings again | the loop never blocks; the timer is `ITIMER_VIRTUAL`, which counts the processor time the loop itself spends, so it fires while the loop runs. A command at the prompt and the user are not fair |
| `X86Boot!FairSpec` | each processor goes on, and takes an interrupt that waits for it | processors are independent; nothing masks INIT and start-up interrupts. That a processor in the program ever halts is not assumed |
| `Audio!FairSpec` | the guest goes on; SDL's thread calls back | both are threads that nothing suspends once `SDL_PauseAudio(0)` has been called; a guest need not call `audio_write` |

`CloseStops` needs both parts of its fairness: without the alarm the poll never
runs again, and `c` is never stopped.

## What is proved

Each theorem holds for every value of the constants that satisfies the named
assumption; the bounds of the runs (`MaxSeq`, `MaxEvents`, `MaxBytes`, ...) are
arbitrary there.

| Module | Theorem | From |
|---|---|---|
| `WatchPoolProofs` | the lists partition the pool, `TextOwned`, newest first, `UnlinksWhatItFrees`; the pool implements `WatchList` | `PoolAssumption` |
| `CpuExecProofs` | `UpToDateWhenRunning`, `ChangeStops`, `StopHasReason`, `EndStays`, `StatusTellsOutcome` | `CpuExecAssumption` |
| `KeyQueueProofs` | `PromptKeysDropped`; the ring implements `KeyFifo` | `KeyQueueAssumption` |
| `DeviceProofs` | `CountInRange`, `InOrder`, for every ring and callback size | `AudioAssumption` |
| `DeviceProofs` | `UptimeNear`, for every number of ticks a second and every width of the words, the difference taken in twice that width | `BusAssumption` |
| `DeviceProofs` | `AccessInside`, for every screen that does not fill its last page | `ScreenAssumption` |
| `WordProofs` | every 32-bit word decodes as the manual says | none |
| `WordProofs` | `StepPerISA`, `LegalCompletes` and `ZeroStaysZero`, for every width that is a multiple of 4, every register file and every set of immediates | `WidthAssumption`, `RegAssumption`, `ImmAssumption` |
| `WordProofs` | `DivAgrees`: the division of double words, for words of any power of two of bits and all pairs | `LogAssumption` |
| `WordProofs` | `StringsAgree`, for memories of every size and contents and every legal call: comparisons by unsigned characters, as in C; where `char` is signed, the order of a character below 128 and one from there on is left open | `StringAssumption` |
| `WordProofs` | `LongerIsGreater` for the same | the same and, as a hypothesis of the theorem, that `char` is unsigned |
| `X86Proofs` | `BootStackExclusive`, `SetUpInOrder`, `WorldStopped`, for any number of processors | `CpuAssumption` |
| `X86Proofs` | `PagesOwned`, `TranslatesAsAsked`, `UserRunsOwn`, `NoStaleTranslation`, for any processors, spaces, tasks and pages, and every depth of the tables | `VmAssumption` |
| `NativeVmProofs` | `TrapOnOwnStack`, `EventIsOwn`, `EntryAfterIoe`, for any number of processes, tasks and nested traps | `NativeVmAssumption` |
| `NativeVmProofs` | `MmapsAreTheSpaces`, `LeavesNothing` | the same and, as a hypothesis of the theorems, `OneTaskPerSpace` |
| `DifftestProofs` | `InStep`, `NoPanicWhenRight`, `NoFalseAlarm`, `SkipConsumed`, for programs of every length | `LenAssumption` |

None of these properties is inductive by itself. The arguments, in short:

- **Pool.** One order of all the nodes explains both lists: its first `k` nodes are
  the list at `head`, the rest the list at `free_`. `element_exchange` changes the
  order by moving one node to the front of the other part, whichever cell it is
  reached by. The same order carries the allocated texts, the falling numbers and
  the position of `free_wp`'s cursor; a `d` that unlinks is the one case where the
  order is permuted, and its lemma is the heart of the proof. The refinement
  follows: the abstract `active` changes exactly when the boundary `k` moves.
- **Execution loop.** `Flow` (which states can occur at which point), `Counted` (the
  instructions executed and those left add up), `Recorded` (an up-to-date
  watchpoint holds the value from before the instruction) and `Told` (what
  `halt_ret` says of an ended program). `ChangeStops` needs `Recorded`: the scan
  compares with the recorded value, the property speaks of the previous one.
- **Keyboard.** The abstract queue is the stretch of the ring from `key_f` to `key_r`;
  that `typed` events are gone once a guest runs gives `PromptKeysDropped`.
- **Sound.** `Room`: what the guest saw free stays free, since the thread only lowers
  `count`, and a value the guest has loaded is never below it. `Taken`: what the
  thread took is still counted, since the guest only raises it. These two hold
  with any lost update, and with them `CountInRange`. Until one is lost, `Stream` says
  that the bytes between `heard` and `next` lie in order from `qhead` on.
- **riscv32.** Only a running guest has an instruction in its helper; every path
  that writes a register ends in `reset_zero`; the two guards of `div` and `rem`
  cover all operands `HostFault` names; registers and `pc` always hold words.
  `StepPerISA` then needs one lemma per helper, that what the code computes is what
  the manual says: the code cuts, sign-extends and shifts double words, the manual
  speaks of numbers and of bits. Powers of two are the numbers of subsets of a set
  of bits, so that their sums of exponents are proved without a recursive
  definition; on them rest the bits of a quotient, a remainder, a product and a
  sum (`BitOfShifted`, `BitOfRemainder`, `BitOfProduct`, `BitOfSum`), of a sign-extended word
  (`SignExtended`), and the remainders that tell the lower word of a product from the
  upper one. C's division rounds to zero (`Truncated`) where TLA+'s rounds down.
- **Division.** What holds before an iteration holds, by induction, after it
  (`IterateInvariant`). For the loop of `__udivmoddi4` that is `RoundAt`: the quotient and
  the remainder of the upper bits by the divisor are there, the quotient's last bit
  still in `carry`, and the lower bits wait at the top of `q`. The subtraction's sign
  is a comparison only if it does not overflow: no divisor exceeds half the range
  except in the one round of a dividend that does too (`Comparable`). The number of
  rounds comes from `__clzsi2`, proved to give the lengths (`ClzRight`), so that the loop
  starts with a remainder below the divisor (`ShiftedBelow`); the shortcuts need
  `__ctzsi2` on powers of two only. The signs are put back on magnitudes that a double
  word holds, the least number's included.
- **Strings.** `LoopOK` says of each loop what it has done after `k` passes: copied `k`
  bytes and changed no other (`Copying`, `CopyingUpTo`), filled from the end (`Filled`),
  found `k` characters alike (`Equal`). A copy reads what it read before only because
  source and destination lie apart (`CopyTurn`). `strcmp` and `strncmp` test the first
  string for its end and never the second: they stay inside it because a second
  string that had ended would differ from the first (`Alike`). No difference of two
  characters is zero unless they are equal, and at the first difference its sign is the
  order of the two as unsigned characters, unless `char` is signed and just one of them
  is negative (`CharDifference`, `Verdict`). `LongerIsGreater` follows for an unsigned
  `char`, since the first difference is then the NUL that ends the shorter string; the
  hypothesis is needed, as `StringOrder` shows.
- **Differential testing.** `Distance`: QEMU is never further ahead than the count
  allows, two per jump; `WrongByDevice`: while NEMU is right, only a device access
  it has yet to execute can have spoilt QEMU's registers; `PlainInStep`: a plain
  instruction outside a catch-up started in step.
- **Start of the processors.** The invariant goes by what the boot record says.
  Without one (`Alone`) only processor 0 runs, and what it has passed is set up.
  While it says "boot" (`Handshake`) the processors below `mpe_init`'s cursor are in the
  program, those above wait untouched, and only the one at the cursor may be under
  way: `ap_ready`, `ipi` and the sender's phase tell where. After the first halt it
  says "spin" (`Stopping`): no one comes onto the boot stack by it any more, and
  whoever stops the world has already stopped those its loop has passed.
- **Page tables of x86.** `TreeOK`: every table that is given out has one `Place`, a
  space and the path of indices that leads to it, two tables never the same one, and
  each is led to by an entry of the table above and leads only to tables below; the
  last tables hold what `map` was asked for. A new table takes a free place, so the
  tree grows one leaf at a time (`GrowTree`), and `ptwalk` keeps it at every level it
  goes down: the proof follows the C loop level by level, by induction over the
  levels for a set of them (`LevelInduction`). Freeing what `teardown` reaches takes
  away the places of one space and of no other. From the tree, the processor's own
  walk finds the entry `map` wrote (`TranslateIsAsked`).
- **Contexts of x86.** `ContextsOK`: a user task's saved context has its own table and
  kernel stack in it, of a space still in use; with it `UserRunsOwn` is inductive.
  `KeptOK`: what a processor's `tlb` holds while it runs a user task was asked for,
  unless another processor has unmapped something there; a processor comes back to a
  user task only through a load of `cr3`, which empties it.
- **Native processes.** `StacksOK`: the contexts saved on a task's stack are of the
  task's space, and the user context of a user task is the first one there and no
  other. `RunningOK`: no two processes run one task, a process is in its task's space,
  and it is in user mode exactly when nothing is saved. So a trap from the program
  finds the kernel stack empty and starts at its top. `SignalsOK`: signals stay
  blocked from `sig_handler` until `irq_handle` has read the event, so no second
  signal overwrites it. `BootOK`: nothing is let through before `ioe_init` is done.
- **Native address spaces.** `ListsOK`: no page is twice in a list. `PagesOK`: what a
  process has mapped is what its space's list calls mapped, and nothing outside a
  space. `__am_switch` turns off the flags of one list and on those of another, and
  `OneTaskPerSpace` is what makes the two lists of two processes different ones. The
  hypothesis is needed: `NativeVmShared` breaks `LeavesNothing` without it.
- **Clock.** Each word of an expression is of a moment since its first `inl`, and a time
  computed of two of them is the one of the moment between them that they belong to;
  the two orders of evaluation need a lemma on quotients (`SameQuotient`). Two words
  subtracted in 64 bits differ from their difference by nothing or by 2^64 (`Difference`),
  so that the lower word is right whatever has wrapped (`Congruent`).
- **IO maps.** `RegInv`: each call of `init_device` has moved `p_space` on and added its
  row of the table `Layout`, in which all that lies behind the screen is shifted by
  its pages. What the guards leave of `io_space` bounds the screen, so its range ends
  before the sound's buffer (`Reach`, `RowsApart`), and each space ends with three
  bytes to spare for a word that begins in its last one (`SpacesApart`). This needs
  `ScreenAssumption`: 400 x 300 and 800 x 600 pixels satisfy it, but a screen of whole
  pages such as 640 x 480 would let a word read at its last pixel's last byte
  run into the keyboard's register, and TLC finds `AccessInside` violated there.

These theorems include properties that no run repeats, because the proof says more
than a small instance could: the partition of the pool, newest first,
`UpToDateWhenRunning`, `LeavesNothing` where no space is shared, and each inductive
invariant with the module's types in it.

Only model-checked: the liveness properties (`FreeReturns`, `CloseStops`,
`WriteReturns`, `AllEnter`, `HaltEnds`), which rest on fairness; the properties of
`Functions` other than `DivAgrees` and `StringsAgree` (`EvalAgrees`, `TextsAgree`), whose
algorithms are recursive over texts and replies.

## Limits of the models

- `WatchPool`: `malloc` of a text succeeds (`ui.c:199`).
- `KeyQueue`: the guest reads the port through its driver, at offset 0, so the handler's
  assertions (`keyboard.c:49`, 50) hold.
- `CpuExec`: what an instruction does is a free choice; `info`, `x`, `p` and `help` only
  print and are one action. A signal that arrives while the flag is already up
  changes nothing and is not a step.
- `Expr`: a token is a kind; the regular expressions that cut the text are not
  modelled.
- `Riscv32`: shifts by an immediate carry the shift amount and `funct7` as two fields.
  The memory answers a load with any value. Memory ordering, traps and
  privileged instructions do not exist at this commit.
- `Difftest`: the program counter is a position in one execution, so a wrong program
  counter never equals a right one by chance. Code executed from device memory
  is not modelled, nor memory QEMU writes while ahead beyond the ghost `replayed`.
- `Bus`: the handlers of the devices are left out but for the clock's. A guest access
  that no map answers ends the emulator and is not modelled further.
- `X86Boot`: an INIT takes effect at once when it is taken; what the program does
  between entry and `halt` is nothing the model sees.
- `X86Vm`: the kernel maps whole pages of the user's area, so the panics of
  `A/x86/qemu/vme.c:142` to 144 do not occur; it tears down no space that is
  loaded or has tasks, and runs a task on one processor at a time. `NoStaleTranslation` exempts a processor in whose space
  another one unmaps a page (`remote`): the code has no flush across processors and
  promises none. Running out of pages ends the machine in the middle of `ptwalk`. A
  kernel task keeps in its saved context whatever `cr3` was loaded when it was
  interrupted, of a space that may be gone when it goes on; the properties speak of
  user tasks.
- `NativeVm`: the kernel's handler may unblock the signals (`iset`) but returns with them
  blocked. Nothing in `irq_handle` sees to that: a signal between `__am_switch` and
  `iret` would nest with the pages half switched, and the theorems say nothing of such
  a kernel. Its calls of `map`, `ucontext` and `kcontext` are one step each: no signal
  comes inside them. It maps no page of a space twice (`map` would link its node a second
  time and make the list cyclic, `A/native/vme.c:88`), and `pgalloc` returns zeroed
  pages. Nested traps stop at `Depth`.
- `Klib`: a conversion `printf` does not know and a format that ends inside one are not
  modelled. `atoi` takes no sign. `printf` also puts the NUL at the end of what it prints.
- `KlibString`: a source of `strncpy` or `strncmp` is a string that ends, although C asks
  for that only within `n`. `memcpy` returns NULL. `strncpy` fills with a single NUL
  (`string.c:24` advances `n`, not `i`, until it wraps: one step here), so
  `StringsAgree` asks for no padding. `memmove` is empty in the code.
- `Gdb`: a client whose connection is lost while it waits for an acknowledgement sends
  until a write fails, and exits: one write here. A damaged byte never is one of the two packet markers, and acknowledgements
  arrive whole. The register reply is taken to be complete.
- `Audio`: a byte stands for any sample; `audio_play`'s `memset` of silence leaves no
  trace in the model.

Seen while modelling, and not the subject of a run:

- `q` with a live watchpoint gives `free()` elements of a static array (`ui.c:53`).
- After one instruction changes two watched expressions, a change of the second back
  to its recorded value goes unnoticed: the scan stops at the first
  (`cpu-exec.c:102`). `ChangeStops` therefore speaks of watchpoints that are up to date.
- The window's close overwrites END by QUIT, which `cpu_exec` does not refuse
  (`device.c:36`); `EndStays` excepts it.
- A lost update of `count` makes the sound thread play stale bytes where it promises
  silence (`audio.c:36`); `InOrder` holds until one is lost.
- `mulhsu` corrects by the upper word of `-1 * rs2` for every `rs1` (`compute.h:112`) where
  the comment above it shows the lower word; `StepPerISA` checks everything about it
  but the value it leaves in `rd`.
- A watched expression that has no value any more kills the emulator
  (`assert(success)`, `cpu-exec.c:101`).
- `make_token` takes exactly 32 tokens although its message asks for fewer.
- The first uptimes may come out near 2^64: `__am_timer_init` may read `usec` before a
  second ends and `sec` after it, and then has a start up to a second late
  (`A/nemu/ioe/timer.c:7`, 12).
- A branch with a reserved `funct3` is a no-op.
- `fbdraw` asks for the screen to be drawn before it stores the pixels (`gpu.c:28`): a
  poll in between shows the frame without them and drops the request.

## Not modelled, and why

`PROJECT.json` lists every component. Left out for good: the mips32 and x86
interpreters, interrupts and paging of riscv32 (stubs at this commit), the KVM
reference (its behaviour is the kernel's), start-up and logging (straight-line
output), the wall-clock and drawing code of the native and x86 devices, the
expression generator, build files. Left out so far: what the plan still names.

## Plan

Done, in the order of importance of what they model: the pool with its abstract
list, the execution loop over that list, the keyboard with its FIFO, the sound
stream, expressions, the riscv32 interpreter, differential testing; then the
processors of x86-qemu, its page tables and contexts, the native processes, the IO
maps with the clock, klib's functions and the client of QEMU.

To come:

1. `Screen`: the sync register between `fbdraw` and `vga_update_screen`.
2. `NativeInput`, `NativeAudio`: the rings without the checks of their NEMU
   counterparts, against `KeyFifo` and the stream of `Audio`.
3. `malloc` of klib, and `halt` and `exit_platform` of the native processes.

Modules that share a shape are to share a run (the two rings).

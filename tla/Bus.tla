-------------------------------- MODULE Bus --------------------------------
(***************************************************************************)
(* NEMU's IO maps (device/io, the device part of memory/paddr.c) as the    *)
(* devices register them, and on them the clock (device/timer.c) with the  *)
(* guest that reads it word by word (am/src/nemu/ioe/timer.c).  A guest    *)
(* physical address is counted from PMEM_BASE, 0x80000000 on riscv32.      *)
(***************************************************************************)
EXTENDS Integers, Sequences

CONSTANTS
  SCREENS,      \* the sizes of the screen in bytes, one for each mode
  TICKS,        \* ticks of the clock in a second, 1000 * 1000 in the code
  WORD,         \* 2^32: words are taken modulo it
  Start,        \* the times the machine may be started at
  MaxTime,      \* bound: the clock stops there
  NONE

ASSUME BusAssumption ==
  TICKS \in Nat \ {0} /\ WORD \in Nat \ {0} /\ Start \subseteq Nat /\ MaxTime \in Nat

VARIABLES
  screen,
  step,         \* how far init_device is
  p_space, maps,
  now,          \* the host's clock
  rtc,          \* rtc_port_base: [usec, sec]
  got,          \* the words a guest's expression has read so far
  am_start_time, uptime,
  began,        \* ghost: when the expression's first word was read
  t0            \* ghost: when __am_timer_init began and ended

bus     == <<screen, step, p_space, maps>>
clock   == <<now, rtc, got, am_start_time, uptime, began, t0>>
busvars == <<bus, clock>>

---------------------------------------------------------------------------
(* Registration.                                                           *)
PAGE_SIZE    == 4096
IO_SPACE_MAX == 2 * 1024 * 1024
PMEM_SIZE    == 128 * 1024 * 1024
NR_MAP       == [mmio |-> 16, pio |-> 8]
PORT_IO_SPACE_MAX == 65535

MMIO == 553648128   \* 0xa1000000
VMEM == 536870912   \* 0xa0000000
STREAM_BUF == 545259520 \* 0xa0800000

(* 400 x 300 and 800 x 600 pixels of four bytes: neither fills its last    *)
(* page up to the last word.                                               *)
ASSUME ScreenAssumption ==
  \A s \in SCREENS : s \in Nat /\ s % PAGE_SIZE \in 1 .. PAGE_SIZE - 3

Space(n)         == [op |-> "space", len |-> n]
Pio(name, a, n)  == [op |-> "pio", name |-> name, low |-> a, len |-> n]
Mmio(name, a, n) == [op |-> "mmio", name |-> name, low |-> a, len |-> n]

(* What init_device calls, in order: serial, timer, screen, keyboard, sound. *)
init_device == <<
  Space(8), Pio("serial", 1016, 8), Mmio("serial", MMIO + 1016, 8),
  Space(8), Pio("rtc", 72, 8), Mmio("rtc", MMIO + 72, 8),
  Space(8), Pio("screen", 256, 8), Mmio("screen", MMIO + 256, 8), Space(screen), Mmio("vmem", VMEM, screen),
  Space(4), Pio("keyboard", 96, 4), Mmio("keyboard", MMIO + 96, 4),
  Space(24), Pio("audio", 512, 24), Mmio("audio", MMIO + 512, 24), Space(65536), Mmio("audio-sbuf", STREAM_BUF, 65536) >>

BusInit ==
  /\ screen \in SCREENS
  /\ step = 1 /\ p_space = 0 /\ maps = <<>>
  /\ now \in Start /\ rtc = [usec |-> 0, sec |-> 0]
  /\ got = [w \in {} |-> 0] /\ am_start_time = NONE /\ uptime = NONE
  /\ began = NONE /\ t0 = NONE

(* Mutated: a space is as long as the device asked for. *)
page_alignedNot(n) == n

page_aligned(n) == (((n + PAGE_SIZE) - 1) \div PAGE_SIZE) * PAGE_SIZE

new_space ==
  /\ init_device[step].op = "space"
  /\ p_space' = p_space + page_aligned(init_device[step].len)
  /\ p_space' < IO_SPACE_MAX
  /\ UNCHANGED maps

(* add_pio_map, add_mmio_map: the space is the one just made. *)
add_map ==
  LET s == init_device[step]
  IN  /\ s.op \in {"pio", "mmio"}
      /\ Len(SelectSeq(maps, LAMBDA m : m.bus = s.op)) < NR_MAP[s.op]
      /\ s.op = "pio" => s.low + s.len <= PORT_IO_SPACE_MAX
      /\ maps' = Append(maps, [bus |-> s.op, name |-> s.name, low |-> s.low, high |-> (s.low + s.len) - 1,
                               space |-> p_space - page_aligned(s.len), len |-> s.len])
      /\ UNCHANGED p_space

register ==
  /\ step \in DOMAIN init_device
  /\ new_space \/ add_map
  /\ step' = step + 1
  /\ UNCHANGED <<screen, clock>>

---------------------------------------------------------------------------
(* Accesses.                                                               *)
map_inside(m, addr) == m.low <= addr /\ addr <= m.high
in_pmem(addr)       == 0 <= addr /\ addr <= PMEM_SIZE - 1

(* the maps find_mapid_by_addr could stop at; it takes the first *)
find_map(b, addr) == {i \in DOMAIN maps : maps[i].bus = b /\ map_inside(maps[i], addr)}

(* What an access of len bytes at addr reaches: {} is a failed assertion,   *)
(* or the NULL map that fails check_bound's.                               *)
pio_common(addr, len) ==
  IF (addr + len) - 1 < PORT_IO_SPACE_MAX THEN find_map("pio", addr) ELSE {}
paddr_access(addr) == IF in_pmem(addr) THEN {"pmem"} ELSE find_map("mmio", addr)

(* map_read takes a whole word of io_space from here on, and masks it; a   *)
(* map_write writes no more.  check_bound looks at the first byte only.    *)
SIZEOF_WORD == 4
first_byte(m, addr) == m.space + (addr - m.low)

---------------------------------------------------------------------------
(* The clock.                                                              *)
Initialised == step > Len(init_device)

(* nothing reads the clock earlier *)
tick ==
  /\ Initialised /\ now < MaxTime
  /\ now' = now + 1
  /\ UNCHANGED <<bus, rtc, got, am_start_time, uptime, began, t0>>

(* Mutated: only the read of the first word latches the time. *)
latchFirst(w) == IF w = "usec" THEN [usec |-> now % TICKS, sec |-> now \div TICKS] ELSE rtc

latch(w) == [usec |-> now % TICKS, sec |-> now \div TICKS]

(* inl: rtc_io_handler, and then the word.  C leaves open which operand of *)
(* the sum is read first.                                                  *)
inl(w) ==
  /\ Initialised /\ w \notin DOMAIN got
  /\ rtc' = latch(w)
  /\ got' = [v \in DOMAIN got \cup {w} |-> IF v = w THEN latch(w)[w] ELSE got[v]]
  /\ began' = IF DOMAIN got = {} THEN now ELSE began
  /\ UNCHANGED <<bus, now, am_start_time, uptime, t0>>

time == (got.usec + got.sec * TICKS) % WORD

UINT64 == WORD * WORD

(* __am_timer_init, __am_timer_uptime: the difference is of 64 bits, and   *)
(* wraps round below zero.                                                 *)
evaluate ==
  /\ DOMAIN got = {"usec", "sec"}
  /\ IF am_start_time = NONE
     THEN am_start_time' = time /\ t0' = <<began, now>> /\ UNCHANGED uptime
     ELSE uptime' = [us |-> (time - am_start_time) % UINT64, from |-> began, to |-> now] /\ UNCHANGED <<am_start_time, t0>>
  /\ got' = [w \in {} |-> 0] /\ began' = NONE
  /\ UNCHANGED <<bus, now, rtc>>

BusNext == register \/ tick \/ evaluate \/ \E w \in {"usec", "sec"} : inl(w)

BusSpec == BusInit /\ [][BusNext]_busvars

---------------------------------------------------------------------------
(* No access, at whatever address in a device's range and however long,    *)
(* touches what another device keeps, or leaves io_space, although only    *)
(* the address of its first byte is checked: what lies behind a space up   *)
(* to the next page is nobody's, and the one space of whole pages is last. *)
AccessInside ==
  \A i \in DOMAIN maps : LET m == maps[i] IN
    \A addr \in {m.low, m.high} :
      LET p == first_byte(m, addr)
      IN  /\ (IF m.bus = "pio" THEN pio_common(addr, SIZEOF_WORD) ELSE paddr_access(addr)) = {i}
          /\ p + SIZEOF_WORD <= IO_SPACE_MAX
          /\ \A j \in DOMAIN maps : maps[j].space # m.space =>
               p + SIZEOF_WORD <= maps[j].space \/ p >= maps[j].space + maps[j].len

(* What may be told of the time between the two expressions: off by less   *)
(* than a second at either end of each, whose two words are of two moments *)
(* either of which may be the earlier.                                     *)
Elapsed ==
  (uptime.from - t0[2]) - 2 * (TICKS - 1) .. (uptime.to - t0[1]) + 2 * (TICKS - 1)

(* The lower word of the uptime is that of such a time, whatever sums of   *)
(* 32 bits have wrapped round.  As long as none has since the start, the   *)
(* uptime is such a time; but one below zero, which only the first seconds *)
(* may have, comes out 2^64 too large.                                     *)
UptimeNear ==
  uptime # NONE =>
    /\ \E t \in Elapsed : (uptime.us - t) % WORD = 0
    /\ (uptime.to + TICKS) \div WORD = (t0[1] - TICKS) \div WORD =>
         \E t \in Elapsed : uptime.us = IF t < 0 THEN t + UINT64 ELSE t
=============================================================================

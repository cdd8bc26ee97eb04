---------------------------- MODULE DeviceProofs ----------------------------
(***************************************************************************)
(* The devices of NEMU with the guest code that uses them.  The sound      *)
(* stream for every size of the ring and of the callbacks: count stays in  *)
(* range in spite of the race on it, and the stream is the guest's bytes   *)
(* as long as no update was lost.  The clock for every number of ticks to  *)
(* the second and every width of the words.  The IO maps for every screen  *)
(* that does not fill its last page.                                       *)
(***************************************************************************)
EXTENDS Audio, Bus, TLAPS

---------------------------------------------------------------------------
(* The sound stream.                                                       *)

(* The slot after s. *)
LEMMA NextSlot ==
  ASSUME NEW s \in 0 .. SBUF - 1
  PROVE  (s + 1) % SBUF = IF s + 1 = SBUF THEN 0 ELSE s + 1
<1>1. SBUF \in Nat \ {0}
  BY AudioAssumption
<1>2. CASE s + 1 = SBUF
  BY <1>1, <1>2
<1>3. CASE s + 1 < SBUF
  BY <1>1, <1>3
<1>4. QED
  BY <1>1, <1>2, <1>3

LEMMA InitIInv == Init => IInv
<1> SUFFICES ASSUME Init PROVE IInv
  OBVIOUS
<1> USE AudioAssumption DEF Init
<1>1. opened \in BOOLEAN /\ glitch \in BOOLEAN /\ torn \in BOOLEAN /\ ~ glitch
  BY Zenon
<1>2. TypeOK
  BY <1>1 DEF TypeOK
<1>3. CountInRange /\ Room /\ Taken
  BY DEF CountInRange, Room, Taken
<1>4. Stream
  BY <1>1 DEF Stream, Backlog, At
<1>5. QED
  BY <1>2, <1>3, <1>4 DEF IInv

(***************************************************************************)
(* The guest.                                                              *)
(***************************************************************************)
LEMMA audio_ctrlIInv ==
  ASSUME IInv, audio_ctrl
  PROVE  IInv'
<1> USE AudioAssumption DEF audio_ctrl, guest, thread, ghosts
<1>1. TypeOK'
  BY DEF IInv, TypeOK, CountInRange, Room, Taken, Least
<1>2. CountInRange' /\ Room' /\ Taken'
  BY DEF IInv, TypeOK, CountInRange, Room, Taken, Least
<1>3. ~ torn' => Stream'
  BY DEF IInv, TypeOK, Stream, Backlog, At
<1>4. QED
  BY <1>1, <1>2, <1>3 DEF IInv

LEMMA audio_write_queryIInv ==
  ASSUME IInv, audio_write_query
  PROVE  IInv'
<1> USE AudioAssumption DEF audio_write_query, guest, thread, ghosts
<1>1. TypeOK'
  BY DEF IInv, TypeOK, CountInRange, Room, Taken, Least
<1>2. CountInRange' /\ Room' /\ Taken'
  BY DEF IInv, TypeOK, CountInRange, Room, Taken, Least
<1>3. ~ torn' => Stream'
  BY DEF IInv, TypeOK, Stream, Backlog, At
<1>4. QED
  BY <1>1, <1>2, <1>3 DEF IInv

LEMMA outb_storeIInv ==
  ASSUME IInv, outb_store
  PROVE  IInv'
<1> USE AudioAssumption DEF outb_store, guest, thread, ghosts
<1>1. TypeOK'
  BY DEF IInv, TypeOK, CountInRange, Room, Taken
<1>2. CountInRange' /\ Room' /\ Taken'
  BY DEF IInv, TypeOK, CountInRange, Room, Taken
<1>3. ASSUME ~ torn PROVE Stream'
  <2>1. /\ Stream /\ TypeOK /\ count + n <= SBUF /\ n >= 1
        /\ i \in Nat
    BY <1>3 DEF IInv, TypeOK, Room
  <2>2. Backlog < SBUF /\ Backlog \in Nat
    BY <2>1 DEF TypeOK, Stream, Backlog
  <2>3. ASSUME NEW j \in 0 .. Backlog - 1
        PROVE  At(j) \in 0 .. SBUF - 1 /\ At(j) # qtail
    BY <2>1, <2>2 DEF TypeOK, Stream, At
  <2>4. ASSUME NEW j \in 0 .. Backlog - 1 PROVE sbuf'[At(j)] = heard + 1 + j
    BY <2>1, <2>3 DEF TypeOK, Stream
  <2>5. sbuf'[qtail] = next
    BY <2>1 DEF TypeOK
  <2>6. QED BY <2>1, <2>4, <2>5 DEF Stream, Backlog, At
<1>4. QED
  BY <1>1, <1>2, <1>3 DEF IInv

LEMMA sbuf_handler_loadIInv ==
  ASSUME IInv, sbuf_handler_load
  PROVE  IInv'
<1> USE AudioAssumption DEF sbuf_handler_load, guest, thread, ghosts
<1>1. TypeOK'
  BY DEF IInv, TypeOK, CountInRange, Room, Taken, Least
<1>2. CountInRange' /\ Room' /\ Taken'
  BY DEF IInv, TypeOK, CountInRange, Room, Taken, Least
<1>3. ~ torn' => Stream'
  BY DEF IInv, TypeOK, Stream, Backlog, At
<1>4. QED
  BY <1>1, <1>2, <1>3 DEF IInv

LEMMA sbuf_handler_addIInv ==
  ASSUME IInv, sbuf_handler_add
  PROVE  IInv'
<1> USE AudioAssumption
<1>t. /\ TypeOK /\ CountInRange /\ Taken
      /\ next + left <= MaxBytes + 1 /\ n >= 1 /\ n <= left
      /\ count <= greg /\ greg + n <= SBUF
  BY DEF sbuf_handler_add, IInv, Room
<1>u. /\ count' = greg + 1 /\ next' = next + 1 /\ n' = n - 1 /\ left' = left - 1
      /\ UNCHANGED <<sbuf, opened, proc, qhead, tpc, nread, i, treg, greg, heard, glitch>>
  BY DEF sbuf_handler_add, thread
<1>q. qtail' = IF qtail + 1 = SBUF THEN 0 ELSE qtail + 1
  BY <1>t, NextSlot DEF sbuf_handler_add, TypeOK
<1>g. /\ gpc' \in {"store", "query", "idle"}
      /\ gpc' = "store" => n' > 0
      /\ gpc' = "query" => n' = 0
  BY <1>t, <1>u DEF sbuf_handler_add, TypeOK
<1>1. TypeOK'
  <2>1. torn' \in BOOLEAN
    BY Zenon, <1>t DEF sbuf_handler_add, TypeOK
  <2>2. qtail' \in 0 .. SBUF - 1
    BY <1>t, <1>q DEF TypeOK
  <2>3. next' \in 1 .. MaxBytes + 1 /\ left' \in 0 .. MaxBytes
    BY <1>t, <1>u DEF TypeOK
  <2>4. count' \in Int /\ n' \in Int
    BY <1>t, <1>u DEF TypeOK
  <2>5. QED BY <1>t, <1>u, <1>g, <2>1, <2>2, <2>3, <2>4 DEF TypeOK
<1>2. CountInRange' /\ Taken'
  BY <1>t, <1>u DEF TypeOK, CountInRange, Taken
<1>3. Room'
  BY <1>t, <1>u, <1>g DEF TypeOK, Room
<1>4. ASSUME ~ torn' PROVE Stream'
  <2>1. ~ torn /\ count = greg
    BY <1>4, Zenon DEF sbuf_handler_add
  <2>2. Stream /\ sbuf[qtail] = next
    BY <2>1 DEF IInv, Stream, sbuf_handler_add
  <2>3. Backlog' = Backlog + 1 /\ Backlog \in 0 .. SBUF - 1 /\ count' = Backlog' + i'
    BY <1>t, <1>u, <2>1, <2>2 DEF TypeOK, Stream, Backlog
  <2>4. qtail' = At(Backlog + 1)
    BY <1>t, <1>q, <2>2, <2>3 DEF TypeOK, Stream, At
  <2>5. ASSUME NEW j \in 0 .. Backlog PROVE sbuf[At(j)] = heard + 1 + j
    <3>1. CASE j = Backlog
      <4>1. heard + 1 + Backlog = next
        BY <1>t DEF TypeOK, Backlog
      <4>2. QED BY <2>2, <3>1, <4>1 DEF Stream
    <3>2. CASE j # Backlog
      BY <2>2, <2>3, <3>2 DEF Stream
    <3>3. QED BY <3>1, <3>2
  <2>6. \A j \in 0 .. Backlog' - 1 : sbuf'[At(j)'] = heard' + 1 + j
    BY <1>u, <2>3, <2>5 DEF At
  <2>7. qtail' = At(Backlog)'
    BY <1>u, <2>3, <2>4 DEF At
  <2>8. Backlog' \in 0 .. SBUF
    BY <2>3
  <2>9. QED BY <1>u, <1>g, <2>2, <2>3, <2>6, <2>7, <2>8 DEF Stream
<1>5. QED
  BY <1>1, <1>2, <1>3, <1>4 DEF IInv

(***************************************************************************)
(* The audio thread.                                                       *)
(***************************************************************************)
LEMMA audio_play_testIInv ==
  ASSUME IInv, audio_play_test
  PROVE  IInv'
<1> USE AudioAssumption DEF audio_play_test, guest, thread, ghosts
<1>1. TypeOK'
  BY DEF IInv, TypeOK, CountInRange, Room, Taken, Least
<1>2. CountInRange' /\ Room' /\ Taken'
  BY DEF IInv, TypeOK, CountInRange, Room, Taken, Least
<1>3. ~ torn' => Stream'
  BY DEF IInv, TypeOK, Taken, Stream, Backlog, At
<1>4. QED
  BY <1>1, <1>2, <1>3 DEF IInv

LEMMA audio_play_againIInv ==
  ASSUME IInv, audio_play_again
  PROVE  IInv'
<1> USE AudioAssumption DEF audio_play_again, guest, thread, ghosts
<1>1. TypeOK'
  BY DEF IInv, TypeOK, CountInRange, Room, Taken, Least
<1>2. CountInRange' /\ Room' /\ Taken'
  BY DEF IInv, TypeOK, CountInRange, Room, Taken, Least
<1>3. ~ torn' => Stream'
  BY DEF IInv, TypeOK, Stream, Backlog, At
<1>4. QED
  BY <1>1, <1>2, <1>3 DEF IInv

LEMMA audio_play_copyIInv ==
  ASSUME IInv, audio_play_copy
  PROVE  IInv'
<1> USE AudioAssumption
<1>t. /\ TypeOK /\ CountInRange /\ Room /\ Taken
      /\ i < nread /\ nread <= count /\ tpc = "copy"
  BY DEF audio_play_copy, IInv, Taken
<1>u. /\ heard' = sbuf[qhead] /\ i' = i + 1
      /\ UNCHANGED <<sbuf, count, opened, proc, qtail, gpc, left, n, greg, next,
                     tpc, nread, treg, torn>>
  BY DEF audio_play_copy, guest
<1>q. qhead' = IF qhead + 1 = SBUF THEN 0 ELSE qhead + 1
  BY <1>t, NextSlot DEF audio_play_copy, TypeOK
<1>1. TypeOK'
  <2>1. glitch' \in BOOLEAN
    BY Zenon, <1>t DEF audio_play_copy, TypeOK
  <2>2. qhead' \in 0 .. SBUF - 1
    BY <1>t, <1>q DEF TypeOK
  <2>3. heard' \in Nat /\ i' \in Nat
    BY <1>t, <1>u DEF TypeOK
  <2>4. QED BY <1>t, <1>u, <2>1, <2>2, <2>3 DEF TypeOK
<1>2. CountInRange' /\ Room' /\ Taken'
  BY <1>t, <1>u DEF TypeOK, CountInRange, Room, Taken
<1>3. ASSUME ~ torn PROVE Stream'
  <2>1. Stream /\ ~ glitch
    BY <1>3 DEF IInv, Stream
  <2>2. Backlog \in 1 .. SBUF /\ count = Backlog + i
    BY <1>t, <2>1 DEF TypeOK, Stream, Backlog
  <2>3. sbuf[qhead] = heard + 1
    <3>1. sbuf[At(0)] = heard + 1 + 0 /\ At(0) = qhead
      BY <1>t, <2>1, <2>2 DEF TypeOK, Stream, At
    <3>2. QED BY <1>t, <3>1 DEF TypeOK
  <2>4. ~ glitch'
    BY <2>1, <2>3, Zenon DEF audio_play_copy
  <2>5. Backlog' = Backlog - 1
    BY <1>t, <1>u, <2>3 DEF TypeOK, Backlog
  <2>6. ASSUME NEW j \in 0 .. Backlog - 1 PROVE At(j)' = At(j + 1)
    BY <1>t, <1>q, <2>2 DEF TypeOK, At
  <2>7. ASSUME NEW j \in 0 .. Backlog' - 1 PROVE sbuf'[At(j)'] = heard' + 1 + j
    <3>1. j \in 0 .. Backlog - 1 /\ j + 1 \in 0 .. Backlog - 1
      BY <2>2, <2>5
    <3>2. sbuf[At(j + 1)] = heard + 1 + (j + 1)
      BY <2>1, <3>1 DEF Stream
    <3>3. heard + 1 + (j + 1) = heard' + 1 + j
      BY <1>t, <1>u, <2>2, <2>3 DEF TypeOK
    <3>4. QED BY <1>u, <2>6, <3>1, <3>2, <3>3
  <2>8. At(Backlog)' = At(Backlog)
    BY <1>t, <1>q, <2>2, <2>5 DEF TypeOK, At
  <2>9. Backlog' \in 0 .. SBUF /\ count' = Backlog' + i'
    BY <1>t, <1>u, <2>2, <2>5 DEF TypeOK
  <2>10. QED BY <1>u, <2>1, <2>4, <2>7, <2>8, <2>9 DEF Stream
<1>4. QED
  BY <1>1, <1>2, <1>3, <1>u DEF IInv

LEMMA audio_play_loadIInv ==
  ASSUME IInv, audio_play_load
  PROVE  IInv'
<1> USE AudioAssumption DEF audio_play_load, guest, thread, ghosts
<1>1. TypeOK'
  BY DEF IInv, TypeOK, CountInRange, Room, Taken, Least
<1>2. CountInRange' /\ Room' /\ Taken'
  BY DEF IInv, TypeOK, CountInRange, Room, Taken, Least
<1>3. ~ torn' => Stream'
  BY DEF IInv, TypeOK, Stream, Backlog, At
<1>4. QED
  BY <1>1, <1>2, <1>3 DEF IInv

LEMMA audio_play_subIInv ==
  ASSUME IInv, audio_play_sub
  PROVE  IInv'
<1> USE AudioAssumption DEF audio_play_sub, guest, thread, ghosts
<1>1. TypeOK'
  BY DEF IInv, TypeOK, CountInRange, Room, Taken, Least
<1>2. CountInRange' /\ Room' /\ Taken'
  BY DEF IInv, TypeOK, CountInRange, Room, Taken, Least
<1>3. ASSUME ~ torn' PROVE Stream'
  <2>1. ~ torn /\ count = treg
    BY <1>3, Zenon
  <2>2. Stream /\ TypeOK /\ i = nread
    BY <2>1 DEF IInv, Taken
  <2>3. QED BY <2>1, <2>2 DEF TypeOK, Stream, Backlog, At
<1>4. QED
  BY <1>1, <1>2, <1>3 DEF IInv

LEMMA NextIInv == IInv /\ [Next]_vars => IInv'
<1> SUFFICES ASSUME IInv, [Next]_vars PROVE IInv'
  OBVIOUS
<1>1. ASSUME NEW len \in 0 .. MaxBytes, audio_write(len) PROVE IInv'
  <2> USE <1>1, AudioAssumption DEF audio_write, guest, thread, ghosts
  <2>1. TypeOK' /\ CountInRange' /\ Room' /\ Taken'
    BY DEF IInv, TypeOK, CountInRange, Room, Taken
  <2>2. ~ torn' => Stream'
    BY DEF IInv, TypeOK, Stream, Backlog, At
  <2>3. QED BY <2>1, <2>2 DEF IInv
<1>2. CASE Guest
  BY <1>2, audio_write_queryIInv, outb_storeIInv, sbuf_handler_loadIInv,
     sbuf_handler_addIInv DEF Guest
<1>3. CASE Thread
  BY <1>3, audio_play_testIInv, audio_play_againIInv, audio_play_copyIInv,
     audio_play_loadIInv, audio_play_subIInv DEF Thread
<1>4. CASE UNCHANGED vars
  BY <1>4 DEF vars, guest, thread, ghosts, IInv, TypeOK, CountInRange, Room, Taken,
     Stream, Backlog, At
<1>5. QED
  BY <1>1, <1>2, <1>3, <1>4, audio_ctrlIInv DEF Next

(* The inductive invariant of the stream. *)
THEOREM AudioInvariant == Spec => []IInv
<1>1. QED
  BY InitIInv, NextIInv, PTL DEF Spec

(* The race on count (audio.c: count += len against count -= nread) never  *)
(* takes it below 0 or above the size of the ring.                         *)
THEOREM CountInRangeHolds == Spec => []CountInRange
<1>1. IInv => CountInRange
  BY DEF IInv
<1>2. QED
  BY <1>1, AudioInvariant, PTL

(* While no update of count has been lost, the streams are the guest's     *)
(* bytes, each once and in order (audio_play and audio_write).             *)
THEOREM InOrderHolds == Spec => []InOrder
<1>1. IInv => InOrder
  BY DEF IInv, Stream, InOrder
<1>2. QED
  BY <1>1, AudioInvariant, PTL

---------------------------------------------------------------------------
(* The clock.                                                              *)

(* Each word that has been read is of a moment since the first one was. *)
WordAt(w, m) == IF w = "usec" THEN m % TICKS ELSE m \div TICKS
GotOK ==
  /\ now \in Nat /\ DOMAIN got \subseteq {"usec", "sec"}
  /\ DOMAIN got # {} => began \in 0 .. now
  /\ \A w \in DOMAIN got : \E m \in began .. now : got[w] = WordAt(w, m)

(* A time of less than a second before from or after to, cut to a word. *)
Around(from, to) == from - TICKS + 1 .. to + TICKS - 1

StartOK ==
  am_start_time # NONE =>
    /\ t0[1] \in Nat /\ t0[2] \in Nat /\ t0[1] <= t0[2] /\ t0[2] <= now
    /\ \E x \in Around(t0[1], t0[2]) : am_start_time = x % WORD
    /\ DOMAIN got # {} => t0[2] <= began

UptimeOK ==
  uptime # NONE =>
    /\ am_start_time # NONE
    /\ uptime.from \in Nat /\ uptime.to \in Nat /\ uptime.from <= uptime.to /\ t0[2] <= uptime.from
    /\ \E x \in Around(uptime.from, uptime.to) : uptime.us = ((x % WORD) - am_start_time) % UINT64

ClockInv == GotOK /\ StartOK /\ UptimeOK

(* Quotient and remainder. *)
LEMMA DivMod ==
  ASSUME NEW x \in Int, NEW k \in Nat \ {0}
  PROVE  /\ x \div k \in Int /\ x % k \in Int
         /\ x = k * (x \div k) + (x % k) /\ 0 <= x % k /\ x % k < k
<1>1. x \div k \in Int /\ x % k \in Int
  OBVIOUS
<1>2. 0 <= x % k /\ x % k < k
  OBVIOUS
<1>3. x = k * (x \div k) + (x % k)
  OBVIOUS
<1>4. QED BY <1>1, <1>2, <1>3

(* Multiples keep their distance. *)
LEMMA Product ==
  ASSUME NEW k \in Nat \ {0}, NEW a \in Int, NEW b \in Int, a < b
  PROVE  k * a + k <= k * b
<1>1. b - a - 1 \in Nat
  OBVIOUS
<1>2. k * (b - a - 1) >= 0
  BY <1>1
<1>3. k * (b - a - 1) = k * b - k * a - k
  OBVIOUS
<1>4. k * b \in Int /\ k * a \in Int
  OBVIOUS
<1>5. QED BY <1>2, <1>3, <1>4

(* A larger number has no smaller quotient. *)
LEMMA DivMonotone ==
  ASSUME NEW x \in Int, NEW y \in Int, NEW k \in Nat \ {0}, x <= y
  PROVE  x \div k <= y \div k
<1> DEFINE a == x \div k  b == y \div k
<1>1. /\ a \in Int /\ b \in Int /\ x % k \in Int /\ y % k \in Int
      /\ x = k * a + (x % k) /\ 0 <= x % k /\ x % k < k
      /\ y = k * b + (y % k) /\ 0 <= y % k /\ y % k < k
  BY DivMod
<1> HIDE DEF a, b
<1>2. SUFFICES ASSUME b < a PROVE FALSE
  BY <1>1 DEF a, b
<1>3. k * b + k <= k * a
  BY <1>1, <1>2, Product
<1>4. k * a \in Int /\ k * b \in Int
  BY <1>1
<1> DEFINE p == k * a  q == k * b  r == x % k  s == y % k
<1>5. /\ p \in Int /\ q \in Int /\ q + k <= p /\ x = p + r /\ y = q + s
      /\ r \in Int /\ s \in Int /\ 0 <= r /\ s < k
  BY <1>1, <1>3, <1>4
<1> HIDE DEF p, q, r, s
<1>6. QED BY <1>5

(* Numbers between two of the same quotient differ as their remainders do. *)
LEMMA SameQuotient ==
  ASSUME NEW k \in Nat \ {0}, NEW lo \in Int, NEW hi \in Int, lo \div k = hi \div k,
         NEW x \in lo .. hi, NEW y \in lo .. hi
  PROVE  (x % k) - (y % k) = x - y
<1>1. lo \div k <= x \div k /\ x \div k <= hi \div k /\ lo \div k <= y \div k /\ y \div k <= hi \div k
  BY DivMonotone
<1>2. x \div k = y \div k
  <2> DEFINE a == x \div k  b == y \div k  c == lo \div k  d == hi \div k
  <2>1. a \in Int /\ b \in Int /\ c \in Int /\ d \in Int
    BY DivMod
  <2>2. c <= a /\ a <= d /\ c <= b /\ b <= d /\ c = d
    BY <1>1
  <2> HIDE DEF a, b, c, d
  <2>3. a = b
    BY <2>1, <2>2
  <2>4. QED BY <2>3 DEF a, b
<1>3. /\ x = k * (x \div k) + (x % k) /\ y = k * (y \div k) + (y % k)
      /\ x % k \in Int /\ y % k \in Int /\ x \div k \in Int
  BY DivMod
<1>4. k * (x \div k) \in Int
  BY <1>3
<1> DEFINE p == k * (x \div k)
<1>5. p \in Int /\ x = p + (x % k) /\ y = p + (y % k)
  BY <1>2, <1>3, <1>4
<1> DEFINE r == x % k  s == y % k
<1>6. r \in Int /\ s \in Int /\ x = p + r /\ y = p + s
  BY <1>3, <1>5
<1> HIDE DEF p, r, s
<1>7. r - s = x - y
  BY <1>5, <1>6
<1>8. QED BY <1>7 DEF r, s

(* Two words of different moments make a time around both. *)
LEMMA TwoWords ==
  ASSUME NEW from \in Nat, NEW to \in Nat, NEW m \in from .. to, NEW k \in from .. to
  PROVE  (m % TICKS) + (k \div TICKS) * TICKS \in Around(from, to)
<1> DEFINE q == k \div TICKS  r == k % TICKS  s == m % TICKS  p == TICKS * q
<1>1. TICKS \in Nat \ {0} /\ k \in Int /\ m \in Int
  BY BusAssumption
<1>2. q \in Int /\ r \in Int /\ s \in Int /\ k = p + r /\ 0 <= r /\ r < TICKS /\ 0 <= s /\ s < TICKS
  BY <1>1, DivMod
<1>3. p \in Int /\ q * TICKS = p
  BY <1>1, <1>2
<1> HIDE DEF p, q, r, s
<1>4. s + p \in Around(from, to)
  BY <1>1, <1>2, <1>3 DEF Around
<1>5. QED BY <1>3, <1>4 DEF q, s

LEMMA ClockInit == ASSUME BusInit PROVE ClockInv
BY BusAssumption DEF BusInit, ClockInv, GotOK, StartOK, UptimeOK

LEMMA TickStep == ASSUME ClockInv, tick PROVE ClockInv'
<1>1. /\ now \in Nat /\ now' = now + 1
      /\ UNCHANGED <<got, began, am_start_time, t0, uptime>>
  BY DEF ClockInv, GotOK, tick
<1>2. GotOK'
  BY <1>1 DEF ClockInv, GotOK, WordAt
<1>3. StartOK'
  BY <1>1 DEF ClockInv, StartOK, Around
<1>4. UptimeOK'
  BY <1>1 DEF ClockInv, UptimeOK, Around
<1>5. QED BY <1>2, <1>3, <1>4 DEF ClockInv

LEMMA InlStep == ASSUME ClockInv, NEW w \in {"usec", "sec"}, inl(w) PROVE ClockInv'
<1>1. /\ w \notin DOMAIN got
      /\ got' = [v \in DOMAIN got \cup {w} |-> IF v = w THEN WordAt(w, now) ELSE got[v]]
      /\ began' = IF DOMAIN got = {} THEN now ELSE began
      /\ UNCHANGED <<now, am_start_time, t0, uptime>>
  <2>1. latch(w)[w] = WordAt(w, now)
    BY DEF latch, WordAt
  <2>2. QED BY <2>1 DEF inl
<1>2. now \in Nat /\ began' \in 0 .. now
  <2>1. now \in Nat /\ (DOMAIN got # {} => began \in 0 .. now)
    BY DEF ClockInv, GotOK
  <2>2. began' = IF DOMAIN got = {} THEN now ELSE began
    BY <1>1
  <2>3. CASE DOMAIN got = {}
    BY <2>1, <2>2, <2>3
  <2>4. CASE DOMAIN got # {}
    BY <2>1, <2>2, <2>4
  <2>5. QED BY <2>3, <2>4
<1>3. GotOK'
  <2>1. ASSUME NEW v \in DOMAIN got' PROVE \E m \in began' .. now : got'[v] = WordAt(v, m)
    <3>1. CASE v = w
      BY <3>1, <1>1, <1>2
    <3>2. CASE v # w
      <4>1. v \in DOMAIN got /\ got'[v] = got[v] /\ began' = began
        BY <3>2, <1>1
      <4>2. QED BY <4>1 DEF ClockInv, GotOK
    <3>3. QED BY <3>1, <3>2
  <2>2. DOMAIN got' \subseteq {"usec", "sec"}
    BY <1>1 DEF ClockInv, GotOK
  <2>3. QED BY <2>1, <2>2, <1>1, <1>2 DEF GotOK
<1>4. StartOK'
  BY <1>1, <1>2 DEF ClockInv, StartOK
<1>5. UptimeOK'
  BY <1>1 DEF ClockInv, UptimeOK
<1>6. QED BY <1>3, <1>4, <1>5 DEF ClockInv

LEMMA EvaluateStep == ASSUME ClockInv, evaluate PROVE ClockInv'
<1>1. DOMAIN got = {"usec", "sec"} /\ DOMAIN got' = {} /\ UNCHANGED now
  BY DEF evaluate, bus
<1>2. now \in Nat /\ began \in 0 .. now
  BY <1>1 DEF ClockInv, GotOK
<1>3. PICK x \in Around(began, now) : time = x % WORD
  <2>1. PICK m \in began .. now : got["usec"] = m % TICKS
    BY <1>1 DEF ClockInv, GotOK, WordAt
  <2>2. PICK k \in began .. now : got["sec"] = k \div TICKS
    BY <1>1 DEF ClockInv, GotOK, WordAt
  <2>3. (m % TICKS) + (k \div TICKS) * TICKS \in Around(began, now)
    BY <1>2, TwoWords
  <2>4. time = ((m % TICKS) + (k \div TICKS) * TICKS) % WORD
    BY <2>1, <2>2 DEF time
  <2>5. QED BY <2>3, <2>4
<1>4. GotOK'
  BY <1>1, <1>2 DEF GotOK
<1>5. CASE am_start_time = NONE
  <2>1. am_start_time' = time /\ t0' = <<began, now>> /\ uptime' = uptime
    BY <1>5 DEF evaluate
  <2>2. uptime = NONE
    BY <1>5 DEF ClockInv, UptimeOK
  <2>3. t0'[1] = began /\ t0'[2] = now
    BY <2>1
  <2>4. StartOK'
    BY <1>1, <1>2, <1>3, <2>1, <2>3 DEF StartOK
  <2>5. UptimeOK'
    BY <2>1, <2>2 DEF UptimeOK
  <2>6. QED BY <1>4, <2>4, <2>5 DEF ClockInv
<1>6. CASE am_start_time # NONE
  <2>1. /\ uptime' = [us |-> (time - am_start_time) % UINT64, from |-> began, to |-> now]
        /\ UNCHANGED <<am_start_time, t0>>
    BY <1>6 DEF evaluate
  <2>2. uptime'.us = (time - am_start_time) % UINT64 /\ uptime'.from = began /\ uptime'.to = now
    BY <2>1
  <2>3. t0[2] <= began
    BY <1>1, <1>6 DEF ClockInv, StartOK
  <2>4. StartOK'
    BY <1>1, <2>1 DEF ClockInv, StartOK
  <2>5. UptimeOK'
    BY <1>2, <1>3, <1>6, <2>1, <2>2, <2>3 DEF UptimeOK
  <2>6. QED BY <1>4, <2>4, <2>5 DEF ClockInv
<1>7. QED BY <1>5, <1>6

(* Every word read is of a moment since the expression began, and what was *)
(* computed of them is a time around those moments, cut to a word.         *)
THEOREM ClockInvariant == BusSpec => []ClockInv
<1>1. BusInit => ClockInv
  BY ClockInit
<1>2. ClockInv /\ [BusNext]_busvars => ClockInv'
  <2> SUFFICES ASSUME ClockInv, [BusNext]_busvars PROVE ClockInv'
    OBVIOUS
  <2>1. ASSUME UNCHANGED <<now, got, began, am_start_time, t0, uptime>> PROVE ClockInv'
    BY <2>1 DEF ClockInv, GotOK, StartOK, UptimeOK
  <2>2. CASE register
    BY <2>1, <2>2 DEF register, clock
  <2>3. CASE UNCHANGED busvars
    BY <2>1, <2>3 DEF busvars, clock
  <2>4. QED BY <2>2, <2>3, TickStep, InlStep, EvaluateStep DEF BusNext
<1>3. QED BY <1>1, <1>2, PTL DEF BusSpec

(* Two words of 32 bits subtracted in 64: below zero the difference wraps  *)
(* round, and its lower word is the difference's all the same.             *)
LEMMA Difference ==
  ASSUME NEW a \in 0 .. WORD - 1, NEW b \in 0 .. WORD - 1
  PROVE  /\ (a - b) % UINT64 = IF a - b < 0 THEN (a - b) + UINT64 ELSE a - b
         /\ (a - b) % UINT64 \in {a - b, (a - b) + WORD * WORD}
<1>1. WORD \in Nat \ {0}
  BY BusAssumption
<1>2. UINT64 \in Nat /\ UINT64 >= WORD
  <2> DEFINE k == WORD - 1
  <2>1. k \in Nat /\ WORD = k + 1
    BY <1>1
  <2>2. UINT64 = k * WORD + WORD /\ k * WORD \in Nat
    BY <1>1, <2>1 DEF UINT64
  <2> HIDE DEF k
  <2>3. QED BY <1>1, <2>2
<1> DEFINE U == UINT64  d == a - b
<1>3. d \in Int /\ -U < d /\ d < U /\ U \in Nat \ {0}
  BY <1>1, <1>2
<1> HIDE DEF U, d
<1>4. CASE d >= 0
  <2>1. d % U = d
    BY <1>3, <1>4
  <2>2. QED BY <1>3, <1>4, <2>1 DEF U, d
<1>5. CASE d < 0
  <2>1. d % U = d + U
    BY <1>3, <1>5
  <2>2. QED BY <1>3, <1>5, <2>1 DEF U, d, UINT64
<1>6. QED BY <1>3, <1>4, <1>5

(* Remainders differ by what the numbers do, but for a multiple.           *)
LEMMA Congruent ==
  ASSUME NEW k \in Nat \ {0}, NEW x \in Int, NEW y \in Int, NEW c \in Int,
         NEW u, u = ((y % k) - (x % k)) + k * c
  PROVE  (u - (y - x)) % k = 0
<1> DEFINE q == y \div k  p == x \div k
<1>1. /\ q \in Int /\ p \in Int /\ y % k \in Int /\ x % k \in Int
      /\ y = k * q + (y % k) /\ x = k * p + (x % k)
  BY DivMod
<1> DEFINE r == y % k  s == x % k
<1> HIDE DEF q, p, r, s
<1>2. r \in Int /\ s \in Int /\ y = k * q + r /\ x = k * p + s /\ u = (r - s) + k * c /\ q \in Int /\ p \in Int
  BY <1>1 DEF q, p, r, s
<1> DEFINE g == (c - q) + p
<1>3. g \in Int /\ k * g = (k * c - k * q) + k * p
  BY <1>2
<1> HIDE DEF g
<1>4. k * c \in Int /\ k * q \in Int /\ k * p \in Int /\ k * g \in Int
  BY <1>2, <1>3
<1>5. u - (y - x) = k * g
  BY <1>2, <1>3, <1>4
<1>6. (k * g) % k = 0
  BY <1>3
<1>7. QED BY <1>5, <1>6

(* __am_timer_uptime is less than a second off at either end, although     *)
(* rtc_io_handler latches the clock for each of its two words anew, in     *)
(* whichever order the compiler has put them: as the lower word of the 64  *)
(* bits always, as a number unless the sum of 32 bits has wrapped round    *)
(* since __am_timer_init or the difference is below zero.                  *)
THEOREM UptimeNearHolds == BusSpec => []UptimeNear
<1>1. ClockInv => UptimeNear
  <2> SUFFICES ASSUME ClockInv, uptime # NONE
               PROVE  /\ \E t \in Elapsed : (uptime.us - t) % WORD = 0
                      /\ (uptime.to + TICKS) \div WORD = (t0[1] - TICKS) \div WORD =>
                           \E t \in Elapsed : uptime.us = IF t < 0 THEN t + UINT64 ELSE t
    BY DEF UptimeNear
  <2> DEFINE us == uptime.us  from == uptime.from  to == uptime.to  b == t0[1]  e == t0[2]
             lo == b - TICKS  hi == to + TICKS
  <2>1. /\ from \in Nat /\ to \in Nat /\ from <= to /\ b \in Nat /\ e \in Nat /\ b <= e /\ e <= from
        /\ TICKS \in Nat \ {0} /\ WORD \in Nat \ {0}
    BY BusAssumption DEF ClockInv, StartOK, UptimeOK
  <2>2. PICK x \in Around(b, e) : am_start_time = x % WORD
    BY DEF ClockInv, StartOK, UptimeOK
  <2>3. PICK y \in Around(from, to) : us = ((y % WORD) - am_start_time) % UINT64
    BY DEF ClockInv, UptimeOK
  <2>3a. Elapsed = (from - e) - 2 * (TICKS - 1) .. (to - b) + 2 * (TICKS - 1)
    BY DEF Elapsed
  <2> HIDE DEF us, from, to, b, e
  <2>4. lo \in Int /\ hi \in Int /\ x \in lo .. hi /\ y \in lo .. hi /\ x \in Int /\ y \in Int
    BY <2>1 DEF Around
  <2> HIDE DEF lo, hi
  <2>5. y - x \in Elapsed
    BY <2>1, <2>3a DEF Around
  <2>6. x % WORD \in 0 .. WORD - 1 /\ y % WORD \in 0 .. WORD - 1
    BY <2>1, <2>4, DivMod
  <2>7. (us - (y - x)) % WORD = 0
    <3>1. us \in {(y % WORD) - (x % WORD), ((y % WORD) - (x % WORD)) + WORD * WORD}
      BY <2>2, <2>3, <2>6, Difference
    <3>2. PICK c \in {0, WORD} : us = ((y % WORD) - (x % WORD)) + WORD * c
      BY <2>1, <2>6, <3>1
    <3>3. c \in Int
      BY <2>1
    <3>4. \A u : u = ((y % WORD) - (x % WORD)) + WORD * c => (u - (y - x)) % WORD = 0
      BY <2>1, <2>4, <3>3, Congruent
    <3>5. QED BY <3>2, <3>4
  <2>8. ASSUME hi \div WORD = lo \div WORD
        PROVE  us = IF y - x < 0 THEN (y - x) + UINT64 ELSE y - x
    <3>1. (y % WORD) - (x % WORD) = y - x
      BY <2>1, <2>4, <2>8, SameQuotient
    <3>2. QED BY <2>2, <2>3, <2>6, <3>1, Difference
  <2>9. QED BY <2>5, <2>7, <2>8 DEF us, from, to, b, e, lo, hi
<1>2. QED BY <1>1, ClockInvariant, PTL

---------------------------------------------------------------------------
(* Registration, and the accesses that rest on it.                         *)

(* The map that a call m registers on the space at base. *)
Mapped(m, base) ==
  [bus |-> m.op, name |-> m.name, low |-> m.low, high |-> (m.low + m.len) - 1, space |-> base, len |-> m.len]

(* What the screen takes of io_space. *)
Frame == page_aligned(screen)

(* The maps in the order of their registration. *)
Layout == <<
  Mapped(Pio("serial", 1016, 8), 0), Mapped(Mmio("serial", MMIO + 1016, 8), 0),
  Mapped(Pio("rtc", 72, 8), 4096), Mapped(Mmio("rtc", MMIO + 72, 8), 4096),
  Mapped(Pio("screen", 256, 8), 8192), Mapped(Mmio("screen", MMIO + 256, 8), 8192),
  Mapped(Mmio("vmem", VMEM, screen), 12288),
  Mapped(Pio("keyboard", 96, 4), 12288 + Frame), Mapped(Mmio("keyboard", MMIO + 96, 4), 12288 + Frame),
  Mapped(Pio("audio", 512, 24), 16384 + Frame), Mapped(Mmio("audio", MMIO + 512, 24), 16384 + Frame),
  Mapped(Mmio("audio-sbuf", STREAM_BUF, 65536), 20480 + Frame) >>

Entries == {Layout[e] : e \in 1 .. 12}

(* Where io_space is used up to, and how many maps there are, before each  *)
(* call and after the last one.                                            *)
Spaces == <<
  0, 4096, 4096, 4096, 8192, 8192, 8192, 12288, 12288, 12288, 12288 + Frame, 12288 + Frame,
  16384 + Frame, 16384 + Frame, 16384 + Frame, 20480 + Frame, 20480 + Frame, 20480 + Frame,
  86016 + Frame, 86016 + Frame >>

Registered == <<0, 0, 1, 2, 2, 3, 4, 4, 5, 6, 6, 7, 7, 8, 9, 9, 10, 11, 11, 12>>

(* Each call has done what the tables say. *)
RegInv ==
  /\ screen \in SCREENS
  /\ step \in 1 .. 20
  /\ p_space = Spaces[step] /\ p_space < IO_SPACE_MAX
  /\ maps \in Seq(Entries) /\ Len(maps) = Registered[step]
  /\ \A e \in 1 .. Len(maps) : maps[e] = Layout[e]

(* A space is of whole pages; behind the screen's pixels there is room for *)
(* the rest of a word.                                                     *)
LEMMA FrameAligned ==
  ASSUME screen \in SCREENS
  PROVE  /\ screen \in Nat /\ Frame \in Nat /\ screen >= 1 /\ screen + 3 <= Frame /\ Frame % 4096 = 0
         /\ page_aligned(4) = 4096 /\ page_aligned(8) = 4096 /\ page_aligned(24) = 4096
         /\ page_aligned(65536) = 65536
<1> DEFINE q == screen \div 4096  r == screen % 4096
<1>1. screen \in Nat /\ r \in 1 .. 4093
  <2>1. screen \in Nat /\ screen % PAGE_SIZE \in 1 .. PAGE_SIZE - 3
    BY ScreenAssumption, Zenon
  <2>2. 4096 - 3 = 4093
    OBVIOUS
  <2>3. QED BY <2>1, <2>2 DEF PAGE_SIZE
<1>2. q \in Nat /\ screen = 4096 * q + r
  BY <1>1
<1>3. ((screen + 4096) - 1) \div 4096 = q + 1
  <2> HIDE DEF q, r
  <2> QED BY <1>1, <1>2
<1>4. Frame = 4096 * (q + 1)
  BY <1>3, <1>2 DEF Frame, page_aligned, PAGE_SIZE
<1>5. page_aligned(4) = 4096 /\ page_aligned(8) = 4096 /\ page_aligned(24) = 4096 /\ page_aligned(65536) = 65536
  BY DEF page_aligned, PAGE_SIZE
<1> HIDE DEF q, r
<1>6. QED BY <1>1, <1>2, <1>4, <1>5

(* The tables, row by row. *)
LEMMA Calls ==
  /\ Len(init_device) = 19 /\ DOMAIN init_device = 1 .. 19
  /\ init_device[1]  = Space(8) /\ init_device[2] = Pio("serial", 1016, 8)
  /\ init_device[3] = Mmio("serial", MMIO + 1016, 8)
  /\ init_device[4]  = Space(8) /\ init_device[5] = Pio("rtc", 72, 8)
  /\ init_device[6] = Mmio("rtc", MMIO + 72, 8)
  /\ init_device[7]  = Space(8) /\ init_device[8] = Pio("screen", 256, 8)
  /\ init_device[9] = Mmio("screen", MMIO + 256, 8)
  /\ init_device[10] = Space(screen) /\ init_device[11] = Mmio("vmem", VMEM, screen)
  /\ init_device[12] = Space(4) /\ init_device[13] = Pio("keyboard", 96, 4)
  /\ init_device[14] = Mmio("keyboard", MMIO + 96, 4)
  /\ init_device[15] = Space(24) /\ init_device[16] = Pio("audio", 512, 24)
  /\ init_device[17] = Mmio("audio", MMIO + 512, 24)
  /\ init_device[18] = Space(65536) /\ init_device[19] = Mmio("audio-sbuf", STREAM_BUF, 65536)
BY DEF init_device

LEMMA Rows ==
  /\ Layout[1] = Mapped(Pio("serial", 1016, 8), 0) /\ Layout[2] = Mapped(Mmio("serial", MMIO + 1016, 8), 0)
  /\ Layout[3] = Mapped(Pio("rtc", 72, 8), 4096) /\ Layout[4] = Mapped(Mmio("rtc", MMIO + 72, 8), 4096)
  /\ Layout[5] = Mapped(Pio("screen", 256, 8), 8192) /\ Layout[6] = Mapped(Mmio("screen", MMIO + 256, 8), 8192)
  /\ Layout[7] = Mapped(Mmio("vmem", VMEM, screen), 12288)
  /\ Layout[8] = Mapped(Pio("keyboard", 96, 4), 12288 + Frame)
  /\ Layout[9] = Mapped(Mmio("keyboard", MMIO + 96, 4), 12288 + Frame)
  /\ Layout[10] = Mapped(Pio("audio", 512, 24), 16384 + Frame)
  /\ Layout[11] = Mapped(Mmio("audio", MMIO + 512, 24), 16384 + Frame)
  /\ Layout[12] = Mapped(Mmio("audio-sbuf", STREAM_BUF, 65536), 20480 + Frame)
BY DEF Layout

LEMMA SpaceValues ==
  /\ Spaces[1] = 0 /\ Spaces[2] = 4096 /\ Spaces[3] = 4096 /\ Spaces[4] = 4096 /\ Spaces[5] = 8192
  /\ Spaces[6] = 8192
  /\ Spaces[7] = 8192 /\ Spaces[8] = 12288 /\ Spaces[9] = 12288 /\ Spaces[10] = 12288
  /\ Spaces[11] = 12288 + Frame
  /\ Spaces[12] = 12288 + Frame /\ Spaces[13] = 16384 + Frame /\ Spaces[14] = 16384 + Frame
  /\ Spaces[15] = 16384 + Frame
  /\ Spaces[16] = 20480 + Frame /\ Spaces[17] = 20480 + Frame /\ Spaces[18] = 20480 + Frame
  /\ Spaces[19] = 86016 + Frame /\ Spaces[20] = 86016 + Frame
BY DEF Spaces

LEMMA RegisteredValues ==
  /\ Registered[1] = 0 /\ Registered[2] = 0 /\ Registered[3] = 1 /\ Registered[4] = 2 /\ Registered[5] = 2
  /\ Registered[6] = 3 /\ Registered[7] = 4 /\ Registered[8] = 4 /\ Registered[9] = 5 /\ Registered[10] = 6
  /\ Registered[11] = 6 /\ Registered[12] = 7 /\ Registered[13] = 7 /\ Registered[14] = 8 /\ Registered[15] = 9
  /\ Registered[16] = 9 /\ Registered[17] = 10 /\ Registered[18] = 11 /\ Registered[19] = 11
  /\ Registered[20] = 12
BY DEF Registered

(* add_map adds the row of the table. *)
LEMMA Added ==
  ASSUME RegInv, register, NEW c \in 0 .. 11, Registered[step] = c, Registered[step + 1] = c + 1,
         step + 1 \in 1 .. 20, Spaces[step + 1] = Spaces[step], init_device[step].op # "space",
         Layout[c + 1] = Mapped(init_device[step], p_space - page_aligned(init_device[step].len))
  PROVE  RegInv'
<1>1. add_map /\ step' = step + 1 /\ screen' = screen
  BY DEF register, new_space
<1>2. p_space' = p_space /\ Frame' = Frame /\ Layout' = Layout /\ Entries' = Entries
      /\ Spaces' = Spaces /\ Registered' = Registered
  BY <1>1 DEF add_map, Frame, Layout, Entries, Spaces, Registered
<1>3. maps' = Append(maps, Layout[c + 1])
  BY <1>1 DEF add_map, Mapped
<1>4. Layout[c + 1] \in Entries
  BY DEF Entries
<1>5. maps' \in Seq(Entries) /\ Len(maps') = c + 1 /\ \A e \in 1 .. Len(maps') : maps'[e] = Layout[e]
  BY <1>3, <1>4 DEF RegInv
<1>6. QED BY <1>1, <1>2, <1>5 DEF RegInv

(* new_space moves p_space on. *)
LEMMA Made ==
  ASSUME RegInv, register, init_device[step].op = "space", step + 1 \in 1 .. 20,
         Registered[step + 1] = Registered[step], Spaces[step + 1] = p_space + page_aligned(init_device[step].len)
  PROVE  RegInv'
<1>1. new_space /\ step' = step + 1 /\ screen' = screen
  BY DEF register, add_map
<1>2. maps' = maps /\ Frame' = Frame /\ Layout' = Layout /\ Entries' = Entries
      /\ Spaces' = Spaces /\ Registered' = Registered
  BY <1>1 DEF new_space, Frame, Layout, Entries, Spaces, Registered
<1>3. QED BY <1>1, <1>2 DEF new_space, RegInv

(* Call by call. *)
LEMMA RegisterStep ==
  ASSUME RegInv, register PROVE RegInv'
<1>1. step \in 1 .. 19 /\ screen \in SCREENS
  BY Calls DEF register, RegInv
<1>2. p_space = Spaces[step]
  BY DEF RegInv
<1>3. CASE step = 1
  <2>1. init_device[step].op = "space" /\ page_aligned(init_device[step].len) = 4096
    BY <1>1, <1>3, Calls, FrameAligned DEF Space, Frame
  <2>2. Spaces[step + 1] = p_space + 4096 /\ Registered[step + 1] = Registered[step] /\ step + 1 \in 1 .. 20
    BY <1>1, <1>2, <1>3, SpaceValues, RegisteredValues, FrameAligned
  <2>3. QED BY <2>1, <2>2, Made
<1>4. CASE step = 2
  <2>1. Layout[0 + 1] = Mapped(init_device[step], p_space - page_aligned(init_device[step].len))
    BY <1>1, <1>2, <1>4, Calls, Rows, SpaceValues, FrameAligned DEF Pio, Mmio, Frame
  <2>2. QED BY <1>1, <1>4, <2>1, Calls, SpaceValues, RegisteredValues, Added DEF Pio, Mmio
<1>5. CASE step = 3
  <2>1. Layout[1 + 1] = Mapped(init_device[step], p_space - page_aligned(init_device[step].len))
    BY <1>1, <1>2, <1>5, Calls, Rows, SpaceValues, FrameAligned DEF Pio, Mmio, Frame
  <2>2. QED BY <1>1, <1>5, <2>1, Calls, SpaceValues, RegisteredValues, Added DEF Pio, Mmio
<1>6. CASE step = 4
  <2>1. init_device[step].op = "space" /\ page_aligned(init_device[step].len) = 4096
    BY <1>1, <1>6, Calls, FrameAligned DEF Space, Frame
  <2>2. Spaces[step + 1] = p_space + 4096 /\ Registered[step + 1] = Registered[step] /\ step + 1 \in 1 .. 20
    BY <1>1, <1>2, <1>6, SpaceValues, RegisteredValues, FrameAligned
  <2>3. QED BY <2>1, <2>2, Made
<1>7. CASE step = 5
  <2>1. Layout[2 + 1] = Mapped(init_device[step], p_space - page_aligned(init_device[step].len))
    BY <1>1, <1>2, <1>7, Calls, Rows, SpaceValues, FrameAligned DEF Pio, Mmio, Frame
  <2>2. QED BY <1>1, <1>7, <2>1, Calls, SpaceValues, RegisteredValues, Added DEF Pio, Mmio
<1>8. CASE step = 6
  <2>1. Layout[3 + 1] = Mapped(init_device[step], p_space - page_aligned(init_device[step].len))
    BY <1>1, <1>2, <1>8, Calls, Rows, SpaceValues, FrameAligned DEF Pio, Mmio, Frame
  <2>2. QED BY <1>1, <1>8, <2>1, Calls, SpaceValues, RegisteredValues, Added DEF Pio, Mmio
<1>9. CASE step = 7
  <2>1. init_device[step].op = "space" /\ page_aligned(init_device[step].len) = 4096
    BY <1>1, <1>9, Calls, FrameAligned DEF Space, Frame
  <2>2. Spaces[step + 1] = p_space + 4096 /\ Registered[step + 1] = Registered[step] /\ step + 1 \in 1 .. 20
    BY <1>1, <1>2, <1>9, SpaceValues, RegisteredValues, FrameAligned
  <2>3. QED BY <2>1, <2>2, Made
<1>10. CASE step = 8
  <2>1. Layout[4 + 1] = Mapped(init_device[step], p_space - page_aligned(init_device[step].len))
    BY <1>1, <1>2, <1>10, Calls, Rows, SpaceValues, FrameAligned DEF Pio, Mmio, Frame
  <2>2. QED BY <1>1, <1>10, <2>1, Calls, SpaceValues, RegisteredValues, Added DEF Pio, Mmio
<1>11. CASE step = 9
  <2>1. Layout[5 + 1] = Mapped(init_device[step], p_space - page_aligned(init_device[step].len))
    BY <1>1, <1>2, <1>11, Calls, Rows, SpaceValues, FrameAligned DEF Pio, Mmio, Frame
  <2>2. QED BY <1>1, <1>11, <2>1, Calls, SpaceValues, RegisteredValues, Added DEF Pio, Mmio
<1>12. CASE step = 10
  <2>1. init_device[step].op = "space" /\ page_aligned(init_device[step].len) = Frame
    BY <1>1, <1>12, Calls, FrameAligned DEF Space, Frame
  <2>2. Spaces[step + 1] = p_space + Frame /\ Registered[step + 1] = Registered[step] /\ step + 1 \in 1 .. 20
    BY <1>1, <1>2, <1>12, SpaceValues, RegisteredValues, FrameAligned
  <2>3. QED BY <2>1, <2>2, Made
<1>13. CASE step = 11
  <2>1. Layout[6 + 1] = Mapped(init_device[step], p_space - page_aligned(init_device[step].len))
    BY <1>1, <1>2, <1>13, Calls, Rows, SpaceValues, FrameAligned DEF Pio, Mmio, Frame
  <2>2. QED BY <1>1, <1>13, <2>1, Calls, SpaceValues, RegisteredValues, Added DEF Pio, Mmio
<1>14. CASE step = 12
  <2>1. init_device[step].op = "space" /\ page_aligned(init_device[step].len) = 4096
    BY <1>1, <1>14, Calls, FrameAligned DEF Space, Frame
  <2>2. Spaces[step + 1] = p_space + 4096 /\ Registered[step + 1] = Registered[step] /\ step + 1 \in 1 .. 20
    BY <1>1, <1>2, <1>14, SpaceValues, RegisteredValues, FrameAligned
  <2>3. QED BY <2>1, <2>2, Made
<1>15. CASE step = 13
  <2>1. Layout[7 + 1] = Mapped(init_device[step], p_space - page_aligned(init_device[step].len))
    BY <1>1, <1>2, <1>15, Calls, Rows, SpaceValues, FrameAligned DEF Pio, Mmio, Frame
  <2>2. QED BY <1>1, <1>15, <2>1, Calls, SpaceValues, RegisteredValues, Added DEF Pio, Mmio
<1>16. CASE step = 14
  <2>1. Layout[8 + 1] = Mapped(init_device[step], p_space - page_aligned(init_device[step].len))
    BY <1>1, <1>2, <1>16, Calls, Rows, SpaceValues, FrameAligned DEF Pio, Mmio, Frame
  <2>2. QED BY <1>1, <1>16, <2>1, Calls, SpaceValues, RegisteredValues, Added DEF Pio, Mmio
<1>17. CASE step = 15
  <2>1. init_device[step].op = "space" /\ page_aligned(init_device[step].len) = 4096
    BY <1>1, <1>17, Calls, FrameAligned DEF Space, Frame
  <2>2. Spaces[step + 1] = p_space + 4096 /\ Registered[step + 1] = Registered[step] /\ step + 1 \in 1 .. 20
    BY <1>1, <1>2, <1>17, SpaceValues, RegisteredValues, FrameAligned
  <2>3. QED BY <2>1, <2>2, Made
<1>18. CASE step = 16
  <2>1. Layout[9 + 1] = Mapped(init_device[step], p_space - page_aligned(init_device[step].len))
    BY <1>1, <1>2, <1>18, Calls, Rows, SpaceValues, FrameAligned DEF Pio, Mmio, Frame
  <2>2. QED BY <1>1, <1>18, <2>1, Calls, SpaceValues, RegisteredValues, Added DEF Pio, Mmio
<1>19. CASE step = 17
  <2>1. Layout[10 + 1] = Mapped(init_device[step], p_space - page_aligned(init_device[step].len))
    BY <1>1, <1>2, <1>19, Calls, Rows, SpaceValues, FrameAligned DEF Pio, Mmio, Frame
  <2>2. QED BY <1>1, <1>19, <2>1, Calls, SpaceValues, RegisteredValues, Added DEF Pio, Mmio
<1>20. CASE step = 18
  <2>1. init_device[step].op = "space" /\ page_aligned(init_device[step].len) = 65536
    BY <1>1, <1>20, Calls, FrameAligned DEF Space, Frame
  <2>2. Spaces[step + 1] = p_space + 65536 /\ Registered[step + 1] = Registered[step] /\ step + 1 \in 1 .. 20
    BY <1>1, <1>2, <1>20, SpaceValues, RegisteredValues, FrameAligned
  <2>3. QED BY <2>1, <2>2, Made
<1>21. CASE step = 19
  <2>1. Layout[11 + 1] = Mapped(init_device[step], p_space - page_aligned(init_device[step].len))
    BY <1>1, <1>2, <1>21, Calls, Rows, SpaceValues, FrameAligned DEF Pio, Mmio, Frame
  <2>2. QED BY <1>1, <1>21, <2>1, Calls, SpaceValues, RegisteredValues, Added DEF Pio, Mmio
<1>22. QED BY <1>1, <1>3, <1>4, <1>5, <1>6, <1>7, <1>8, <1>9, <1>10, <1>11, <1>12, <1>13, <1>14,
        <1>15, <1>16, <1>17, <1>18, <1>19, <1>20, <1>21

(* How far io_space is used at least when so many maps are made. *)
UsedBy(c, p) ==
  /\ p \in Nat /\ c \in 0 .. 12
  /\ c >= 7 => 12288 + Frame <= p
  /\ c >= 8 => 16384 + Frame <= p
  /\ c >= 10 => 20480 + Frame <= p
  /\ c = 12 => 86016 + Frame = p

LEMMA Used ==
  ASSUME Frame \in Nat, NEW s \in 1 .. 20 PROVE UsedBy(Registered[s], Spaces[s])
<1> USE DEF UsedBy
<1>1. CASE s \in 1 .. 10
  <2>1. s = 1 \/ s = 2 \/ s = 3 \/ s = 4 \/ s = 5 \/ s = 6 \/ s = 7 \/ s = 8 \/ s = 9 \/ s = 10
    BY <1>1
  <2>2. QED BY <2>1, SpaceValues, RegisteredValues
<1>2. CASE s \in 11 .. 20
  <2>1. s = 11 \/ s = 12 \/ s = 13 \/ s = 14 \/ s = 15 \/ s = 16 \/ s = 17 \/ s = 18 \/ s = 19 \/ s = 20
    BY <1>2
  <2>2. QED BY <2>1, SpaceValues, RegisteredValues
<1>3. QED BY <1>1, <1>2

LEMMA MapsCount ==
  ASSUME RegInv
  PROVE  Len(maps) \in 0 .. 12 /\ DOMAIN maps = 1 .. Len(maps) /\ UsedBy(Len(maps), p_space)
<1>1. screen \in SCREENS /\ step \in 1 .. 20 /\ p_space = Spaces[step]
      /\ Len(maps) = Registered[step] /\ DOMAIN maps = 1 .. Len(maps)
  BY DEF RegInv
<1>2. Frame \in Nat
  BY <1>1, FrameAligned
<1>3. UsedBy(Registered[step], Spaces[step])
  BY <1>1, <1>2, Used
<1>4. Registered[step] \in 0 .. 12
  BY <1>3 DEF UsedBy
<1>5. QED BY <1>1, <1>3, <1>4

(* How large the screen may be by then, since p_space is within io_space. *)
LEMMA Reach ==
  ASSUME RegInv
  PROVE  /\ Len(maps) >= 7 => 12288 + Frame < IO_SPACE_MAX
         /\ Len(maps) >= 8 => 16384 + Frame < IO_SPACE_MAX
         /\ Len(maps) >= 10 => 20480 + Frame < IO_SPACE_MAX
         /\ Len(maps) = 12 => 86016 + Frame < IO_SPACE_MAX
<1> DEFINE c == Len(maps)
<1>1. screen \in SCREENS /\ p_space < 2097152 /\ UsedBy(c, p_space)
  BY MapsCount DEF RegInv, IO_SPACE_MAX
<1>2. Frame \in Nat
  BY <1>1, FrameAligned
<1> HIDE DEF c
<1>3. /\ c >= 7 => 12288 + Frame < 2097152
      /\ c >= 8 => 16384 + Frame < 2097152
      /\ c >= 10 => 20480 + Frame < 2097152
      /\ c = 12 => 86016 + Frame < 2097152
  BY SMT, <1>1, <1>2 DEF UsedBy
<1>4. QED BY <1>3 DEF c, IO_SPACE_MAX

(* A map's addresses are of its bus, off physical memory, and its space    *)
(* ends, with the rest of a word, before the next one.                     *)
LEMMA RowShape ==
  ASSUME screen \in SCREENS, NEW e \in 1 .. 12
  PROVE  /\ Layout[e].bus \in {"pio", "mmio"}
         /\ Layout[e].low \in Nat /\ Layout[e].len \in Nat /\ Layout[e].space \in Nat
         /\ Layout[e].len >= 1 /\ Layout[e].high = (Layout[e].low + Layout[e].len) - 1
         /\ Layout[e].bus = "pio" => Layout[e].high + 4 <= PORT_IO_SPACE_MAX
         /\ Layout[e].bus = "mmio" => Layout[e].low >= PMEM_SIZE
         /\ e <= 6 => Layout[e].space + Layout[e].len + 3 <= IO_SPACE_MAX
         /\ e = 7 => Layout[e].space + Layout[e].len + 3 <= 12288 + Frame
         /\ e \in 8 .. 9 => Layout[e].space + Layout[e].len + 3 <= 16384 + Frame
         /\ e \in 10 .. 11 => Layout[e].space + Layout[e].len + 3 <= 20480 + Frame
         /\ e = 12 => Layout[e].space + Layout[e].len = 86016 + Frame
<1> USE DEF Mapped, Pio, Mmio, MMIO, VMEM, STREAM_BUF, PMEM_SIZE, PORT_IO_SPACE_MAX, IO_SPACE_MAX
<1>1. /\ screen \in Nat /\ Frame \in Nat /\ screen >= 1 /\ screen + 3 <= Frame
  BY FrameAligned
<1>2. e \in 1 .. 12
  OBVIOUS
<1>3. CASE e = 1
  BY <1>1, <1>2, <1>3, Rows
<1>4. CASE e = 2
  BY <1>1, <1>2, <1>4, Rows
<1>5. CASE e = 3
  BY <1>1, <1>2, <1>5, Rows
<1>6. CASE e = 4
  BY <1>1, <1>2, <1>6, Rows
<1>7. CASE e = 5
  BY <1>1, <1>2, <1>7, Rows
<1>8. CASE e = 6
  BY <1>1, <1>2, <1>8, Rows
<1>9. CASE e = 7
  BY <1>1, <1>2, <1>9, Rows
<1>10. CASE e = 8
  BY <1>1, <1>2, <1>10, Rows
<1>11. CASE e = 9
  BY <1>1, <1>2, <1>11, Rows
<1>12. CASE e = 10
  BY <1>1, <1>2, <1>12, Rows
<1>13. CASE e = 11
  BY <1>1, <1>2, <1>13, Rows
<1>14. CASE e = 12
  BY <1>1, <1>2, <1>14, Rows
<1>15. QED BY <1>2, <1>3, <1>4, <1>5, <1>6, <1>7, <1>8, <1>9, <1>10, <1>11, <1>12, <1>13, <1>14

(* No address of a bus is of two maps. *)
LEMMA RowsApart ==
  ASSUME screen \in SCREENS, NEW e \in 1 .. 12, NEW j \in 1 .. 12, e # j, Layout[e].bus = Layout[j].bus,
         Frame < IO_SPACE_MAX \/ (e < 7 /\ j < 7)
  PROVE  Layout[e].high < Layout[j].low \/ Layout[j].high < Layout[e].low
<1> USE DEF Mapped, Pio, Mmio, MMIO, VMEM, STREAM_BUF, IO_SPACE_MAX
<1>1. /\ screen \in Nat /\ Frame \in Nat /\ screen >= 1 /\ screen + 3 <= Frame
  BY FrameAligned
<1>2. j \in 1 .. 12 /\ e \in 1 .. 12 /\ e # j /\ Layout[e].bus = Layout[j].bus
      /\ (Frame < IO_SPACE_MAX \/ (e < 7 /\ j < 7))
  OBVIOUS
<1>3. CASE e = 1
  BY <1>1, <1>2, <1>3, Rows
<1>4. CASE e = 2
  BY <1>1, <1>2, <1>4, Rows
<1>5. CASE e = 3
  BY <1>1, <1>2, <1>5, Rows
<1>6. CASE e = 4
  BY <1>1, <1>2, <1>6, Rows
<1>7. CASE e = 5
  BY <1>1, <1>2, <1>7, Rows
<1>8. CASE e = 6
  BY <1>1, <1>2, <1>8, Rows
<1>9. CASE e = 7
  BY <1>1, <1>2, <1>9, Rows
<1>10. CASE e = 8
  BY <1>1, <1>2, <1>10, Rows
<1>11. CASE e = 9
  BY <1>1, <1>2, <1>11, Rows
<1>12. CASE e = 10
  BY <1>1, <1>2, <1>12, Rows
<1>13. CASE e = 11
  BY <1>1, <1>2, <1>13, Rows
<1>14. CASE e = 12
  BY <1>1, <1>2, <1>14, Rows
<1>15. QED BY <1>2, <1>3, <1>4, <1>5, <1>6, <1>7, <1>8, <1>9, <1>10, <1>11, <1>12, <1>13, <1>14

(* A word that begins in a space ends before the next space. *)
LEMMA SpacesApart ==
  ASSUME screen \in SCREENS, NEW e \in 1 .. 12, NEW j \in 1 .. 12, Layout[e].space < Layout[j].space
  PROVE  Layout[e].space + Layout[e].len + 3 <= Layout[j].space
<1> USE DEF Mapped, Pio, Mmio
<1>1. /\ screen \in Nat /\ Frame \in Nat /\ screen >= 1 /\ screen + 3 <= Frame
  BY FrameAligned
<1>2. j \in 1 .. 12 /\ e \in 1 .. 12 /\ Layout[e].space < Layout[j].space
  OBVIOUS
<1>3. CASE e = 1
  BY <1>1, <1>2, <1>3, Rows
<1>4. CASE e = 2
  BY <1>1, <1>2, <1>4, Rows
<1>5. CASE e = 3
  BY <1>1, <1>2, <1>5, Rows
<1>6. CASE e = 4
  BY <1>1, <1>2, <1>6, Rows
<1>7. CASE e = 5
  BY <1>1, <1>2, <1>7, Rows
<1>8. CASE e = 6
  BY <1>1, <1>2, <1>8, Rows
<1>9. CASE e = 7
  BY <1>1, <1>2, <1>9, Rows
<1>10. CASE e = 8
  BY <1>1, <1>2, <1>10, Rows
<1>11. CASE e = 9
  BY <1>1, <1>2, <1>11, Rows
<1>12. CASE e = 10
  BY <1>1, <1>2, <1>12, Rows
<1>13. CASE e = 11
  BY <1>1, <1>2, <1>13, Rows
<1>14. CASE e = 12
  BY <1>1, <1>2, <1>14, Rows
<1>15. QED BY <1>2, <1>3, <1>4, <1>5, <1>6, <1>7, <1>8, <1>9, <1>10, <1>11, <1>12, <1>13, <1>14

(* The invariant says enough. *)
LEMMA RegInside == RegInv => AccessInside
<1> SUFFICES ASSUME RegInv, NEW e \in DOMAIN maps, NEW addr \in {maps[e].low, maps[e].high}
             PROVE  LET p == first_byte(maps[e], addr)
                    IN  /\ (IF maps[e].bus = "pio" THEN pio_common(addr, SIZEOF_WORD)
                                                    ELSE paddr_access(addr)) = {e}
                        /\ p + SIZEOF_WORD <= IO_SPACE_MAX
                        /\ \A j \in DOMAIN maps : maps[j].space # maps[e].space =>
                             p + SIZEOF_WORD <= maps[j].space \/ p >= maps[j].space + maps[j].len
  BY DEF AccessInside
<1>1. /\ screen \in SCREENS /\ \A k \in DOMAIN maps : k \in 1 .. 12 /\ maps[k] = Layout[k]
      /\ Frame \in Nat /\ Frame % 4096 = 0
  <2>1. screen \in SCREENS /\ \A k \in 1 .. Len(maps) : maps[k] = Layout[k]
    BY DEF RegInv
  <2>2. Len(maps) \in 0 .. 12 /\ DOMAIN maps = 1 .. Len(maps)
    BY MapsCount
  <2>3. \A k \in DOMAIN maps : k \in 1 .. 12 /\ maps[k] = Layout[k]
    BY <2>1, <2>2
  <2>4. Frame \in Nat /\ Frame % 4096 = 0
    BY <2>1, FrameAligned
  <2>5. QED BY <2>1, <2>3, <2>4
<1>2. /\ e \in 1 .. 12 /\ maps[e] = Layout[e] 
      /\ Layout[e].bus \in {"pio", "mmio"}
      /\ Layout[e].low \in Nat /\ Layout[e].len \in Nat /\ Layout[e].space \in Nat
      /\ Layout[e].len >= 1 /\ Layout[e].high = (Layout[e].low + Layout[e].len) - 1
  BY <1>1, RowShape
<1>3. ASSUME NEW k \in DOMAIN maps, maps[k].bus = maps[e].bus, map_inside(maps[k], addr) PROVE k = e
  <2> SUFFICES ASSUME k # e PROVE FALSE
    OBVIOUS
  <2>1. k \in 1 .. 12 /\ maps[k] = Layout[k] /\ Layout[k].low \in Nat /\ Layout[k].high \in Int
    BY <1>1, RowShape
  <2>2. Frame < IO_SPACE_MAX \/ (e < 7 /\ k < 7)
    <3>1. Len(maps) \in Nat /\ k <= Len(maps) /\ e <= Len(maps)
      BY MapsCount
    <3>2. Len(maps) >= 7 => Frame < IO_SPACE_MAX
      BY SMT, <1>1, Reach DEF IO_SPACE_MAX
    <3>3. QED BY <2>1, <1>2, <3>1, <3>2
  <2>3. Layout[e].high < Layout[k].low \/ Layout[k].high < Layout[e].low
    BY <1>1, <1>2, <1>3, <2>1, <2>2, RowsApart
  <2>4. /\ Layout[e].low <= addr /\ addr <= Layout[e].high
        /\ Layout[k].low <= addr /\ addr <= Layout[k].high
    BY <1>2, <1>3, <2>1 DEF map_inside
  <2>5. addr \in Int /\ Layout[e].low \in Int /\ Layout[e].high \in Int
    BY <1>2
  <2>6. QED BY SMT, <2>1, <2>3, <2>4, <2>5
<1>4. map_inside(maps[e], addr) /\ addr \in Nat /\ maps[e].low <= addr /\ addr <= maps[e].high
  BY <1>2 DEF map_inside
<1>5. find_map(maps[e].bus, addr) = {e}
  BY <1>3, <1>4 DEF find_map
<1>6. (IF maps[e].bus = "pio" THEN pio_common(addr, SIZEOF_WORD) ELSE paddr_access(addr)) = {e}
  <2>1. CASE maps[e].bus = "pio"
    <3>1. maps[e].high + 4 <= PORT_IO_SPACE_MAX
      BY <1>1, <1>2, <2>1, RowShape
    <3>2. (addr + SIZEOF_WORD) - 1 < PORT_IO_SPACE_MAX
      BY <3>1, <1>2, <1>4 DEF SIZEOF_WORD, PORT_IO_SPACE_MAX
    <3>3. QED BY <3>2, <2>1, <1>5 DEF pio_common
  <2>2. CASE maps[e].bus = "mmio"
    <3>1. maps[e].low >= PMEM_SIZE
      BY <1>1, <1>2, <2>2, RowShape
    <3>2. ~ in_pmem(addr)
      BY <3>1, <1>2, <1>4 DEF in_pmem, PMEM_SIZE
    <3>3. QED BY <3>2, <2>2, <1>5 DEF paddr_access
  <2>3. QED BY <1>2, <2>1, <2>2
<1> DEFINE p == first_byte(maps[e], addr)
<1>7. p \in Nat /\ maps[e].space <= p /\ p + 4 <= maps[e].space + maps[e].len + 3
  BY <1>2, <1>4 DEF first_byte
<1> HIDE DEF p
<1>8. maps[e].space + maps[e].len + 3 <= IO_SPACE_MAX
  <2>1. CASE e \in 1 .. 6
    BY <1>1, <1>2, <2>1, RowShape
  <2>2. CASE e \in 7 .. 11
    <3>1. \/ e = 7 /\ 12288 + Frame < 2097152 /\ maps[e].space + maps[e].len + 3 <= 12288 + Frame
          \/ e \in 8 .. 9 /\ 16384 + Frame < 2097152 /\ maps[e].space + maps[e].len + 3 <= 16384 + Frame
          \/ e \in 10 .. 11 /\ 20480 + Frame < 2097152 /\ maps[e].space + maps[e].len + 3 <= 20480 + Frame
      <4>1. Len(maps) \in Nat /\ e <= Len(maps) /\ IO_SPACE_MAX = 2097152
        BY MapsCount DEF IO_SPACE_MAX
      <4>2. e = 7 \/ e \in 8 .. 9 \/ e \in 10 .. 11
        BY <2>2
      <4>3. /\ e = 7 => 12288 + Frame < 2097152
            /\ e \in 8 .. 9 => 16384 + Frame < 2097152
            /\ e \in 10 .. 11 => 20480 + Frame < 2097152
        BY SMT, <4>1, Reach
      <4>4. QED BY SMT, <1>1, <1>2, <4>2, <4>3, RowShape
    <3>2. QED BY SMT, <1>1, <1>2, <3>1 DEF IO_SPACE_MAX
  <2>3. CASE e = 12
    <3>1. Len(maps) = 12
      BY <2>3, MapsCount
    <3>2. 86016 + Frame < 2097152
      BY SMT, <3>1, Reach DEF IO_SPACE_MAX
    <3>3. maps[e].space + maps[e].len = 86016 + Frame
      BY SMT, <1>1, <1>2, <2>3, RowShape
    <3>4. QED BY SMT, <1>1, <3>2, <3>3 DEF IO_SPACE_MAX
  <2>4. QED BY <1>2, <2>1, <2>2, <2>3
<1>9. ASSUME NEW j \in DOMAIN maps, maps[j].space # maps[e].space
      PROVE  p + 4 <= maps[j].space \/ p >= maps[j].space + maps[j].len
  <2>1. j \in 1 .. 12 /\ maps[j] = Layout[j] /\ Layout[j].space \in Nat /\ Layout[j].len \in Nat
    BY <1>1, RowShape
  <2>2. CASE Layout[e].space < Layout[j].space
    <3>1. Layout[e].space + Layout[e].len + 3 <= Layout[j].space
      BY <1>1, <1>2, <2>1, <2>2, SpacesApart
    <3>2. QED BY <1>2, <1>7, <2>1, <3>1
  <2>3. CASE Layout[j].space < Layout[e].space
    <3>1. Layout[j].space + Layout[j].len + 3 <= Layout[e].space
      BY <1>1, <1>2, <2>1, <2>3, SpacesApart
    <3>2. QED BY <1>2, <1>7, <2>1, <3>1
  <2>4. QED BY <1>2, <1>9, <2>1, <2>2, <2>3
<1>10. p + 4 <= IO_SPACE_MAX
  BY <1>2, <1>7, <1>8 DEF IO_SPACE_MAX
<1>11. QED BY <1>6, <1>9, <1>10 DEF p, SIZEOF_WORD

(* init_device registers the twelve maps one behind the other in io_space, *)
(* each on a space of whole pages.                                         *)
THEOREM Registration == BusSpec => []RegInv
<1>1. BusInit => RegInv
  <2> SUFFICES ASSUME BusInit PROVE RegInv
    OBVIOUS
  <2>1. maps = <<>> /\ step = 1 /\ p_space = 0 /\ screen \in SCREENS
    BY DEF BusInit
  <2>2. maps \in Seq(Entries) /\ Len(maps) = 0
    BY <2>1
  <2>3. QED BY <2>1, <2>2, SpaceValues, RegisteredValues DEF RegInv, IO_SPACE_MAX
<1>2. RegInv /\ [BusNext]_busvars => RegInv'
  <2> SUFFICES ASSUME RegInv, [BusNext]_busvars PROVE RegInv'
    OBVIOUS
  <2>1. ASSUME UNCHANGED bus PROVE RegInv'
    <3>1. step' = step /\ p_space' = p_space /\ maps' = maps /\ screen' = screen
      BY <2>1 DEF bus
    <3>2. Frame' = Frame /\ Layout' = Layout /\ Entries' = Entries
      /\ Spaces' = Spaces /\ Registered' = Registered
      BY <3>1 DEF Frame, Layout, Entries, Spaces, Registered
    <3>3. QED BY <3>1, <3>2 DEF RegInv
  <2>2. register \/ UNCHANGED bus
    BY DEF BusNext, busvars, tick, inl, evaluate
  <2>3. QED BY <2>1, <2>2, RegisterStep
<1>3. QED BY <1>1, <1>2, PTL DEF BusSpec

(* No access that map_read and map_write let through, although they check  *)
(* its first byte only, touches what another device keeps or leaves        *)
(* io_space: for every screen that leaves the rest of a word on its last   *)
(* page, which both of the code's do.                                      *)
THEOREM AccessInsideHolds == BusSpec => []AccessInside
BY Registration, RegInside, PTL
=============================================================================

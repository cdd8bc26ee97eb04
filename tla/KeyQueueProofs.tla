--------------------------- MODULE KeyQueueProofs ---------------------------
(* The ring of keyboard.c implements the queue KeyFifo, for every length   *)
(* of the ring, every key map and every length of the window's queue.      *)
EXTENDS KeyQueue, SequenceTheorems, TLAPS

(***************************************************************************)
(* Codes and the ring's arithmetic.                                        *)
(***************************************************************************)

(* What send_key packs, the guest's driver unpacks. *)
LEMMA CodeRoundTrip ==
  ASSUME NEW scan \in 0 .. SCAN_MOD - 1, NEW down \in BOOLEAN
  PROVE  /\ am_scancode(scan, down) \in Codes
         /\ am_input_keybrd(am_scancode(scan, down))
              = [keydown |-> down, keycode |-> keymap[scan]]
<1>1. keymap[scan] \in 0 .. KEYDOWN_MASK - 1 /\ KEYDOWN_MASK \in Nat
  BY KeyQueueAssumption
<1>2. CASE down = TRUE
  <2>1. am_scancode(scan, down) = keymap[scan] + KEYDOWN_MASK
    BY <1>2 DEF am_scancode
  <2>2. keymap[scan] + KEYDOWN_MASK \in Codes
        /\ keymap[scan] + KEYDOWN_MASK >= KEYDOWN_MASK
        /\ (keymap[scan] + KEYDOWN_MASK) - KEYDOWN_MASK = keymap[scan]
    BY <1>1 DEF Codes
  <2>3. am_input_keybrd(keymap[scan] + KEYDOWN_MASK)
          = [keydown |-> TRUE, keycode |-> keymap[scan]]
    BY <2>2, Zenon DEF am_input_keybrd
  <2>4. QED BY <1>2, <2>1, <2>2, <2>3, Zenon
<1>3. CASE down = FALSE
  <2>1. am_scancode(scan, down) = keymap[scan]
    BY <1>1, <1>3 DEF am_scancode
  <2>2. keymap[scan] \in Codes /\ ~ (keymap[scan] >= KEYDOWN_MASK)
    BY <1>1 DEF Codes
  <2>3. QED BY <1>3, <2>1, <2>2, Zenon DEF am_input_keybrd
<1>4. QED
  BY <1>2, <1>3

LEMMA KeyType ==
  ASSUME NEW code \in Codes
  PROVE  am_input_keybrd(code) \in [keydown : BOOLEAN, keycode : 0 .. KEYDOWN_MASK - 1]
<1>1. CASE code >= KEYDOWN_MASK
  BY <1>1, KeyQueueAssumption DEF am_input_keybrd, Codes
<1>2. CASE ~ (code >= KEYDOWN_MASK)
  BY <1>2, KeyQueueAssumption DEF am_input_keybrd, Codes
<1>3. QED
  BY <1>1, <1>2

(* The slot after i. *)
LEMMA NextSlot ==
  ASSUME NEW i \in Slots
  PROVE  (i + 1) % KEY_QUEUE_LEN = IF i + 1 = KEY_QUEUE_LEN THEN 0 ELSE i + 1
<1>1. KEY_QUEUE_LEN \in Nat \ {0} /\ i \in 0 .. KEY_QUEUE_LEN - 1
  BY KeyQueueAssumption DEF Slots
<1>2. CASE i + 1 = KEY_QUEUE_LEN
  BY <1>1, <1>2
<1>3. CASE i + 1 < KEY_QUEUE_LEN
  BY <1>1, <1>3
<1>4. QED
  BY <1>1, <1>2, <1>3

(***************************************************************************)
(* The inductive invariant.                                                *)
(***************************************************************************)
LEMMA InitIInv == Init => IInv
<1> SUFFICES ASSUME Init PROVE IInv
  OBVIOUS
<1> USE KeyQueueAssumption DEF Init
<1>1. _KEY_NONE \in Codes /\ 0 \in Slots
  BY DEF _KEY_NONE, Codes, Slots
<1>2. kbd \in [keydown : BOOLEAN, keycode : 0 .. KEYDOWN_MASK - 1]
  BY <1>1, KeyType
<1>3. DeviceOK
  BY <1>1, <1>2 DEF DeviceOK
<1>4. EventsOK
  BY DEF EventsOK
<1>5. leaked \in BOOLEAN /\ PromptKeysDropped
  BY Zenon DEF PromptKeysDropped
<1>6. QED
  BY <1>3, <1>4, <1>5 DEF IInv, TypeOK, TypedWaits, UpOutsidePoll

(* What a step must keep when it leaves the queue of the window alone. *)
LEMMA SameEvents ==
  ASSUME IInv, DeviceOK', events' = events, leaked' = leaked,
         state' \in {"STOP", "RUNNING", "QUIT", "END"},
         pc' \in {"prompt", "start", "guest", "poll", "check"},
         pc' = "prompt" \/ pc # "prompt",
         proc' = proc, pc' # "poll" => pc # "poll" \/ proc = "up"
  PROVE  IInv'
<1>1. TypeOK'
  BY DEF IInv, TypeOK, EventsOK
<1>2. TypedWaits' /\ PromptKeysDropped' /\ UpOutsidePoll'
  BY DEF IInv, TypedWaits, PromptKeysDropped, UpOutsidePoll
<1>3. QED
  BY <1>1, <1>2 DEF IInv

LEMMA inl_KBDDevice ==
  ASSUME IInv, inl_KBD
  PROVE  DeviceOK'
<1> USE DEF inl_KBD, i8042_data_io_handler
<1>t. DeviceOK
  BY DEF IInv, TypeOK
<1>1. CASE key_f # key_r
  <2>1. key_queue[key_f] \in Codes
    BY <1>t DEF DeviceOK
  <2>2. kbd' \in [keydown : BOOLEAN, keycode : 0 .. KEYDOWN_MASK - 1]
    BY <1>1, <2>1, KeyType
  <2>3. key_f' \in Slots
    BY <1>1, <1>t, NextSlot, KeyQueueAssumption DEF DeviceOK, Slots
  <2>4. QED BY <1>t, <2>2, <2>3 DEF DeviceOK
<1>2. CASE key_f = key_r
  <2>1. _KEY_NONE \in Codes
    BY KeyQueueAssumption DEF _KEY_NONE, Codes
  <2>2. QED BY <1>2, <1>t, <2>1, KeyType DEF DeviceOK
<1>3. QED
  BY <1>1, <1>2

(* The first event of the window's queue. *)
LEMMA FirstEvent ==
  ASSUME IInv, pc = "poll", events # <<>>
  PROVE  /\ Head(events) \in KeyEvents \cup {QuitEvent}
         /\ ~ Head(events).typed
         /\ events' = Tail(events) => EventsOK'
         /\ events' = Tail(events) => \A i \in 1 .. Len(events') : ~ events'[i].typed
<1>1. events \in Seq(KeyEvents \cup {QuitEvent}) /\ Len(events) <= MaxEvents
  BY DEF IInv, TypeOK, EventsOK
<1>2. \A i \in 1 .. Len(events) : ~ events[i].typed
  BY DEF IInv, TypedWaits
<1>3. Len(events) >= 1 /\ Head(events) = events[1]
  BY <1>1
<1>4. ASSUME events' = Tail(events)
      PROVE  EventsOK' /\ \A i \in 1 .. Len(events') : ~ events'[i].typed
  <2>1. events' \in Seq(KeyEvents \cup {QuitEvent}) /\ Len(events') = Len(events) - 1
    BY <1>1, <1>3, <1>4
  <2>2. \A i \in 1 .. Len(events') : events'[i] = events[i + 1]
    BY <1>1, <1>3, <1>4
  <2>3. EventsOK'
    BY <1>1, <2>1, KeyQueueAssumption DEF EventsOK
  <2>4. \A i \in 1 .. Len(events') : ~ events'[i].typed
    BY <1>1, <1>2, <2>1, <2>2
  <2>5. QED BY <2>3, <2>4
<1>5. QED
  BY <1>1, <1>2, <1>3, <1>4

(* The code a key event stands for. *)
LEMMA EventCode ==
  ASSUME IInv, poll_key
  PROVE  /\ Head(events).scan % SCAN_MOD \in 0 .. SCAN_MOD - 1
         /\ Head(events).down \in BOOLEAN
<1>1. Head(events) \in KeyEvents \cup {QuitEvent}
  BY FirstEvent DEF poll_key
<1>2. Head(events) \in KeyEvents
  BY <1>1 DEF poll_key, QuitEvent
<1>3. Head(events).scan \in Nat /\ Head(events).down \in BOOLEAN
  BY <1>2, KeyQueueAssumption DEF KeyEvents
<1>4. QED
  BY <1>3, KeyQueueAssumption

LEMMA poll_keyIInv ==
  ASSUME IInv, poll_key
  PROVE  IInv'
<1> DEFINE scan == Head(events).scan % SCAN_MOD
           down == Head(events).down
<1>t. DeviceOK
  BY DEF IInv, TypeOK
<1>1. pc = "poll" /\ events # <<>> /\ events' = Tail(events)
  BY DEF poll_key
<1>2. DeviceOK'
  <2>1. am_scancode(scan, down) \in Codes
    BY EventCode, CodeRoundTrip
  <2>2. (key_r + 1) % KEY_QUEUE_LEN \in Slots
    BY <1>t, NextSlot, KeyQueueAssumption DEF DeviceOK, Slots
  <2>3. QED BY <1>t, <2>1, <2>2 DEF poll_key, send_key, DeviceOK
<1>3. proc' \in {"up", "abort"}
  BY DEF poll_key, send_key, IInv, TypeOK
<1>4. ~ leaked'
  BY <1>1, FirstEvent DEF poll_key, IInv, PromptKeysDropped
<1>5. leaked' \in BOOLEAN
  BY <1>4, Zenon DEF poll_key
<1>6. TypeOK'
  BY <1>1, <1>2, <1>3, <1>5, FirstEvent DEF poll_key, IInv, TypeOK
<1>7. TypedWaits' /\ PromptKeysDropped' /\ UpOutsidePoll'
  BY <1>1, <1>4, FirstEvent DEF poll_key, TypedWaits, PromptKeysDropped, UpOutsidePoll
<1>8. QED
  BY <1>6, <1>7 DEF IInv

LEMMA NextIInv == IInv /\ [Next]_vars => IInv'
<1> SUFFICES ASSUME IInv, [Next]_vars PROVE IInv'
  OBVIOUS
<1>t. /\ state \in {"STOP", "RUNNING", "QUIT", "END"} /\ proc \in {"up", "abort"}
      /\ DeviceOK /\ EventsOK /\ leaked \in BOOLEAN
      /\ pc \in {"prompt", "start", "guest", "poll", "check"}
  BY DEF IInv, TypeOK
<1>d. UNCHANGED device => DeviceOK'
  BY <1>t DEF device, DeviceOK
<1>1. CASE sdl_clear_event_queue
  <2>1. TypeOK'
    <3>1. EventsOK'
      BY <1>1, KeyQueueAssumption DEF sdl_clear_event_queue, EventsOK
    <3>2. QED BY <1>1, <1>t, <1>d, <3>1 DEF sdl_clear_event_queue, TypeOK
  <2>2. TypedWaits' /\ PromptKeysDropped' /\ UpOutsidePoll'
    BY <1>1 DEF sdl_clear_event_queue, IInv, TypedWaits, PromptKeysDropped, UpOutsidePoll
  <2>3. QED BY <2>1, <2>2 DEF IInv
<1>2. CASE command
  BY <1>2, <1>t, <1>d, SameEvents DEF command
<1>3. CASE count_used_up
  BY <1>3, <1>t, <1>d, SameEvents DEF count_used_up
<1>4. CASE check
  BY <1>4, <1>t, <1>d, SameEvents DEF check
<1>5. ASSUME NEW s \in {"RUNNING", "STOP", "END"}, instr(s) PROVE IInv'
  BY <1>5, <1>t, <1>d, SameEvents DEF instr
<1>6. CASE inl_KBD
  BY <1>6, <1>t, inl_KBDDevice, SameEvents DEF inl_KBD
<1>7. CASE poll_key
  BY <1>7, poll_keyIInv
<1>8. CASE poll_quit
  <2>1. TypeOK'
    BY <1>8, <1>t, <1>d, FirstEvent DEF poll_quit, TypeOK
  <2>2. TypedWaits' /\ PromptKeysDropped' /\ UpOutsidePoll'
    BY <1>8, FirstEvent DEF poll_quit, IInv, TypedWaits, PromptKeysDropped, UpOutsidePoll
  <2>3. QED BY <2>1, <2>2 DEF IInv
<1>9. CASE poll_done
  BY <1>9, <1>t, <1>d, SameEvents DEF poll_done
<1>10. ASSUME NEW ev \in KeyEvents \cup {QuitEvent}, window(ev) PROVE IInv'
  <2> USE <1>10 DEF window
  <2>1. EventsOK'
    BY <1>t, KeyQueueAssumption DEF EventsOK
  <2>2. TypeOK'
    BY <1>t, <1>d, <2>1 DEF TypeOK
  <2>3. TypedWaits'
    <3>1. SUFFICES ASSUME pc # "prompt", NEW i \in 1 .. Len(events') PROVE ~ events'[i].typed
      BY DEF TypedWaits
    <3>2. CASE i = Len(events')
      <4>1. events'[i] = ev
        BY <1>t, <3>2 DEF EventsOK
      <4>2. ~ ev.typed
        BY <3>1, Zenon
      <4>3. QED BY <4>1, <4>2
    <3>3. CASE i # Len(events')
      <4>1. i \in 1 .. Len(events) /\ events'[i] = events[i]
        BY <1>t, <3>3 DEF EventsOK
      <4>2. QED BY <3>1, <4>1 DEF IInv, TypedWaits
    <3>4. QED BY <3>2, <3>3
  <2>4. QED BY <2>2, <2>3 DEF IInv, PromptKeysDropped, UpOutsidePoll
<1>11. CASE UNCHANGED vars
  BY <1>11, <1>t, <1>d, SameEvents DEF vars
<1>12. QED
  BY <1>1, <1>2, <1>3, <1>4, <1>5, <1>6, <1>7, <1>8, <1>9, <1>10, <1>11 DEF Next

(* The inductive invariant of the keyboard. *)
THEOREM KeyQueueInvariant == Spec => []IInv
<1>1. QED
  BY InitIInv, NextIInv, PTL DEF Spec

(* A key typed in the window while the prompt waits never reaches the      *)
(* guest (sdl_clear_event_queue in ui_mainloop).                           *)
THEOREM PromptKeysDroppedHolds == Spec => []PromptKeysDropped
<1>1. IInv => PromptKeysDropped
  BY DEF IInv
<1>2. QED
  BY <1>1, KeyQueueInvariant, PTL

(***************************************************************************)
(* The refinement: the slots from key_f up to key_r are the pending keys.  *)
(***************************************************************************)
LEMMA UsedFacts ==
  ASSUME DeviceOK
  PROVE  /\ Used \in 0 .. KEY_QUEUE_LEN - 1
         /\ Used = 0 <=> key_f = key_r
         /\ \A i \in 0 .. Used - 1 : Slot(i) \in Slots /\ Slot(i) # key_r
         /\ Slot(Used) = key_r
         /\ Slot(0) = key_f
BY KeyQueueAssumption DEF DeviceOK, Slots, Used, Slot

KeyRecords == [keydown : BOOLEAN, keycode : 0 .. KEYDOWN_MASK - 1]

PendingFacts ==
  proc = "up" =>
  /\ Used \in 0 .. KEY_QUEUE_LEN - 1
  /\ Pending \in Seq(KeyRecords)
  /\ Len(Pending) = Used
  /\ \A i \in 1 .. Used : Pending[i] = am_input_keybrd(key_queue[Slot(i - 1)])

LEMMA PendingSeq == DeviceOK => PendingFacts
<1> SUFFICES ASSUME DeviceOK, proc = "up" PROVE PendingFacts
  BY DEF PendingFacts
<1> DEFINE k(i) == am_input_keybrd(key_queue[Slot(i - 1)])
<1>1. Used \in 0 .. KEY_QUEUE_LEN - 1 /\ Used \in Nat
  BY UsedFacts, KeyQueueAssumption
<1>2. ASSUME NEW i \in 1 .. Used PROVE k(i) \in KeyRecords
  <2>1. i - 1 \in 0 .. Used - 1
    BY <1>1
  <2>2. key_queue[Slot(i - 1)] \in Codes
    BY <2>1, UsedFacts DEF DeviceOK
  <2>3. QED BY <2>2, KeyType DEF KeyRecords
<1>3. Pending = [i \in 1 .. Used |-> k(i)]
  BY DEF Pending
<1>4. HIDE DEF k
<1>5. /\ Pending \in Seq(KeyRecords)
      /\ Len(Pending) = Used
      /\ \A i \in 1 .. Used : Pending[i] = k(i)
  BY <1>1, <1>2, <1>3
<1>6. QED
  BY <1>1, <1>5 DEF PendingFacts, k

(* Taking the first key out of the ring takes the first pending one. *)
LEMMA ReadTakesFirst ==
  ASSUME DeviceOK, DeviceOK', proc = "up", proc' = "up", key_f # key_r,
         key_f' = IF key_f + 1 = KEY_QUEUE_LEN THEN 0 ELSE key_f + 1,
         key_r' = key_r, key_queue' = key_queue
  PROVE  /\ Pending # <<>>
         /\ Head(Pending) = am_input_keybrd(key_queue[key_f])
         /\ Pending' = Tail(Pending)
<1>u. Used \in 1 .. KEY_QUEUE_LEN - 1 /\ Slot(0) = key_f
  BY UsedFacts, KeyQueueAssumption
<1>n. key_f \in 0 .. KEY_QUEUE_LEN - 1 /\ key_r \in 0 .. KEY_QUEUE_LEN - 1
  BY DEF DeviceOK, Slots
<1>p. PendingFacts
  BY PendingSeq
<1>q. PendingFacts'
  BY PendingSeq, PTL
<1>1. Used' = Used - 1
  BY <1>n, KeyQueueAssumption DEF Used
<1>2. ASSUME NEW i \in 1 .. Used - 1 PROVE Slot(i - 1)' = Slot(i)
  <2>1. CASE key_f + 1 = KEY_QUEUE_LEN
    BY <1>n, <1>u, <2>1, KeyQueueAssumption DEF Slot
  <2>2. CASE key_f + 1 # KEY_QUEUE_LEN
    BY <1>n, <1>u, <2>2, KeyQueueAssumption DEF Slot
  <2>3. QED BY <2>1, <2>2
<1>3. Pending # <<>> /\ Head(Pending) = am_input_keybrd(key_queue[key_f])
  <2>1. Pending[1] = am_input_keybrd(key_queue[Slot(1 - 1)]) /\ 1 - 1 = 0
    BY <1>p, <1>u, KeyQueueAssumption DEF PendingFacts
  <2>2. Pending # <<>> /\ Head(Pending) = Pending[1]
    BY <1>p, <1>u, KeyQueueAssumption DEF PendingFacts
  <2>3. QED BY <1>u, <2>1, <2>2
<1>4. /\ Tail(Pending) \in Seq(KeyRecords)
      /\ Len(Tail(Pending)) = Used - 1
      /\ \A i \in 1 .. Used - 1 : Tail(Pending)[i] = Pending[i + 1]
  BY <1>p, <1>3, HeadTailProperties DEF PendingFacts
<1>5. ASSUME NEW i \in 1 .. Used - 1 PROVE Pending'[i] = Tail(Pending)[i]
  <2>1. i + 1 \in 1 .. Used /\ (i + 1) - 1 = i
    BY <1>u, KeyQueueAssumption
  <2>2. Tail(Pending)[i] = am_input_keybrd(key_queue[Slot(i)])
    BY <1>4, <1>p, <2>1 DEF PendingFacts
  <2>3. Pending'[i] = am_input_keybrd(key_queue[Slot(i - 1)'])
    BY <1>q, <1>1 DEF PendingFacts, am_input_keybrd
  <2>4. QED BY <2>2, <2>3, <1>2
<1>6. Pending' \in Seq(KeyRecords) /\ Len(Pending') = Used - 1
  BY <1>q, <1>1 DEF PendingFacts, KeyRecords
<1>7. Pending' = Tail(Pending)
  BY <1>4, <1>5, <1>6, SeqEqual
<1>8. QED
  BY <1>3, <1>7

(* Storing a code in slot key_r appends its key. *)
LEMMA SendAppends ==
  ASSUME DeviceOK, DeviceOK', proc = "up", proc' = "up", NEW code \in Codes,
         key_r' = IF key_r + 1 = KEY_QUEUE_LEN THEN 0 ELSE key_r + 1,
         key_r' # key_f, key_f' = key_f,
         key_queue' = [key_queue EXCEPT ![key_r] = code]
  PROVE  /\ Used < KEY_QUEUE_LEN - 1
         /\ Pending' = Append(Pending, am_input_keybrd(code))
<1>n. key_f \in 0 .. KEY_QUEUE_LEN - 1 /\ key_r \in 0 .. KEY_QUEUE_LEN - 1
  BY DEF DeviceOK, Slots
<1>p. PendingFacts
  BY PendingSeq
<1>q. PendingFacts'
  BY PendingSeq, PTL
<1>1. Used' = Used + 1 /\ Used < KEY_QUEUE_LEN - 1
  BY <1>n, KeyQueueAssumption DEF Used
<1>2. ASSUME NEW i \in Int PROVE Slot(i)' = Slot(i)
  BY DEF Slot
<1>3. am_input_keybrd(code) \in KeyRecords
  BY KeyType DEF KeyRecords
<1> DEFINE longer == Append(Pending, am_input_keybrd(code))
<1>4. /\ longer \in Seq(KeyRecords)
      /\ Len(longer) = Used + 1
      /\ \A i \in 1 .. Used : longer[i] = Pending[i]
      /\ longer[Used + 1] = am_input_keybrd(code)
  BY <1>3, <1>p, KeyQueueAssumption DEF PendingFacts
<1>5. ASSUME NEW i \in 1 .. Used + 1 PROVE Pending'[i] = longer[i]
  <2>0. Used \in 0 .. KEY_QUEUE_LEN - 1
    BY <1>p DEF PendingFacts
  <2>1. Pending'[i] = am_input_keybrd(key_queue'[Slot(i - 1)'])
    BY <1>q, <1>1 DEF PendingFacts, am_input_keybrd
  <2>2. CASE i = Used + 1
    <3>1. Slot(i - 1) = key_r
      BY <2>0, <2>2, UsedFacts
    <3>2. key_queue'[key_r] = code
      BY DEF DeviceOK
    <3>3. QED BY <1>2, <1>4, <2>1, <2>2, <3>1, <3>2
  <2>3. CASE i # Used + 1
    <3>1. i - 1 \in 0 .. Used - 1 /\ i \in 1 .. Used
      BY <2>0, <2>3
    <3>2. Slot(i - 1) \in Slots /\ Slot(i - 1) # key_r
      BY <3>1, UsedFacts
    <3>3. key_queue'[Slot(i - 1)] = key_queue[Slot(i - 1)]
      BY <3>2 DEF DeviceOK
    <3>4. Pending[i] = am_input_keybrd(key_queue[Slot(i - 1)])
      BY <3>1, <1>p DEF PendingFacts
    <3>5. QED BY <1>2, <1>4, <2>1, <3>1, <3>3, <3>4
  <2>4. QED BY <2>2, <2>3
<1>6. Pending' \in Seq(KeyRecords) /\ Len(Pending') = Used + 1
  BY <1>q, <1>1 DEF PendingFacts, KeyRecords
<1>7. Pending' = longer
  <2> HIDE DEF longer
  <2>1. QED BY <1>4, <1>5, <1>6, SeqEqual
<1>8. QED
  BY <1>1, <1>7

LEMMA InitAbstract == Init => KF!Init
<1> SUFFICES ASSUME Init PROVE KF!Init
  OBVIOUS
<1>1. DeviceOK
  BY InitIInv DEF IInv, TypeOK
<1>2. Used = 0 /\ proc = "up"
  BY <1>1, UsedFacts DEF Init
<1>3. Pending \in Seq(KeyRecords) /\ Len(Pending) = 0
  BY <1>1, <1>2, PendingSeq DEF PendingFacts
<1>4. Pending = <<>>
  BY <1>3
<1>5. QED
  BY <1>4 DEF Init, KF!Init

LEMMA inl_KBDReads ==
  ASSUME IInv, IInv', inl_KBD
  PROVE  KF!Read
<1>1. DeviceOK /\ DeviceOK' /\ proc = "up" /\ proc' = "up"
  BY DEF IInv, TypeOK, UpOutsidePoll, inl_KBD
<1>2. CASE key_f # key_r
  <2>1. key_f' = IF key_f + 1 = KEY_QUEUE_LEN THEN 0 ELSE key_f + 1
    BY <1>1, <1>2, NextSlot DEF inl_KBD, i8042_data_io_handler, DeviceOK
  <2>2. kbd' = am_input_keybrd(key_queue[key_f]) /\ key_r' = key_r /\ key_queue' = key_queue
    BY <1>2 DEF inl_KBD, i8042_data_io_handler
  <2>3. /\ Pending # <<>>
        /\ Head(Pending) = am_input_keybrd(key_queue[key_f])
        /\ Pending' = Tail(Pending)
    BY <1>1, <1>2, <2>1, <2>2, ReadTakesFirst
  <2>4. QED BY <1>1, <2>2, <2>3, Zenon DEF KF!Read
<1>3. CASE key_f = key_r
  <2>1. Pending = <<>>
    <3>1. Used = 0
      BY <1>1, <1>3, UsedFacts
    <3>2. Pending \in Seq(KeyRecords) /\ Len(Pending) = 0
      BY <1>1, <3>1, PendingSeq DEF PendingFacts
    <3>3. QED BY <3>2
  <2>2. kbd' = am_input_keybrd(_KEY_NONE) /\ UNCHANGED <<key_f, key_r, key_queue, proc>>
    BY <1>1, <1>3 DEF inl_KBD, i8042_data_io_handler
  <2>3. Pending' = Pending
    BY <2>2 DEF Pending, Used, Slot, am_input_keybrd
  <2>4. QED BY <1>1, <2>1, <2>2, <2>3, Zenon DEF KF!Read
<1>4. QED
  BY <1>2, <1>3

LEMMA poll_keyPresses ==
  ASSUME IInv, IInv', poll_key
  PROVE  KF!Next \/ UNCHANGED <<Pending, kbd, proc>>
<1> DEFINE scan == Head(events).scan % SCAN_MOD
           down == Head(events).down
           code == am_scancode(scan, down)
           key  == am_input_keybrd(code)
<1>1. DeviceOK /\ DeviceOK' /\ proc = "up"
  BY DEF IInv, TypeOK, poll_key
<1>2. scan \in 0 .. SCAN_MOD - 1 /\ down \in BOOLEAN
  BY EventCode
<1>3. key_f' = key_f /\ kbd' = kbd
  BY DEF poll_key
<1>4. CASE state = "RUNNING" /\ keymap[scan] # _KEY_NONE
  <2>1. code \in Codes /\ key = [keydown |-> down, keycode |-> keymap[scan]]
    BY <1>2, CodeRoundTrip
  <2>2. key \in [keydown : BOOLEAN, keycode : 1 .. KEYDOWN_MASK - 1]
    <3>1. keymap[scan] \in 1 .. KEYDOWN_MASK - 1
      BY <1>2, <1>4, KeyQueueAssumption DEF _KEY_NONE
    <3>2. QED BY <1>2, <2>1, <3>1
  <2>3. /\ key_queue' = [key_queue EXCEPT ![key_r] = code]
        /\ key_r' = (key_r + 1) % KEY_QUEUE_LEN
        /\ proc' = IF key_r' = key_f THEN "abort" ELSE proc
    BY <1>4 DEF poll_key, send_key
  <2>4. key_r' = IF key_r + 1 = KEY_QUEUE_LEN THEN 0 ELSE key_r + 1
    BY <1>1, <2>3, NextSlot DEF DeviceOK
  <2> HIDE DEF scan, down, code, key
  <2>5. CASE key_r' # key_f
    <3>1. Used < KEY_QUEUE_LEN - 1 /\ Pending' = Append(Pending, am_input_keybrd(code))
      BY <1>1, <1>3, <2>1, <2>3, <2>4, <2>5, SendAppends
    <3>2. Len(Pending) < KEY_QUEUE_LEN - 1
      BY <1>1, <3>1, PendingSeq DEF PendingFacts
    <3>3. Pending' = Append(Pending, key)
      BY <3>1 DEF key
    <3>4. KF!Press(key)
      BY <1>1, <1>3, <2>3, <2>5, <3>2, <3>3 DEF KF!Press
    <3>5. QED BY <2>2, <3>4, Zenon DEF KF!Next
  <2>6. CASE key_r' = key_f
    <3>1. Used = KEY_QUEUE_LEN - 1
      BY <1>1, <2>4, <2>6, KeyQueueAssumption DEF Used, DeviceOK, Slots
    <3>2. Len(Pending) = KEY_QUEUE_LEN - 1
      BY <1>1, <3>1, PendingSeq DEF PendingFacts
    <3>3. proc' = "abort" /\ Pending' = <<>>
      BY <2>3, <2>6 DEF Pending
    <3>4. KF!Overflow
      BY <1>1, <1>3, <3>2, <3>3 DEF KF!Overflow
    <3>5. QED BY <3>4 DEF KF!Next
  <2>7. QED BY <2>5, <2>6
<1>5. CASE ~ (state = "RUNNING" /\ keymap[scan] # _KEY_NONE)
  <2>1. UNCHANGED <<key_queue, key_r, proc>>
    BY <1>5 DEF poll_key, send_key
  <2>2. Pending' = Pending
    BY <1>3, <2>1 DEF Pending, Used, Slot, am_input_keybrd
  <2>3. QED BY <1>3, <2>1, <2>2
<1>6. QED
  BY <1>4, <1>5

LEMMA StepAbstract == IInv /\ IInv' /\ [Next]_vars => [KF!Next]_(KF!vars)
<1> SUFFICES ASSUME IInv, IInv', [Next]_vars PROVE [KF!Next]_(KF!vars)
  OBVIOUS
<1>s. ASSUME UNCHANGED <<device, proc>> PROVE UNCHANGED KF!vars
  <2>1. UNCHANGED <<key_queue, key_f, key_r, kbd, proc>>
    BY <1>s DEF device
  <2>2. Pending' = Pending
    BY <2>1 DEF Pending, Used, Slot, am_input_keybrd
  <2>3. QED BY <2>1, <2>2 DEF KF!vars
<1>1. CASE inl_KBD
  BY <1>1, inl_KBDReads DEF KF!Next
<1>2. CASE poll_key
  BY <1>2, poll_keyPresses DEF KF!vars
<1>3. CASE \/ sdl_clear_event_queue \/ command \/ count_used_up \/ check
           \/ \E s \in {"RUNNING", "STOP", "END"} : instr(s)
           \/ poll_quit \/ poll_done
           \/ \E ev \in KeyEvents \cup {QuitEvent} : window(ev)
           \/ UNCHANGED vars
  <2>1. UNCHANGED <<device, proc>>
    BY <1>3, Zenon DEF sdl_clear_event_queue, command, count_used_up, check, instr,
       poll_quit, poll_done, window, vars
  <2>2. QED BY <2>1, <1>s
<1>4. QED
  BY <1>1, <1>2, <1>3 DEF Next

(* The ring of keyboard.c is a queue of KEY_QUEUE_LEN - 1 keys.            *)
THEOREM RingImplementsFifo == Spec => KeyFifoSpec
<1>1. QED
  BY InitAbstract, StepAbstract, KeyQueueInvariant, PTL DEF Spec, KeyFifoSpec, KF!Spec
=============================================================================

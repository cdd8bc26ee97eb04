------------------------------ MODULE KeyQueue ------------------------------
(***************************************************************************)
(* The keyboard: nemu/src/device/keyboard.c, the event loop of device.c    *)
(* that feeds it, ui_mainloop's sdl_clear_event_queue, and the guest's     *)
(* read in abstract-machine/am/src/nemu/ioe/input.c, the only access to    *)
(* the port: it reads, at offset 0, so the handler's assertions hold.  What *)
(* a running guest does otherwise is instr; the debugger around it is in   *)
(* CpuExec.                                                                *)
(***************************************************************************)
EXTENDS Integers, Sequences

CONSTANTS
  KEY_QUEUE_LEN,
  KEYDOWN_MASK,  \* the bit of a code that says "pressed"
  SCAN_MOD,      \* 256: send_key takes the scancode in a uint8_t
  ScanCodes,     \* SDL's scancodes, beyond SCAN_MOD too
  keymap,        \* scancode of a uint8_t -> AM key, or _KEY_NONE
  MaxEvents      \* bound: events waiting in the window's queue

_KEY_NONE == 0

ASSUME KeyQueueAssumption ==
  /\ KEY_QUEUE_LEN \in Nat \ {0} /\ MaxEvents \in Nat
  /\ SCAN_MOD \in Nat \ {0} /\ KEYDOWN_MASK \in Nat \ {0}
  /\ ScanCodes \subseteq Nat
  /\ keymap \in [0 .. SCAN_MOD - 1 -> 0 .. KEYDOWN_MASK - 1]

VARIABLES
  key_queue, key_f, key_r,
  kbd,      \* what the guest's last read returned
  events,   \* SDL's event queue
  state,    \* nemu_state.state, see CpuExec
  pc,       \* "prompt", "start" (queue emptied), "guest", "poll" or "check"
  proc,     \* "up" or "abort"
  leaked    \* ghost: a key typed at the prompt reached the queue

device == <<key_queue, key_f, key_r, kbd>>
vars   == <<device, events, state, pc, proc, leaked>>

Slots == 0 .. KEY_QUEUE_LEN - 1
Codes == 0 .. 2 * KEYDOWN_MASK - 1

(* typed: ghost, the event came while the prompt waited for a command *)
KeyEvents == [type : {"key"}, scan : ScanCodes, down : BOOLEAN, typed : BOOLEAN]
QuitEvent == [type |-> "quit", typed |-> FALSE]

(* am_scancode in send_key, and __am_input_keybrd, which takes it apart *)
am_scancode(scan, down) == keymap[scan] + IF down THEN KEYDOWN_MASK ELSE 0
am_input_keybrd(code) ==
  IF code >= KEYDOWN_MASK
  THEN [keydown |-> TRUE, keycode |-> code - KEYDOWN_MASK]
  ELSE [keydown |-> FALSE, keycode |-> code]

Init ==
  /\ key_queue = [i \in Slots |-> _KEY_NONE] /\ key_f = 0 /\ key_r = 0
  /\ kbd = am_input_keybrd(_KEY_NONE)
  /\ events = <<>> /\ state = "STOP" /\ pc = "prompt" /\ proc = "up"
  /\ leaked = FALSE

---------------------------------------------------------------------------
(* The debugger: a command empties the event queue first, whatever it does *)
(* next.  c or si resumes a guest that has not ended.                      *)

(* Mutated: the queue of the window is not emptied. *)
sdl_clear_event_queueSkipped ==
  /\ pc = "prompt" /\ proc = "up"
  /\ pc' = "start"
  /\ UNCHANGED <<device, events, state, proc, leaked>>

sdl_clear_event_queue ==
  /\ pc = "prompt" /\ proc = "up"
  /\ events' = <<>>
  /\ pc' = "start"
  /\ UNCHANGED <<device, state, proc, leaked>>

command ==
  /\ pc = "start"
  /\ \/ state # "END" /\ state' = "RUNNING" /\ pc' = "guest"
     \/ state' = state /\ pc' = "prompt"
  /\ UNCHANGED <<device, events, proc, leaked>>

(* The count of instructions is used up: no device_update after the last. *)
count_used_up ==
  /\ pc = "guest"
  /\ state' = "STOP" /\ pc' = "prompt"
  /\ UNCHANGED <<device, events, proc, leaked>>

check ==
  /\ pc = "check"
  /\ pc' = IF state = "RUNNING" THEN "guest" ELSE "prompt"
  /\ UNCHANGED <<device, events, state, proc, leaked>>

---------------------------------------------------------------------------
(* An instruction; device_update after it polls if the alarm has rung.     *)

instr(s) ==
  /\ pc = "guest"
  /\ state' = s
  /\ pc' \in {"poll", "check"}
  /\ UNCHANGED <<device, events, proc, leaked>>

(* Mutated: the queue looks empty when its first key is in the last slot. *)
i8042_data_io_handlerWrap ==
  IF key_f # key_r /\ key_f + 1 < KEY_QUEUE_LEN
  THEN /\ kbd' = am_input_keybrd(key_queue[key_f])
       /\ key_f' = key_f + 1
  ELSE /\ kbd' = am_input_keybrd(_KEY_NONE)
       /\ key_f' = 0

i8042_data_io_handler ==
  IF key_f # key_r
  THEN /\ kbd' = am_input_keybrd(key_queue[key_f])
       /\ key_f' = (key_f + 1) % KEY_QUEUE_LEN
  ELSE /\ kbd' = am_input_keybrd(_KEY_NONE)
       /\ UNCHANGED key_f

(* a load from the keyboard's port, in __am_input_keybrd *)
inl_KBD ==
  /\ pc = "guest"
  /\ i8042_data_io_handler
  /\ pc' \in {"poll", "check"}
  /\ UNCHANGED <<key_queue, key_r, events, state, proc, leaked>>

(* A full ring is noticed after the key has been stored: it holds one key  *)
(* less than it has slots.                                                 *)
send_key(scan, down) ==
  IF state = "RUNNING" /\ keymap[scan] # _KEY_NONE
  THEN /\ key_queue' = [key_queue EXCEPT ![key_r] = am_scancode(scan, down)]
       /\ key_r' = (key_r + 1) % KEY_QUEUE_LEN
       /\ proc' = IF key_r' = key_f THEN "abort" ELSE proc
  ELSE UNCHANGED <<key_queue, key_r, proc>>

poll_key ==
  /\ pc = "poll" /\ proc = "up" /\ events # <<>> /\ Head(events).type = "key"
  /\ send_key(Head(events).scan % SCAN_MOD, Head(events).down)
  /\ leaked' = (leaked \/ (Head(events).typed /\ key_r' # key_r))
  /\ events' = Tail(events)
  /\ UNCHANGED <<key_f, kbd, state, pc>>

poll_quit ==
  /\ pc = "poll" /\ proc = "up" /\ events # <<>> /\ Head(events).type = "quit"
  /\ state' = "QUIT"
  /\ events' = Tail(events)
  /\ UNCHANGED <<device, pc, proc, leaked>>

poll_done ==
  /\ pc = "poll" /\ proc = "up" /\ events = <<>>
  /\ pc' = "check"
  /\ UNCHANGED <<device, events, state, proc, leaked>>

(* The window, at any time. *)
window(ev) ==
  /\ proc = "up" /\ Len(events) < MaxEvents
  /\ ev.typed = (ev.type = "key" /\ pc = "prompt")
  /\ events' = Append(events, ev)
  /\ UNCHANGED <<device, state, pc, proc, leaked>>

Next ==
  \/ sdl_clear_event_queue
  \/ command
  \/ count_used_up
  \/ check
  \/ \E s \in {"RUNNING", "STOP", "END"} : instr(s)
  \/ inl_KBD
  \/ poll_key
  \/ poll_quit
  \/ poll_done
  \/ \E ev \in KeyEvents \cup {QuitEvent} : window(ev)

Spec == Init /\ [][Next]_vars

---------------------------------------------------------------------------
DeviceOK ==
  /\ key_queue \in [Slots -> Codes] /\ key_f \in Slots /\ key_r \in Slots
  /\ kbd \in [keydown : BOOLEAN, keycode : 0 .. KEYDOWN_MASK - 1]

EventsOK == events \in Seq(KeyEvents \cup {QuitEvent}) /\ Len(events) <= MaxEvents

TypeOK ==
  /\ DeviceOK
  /\ EventsOK
  /\ state \in {"STOP", "RUNNING", "QUIT", "END"}
  /\ pc \in {"prompt", "start", "guest", "poll", "check"}
  /\ proc \in {"up", "abort"}
  /\ leaked \in BOOLEAN

(* A key typed in the window while the debugger waits for a command never  *)
(* reaches the guest, though the window's queue outlives the prompt.       *)
PromptKeysDropped == ~ leaked

(* The unread keys: the slots from key_f up to key_r, around the end.      *)
Used == IF key_f <= key_r THEN key_r - key_f ELSE key_r - key_f + KEY_QUEUE_LEN
Slot(i) == IF key_f + i < KEY_QUEUE_LEN THEN key_f + i ELSE key_f + i - KEY_QUEUE_LEN
Pending ==
  IF proc = "up"
  THEN [i \in 1 .. Used |-> am_input_keybrd(key_queue[Slot(i - 1)])]
  ELSE <<>>

KF == INSTANCE KeyFifo WITH
        Capacity <- KEY_QUEUE_LEN - 1,
        Keys     <- [keydown : BOOLEAN, keycode : 1 .. KEYDOWN_MASK - 1],
        NoKey    <- am_input_keybrd(_KEY_NONE),
        pending  <- Pending

(* The ring is a queue of KEY_QUEUE_LEN - 1 keys: no key lost, repeated,   *)
(* reordered or made up, nothing read from an empty ring, and the          *)
(* assertion fires exactly when a key comes with that many unread.         *)
KeyFifoSpec == KF!Spec

(* Inductive: an event typed at the prompt is still in the window's queue  *)
(* only while the prompt waits, ...                                        *)
TypedWaits ==
  pc # "prompt" => \A i \in 1 .. Len(events) : ~ events[i].typed

(* ... and the assertion fires while polling.                              *)
UpOutsidePoll == pc # "poll" => proc = "up"

IInv == TypeOK /\ TypedWaits /\ UpOutsidePoll /\ PromptKeysDropped
=============================================================================

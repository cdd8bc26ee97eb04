------------------------------ MODULE KeyFifo ------------------------------
(***************************************************************************)
(* What the keyboard promises the guest: the keys the window delivered     *)
(* while the guest ran, each once, in order, none invented, and "no key"   *)
(* only when there is none; with Capacity keys unread one more ends the    *)
(* emulator.  KeyQueue, the ring of keyboard.c, implements it.             *)
(***************************************************************************)
EXTENDS Naturals, Sequences

CONSTANTS
  Capacity,  \* keys that can wait
  Keys,      \* [keydown, keycode] of a press or a release
  NoKey      \* what the guest gets when none waits

VARIABLES pending, kbd, proc

vars == <<pending, kbd, proc>>

Init == pending = <<>> /\ kbd = NoKey /\ proc = "up"

Press(k) ==
  /\ proc = "up"
  /\ Len(pending) < Capacity
  /\ pending' = Append(pending, k)
  /\ UNCHANGED <<kbd, proc>>

Overflow ==
  /\ proc = "up"
  /\ Len(pending) = Capacity
  /\ proc' = "abort"
  /\ pending' = <<>>
  /\ UNCHANGED kbd

Read ==
  /\ proc = "up"
  /\ kbd' = IF pending = <<>> THEN NoKey ELSE Head(pending)
  /\ pending' = IF pending = <<>> THEN <<>> ELSE Tail(pending)
  /\ UNCHANGED proc

Next ==
  \/ \E k \in Keys : Press(k)
  \/ Overflow
  \/ Read

Spec == Init /\ [][Next]_vars
=============================================================================

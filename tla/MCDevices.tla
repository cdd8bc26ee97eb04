----------------------------- MODULE MCDevices -----------------------------
(***************************************************************************)
(* Two parts of the devices that share no state: the keyboard, and the IO  *)
(* maps with the clock.  Each moves only while the other has not yet, so   *)
(* that TLC takes all the steps of either without their products.          *)
(***************************************************************************)
EXTENDS KeyQueue, Bus, TLC

(* Four scancodes fit: the second is no key the AM knows, the last two are *)
(* keys 1 and 2.  Scancode 6 is taken for 2.                               *)
MCkeymap == [s \in 0 .. 3 |-> CASE s = 2 -> 1 [] s = 3 -> 2 [] OTHER -> 0]

DInit == Init /\ BusInit

(* The keyboard does not depend on the screen: one size will do.           *)
keyboard == BusInit /\ (\A s \in SCREENS : screen <= s) /\ Next /\ UNCHANGED busvars
maps_and_clock == Init /\ BusNext /\ UNCHANGED vars

DNext == keyboard \/ maps_and_clock

DSpec == DInit /\ [][DNext]_<<vars, busvars>>
=============================================================================

------------------------------- MODULE Audio -------------------------------
(***************************************************************************)
(* The sound stream: the guest's audio_write                               *)
(* (abstract-machine/am/src/nemu/ioe/audio.c) fills the ring sbuf through  *)
(* the audio-sbuf map, SDL's audio thread empties it in audio_play         *)
(* (nemu/src/device/audio.c).  They share count, a volatile int that each  *)
(* changes by a load and a store of its own: no lock, no SDL_LockAudio.    *)
(* A byte is its number in the stream; 0 is what sbuf starts with.         *)
(***************************************************************************)
EXTENDS Integers

CONSTANTS
  SBUF,     \* STREAM_BUF_MAX_SIZE
  LEN,      \* bytes SDL asks for in one callback
  MaxBytes  \* bound: bytes the guest ever plays

ASSUME AudioAssumption ==
  SBUF \in Nat \ {0} /\ LEN \in Nat \ {0} /\ MaxBytes \in Nat

VARIABLES
  sbuf, count, qhead,  \* the device
  qtail,               \* the guest's end of the ring
  gpc, left, n, greg,  \* the guest in audio_write
  next,                \* the byte it writes next
  opened,              \* SDL_OpenAudio has been called
  tpc, nread, i, treg, \* the audio thread in audio_play
  proc,                \* "up" or "abort"
  \* ghosts
  heard,               \* the last byte copied to the stream
  glitch,              \* a copied byte did not follow the one before it
  torn                 \* a store to count overwrote one by the other side

guest  == <<qtail, gpc, left, n, greg, next>>
thread == <<qhead, tpc, nread, i, treg>>
ghosts == <<heard, glitch, torn>>
vars   == <<sbuf, count, opened, proc, guest, thread, ghosts>>

Least(a, b) == IF a < b THEN a ELSE b

Init ==
  /\ sbuf = [s \in 0 .. SBUF - 1 |-> 0] /\ count = 0 /\ qhead = 0
  /\ qtail = 0 /\ gpc = "idle" /\ left = 0 /\ n = 0 /\ greg = 0 /\ next = 1
  /\ opened = FALSE
  /\ tpc = "idle" /\ nread = 0 /\ i = 0 /\ treg = 0
  /\ proc = "up"
  /\ heard = 0 /\ glitch = FALSE /\ torn = FALSE

---------------------------------------------------------------------------
(* The guest.                                                              *)

(* __am_audio_ctrl: SDL refuses to open a device that is open. *)
audio_ctrl ==
  /\ gpc = "idle" /\ proc = "up"
  /\ opened' = TRUE
  /\ proc' = IF opened THEN "abort" ELSE "up"
  /\ UNCHANGED <<sbuf, count, guest, thread, ghosts>>

(* __am_audio_play of some bytes *)
audio_write(len) ==
  /\ gpc = "idle" /\ proc = "up"
  /\ next + len <= MaxBytes + 1
  /\ left' = len
  /\ gpc' = IF len = 0 THEN "idle" ELSE "query"
  /\ UNCHANGED <<sbuf, count, opened, proc, thread, ghosts, qtail, n, greg, next>>

(* Mutated: the rest of the ring is taken to be one byte larger. *)
audio_write_queryOneMore ==
  /\ gpc = "query" /\ proc = "up"
  /\ n' = Least(left, SBUF + 1 - count)
  /\ gpc' = IF n' > 0 THEN "store" ELSE "query"
  /\ UNCHANGED <<sbuf, count, opened, proc, thread, ghosts, qtail, left, greg, next>>

(* Mutated: the bytes that do not fit are not waited for. *)
audio_write_queryGivesUp ==
  /\ gpc = "query" /\ proc = "up"
  /\ n' = Least(left, SBUF - count)
  /\ gpc' = IF n' > 0 THEN "store" ELSE "full"
  /\ UNCHANGED <<sbuf, count, opened, proc, thread, ghosts, qtail, left, greg, next>>

(* one turn of its while: how much fits now; nothing, and it asks again *)
audio_write_query ==
  /\ gpc = "query" /\ proc = "up"
  /\ n' = Least(left, SBUF - count)
  /\ gpc' = IF n' > 0 THEN "store" ELSE "query"
  /\ UNCHANGED <<sbuf, count, opened, proc, thread, ghosts, qtail, left, greg, next>>

(* outb: map_write stores the byte ... *)
outb_store ==
  /\ gpc = "store" /\ proc = "up"
  /\ sbuf' = [sbuf EXCEPT ![qtail] = next]
  /\ gpc' = "load"
  /\ UNCHANGED <<count, opened, proc, thread, ghosts, qtail, left, n, greg, next>>

(* ... and then calls audio_sbuf_handler: count += 1 *)
sbuf_handler_load ==
  /\ gpc = "load" /\ proc = "up"
  /\ greg' = count
  /\ gpc' = "add"
  /\ UNCHANGED <<sbuf, count, opened, proc, thread, ghosts, qtail, left, n, next>>

sbuf_handler_add ==
  /\ gpc = "add" /\ proc = "up"
  /\ count' = greg + 1
  /\ torn' = (torn \/ count # greg)
  /\ qtail' = (qtail + 1) % SBUF
  /\ next' = next + 1
  /\ n' = n - 1 /\ left' = left - 1
  /\ gpc' = IF n' > 0 THEN "store" ELSE IF left' > 0 THEN "query" ELSE "idle"
  /\ UNCHANGED <<sbuf, opened, proc, thread, greg, heard, glitch>>

---------------------------------------------------------------------------
(* The audio thread: audio_play, called again and again once open.         *)

(* Mutated: as many bytes as SDL asks for are taken, whatever there is. *)
audio_play_testAll ==
  /\ tpc = "idle" /\ opened /\ proc = "up"
  /\ nread' = LEN
  /\ tpc' = "copy"
  /\ i' = 0
  /\ UNCHANGED <<sbuf, count, opened, proc, guest, qhead, treg, ghosts>>

(* count < len ? count : len reads count, and if it is short reads it again *)
audio_play_test ==
  /\ tpc = "idle" /\ opened /\ proc = "up"
  /\ IF count < LEN THEN tpc' = "again" /\ UNCHANGED nread
                    ELSE tpc' = "copy" /\ nread' = LEN
  /\ i' = 0
  /\ UNCHANGED <<sbuf, count, opened, proc, guest, qhead, treg, ghosts>>

(* By now it may be more than SDL asked for, and the copy runs past the    *)
(* stream: the process goes on or dies.                                    *)
audio_play_again ==
  /\ tpc = "again" /\ proc = "up"
  /\ nread' = count
  /\ tpc' = "copy"
  /\ proc' \in IF count > LEN THEN {"up", "abort"} ELSE {"up"}
  /\ UNCHANGED <<sbuf, count, opened, guest, qhead, i, treg, ghosts>>

audio_play_copy ==
  /\ tpc = "copy" /\ i < nread /\ proc = "up"
  /\ heard' = sbuf[qhead]
  /\ glitch' = (glitch \/ sbuf[qhead] # heard + 1)
  /\ qhead' = (qhead + 1) % SBUF
  /\ i' = i + 1
  /\ UNCHANGED <<sbuf, count, opened, proc, guest, tpc, nread, treg, torn>>

(* count -= nread *)
audio_play_load ==
  /\ tpc = "copy" /\ i = nread /\ proc = "up"
  /\ treg' = count
  /\ tpc' = "sub"
  /\ UNCHANGED <<sbuf, count, opened, proc, guest, qhead, nread, i, ghosts>>

(* The rest of the stream is filled with silence. *)
audio_play_sub ==
  /\ tpc = "sub" /\ proc = "up"
  /\ count' = treg - nread
  /\ torn' = (torn \/ count # treg)
  /\ tpc' = "idle"
  /\ nread' = 0 /\ i' = 0
  /\ UNCHANGED <<sbuf, opened, proc, guest, qhead, treg, heard, glitch>>

Guest ==
  \/ audio_write_query
  \/ outb_store
  \/ sbuf_handler_load
  \/ sbuf_handler_add

Thread ==
  \/ audio_play_test
  \/ audio_play_again
  \/ audio_play_copy
  \/ audio_play_load
  \/ audio_play_sub

Next ==
  \/ audio_ctrl
  \/ \E len \in 0 .. MaxBytes : audio_write(len)
  \/ Guest
  \/ Thread

Spec == Init /\ [][Next]_vars

(* The guest runs on; SDL's thread calls back as long as the device is open. *)
FairSpec == Spec /\ WF_vars(Guest) /\ WF_vars(Thread)

---------------------------------------------------------------------------
TypeOK ==
  /\ sbuf \in [0 .. SBUF - 1 -> 0 .. MaxBytes]
  /\ count \in Int /\ greg \in Int /\ treg \in Int
  /\ qhead \in 0 .. SBUF - 1 /\ qtail \in 0 .. SBUF - 1
  /\ gpc \in {"idle", "query", "store", "load", "add"}
  /\ tpc \in {"idle", "again", "copy", "sub"}
  /\ left \in 0 .. MaxBytes /\ n \in Int /\ next \in 1 .. MaxBytes + 1
  /\ nread \in Int /\ i \in Nat
  /\ opened \in BOOLEAN /\ glitch \in BOOLEAN /\ torn \in BOOLEAN
  /\ proc \in {"up", "abort"} /\ heard \in Nat

(* Whatever the two sides do to each other's updates, count stays between  *)
(* 0 and the size of the ring: audio_write never computes a negative room, *)
(* and never hangs on a count that cannot come down.                       *)
CountInRange == count \in 0 .. SBUF

(* As long as no update of count has been lost, what is copied into the    *)
(* streams is the guest's bytes, each once and in order.                   *)
InOrder == ~ torn => ~ glitch

(* Once the device is open a call of audio_write returns, however full the *)
(* ring was.                                                               *)
WriteReturns == (opened /\ gpc # "idle") ~> (gpc = "idle" \/ proc = "abort")

(* Inductive.  The guest's room is still there when it writes: the thread  *)
(* only ever lowers count, and what the guest loaded is no less than it.   *)
Room ==
  /\ gpc # "idle" => next + left <= MaxBytes + 1
  /\ gpc \in {"store", "load", "add"} => n >= 1 /\ n <= left /\ count + n <= SBUF
  /\ gpc = "add" => count <= greg /\ greg + n <= SBUF

(* The bytes the thread takes are still counted when it takes them off.    *)
Taken ==
  /\ tpc \in {"idle", "again"} => i = 0
  /\ tpc = "copy" => i <= nread /\ nread <= count
  /\ tpc = "sub" => i = nread /\ nread <= treg /\ treg <= count

(* The bytes stored and counted but not copied yet lie in order from qhead *)
(* on; the guest's next one goes after them.                               *)
Backlog == next - 1 - heard
At(j)   == IF qhead + j < SBUF THEN qhead + j ELSE qhead + j - SBUF

Stream ==
  /\ ~ glitch
  /\ Backlog \in 0 .. SBUF /\ count = Backlog + i
  /\ \A j \in 0 .. Backlog - 1 : sbuf[At(j)] = heard + 1 + j
  /\ qtail = At(Backlog)
  /\ gpc \in {"load", "add"} => sbuf[qtail] = next

IInv == TypeOK /\ CountInRange /\ Room /\ Taken /\ (~ torn => Stream)
=============================================================================

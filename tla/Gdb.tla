-------------------------------- MODULE Gdb --------------------------------
(***************************************************************************)
(* The client of the GDB remote protocol through which NEMU drives QEMU:   *)
(* tools/qemu-diff/src/protocol.c and gdb-host.c.  A stream is a sequence  *)
(* of bytes; the server at the other end, QEMU's stub, is external.        *)
(***************************************************************************)
EXTENDS Integers, Sequences

CONSTANTS
  mtu,       \* bytes written to QEMU's memory at once: 1500 in the code
  REG_BYTES  \* bytes of a register: 4

DOLLAR == 36  HASH == 35  ESC == 125  STAR == 42  PLUS == 43  MINUS == 45

---------------------------------------------------------------------------
(* Hexadecimal: a nibble is one character.                                 *)
isdigit(c)  == c \in 48 .. 57
isxdigit(c) == isdigit(c) \/ c \in 65 .. 70 \/ c \in 97 .. 102
tolower(c)  == IF c \in 65 .. 90 THEN c + 32 ELSE c
UINT16_MAX  == 65535

hex_nibble(c) == IF isdigit(c) THEN c - 48 ELSE (tolower(c) - 97) + 10
hex_encode(d) == IF d > 9 THEN 97 + (d - 10) ELSE 48 + d
gdb_decode_hex(msb, lsb) ==
  IF ~ isxdigit(msb) \/ ~ isxdigit(lsb) THEN UINT16_MAX ELSE 16 * hex_nibble(msb) + hex_nibble(lsb)

RECURSIVE gdb_decode_hex_str(_)
gdb_decode_hex_str(bytes) ==
  IF Len(bytes) >= 2 /\ isxdigit(bytes[1]) /\ isxdigit(bytes[2])
  THEN gdb_decode_hex(bytes[1], bytes[2]) + 256 * gdb_decode_hex_str(SubSeq(bytes, 3, Len(bytes)))
  ELSE 0

RECURSIVE hex(_)
hex(src) == IF src = <<>> THEN <<>> ELSE <<hex_encode(Head(src) \div 16), hex_encode(Head(src) % 16)>> \o hex(Tail(src))

---------------------------------------------------------------------------
(* Packets.                                                                *)
RECURSIVE checksum(_)
checksum(s) == IF s = <<>> THEN 0 ELSE (Head(s) + checksum(Tail(s))) % 256

upper(d) == IF d > 9 THEN 65 + (d - 10) ELSE 48 + d  \* of "%02X"
send_packet(command) ==
  <<DOLLAR>> \o command \o <<HASH, upper(checksum(command) \div 16), upper(checksum(command) % 16)>>

(* fgetc: the end of the stream is -1, as a uint8_t 255. *)
fgetc(in, p) == IF p \in DOMAIN in THEN in[p] ELSE -1
uint8(c)     == c % 256

xor20(c) == IF (c \div 32) % 2 = 1 THEN c - 32 ELSE c + 32
is_count(c) == ~ (c < 29 \/ c > 126 \/ c = DOLLAR \/ c = HASH)

(* Mutated: the count is that of all the characters. *)
repeatsAll(c) == c - 30

repeats(c) == c - 29

(* the client exits *)
EndOfStream == [reply |-> <<>>, ok |-> TRUE, next |-> 0]

(* recv_packet's loop, from the p-th byte on *)
RECURSIVE unpack(_, _, _, _, _)
unpack(in, p, reply, sum, escape) ==
  LET c == fgetc(in, p)  c2 == fgetc(in, p + 1)  s == (sum + c) % 256
  IN  CASE c = -1     -> EndOfStream
        [] c = DOLLAR -> unpack(in, p + 1, <<>>, 0, FALSE)
        [] c = HASH   -> [reply |-> reply, next |-> p + 3,
                          ok |-> sum = gdb_decode_hex(uint8(c2), uint8(fgetc(in, p + 2)))]
        [] c = ESC    -> unpack(in, p + 1, reply, s, TRUE)
        [] c = STAR /\ reply # <<>> /\ is_count(c2) ->
             unpack(in, p + 2, reply \o [i \in 1 .. repeats(c2) |-> reply[Len(reply)]], (s + c2) % 256, escape)
        [] OTHER      -> unpack(in, p + 1, Append(reply, IF escape THEN xor20(c) ELSE c), s, FALSE)

RECURSIVE recv_packet(_, _)
recv_packet(in, p) ==
  CASE fgetc(in, p) = -1     -> EndOfStream
    [] fgetc(in, p) = DOLLAR -> unpack(in, p + 1, <<>>, 0, FALSE)
    [] OTHER                 -> recv_packet(in, p + 1)

(* What the client writes, up to the reply it returns; acks are never      *)
(* turned off, nothing calls gdb_start_noack.                              *)
RECURSIVE gdb_recv(_, _)
gdb_recv(in, p) ==
  LET packet == recv_packet(in, p)
  IN  IF packet = EndOfStream THEN [out |-> <<>>, reply |-> <<>>, next |-> 0]
      ELSE IF packet.ok THEN [out |-> <<PLUS>>, reply |-> packet.reply, next |-> packet.next]
      ELSE LET again == gdb_recv(in, packet.next)
           IN  [again EXCEPT !.out = <<MINUS>> \o @]

(* Where the stream has ended the command is sent until a write fails, and *)
(* the client exits: once here.                                            *)
RECURSIVE gdb_send(_, _, _)
gdb_send(in, p, command) ==
  CASE fgetc(in, p) = PLUS -> [out |-> send_packet(command), next |-> p + 1]
    [] fgetc(in, p) = -1   -> [out |-> send_packet(command), next |-> 0]
    [] OTHER               -> LET again == gdb_send(in, p + 1, command)
                              IN  [again EXCEPT !.out = send_packet(command) \o @]

(* every request of gdb-host.c: gdb_send, then gdb_recv *)
request(in, command) ==
  LET sent == gdb_send(in, 1, command)
      got  == gdb_recv(in, sent.next)
  IN  [got EXCEPT !.out = sent.out \o @]

---------------------------------------------------------------------------
(* gdb-host.c: the memory written, as commands and the replies to them, and *)
(* the registers.                                                          *)
OK == <<79, 75>>

gdb_memcpy_to_qemu_small(dest, src, reply) ==
  [sent |-> <<[dest |-> dest, len |-> Len(src), bytes |-> hex(src)]>>, ok |-> reply = OK]

RECURSIVE gdb_memcpy_to_qemu(_, _, _)
gdb_memcpy_to_qemu(dest, src, replies) ==
  IF Len(src) > mtu
  THEN LET first == gdb_memcpy_to_qemu_small(dest, SubSeq(src, 1, mtu), Head(replies))
           rest  == gdb_memcpy_to_qemu(dest + mtu, SubSeq(src, mtu + 1, Len(src)), Tail(replies))
       IN  [sent |-> first.sent \o rest.sent, ok |-> first.ok /\ rest.ok]
  ELSE gdb_memcpy_to_qemu_small(dest, src, Head(replies))

gdb_setregs(bytes) == <<71>> \o hex(bytes)  \* 'G'
gdb_getregs(reply) ==
  [i \in 1 .. Len(reply) \div (2 * REG_BYTES) |->
     gdb_decode_hex_str(SubSeq(reply, (i - 1) * 2 * REG_BYTES + 1, i * 2 * REG_BYTES))]

---------------------------------------------------------------------------
(* What a server sends, by the protocol's manual: characters as they are,  *)
(* escaped ones, and runs of n more of one.                                *)
Literal(c) == [text |-> <<c>>, means |-> <<c>>]
Escaped(c) == [text |-> <<ESC, xor20(c)>>, means |-> <<c>>]
Run(c, n)  == [text |-> <<c, STAR, n + 29>>, means |-> [i \in 1 .. n + 1 |-> c]]

RECURSIVE Join(_, _)
Join(tokens, field) == IF tokens = <<>> THEN <<>> ELSE Head(tokens)[field] \o Join(Tail(tokens), field)

(* A copy of a packet with one byte of its text or checksum damaged. *)
Damaged(packet, k) == [packet EXCEPT ![k] = IF @ = 120 THEN 121 ELSE 120]
Damageable(packet) == (2 .. Len(packet) - 3) \cup {Len(packet) - 1, Len(packet)}

Copies(n, s) == [i \in 1 .. n * Len(s) |-> s[((i - 1) % Len(s)) + 1]]

(* A command the server refuses nacks times and a reply that arrives       *)
(* damaged bad times: the command is sent again until it is taken, the     *)
(* reply asked for again until it is whole, and decoded as it was meant.   *)
RequestAgrees(command, tokens, nacks, bad, k) ==
  LET packet == send_packet(Join(tokens, "text"))
      answer == request(Copies(nacks, <<MINUS>>) \o <<PLUS>> \o Copies(bad, Damaged(packet, k)) \o packet, command)
  IN  /\ answer.reply = Join(tokens, "means")
      /\ answer.out = Copies(nacks + 1, send_packet(command)) \o Copies(bad, <<MINUS>>) \o <<PLUS>>
      /\ recv_packet(send_packet(command), 1) = [reply |-> command, ok |-> TRUE, next |-> Len(command) + 5]

(* What is written to QEMU's memory is src from dest on, in chunks that    *)
(* fit and say how long they are, and is called done unless one of them,   *)
(* the refused-th, was refused; registers set and read back are the words  *)
(* they were, low byte first.                                              *)
TransferAgrees(dest, src, refused) ==
  LET replies == [i \in 1 .. Len(src) + 1 |-> IF i = refused THEN <<69, 48, 49>> ELSE OK]
      copy == gdb_memcpy_to_qemu(dest, src, replies)
      sent == copy.sent
      At(i, j) == (sent[i].dest - dest) + j
      Word(i) == LET from == (i - 1) * REG_BYTES + 1 IN SubSeq(src, from, from + REG_BYTES - 1)
      regs == gdb_getregs(Tail(gdb_setregs(src)))
  IN  /\ copy.ok <=> refused \notin DOMAIN sent
      /\ \A i \in DOMAIN sent : sent[i].len <= mtu /\ Len(sent[i].bytes) = 2 * sent[i].len
      /\ \A n \in DOMAIN src :
           \E i \in DOMAIN sent : \E j \in 1 .. sent[i].len :
             At(i, j) = n /\ gdb_decode_hex(sent[i].bytes[2 * j - 1], sent[i].bytes[2 * j]) = src[n]
      /\ Len(Join(sent, "bytes")) = 2 * Len(src)
      /\ \A i \in DOMAIN regs, b \in 1 .. REG_BYTES : (regs[i] \div 256 ^ (b - 1)) % 256 = Word(i)[b]
=============================================================================

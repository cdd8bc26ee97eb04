---------------------------- MODULE MCFunctions ----------------------------
(***************************************************************************)
(* The sequential algorithms, each on all inputs of a bounded size: from   *)
(* the empty state TLC goes on typing an expression (Expr), or typing a    *)
(* format, to one pair of words, or running one function of strings.       *)
(***************************************************************************)
EXTENDS Expr, Int64, KlibString, Klib, Gdb, TLC

CONSTANTS
  Formats,     \* characters of formats
  FormatLength,
  Chars, StringLength, \* characters and length of strings
  Data, MaxBytes,      \* bytes of memory and how many are sent to QEMU
  MaxTokens, MaxTries  \* pieces of a reply; refusals and damaged copies

VARIABLE input  \* of a conversion of klib, or of the client of QEMU

MCAlphabets == {
  {"2", "5", "+", "-", "*", "(", ")"},
  {"2", "0", "/", "*", "==", "&&", " "},
  {"2", "$zz", "!=", "/", "("} }

MCMem     == (4 :> 5) @@ (5 :> 2)
MCOperand == ("2" :> 2) @@ ("0" :> 0) @@ ("5" :> 5) @@ ("$zz" :> ERR)

None    == [f |-> "none"]

Args == << [d |-> -12, s |-> <<"a", "b">>], [d |-> 307, s |-> <<>>], [d |-> 0, s |-> <<"%">>] >>

(* what a reply of QEMU may consist of: "a", " ", "#", "}", "0000", nine zeros *)
Tokens   == {Literal(97), Literal(32), Escaped(HASH), Escaped(ESC), Run(48, 3), Run(48, 8)}
Commands == {<<103>>, <<118, 67, 59>>}
SeqsUpTo(S, n) == UNION {[1 .. k -> S] : k \in 0 .. n}

(* One string at 0 and one behind it with room for both, and junk.         *)
DST == StringLength + 1
Memory(s, d) ==
  [p \in 0 .. 3 * StringLength + 2 |->
     IF p < DST THEN (IF p < Len(s) THEN s[p + 1] ELSE IF p = Len(s) THEN NUL ELSE 9)
     ELSE (IF p - DST < Len(d) THEN d[(p - DST) + 1] ELSE IF p - DST = Len(d) THEN NUL ELSE 9)]
MCMemories == {Memory(s, d) : s, d \in SeqsUpTo(Chars, StringLength)}

(* From one to the other, and comparisons with the tail of one. *)
MCCalls ==
  [f : Functions, dst : {DST}, src : {0}, n : 0 .. StringLength + 1, c : {7}]
    \cup [f : {"strcmp", "strncmp", "memcmp"}, dst : {0, 1}, src : {1, DST}, n : {2}, c : {0}]

FInit == Init /\ input = None /\ DivInit /\ StringInit

Idle == text = <<>> /\ input = None

expression == input = None /\ Next /\ UNCHANGED input
division   == Idle /\ divide /\ UNCHANGED <<text, input>>
format ==
  /\ text = <<>>
  /\ \E c \in Formats :
       \/ input = None /\ input' = [f |-> "print", fmt |-> <<c>>]
       \/ /\ input.f = "print" /\ Len(input.fmt) < FormatLength
          /\ input' = [input EXCEPT !.fmt = Append(@, c)]
  /\ UNCHANGED text
reply ==
  /\ Idle
  /\ \E command \in Commands, tokens \in SeqsUpTo(Tokens, MaxTokens), nacks, bad \in 0 .. MaxTries :
       \E k \in Damageable(send_packet(Join(tokens, "text"))) :
         input' = [f |-> "request", command |-> command, tokens |-> tokens, nacks |-> nacks, bad |-> bad, k |-> k]
  /\ UNCHANGED text
transfer ==
  /\ Idle
  /\ \E src \in SeqsUpTo(Data, MaxBytes), refused \in 0 .. MaxTries :
       input' = [f |-> "transfer", src |-> src, refused |-> refused]
  /\ UNCHANGED text

string     == Idle /\ operands = <<>> /\ StringNext /\ UNCHANGED <<text, input, operands>>

FNext ==
  \/ string
  \/ /\ running = "idle" /\ UNCHANGED stringvars
     /\ \/ division
        \/ operands = <<>> /\ (expression \/ format \/ reply \/ transfer) /\ UNCHANGED operands

FSpec == FInit /\ [][FNext]_<<text, input, operands, stringvars>>

(* The conversions of stdio.c on all formats. *)
PrintsAgree ==
  input.f = "print" /\ Len(SelectSeq(input.fmt, LAMBDA c : c = "%")) <= Len(Args) => PrintsAgreeOn(input.fmt, Args)

(* The client that drives QEMU: refused commands and damaged replies are   *)
(* repeated until one is whole, and what arrives is what was meant, escapes *)
(* and runs included; memory and registers are transferred byte for byte,  *)
(* and a refused chunk is told.                                            *)
RequestsAgree ==
  /\ input.f = "request" => RequestAgrees(input.command, input.tokens, input.nacks, input.bad, input.k)
  /\ input.f = "transfer" => TransferAgrees(7, input.src, input.refused)

(* What is written as text, for a reader or for QEMU, is what was meant.   *)
TextsAgree == PrintsAgree /\ RequestsAgree
=============================================================================

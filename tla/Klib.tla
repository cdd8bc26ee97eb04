-------------------------------- MODULE Klib --------------------------------
(***************************************************************************)
(* The conversions of klib, as functions: stdio.c and atoi of stdlib.c.    *)
(* Text is a sequence of characters written as strings.                    *)
(***************************************************************************)
EXTENDS Integers, Sequences

Digits == <<"0", "1", "2", "3", "4", "5", "6", "7", "8", "9">>
Flags  == {"'", "#", "0", "-", "+", "I"}
End    == "NUL"

pushdigit(num, d) == <<Digits[d + 1]>> \o num

(* convtint_t: C's remainder has the sign of var, which sign takes away *)
convtint(var) ==
  LET RECURSIVE loop(_, _)
      loop(v, num) == LET n == pushdigit(num, v % 10)
                      IN  IF v < 10 THEN n ELSE loop(v \div 10, n)
  IN  IF var < 0 THEN <<"-">> \o loop(-var, <<>>) ELSE loop(var, <<>>)

(* What fparser and sparser make of the text after "%" at i: the specifier *)
(* and where the text goes on.  A text that ends in the flags is read past *)
(* its end: what follows is not modelled.                                  *)
parse(fmt, i) ==
  LET at(j) == IF j <= Len(fmt) THEN fmt[j] ELSE End
      RECURSIVE flags(_)
      flags(j) == IF at(j) = "'" /\ at(j + 1) = " " /\ at(j + 2) = "'" THEN flags(j + 3)
                  ELSE IF at(j) \in Flags THEN flags(j + 1) ELSE j
      j == flags(i + 1)
  IN  [cs |-> CASE at(j) \in {"d", "i"} -> "d" [] at(j) = "s" -> "s" [] OTHER -> "none", next |-> j + 1]

(* One conversion's text.  An unknown one is copied, but cur moves on once *)
(* for all of it: in a buffer its last character is what stays.            *)
convt(fmt, i, arg, has_buf) ==
  LET p == parse(fmt, i)
  IN  CASE p.cs = "d" -> [text |-> convtint(arg.d), moved |-> Len(convtint(arg.d))]
        [] p.cs = "s" -> [text |-> arg.s, moved |-> Len(arg.s)]
        [] p.cs = "none" /\ has_buf -> [text |-> <<fmt[p.next - 1]>>, moved |-> 1]
        [] OTHER -> [text |-> SubSeq(fmt, i, p.next - 1), moved |-> 1]

(* comprintf: the text and what it returns.  "%" at the end ends it with   *)
(* -1, all else with a NUL.  args are taken in turn.                       *)
comprintf(fmt, args, has_buf) ==
  LET RECURSIVE from(_, _, _, _)
      from(i, k, out, cur) ==
        IF i > Len(fmt) THEN [out |-> Append(out, End), ret |-> cur]
        ELSE IF fmt[i] # "%" THEN from(i + 1, k, Append(out, fmt[i]), cur + 1)
        ELSE IF i = Len(fmt) THEN [out |-> Append(out, End), ret |-> -1]
        ELSE LET c == convt(fmt, i, args[k], has_buf)
             IN  from(parse(fmt, i).next, IF parse(fmt, i).cs = "none" THEN k ELSE k + 1,
                      out \o c.text, cur + c.moved)
  IN  from(1, 1, <<>>, 0)

sprintf(fmt, args) == comprintf(fmt, args, TRUE)
printf(fmt, args)  == comprintf(fmt, args, FALSE)

(* stdlib.c; no sign is read *)
RECURSIVE atoi_from(_, _)
atoi_from(s, x) ==
  IF s = <<>> \/ \A d \in 1 .. 10 : Digits[d] # Head(s) THEN x
  ELSE atoi_from(Tail(s), x * 10 + (CHOOSE d \in 0 .. 9 : Digits[d + 1] = Head(s)))
RECURSIVE atoi(_)
atoi(s) == IF s # <<>> /\ Head(s) = " " THEN atoi(Tail(s)) ELSE atoi_from(s, 0)

---------------------------------------------------------------------------
(* What they are to do.                                                    *)
(* A format in which every "%" belongs to a d, i or s. *)
Known(fmt) ==
  \A i \in DOMAIN fmt :
    fmt[i] = "%" => \E j \in i + 1 .. Len(fmt) :
      fmt[j] \in {"d", "i", "s"} /\ \A k \in i + 1 .. j - 1 : fmt[k] \in Flags \ {"'"}

(* The text fmt stands for, piece by piece from the left. *)
Meaning(fmt, args) ==
  LET Specs == {i \in DOMAIN fmt : \E p \in 1 .. i - 1 : fmt[p] = "%" /\ fmt[i] \in {"d", "i", "s"}
                                     /\ \A k \in p + 1 .. i - 1 : fmt[k] \in Flags}
      Inside(i) == \E p \in 1 .. i, j \in Specs :
                     fmt[p] = "%" /\ i <= j /\ \A k \in p + 1 .. j - 1 : fmt[k] \in Flags
      Nth(i)    == Len(SelectSeq([k \in 1 .. i |-> k \in Specs], LAMBDA b : b))
      piece(i)  == IF i \in Specs THEN (IF fmt[i] = "s" THEN args[Nth(i)].s ELSE convtint(args[Nth(i)].d))
                   ELSE IF Inside(i) THEN <<>> ELSE <<fmt[i]>>
      text[i \in 0 .. Len(fmt)] == IF i = 0 THEN <<>> ELSE text[i - 1] \o piece(i)
  IN  text[Len(fmt)]

(* sprintf and printf agree on such a format: the text, a NUL after it (on *)
(* the console too), its length returned; and what %d writes of a number   *)
(* from 0 on, atoi reads back.                                             *)
PrintsAgreeOn(fmt, args) ==
  /\ Known(fmt) =>
       LET m == Meaning(fmt, args) IN
       /\ sprintf(fmt, args) = [out |-> Append(m, End), ret |-> Len(m)]
       /\ printf(fmt, args) = sprintf(fmt, args)
  /\ \A k \in DOMAIN args : args[k].d >= 0 => atoi(<<" ">> \o convtint(args[k].d)) = args[k].d
=============================================================================

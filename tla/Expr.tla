-------------------------------- MODULE Expr --------------------------------
(***************************************************************************)
(* The expression evaluator, nemu/src/monitor/debug/expr.c, against the    *)
(* grammar it is to implement.  A user types a text, token by token; at    *)
(* every length the value the code finds is compared with the meaning of   *)
(* the text.  A token is the kind of a lexeme, or a record for a number or *)
(* a register; which characters make it up is the regex library's affair.  *)
(***************************************************************************)
EXTENDS Integers, Sequences, FiniteSetsExt

CONSTANTS
  Alphabets,   \* bound: sets of tokens, a text stays within one of them
  MaxLength,   \* bound: tokens in a text
  MAX_TOKENS,
  WORD,        \* 2^32: words are taken modulo it
  Mem,         \* address -> word, for every legal address
  Operand      \* number or register -> its value, or ERR for an unknown one

ERR == -1

VARIABLE text

(* The priority table; every other kind of token has 0. *)
bop_priority ==
  [k \in {"+", "-", "*", "/", "!=", "==", "&&"} |->
     CASE k \in {"+", "-"}   -> 4
       [] k \in {"*", "/"}   -> 3
       [] k \in {"!=", "=="} -> 7
       [] OTHER              -> 11]

is_op_type(k) == k \in DOMAIN bop_priority
Priority(k)   == IF is_op_type(k) THEN bop_priority[k] ELSE 0

Nothing == [ok |-> FALSE, val |-> 0]
Just(v) == [ok |-> TRUE, val |-> v]

---------------------------------------------------------------------------
(* The code.  tokens is a function from 0 .. nr_token - 1, as the array.   *)

tokensOf(s) == LET t == SelectSeq(s, LAMBDA k : k # " ")
               IN  [i \in 0 .. Len(t) - 1 |-> t[i + 1]]

(* It fails on a token, be it a space, after MAX_TOKENS others. *)
make_token(s) ==
  \A i \in 1 .. Len(s) :
    Len(SelectSeq(SubSeq(s, 1, i - 1), LAMBDA k : k # " ")) < MAX_TOKENS

Opened(T, i, j) == Cardinality({k \in i .. j : T[k] = "("})
Closed(T, i, j) == Cardinality({k \in i .. j : T[k] = ")"})

islegal_parentheses(T) ==
  LET last == Cardinality(DOMAIN T) - 1
  IN  /\ \A i \in 0 .. last : Opened(T, 0, i) >= Closed(T, 0, i)
      /\ Opened(T, 0, last) = Closed(T, 0, last)

(* TK_DEREF is a "*" with nothing to multiply on its left. *)
classify(T) ==
  LET RECURSIVE upto(_)
      upto(n) ==
        IF n = 0 THEN <<>>
        ELSE LET prev == upto(n - 1)
                 i    == n - 1
                 deref == T[i] = "*" /\ (i = 0 \/ prev[i] = "(" \/ prev[i] = "deref"
                                              \/ is_op_type(prev[i]))
             IN  Append(prev, IF deref THEN "deref" ELSE T[i])
      all == upto(Cardinality(DOMAIN T))
  IN  [i \in DOMAIN T |-> all[i + 1]]

(* One pair of parentheses around it all: no "(" after a return to depth 0. *)
check_parentheses(T, start, end) ==
  /\ T[start] = "(" /\ T[end] = ")"
  /\ \A i \in start + 1 .. end :
       T[i] = "(" => Closed(T, start + 1, i - 1) <= Opened(T, start + 1, i - 1)

go_foward(T, cursor) ==
  IF T[cursor] # "(" THEN cursor + 1
  ELSE 1 + Min({j \in DOMAIN T : j > cursor /\ Opened(T, cursor, j) = Closed(T, cursor, j)})

(* Mutated: among operators of one priority the first is the main one. *)
takesOverFirst(T, current, mop_pos) == Priority(T[current]) > Priority(T[mop_pos])

takesOver(T, current, mop_pos) == Priority(T[current]) >= Priority(T[mop_pos])

(* bool is uint8_t: NonOp is 0, its complement 255, and Op is 1. *)
complement(b) == 255 - b

(* The main operator's position; 0 when there is none but TK_DEREF, -1 for *)
(* an error.  The first candidate is token 0, wherever start is.           *)
find_mainop(T, start, end) ==
  LET RECURSIVE walk(_, _, _)
      walk(current, expected_op, mop_pos) ==
        IF current > end
        THEN IF expected_op = 0 THEN -1 ELSE mop_pos
        ELSE IF is_op_type(T[current])
        THEN IF expected_op = 0 THEN -1
             ELSE walk(current + 1, complement(expected_op),
                       IF takesOver(T, current, mop_pos) THEN current ELSE mop_pos)
        ELSE IF expected_op = 1 THEN -1
        ELSE LET atom == Min({j \in current .. end : j = end \/ T[j] # "deref"})
             IN  IF is_op_type(T[atom]) \/ T[atom] = "deref" THEN -1
                 ELSE walk(go_foward(T, atom), complement(expected_op), mop_pos)
  IN  walk(start, 0, 0)

apply(op, a, b) ==
  CASE op = "+"  -> Just((a + b) % WORD)
    [] op = "-"  -> Just((a - b) % WORD)
    [] op = "*"  -> Just((a * b) % WORD)
    [] op = "/"  -> IF b = 0 THEN Nothing ELSE Just(a \div b)
    [] op = "==" -> Just(IF a = b THEN 1 ELSE 0)
    [] op = "!=" -> Just(IF a # b THEN 1 ELSE 0)
    [] op = "&&" -> Just(IF a # 0 /\ b # 0 THEN 1 ELSE 0)

(* Nothing is error_flag down: no value counts from there on. *)
RECURSIVE eval(_, _, _)
eval(T, start, end) ==
  IF start > end THEN Nothing
  ELSE IF start = end
  THEN IF T[start] \in DOMAIN Operand /\ Operand[T[start]] # ERR
       THEN Just(Operand[T[start]]) ELSE Nothing
  ELSE IF check_parentheses(T, start, end) THEN eval(T, start + 1, end - 1)
  ELSE LET mop_pos == find_mainop(T, start, end)
       IN  CASE mop_pos = -1 -> Nothing
             [] mop_pos = 0 ->
                  LET addr == eval(T, start + 1, end)
                  IN  IF addr.ok /\ addr.val \in DOMAIN Mem THEN Just(Mem[addr.val]) ELSE Nothing
             [] OTHER ->
                  LET left  == eval(T, start, mop_pos - 1)
                      right == eval(T, mop_pos + 1, end)
                  IN  IF left.ok /\ right.ok THEN apply(T[mop_pos], left.val, right.val)
                      ELSE Nothing

expr(s) ==
  IF ~ make_token(s) THEN Nothing
  ELSE LET T == tokensOf(s)
       IN  IF islegal_parentheses(T)
           THEN eval(classify(T), 0, Cardinality(DOMAIN T) - 1)
           ELSE Nothing

---------------------------------------------------------------------------
(* The grammar: the meanings of a sequence of tokens at a level, 4 for &&, *)
(* 3 for == and !=, 2 for + and -, 1 for * and /, 0 for what they join.    *)
(* All operators associate to the left.                                    *)

Levels == << {"*", "/"}, {"+", "-"}, {"==", "!="}, {"&&"} >>

Load(a) == IF a \in DOMAIN Mem THEN Mem[a] ELSE ERR

Binary(op, a, b) ==
  IF ERR \in {a, b} \/ (op = "/" /\ b = 0) THEN ERR
  ELSE CASE op = "+"  -> (a + b) % WORD
         [] op = "-"  -> (a - b) % WORD
         [] op = "*"  -> (a * b) % WORD
         [] op = "/"  -> a \div b
         [] op = "==" -> IF a = b THEN 1 ELSE 0
         [] op = "!=" -> IF a = b THEN 0 ELSE 1
         [] op = "&&" -> IF 0 \in {a, b} THEN 0 ELSE 1

RECURSIVE Meanings(_, _)
Meanings(s, level) ==
  IF s = <<>> THEN {}
  ELSE IF level = 0
  THEN CASE Len(s) = 1 /\ s[1] \in DOMAIN Operand -> {Operand[s[1]]}
         [] s[1] = "*"                            -> {Load(a) : a \in Meanings(Tail(s), 0)}
         [] s[1] = "(" /\ s[Len(s)] = ")"         -> Meanings(SubSeq(s, 2, Len(s) - 1), 4)
         [] OTHER                                 -> {}
  ELSE Meanings(s, level - 1) \cup
       UNION { { Binary(s[p], a, b) : a \in Meanings(SubSeq(s, 1, p - 1), level),
                                      b \in Meanings(SubSeq(s, p + 1, Len(s)), level - 1) }
               : p \in {q \in 1 .. Len(s) : s[q] \in Levels[level]} }

---------------------------------------------------------------------------
Init == text = <<>>

type(k) ==
  /\ Len(text) < MaxLength
  /\ text' = Append(text, k)

Next == \E A \in Alphabets : \E k \in A : (\A i \in DOMAIN text : text[i] \in A) /\ type(k)

Spec == Init /\ [][Next]_text

(* expr accepts exactly the texts of the grammar that have a value, and    *)
(* finds that value: precedence, associativity, the two readings of "*",   *)
(* parentheses and errors included, although the check for an operand      *)
(* where an operator is expected can never fire (255 is not Op).           *)
EvalAgrees ==
  make_token(text) =>
    LET m == Meanings(SelectSeq(text, LAMBDA k : k # " "), 4)
        r == expr(text)
    IN  /\ Cardinality(m) <= 1
        /\ r.ok <=> (m # {} /\ ERR \notin m)
        /\ r.ok => r.val \in m
=============================================================================

-------------------------------- MODULE Printf ---------------------------------
(***************************************************************************)
(* The output functions of libft: ft_printf, what it calls, and the _fd    *)
(* functions, over a file that may take only a part of what is written or  *)
(* nothing at all.                                                         *)
(*                                                                         *)
(* The output is a record: out is what the file has taken, left is how     *)
(* many writes go well before one does not, and trouble is what happens    *)
(* then, once: the write fails, takes one byte of several, or nothing      *)
(* happens.  Texts are sequences of bytes; a function that prints gives    *)
(* the output after it and n, what it returns.                             *)
(***************************************************************************)
EXTENDS Numbers

CONSTANTS
  Pieces,      \* what formats are made of: characters and conversions
  MAX_PIECES,  \* how many of them a format has at most
  Arguments,   \* the lists of arguments, each an int and a string or NULL
  Unsigneds,   \* the numbers that are printed in a base
  Bases,       \* the bases
  MAX_WRITES   \* a bound on the writes before trouble

NoText == <<-1>>  \* no text

ASSUME PrintfAssumption ==
  /\ Pieces \subseteq Seq(1 .. 127)
  /\ \A args \in Arguments :
       /\ Len(args) >= MAX_PIECES
       /\ \A k \in DOMAIN args : args[k].int \in Ints
  /\ Unsigneds \subseteq Nat
  /\ MAX_PIECES \in Nat /\ MAX_WRITES \in Nat

PERCENT == 37
ZERO    == 48
lower   == <<48,49,50,51,52,53,54,55,56,57, 97,98,99,100,101,102>>
upper   == <<48,49,50,51,52,53,54,55,56,57, 65,66,67,68,69,70>>
null    == <<40, 110, 117, 108, 108, 41>>  \* (null)

Done(o, n) == [output |-> o, n |-> n]

(* What an unsigned int is that was passed as an int.                      *)
Unsigned(n) == n % 2^INT_BITS

------------------------------------------------------------------------------
(* write: all of a text, a part of it, or -1.                              *)

write(o, text) ==
  LET part == IF Len(text) > 1 THEN SubSeq(text, 1, 1) ELSE text
  IN CASE o.left = 0 /\ o.trouble = "fails" ->
            Done([o EXCEPT !.trouble = "none"], -1)
       [] o.left = 0 /\ o.trouble = "short" ->
            Done([o EXCEPT !.trouble = "none", !.out = @ \o part], Len(part))
       [] OTHER ->
            Done([o EXCEPT !.left = IF @ = 0 THEN 0 ELSE @ - 1,
                           !.out = @ \o text], Len(text))

ft_putchar_n(o, c) == write(o, <<c>>)

ft_putstr_n(o, s) == write(o, IF s = NoText THEN null ELSE s)

(* second goes on where first ended, and the counts are added, unless one  *)
(* of them failed.                                                         *)
AndThen(first, second(_)) ==
  IF first.n = -1
  THEN first
  ELSE LET next == second(first.output)
       IN IF next.n = -1 THEN next ELSE Done(next.output, first.n + next.n)

Nothing(o) == Done(o, 0)

RECURSIVE ft_putnbr_n(_, _)
ft_putnbr_n(o, nbr) ==
  LET size  == IF nbr < 0 THEN -nbr ELSE nbr
      sign  == IF nbr < 0 THEN ft_putchar_n(o, MINUS) ELSE Nothing(o)
      tens  == AndThen(sign, LAMBDA p :
                 IF size > 9 THEN ft_putnbr_n(p, size \div 10) ELSE Nothing(p))
  IN AndThen(tens, LAMBDA p : ft_putchar_n(p, ZERO + (size % 10)))

(* Seeded fault: a failure further up in the recursion is forgotten. *)
RECURSIVE PrintInBase_Forget(_, _, _)
PrintInBase_Forget(o, nbr, base) ==
  LET above == IF nbr >= Len(base)
               THEN PrintInBase_Forget(o, nbr \div Len(base), base)
               ELSE Nothing(o)
      last  == write(above.output, <<base[(nbr % Len(base)) + 1]>>)
  IN IF last.n = -1 THEN last ELSE Done(last.output, above.n + last.n)

(* print in ft_putnbr_base_n.c *)
RECURSIVE PrintInBase(_, _, _)
PrintInBase(o, nbr, base) ==
  AndThen(IF nbr >= Len(base)
          THEN PrintInBase(o, nbr \div Len(base), base)
          ELSE Nothing(o),
          LAMBDA p : write(p, <<base[(nbr % Len(base)) + 1]>>))

(* Seeded fault: the last character is not compared with the others. *)
ValidBase_Last(base) ==
  /\ Len(base) > 1
  /\ \A i \in DOMAIN base : base[i] \in 32 .. 126 \ {43, 45}
  /\ \A i, j \in 1 .. Len(base) - 1 : i # j => base[i] # base[j]

(* At least two characters, no two the same, all printable and no sign.    *)
ValidBase(base) ==
  /\ Len(base) > 1
  /\ \A i \in DOMAIN base : base[i] \in 32 .. 126 \ {43, 45}
  /\ \A i, j \in DOMAIN base : i < j => base[i] # base[j]

ft_putnbr_base_n(o, nbr, base) ==
  IF ValidBase(base) THEN PrintInBase(o, nbr, base) ELSE Nothing(o)

ft_putptr_n(o, ptr) ==
  AndThen(write(o, <<48, 120>>), LAMBDA p : ft_putnbr_base_n(p, ptr, lower))

------------------------------------------------------------------------------
(* ft_printf.  args is what va_arg has not gone past yet.                  *)

Takes(c) == c \in {99, 115, 112, 100, 105, 117, 120, 88}  \* c s p d i u x X

(* One conversion; an unknown one prints nothing and takes no argument.    *)
put_all(o, c, args) ==
  CASE c = 99         -> ft_putchar_n(o, Head(args).int % 256)
    [] c = 115        -> ft_putstr_n(o, Head(args).str)
    [] c = 112        -> ft_putptr_n(o, Unsigned(Head(args).int))
    [] c \in {100, 105} -> ft_putnbr_n(o, Head(args).int)
    [] c = 117        -> ft_putnbr_n(o, Unsigned(Head(args).int))
    [] c = 120        -> ft_putnbr_base_n(o, Unsigned(Head(args).int), lower)
    [] c = 88         -> ft_putnbr_base_n(o, Unsigned(Head(args).int), upper)
    [] c = PERCENT    -> ft_putchar_n(o, c)
    [] OTHER          -> Nothing(o)

(* Seeded fault: every conversion is given the first argument. *)
RECURSIVE print_Skip(_, _, _)
print_Skip(o, str, args) ==
  IF str = <<>>
  THEN Nothing(o)
  ELSE IF str[1] # PERCENT
       THEN AndThen(ft_putchar_n(o, str[1]),
                    LAMBDA p : print_Skip(p, Tail(str), args))
       ELSE LET c == IF Len(str) > 1 THEN str[2] ELSE 0
            IN AndThen(put_all(o, c, args),
                       LAMBDA p : print_Skip(p, SubSeq(str, 3, Len(str)), args))

(* Plain characters are written one by one; a % at the very end is the     *)
(* conversion of the NUL, which is unknown.                                *)
RECURSIVE print(_, _, _)
print(o, str, args) ==
  IF str = <<>>
  THEN Nothing(o)
  ELSE IF str[1] # PERCENT
       THEN AndThen(ft_putchar_n(o, str[1]), LAMBDA p : print(p, Tail(str), args))
       ELSE LET c    == IF Len(str) > 1 THEN str[2] ELSE 0
                rest == IF Takes(c) THEN Tail(args) ELSE args
            IN AndThen(put_all(o, c, args),
                       LAMBDA p : print(p, SubSeq(str, 3, Len(str)), rest))

ft_printf(o, str, args) == IF str = NoText THEN Nothing(o) ELSE print(o, str, args)

------------------------------------------------------------------------------
(* The _fd functions: what a write returns is passed on, or not looked at. *)

ft_putchar_fd(o, c) == write(o, <<c>>)
ft_putstr_fd(o, s)  == write(o, IF s = NoText THEN <<>> ELSE s)

ft_putendl_fd(o, s) == ft_putchar_fd(ft_putstr_fd(o, s).output, 10).output

RECURSIVE ft_putnbr_fd(_, _)
ft_putnbr_fd(o, nbr) ==
  LET size == IF nbr < 0 THEN -nbr ELSE nbr
      sign == IF nbr < 0 THEN ft_putchar_fd(o, MINUS).output ELSE o
      tens == IF size > 9 THEN ft_putnbr_fd(sign, size \div 10) ELSE sign
  IN ft_putchar_fd(tens, ZERO + (size % 10)).output

------------------------------------------------------------------------------
(* The calls.                                                              *)

Outputs ==
  {[out |-> <<>>, left |-> left, trouble |-> trouble]
     : left \in 0 .. MAX_WRITES, trouble \in {"fails", "short"}}
  \cup {[out |-> <<>>, left |-> 0, trouble |-> "none"]}

OutputsReady == Ready("output", Outputs)

Wrote(c, result) == Called(c, result.output, result.n)

(* A format may end with a % of its own.                                   *)
CallPrintf ==
  \/ Wrote([fn |-> "ft_printf", pieces |-> <<NoText>>, args |-> <<>>],
           ft_printf(before, NoText, <<>>))
  \/ \E pieces \in SeqOf(Pieces, MAX_PIECES), last \in {<<>>, <<PERCENT>>},
       args \in Arguments :
       Wrote([fn |-> "ft_printf", pieces |-> Append(pieces, last), args |-> args],
             ft_printf(before, FlattenSeq(Append(pieces, last)), args))

CallBase ==
  \E nbr \in Unsigneds, base \in Bases :
    Wrote([fn |-> "ft_putnbr_base_n", nbr |-> nbr, base |-> base],
          ft_putnbr_base_n(before, nbr, base))

CallFd ==
  \E args \in Arguments : \E k \in DOMAIN args :
    \/ Wrote([fn |-> "ft_putendl_fd", arg |-> args[k]],
             Done(ft_putendl_fd(before, args[k].str), 0))
    \/ Wrote([fn |-> "ft_putnbr_fd", arg |-> args[k]],
             Done(ft_putnbr_fd(before, args[k].int), 0))

OutputCalls == call = NoCall("output") /\ (CallPrintf \/ CallBase \/ CallFd)

------------------------------------------------------------------------------
(* Properties.                                                             *)

Counted == call.fn \in {"ft_printf", "ft_putnbr_base_n"}

(* No write went wrong, none at all.                                       *)
NoTrouble == after.trouble = before.trouble
Failed    == before.trouble = "fails" /\ ~NoTrouble

(* The call as it would have gone without trouble.                         *)
Whole ==
  LET calm == [before EXCEPT !.trouble = "none"]
  IN CASE call.fn = "ft_printf" ->
            ft_printf(calm, FlattenSeq(call.pieces), call.args)
       [] call.fn = "ft_putnbr_base_n" ->
            ft_putnbr_base_n(calm, call.nbr, call.base)

(* What is returned is -1 exactly when a write failed, however deep in a   *)
(* recursion, and otherwise the number of bytes the file took, even where  *)
(* it took only a part of a text.  Once a write failed nothing more is     *)
(* written: the file has a beginning of the text, without a hole.          *)
CountIsHonest ==
  Counted =>
    /\ ret = IF Failed THEN -1 ELSE Len(after.out)
    /\ Failed => IsPrefix(after.out, Whole.output.out)

(* The number a sequence of digits stands for.                             *)
Evaluated(digits, base) ==
  LET value(c) == (CHOOSE i \in DOMAIN base : base[i] = c) - 1
  IN FoldLeft(LAMBDA n, c : n * Len(base) + value(c), 0, digits)

IsNumeral(digits, base, nbr) ==
  /\ digits # <<>> /\ ToSet(digits) \subseteq ToSet(base)
  /\ digits[1] = base[1] => Len(digits) = 1
  /\ Evaluated(digits, base) = nbr

(* A number is written in the base given, most significant digit first and *)
(* without leading zeros; where the base would be ambiguous nothing is     *)
(* written at all.                                                         *)
NumeralsEvaluate ==
  /\ call.fn = "ft_putnbr_base_n" /\ NoTrouble =>
       IF Cardinality(ToSet(call.base)) < Max({2, Len(call.base)})
          \/ ToSet(call.base) \cap {MINUS, 43} # {}
       THEN after.out = <<>>
       ELSE IsNumeral(after.out, call.base, call.nbr)
  /\ call.fn = "ft_putnbr_fd" /\ NoTrouble =>
       LET n == call.arg.int
           sign == IF n < 0 THEN <<MINUS>> ELSE <<>>
       IN /\ IsPrefix(sign, after.out)
          /\ IsNumeral(SubSeq(after.out, Len(sign) + 1, Len(after.out)),
                       SubSeq(lower, 1, 10), IF n < 0 THEN -n ELSE n)

(* The piece takes an argument.                                            *)
Converts(piece) == Len(piece) = 2 /\ Takes(piece[2])

(* A format prints what its pieces print alone, each conversion with the   *)
(* argument that is its by position, however many characters and unknown   *)
(* conversions lie between; a % at the very end prints nothing.            *)
FormatsCompose ==
  call.fn = "ft_printf" /\ NoTrouble =>
    LET calm == [before EXCEPT !.trouble = "none"]
        position(k) == 1 + Cardinality({j \in 1 .. k - 1 : Converts(call.pieces[j])})
        alone(k) == IF Converts(call.pieces[k])
                    THEN ft_printf(calm, call.pieces[k], <<call.args[position(k)]>>)
                    ELSE ft_printf(calm, call.pieces[k], <<>>)
    IN after.out = FlattenSeq([k \in DOMAIN call.pieces |-> alone(k).output.out])
=============================================================================

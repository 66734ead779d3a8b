------------------------------- MODULE Numbers --------------------------------
(***************************************************************************)
(* The character classes of libft and its conversions between integers and *)
(* decimal texts, and the calls of them.                                   *)
(*                                                                         *)
(* A text is the sequence of its bytes, without the NUL at its end; a      *)
(* buffer is a function from indices, from 0, to bytes.  An int has        *)
(* INT_BITS bits and a long LONG_BITS.                                     *)
(***************************************************************************)
EXTENDS MemOps, OneCall

CONSTANTS
  INT_BITS, LONG_BITS,
  Alphabet,  \* the bytes of the texts that are read
  MAX_TEXT   \* the length of the longest

ASSUME NumbersAssumption ==
  /\ INT_BITS \in Nat \ {0} /\ LONG_BITS \in Nat /\ LONG_BITS > INT_BITS
  /\ Alphabet \subseteq 1 .. 127
  /\ MAX_TEXT \in Nat

MINUS == 45
PLUS  == 43

(* What a signed integer of some bits holds after arithmetic gave x.  An   *)
(* overflow is undefined in C; the multiplications and additions of this   *)
(* build wrap.                                                             *)
Signed(x, bits) == ((x + 2^(bits - 1)) % 2^bits) - 2^(bits - 1)

Ints == -(2^(INT_BITS - 1)) .. 2^(INT_BITS - 1) - 1

------------------------------------------------------------------------------
(* Character classes, on any int.                                          *)

Upper == 65 .. 90
Lower == 97 .. 122

ft_isdigit(i) == i \in 48 .. 57
ft_isalpha(i) == i \in Upper \/ i \in Lower
ft_isalnum(i) == i \in Upper \/ i \in Lower \/ ft_isdigit(i)
ft_isascii(i) == i >= 0 /\ i < 128
ft_isprint(i) == i > 31 /\ i < 127

ft_toupper(c) == IF c \in Lower THEN c - 32 ELSE c
ft_tolower(c) == IF c \in Upper THEN c + 32 ELSE c

------------------------------------------------------------------------------
(* From an int to a text.                                                  *)

Digit(d) == 48 + d

(* How often a number that is not negative can be divided by ten before    *)
(* nothing is left.                                                        *)
RECURSIVE Divisions(_)
Divisions(nbr) ==
  IF nbr % 10 # 0 \/ nbr \div 10 # 0 THEN 1 + Divisions(nbr \div 10) ELSE 0

(* Seeded fault: the sign is not counted. *)
count_itoa_NoSign(nbr) ==
  LET size == IF nbr < 0 THEN -nbr ELSE nbr
  IN (IF size = 0 THEN 1 ELSE 0) + Divisions(size)

(* The characters nbr, a long, needs.                                      *)
count_itoa(nbr) ==
  LET size == IF nbr < 0 THEN -nbr ELSE nbr
  IN (IF nbr < 0 THEN 1 ELSE 0) + (IF size = 0 THEN 1 ELSE 0) + Divisions(size)

(* The digits of nbr are stored from index i downwards.                    *)
RECURSIVE PutDigits(_, _, _)
PutDigits(buffer, i, nbr) ==
  IF nbr % 10 # 0 \/ nbr \div 10 # 0
  THEN PutDigits(Store(buffer, i, Digit(nbr % 10)), i - 1, nbr \div 10)
  ELSE buffer

NoBuffer == [k \in {} |-> NUL]

(* The outcomes: no buffer, or one that is filled from its end.            *)
ft_itoa(n) ==
  LET len  == count_itoa(n)
      size == IF n < 0 THEN -n ELSE n
      zero == [k \in 0 .. len |-> NUL]
      sign == IF n < 0 THEN Store(zero, 0, MINUS) ELSE zero
  IN {NoBuffer,
      IF size = 0
      THEN Store(sign, len - 1, Digit(0))
      ELSE PutDigits(sign, len - 1, size)}

(* The text in a buffer: up to its first NUL.                              *)
TextOf(buffer) ==
  LET end == Min({k \in DOMAIN buffer : buffer[k] = NUL})
  IN [k \in 1 .. end |-> buffer[k - 1]]

------------------------------------------------------------------------------
(* From a text to an integer.                                              *)

Blank(c) == (c > 8 /\ c < 14) \/ c = 32

(* How many bytes from index i on are of a class.                          *)
RunOf(str, i, Is(_)) ==
  CHOOSE n \in 0 .. Len(str) - i + 1 :
    /\ \A k \in i .. i + n - 1 : Is(str[k])
    /\ i + n <= Len(str) => ~Is(str[i + n])

(* Seeded fault: a plus sign is not skipped. *)
SignLength_Minus(str, i) == IF i <= Len(str) /\ str[i] = MINUS THEN 1 ELSE 0

(* One sign at most is skipped.                                            *)
SignLength(str, i) == IF i <= Len(str) /\ str[i] \in {MINUS, PLUS} THEN 1 ELSE 0

(* Blanks, a sign and digits; what follows them is not looked at.          *)
Read(str, bits) ==
  LET sign   == 1 + RunOf(str, 1, Blank)
      sym    == IF sign <= Len(str) /\ str[sign] = MINUS THEN -1 ELSE 1
      first  == sign + SignLength(str, sign)
      digits == SubSeq(str, first, first + RunOf(str, first, ft_isdigit) - 1)
      nbr    == FoldLeft(LAMBDA n, c : Signed(n * 10 + (c - 48), bits), 0, digits)
  IN Signed(nbr * sym, bits)

ft_atoi(str)  == Read(str, INT_BITS)
ft_atol(str)  == Read(str, LONG_BITS)
ft_atoll(str) == Read(str, LONG_BITS)

------------------------------------------------------------------------------
(* The calls.                                                              *)

NumbersReady == Ready("nothing", {<<>>})

NumberCall(fn, of, result) == Called([fn |-> fn, of |-> of], <<>>, result)

Itoa == \E n \in Ints : \E buffer \in ft_itoa(n) : NumberCall("ft_itoa", n, buffer)

Ato ==
  \E str \in SeqOf(Alphabet, MAX_TEXT) :
    \/ NumberCall("ft_atoi", str, ft_atoi(str))
    \/ NumberCall("ft_atol", str, ft_atol(str))
    \/ NumberCall("ft_atoll", str, ft_atoll(str))

Case ==
  \E c \in -1 .. 256 :
    \/ NumberCall("ft_toupper", c, ft_toupper(c))
    \/ NumberCall("ft_tolower", c, ft_tolower(c))

NumberCalls == call = NoCall("nothing") /\ (Itoa \/ Ato \/ Case)

------------------------------------------------------------------------------
(* Properties.                                                             *)

(* The buffer of ft_itoa, whose length is counted before a digit is known, *)
(* is filled exactly: a NUL at its end and nowhere else, no store outside, *)
(* and the sign, which is stored first, still there.                       *)
BufferIsExact ==
  call.fn = "ft_itoa" /\ ret # NoBuffer =>
    /\ DOMAIN ret = 0 .. Len(TextOf(ret))
    /\ ret[0] = MINUS <=> call.of < 0
    /\ \A k \in DOMAIN TextOf(ret) :
         \/ ft_isdigit(TextOf(ret)[k])
         \/ k = 1 /\ TextOf(ret)[k] = MINUS

(* What ft_itoa writes, ft_atoi reads back, INT_MIN included: there the    *)
(* digits overflow an int before the sign is applied, and so does the      *)
(* sign.                                                                   *)
IsReadBack ==
  call.fn = "ft_itoa" /\ ret # NoBuffer =>
    /\ ft_atoi(TextOf(ret)) = call.of
    /\ ft_atol(TextOf(ret)) = call.of

(* The case functions stay in their classes, are each other's inverse on   *)
(* letters and leave everything else, EOF and bytes beyond ASCII too, as   *)
(* it is; the other classes agree with one another.                        *)
IsTurnedBack ==
  call.fn \in {"ft_toupper", "ft_tolower"} =>
    LET c == call.of
        turned == IF call.fn = "ft_toupper" THEN ft_tolower(ret) ELSE ft_toupper(ret)
    IN /\ ret # c => ft_isalpha(c) /\ ft_isalpha(ret) /\ turned = c
       /\ ret = c /\ ft_isalpha(c) => turned # c
       /\ ft_isalnum(c) <=> ft_isalpha(c) \/ ft_isdigit(c)
       /\ ft_isalnum(c) => ft_isprint(c)
       /\ ft_isprint(c) => ft_isascii(c)

(* What is converted can be converted back: every int through the text     *)
(* that ft_itoa makes of it, every letter through the other case.          *)
RoundTrips == BufferIsExact /\ IsReadBack /\ IsTurnedBack

(* The number a text stands for, after the longest part of it that is      *)
(* blanks, at most one sign, and digits.                                   *)
Value(str) ==
  LET Number(k, l) ==   \* its digits are those from k to l
        \A i \in k .. l : str[i] \in 48 .. 57
      Starts(k) ==      \* digits may start at k
        \E sign \in 0 .. 1 :
          /\ sign < k
          /\ \A i \in 1 .. k - 1 - sign : Blank(str[i])
          /\ sign = 1 => str[k - 1] \in {PLUS, MINUS}
      spans == {s \in (1 .. Len(str)) \X (1 .. Len(str)) :
                  s[1] <= s[2] /\ Starts(s[1]) /\ Number(s[1], s[2])}
  IN IF spans = {}
     THEN 0
     ELSE LET k == Min({s[1] : s \in spans})
              l == Max({s[2] : s \in spans})
          IN (IF k > 1 /\ str[k - 1] = MINUS THEN -1 ELSE 1) *
             MapThenSumSet(LAMBDA i : (str[i] - 48) * 10^(l - i), k .. l)

(* ft_atoi, ft_atol and ft_atoll return the number a text begins with      *)
(* wherever it fits, and what is congruent to it where it does not.        *)
TextsAreRead ==
  /\ call.fn = "ft_atoi" => ret = Signed(Value(call.of), INT_BITS)
  /\ call.fn \in {"ft_atol", "ft_atoll"} => ret = Signed(Value(call.of), LONG_BITS)
=============================================================================

------------------------------- MODULE MemOps --------------------------------
(***************************************************************************)
(* The memory and string functions of libft, on memory as a function from  *)
(* addresses to bytes.  A byte nobody wrote need not be in the domain.     *)
(*                                                                         *)
(* A loop that stores a byte in each turn is a fold over the indices it    *)
(* goes through, in its order: what a store overwrites, a later turn may   *)
(* have meant to read.                                                     *)
(***************************************************************************)
EXTENDS Integers, SequencesExt

NULL == 0
NUL  == 0

(* The conversions to unsigned char and, of a byte, to char, which has a   *)
(* sign where this library is built.                                       *)
UChar(c) == c % 256
Char(b)  == IF b > 127 THEN b - 256 ELSE b

Upwards(n)   == [k \in 1 .. n |-> k - 1]
Downwards(n) == [k \in 1 .. n |-> n - k]

Store(m, a, byte) ==
  [x \in DOMAIN m \cup {a} |-> IF x = a THEN byte ELSE m[x]]

(* One turn of a copying loop; a byte that has no value stays without one. *)
CopyByte(m, dest, src) ==
  IF src \in DOMAIN m
  THEN Store(m, dest, m[src])
  ELSE [x \in DOMAIN m \ {dest} |-> m[x]]

CopyBytes(m, dest, src, indices) ==
  FoldLeft(LAMBDA mem, i : CopyByte(mem, dest + i, src + i), m, indices)

ft_memcpy(m, dest, src, n) ==
  IF dest = NULL /\ src = NULL THEN m ELSE CopyBytes(m, dest, src, Upwards(n))

(* Seeded fault: the direction is the wrong one. *)
ft_memmove_Swapped(m, dest, src, n) ==
  IF dest < src
  THEN CopyBytes(m, dest, src, Downwards(n))
  ELSE ft_memcpy(m, dest, src, n)

(* Upwards when the destination is below the source, else downwards.       *)
ft_memmove(m, dest, src, n) ==
  CASE dest = NULL /\ src = NULL -> m
    [] dest < src                -> ft_memcpy(m, dest, src, n)
    [] OTHER                     -> CopyBytes(m, dest, src, Downwards(n))

ft_memset(m, dest, c, n) ==
  FoldLeft(LAMBDA mem, i : Store(mem, dest + i, UChar(c)), m, Upwards(n))

ft_bzero(m, dest, n) == ft_memset(m, dest, NUL, n)

------------------------------------------------------------------------------
(* Strings: the bytes from an address up to the first NUL.                 *)

(* A string starts at s.                                                   *)
Terminated(m, s) == \E a \in DOMAIN m : a >= s /\ m[a] = NUL

ft_strlen(m, s) ==
  IF s = NULL
  THEN 0
  ELSE (CHOOSE a \in DOMAIN m :
          /\ a >= s /\ m[a] = NUL
          /\ \A b \in s .. a - 1 : m[b] # NUL) - s

(***************************************************************************)
(* The memory after ft_strlcpy; it returns ft_strlen(m, src).  The loop    *)
(* stops at size - 1 bytes or at the end of src, and then terminates dest. *)
(***************************************************************************)
ft_strlcpy(m, dest, src, size) ==
  LET copied == Min({size - 1, ft_strlen(m, src)})
  IN IF size = 0
     THEN m
     ELSE Store(CopyBytes(m, dest, src, Upwards(copied)), dest + copied, NUL)

(* The memory after ft_strlcat, and what it returns.                       *)
ft_strlcat(m, dest, src, size) ==
  LET dest_len == ft_strlen(m, dest)
      copied   == Min({size - dest_len - 1, ft_strlen(m, src)})
  IN IF dest = NULL \/ src = NULL \/ size <= dest_len
     THEN m
     ELSE Store(CopyBytes(m, dest + dest_len, src, Upwards(copied)),
                dest + dest_len + copied, NUL)

ft_strlcat_result(m, dest, src, size) ==
  LET dest_len == ft_strlen(m, dest)
  IN CASE dest = NULL \/ src = NULL -> 0
       [] dest # NULL /\ src # NULL /\ size <= dest_len ->
            ft_strlen(m, src) + size
       [] OTHER -> dest_len + ft_strlen(m, src)

------------------------------------------------------------------------------
(* Searching and comparing: pointers into memory, NULL when nothing is     *)
(* found.                                                                  *)

Lowest(S)  == IF S = {} THEN NULL ELSE Min(S)
Highest(S) == IF S = {} THEN NULL ELSE Max(S)

ft_memchr(m, src, c, n) == Lowest({a \in src .. src + n - 1 : m[a] = UChar(c)})

(* Where a character is, the terminating NUL included.  A char is compared *)
(* with an unsigned char: none above 127 is ever found.                    *)
Places(m, str, c) ==
  {a \in str .. str + ft_strlen(m, str) : Char(m[a]) = UChar(c)}

ft_strchr(m, str, c) == IF str = NULL THEN NULL ELSE Lowest(Places(m, str, c))

ft_strrchr(m, str, c) == Highest(Places(m, str, c))

(* The difference of the first two bytes that differ among some indices.   *)
FirstDifference(m, str1, str2, indices) ==
  LET differ == {i \in indices : m[str1 + i] # m[str2 + i]}
  IN IF differ = {} THEN 0 ELSE m[str1 + Min(differ)] - m[str2 + Min(differ)]

ft_memcmp(m, str1, str2, n) == FirstDifference(m, str1, str2, 0 .. n - 1)

(* Seeded fault: the comparison ends with the first string.                *)
ft_strncmp_Prefix(m, str1, str2, n) ==
  FirstDifference(m, str1, str2,
                  0 .. Min({n, ft_strlen(m, str1)}) - 1)

(* The loop goes on while one of the strings does: it meets a difference   *)
(* no later than at the end of the shorter one.                            *)
ft_strncmp(m, str1, str2, n) ==
  FirstDifference(m, str1, str2,
    0 .. Min({n, 1 + Min({ft_strlen(m, str1), ft_strlen(m, str2)})}) - 1)

(* How far str2 matches at str1 + i within len bytes: the inner loop.      *)
Matched(m, str1, str2, i, len) ==
  CHOOSE n \in 0 .. len - i :
    /\ \A k \in 0 .. n - 1 : m[str1 + i + k] = m[str2 + k] /\ m[str1 + i + k] # NUL
    /\ \/ i + n >= len
       \/ m[str1 + i + n] # m[str2 + n]
       \/ m[str1 + i + n] = NUL

(* Seeded fault: the match may run past len. *)
ft_strnstr_Beyond(m, str1, str2, len) ==
  IF m[str2] = NUL
  THEN str1
  ELSE Lowest({str1 + i : i \in {i \in 0 .. Min({len, ft_strlen(m, str1)}) - 1 :
         m[str2 + Matched(m, str1, str2, i, ft_strlen(m, str1))] = NUL}})

ft_strnstr(m, str1, str2, len) ==
  IF m[str2] = NUL
  THEN str1
  ELSE Lowest({str1 + i : i \in {i \in 0 .. Min({len, ft_strlen(m, str1)}) - 1 :
         m[str2 + Matched(m, str1, str2, i, len)] = NUL}})
=============================================================================

-------------------------------- MODULE Strings --------------------------------
(***************************************************************************)
(* The strings libft makes, and the calls of its memory and string         *)
(* functions on any small memory.                                          *)
(*                                                                         *)
(* The caller's memory has the addresses from 1 to LAST, with a NUL at its *)
(* end; what is allocated comes behind, at BLOCK, and is not initialised; *)
(* STACK is where a function has a small array of its own.                 *)
(***************************************************************************)
EXTENDS MemOps, OneCall

CONSTANTS LAST, Bytes

ASSUME StringsAssumption ==
  /\ LAST \in Nat \ {0}
  /\ NUL \in Bytes /\ Bytes \subseteq 0 .. 255

BLOCK == LAST + 1
STACK == -2

------------------------------------------------------------------------------
(* New strings.  An outcome has the memory, the pointer returned, and the  *)
(* bytes that were allocated for it.                                       *)

Outcome(m, ptr, n) == [mem |-> m, ptr |-> ptr, room |-> n]

(* n bytes are had, and filled by the rest of the function, or are not.    *)
Allocated(m, n, filled) == {Outcome(m, NULL, 0), Outcome(filled, BLOCK, n)}

ft_calloc(m, len, size) == Allocated(m, len * size, ft_bzero(m, BLOCK, len * size))

ft_strdup(m, str) ==
  LET len == ft_strlen(m, str)
  IN Allocated(m, len + 1, ft_strlcpy(m, BLOCK, str, len + 1))

ft_strjoin(m, s1, s2) ==
  LET len1 == ft_strlen(m, s1)
      len2 == ft_strlen(m, s2)
  IN Allocated(m, len1 + len2 + 1,
       ft_strlcpy(ft_strlcpy(m, BLOCK, s1, len1 + 1), BLOCK + len1, s2, len2 + 1))

(* The character is made a string in an array of two, gone on return.      *)
charjoin(m, str, c) ==
  {[o EXCEPT !.mem = [a \in DOMAIN @ \ {STACK, STACK + 1} |-> @[a]]]
     : o \in ft_strjoin(Store(Store(m, STACK, c), STACK + 1, NUL), str, STACK)}

(* At most len characters of s from start on.                              *)
ft_substr(m, s, start, len) ==
  LET rest == IF start >= ft_strlen(m, s) THEN 0 ELSE ft_strlen(m, s) - start
      size == Min({len, rest})
      str  == ft_bzero(m, BLOCK, size + 1)
  IN Allocated(m, size + 1,
       IF rest = 0 THEN str ELSE CopyBytes(str, BLOCK, s + start, Upwards(size)))

(* Seeded fault: the last character is taken for the NUL. *)
ft_strtrim_Early(m, s1, set) ==
  LET kept(a) == ft_strchr(m, set, m[a]) = NULL
      first == Min({a \in s1 .. s1 + ft_strlen(m, s1) : m[a] = NUL \/ kept(a)})
      i     == Max({0} \cup {k \in 1 .. ft_strlen(m, first) - 1 : kept(first + k)})
  IN IF s1 = NULL \/ set = NULL
     THEN {Outcome(m, NULL, 0)}
     ELSE ft_substr(m, first, 0, i)

(* The characters of set are cut off at both ends.  The second loop begins *)
(* at the NUL, which is in every set, and never looks at the first one.    *)
ft_strtrim(m, s1, set) ==
  LET kept(a) == ft_strchr(m, set, m[a]) = NULL
      first == Min({a \in s1 .. s1 + ft_strlen(m, s1) : m[a] = NUL \/ kept(a)})
      i     == Max({0} \cup {k \in 1 .. ft_strlen(m, first) - 1 : kept(first + k)})
  IN IF s1 = NULL \/ set = NULL
     THEN {Outcome(m, NULL, 0)}
     ELSE ft_substr(m, first, 0, i + 1)

(* What the caller passes as f: a function of index and character.         *)
change(i, c) == IF i = 0 THEN c ELSE 97

ft_strmapi(m, s) ==
  LET len == ft_strlen(m, s)
  IN Allocated(m, len + 1,
       FoldLeft(LAMBDA str, i : Store(str, BLOCK + i, change(i, m[s + i])),
                ft_bzero(m, BLOCK, len + 1), Upwards(len)))

(* The same in place; f is called until there is a NUL.                    *)
ft_striteri(m, s) ==
  FoldLeft(LAMBDA str, i : Store(str, s + i, change(i, m[s + i])),
           m, Upwards(ft_strlen(m, s)))

------------------------------------------------------------------------------
(* The calls.                                                              *)

Callers  == 1 .. LAST
Memories == {m \in [Callers -> Bytes] : m[LAST] = NUL}

StringsReady == Ready("memory", Memories)

(* fn was called with a, b and n, returned r and allocated some bytes.     *)
StringCall(fn, a, b, n, m, r, allocated) ==
  Called([fn |-> fn, a |-> a, b |-> b, n |-> n, room |-> allocated], m, r)

Inside(a, n) == a + n - 1 <= LAST

(* Bytes are moved: the regions may overlap.                               *)
Move ==
  \E dest, src \in Callers, n \in 0 .. LAST :
    /\ Inside(dest, n) /\ Inside(src, n)
    /\ StringCall("ft_memmove", dest, src, n,
                  ft_memmove(before, dest, src, n), dest, 0)

(* A string is copied to, or behind, another that does not lie in it.      *)
CopyString ==
  \E dest, src \in Callers, size \in 0 .. LAST :
    /\ Inside(dest, size)
    /\ \/ src + ft_strlen(before, src) < dest
       \/ dest + Max({size, ft_strlen(before, dest) + 1}) <= src
    /\ \/ StringCall("ft_strlcpy", dest, src, size, ft_strlcpy(before, dest, src, size),
                 ft_strlen(before, src), 0)
       \/ StringCall("ft_strlcat", dest, src, size, ft_strlcat(before, dest, src, size),
                 ft_strlcat_result(before, dest, src, size), 0)

Looked(fn, a, b, n, r) == StringCall(fn, a, b, n, before, r, 0)

Search ==
  \E str \in Callers :
    \/ \E c \in Bytes :
         \/ Looked("ft_strchr", str, NULL, c, ft_strchr(before, str, c))
         \/ Looked("ft_strrchr", str, NULL, c, ft_strrchr(before, str, c))
    \/ \E c \in Bytes, n \in 0 .. LAST :
         /\ Inside(str, n)
         /\ Looked("ft_memchr", str, c, n, ft_memchr(before, str, c, n))
    \/ \E str2 \in Callers, len \in 0 .. LAST :
         Looked("ft_strnstr", str, str2, len, ft_strnstr(before, str, str2, len))

Compare ==
  \E str1, str2 \in Callers, n \in 0 .. LAST :
    \/ Looked("ft_strncmp", str1, str2, n, ft_strncmp(before, str1, str2, n))
    \/ /\ Inside(str1, n) /\ Inside(str2, n)
       /\ Looked("ft_memcmp", str1, str2, n, ft_memcmp(before, str1, str2, n))

NewString(fn, a, b, n, outcomes) ==
  \E o \in outcomes : StringCall(fn, a, b, n, o.mem, o.ptr, o.room)

Make ==
  \/ \E len, size \in 1 .. 2 :
       NewString("ft_calloc", NULL, len, size, ft_calloc(before, len, size))
  \/ \E s \in Callers :
     \/ NewString("ft_strdup", s, NULL, 0, ft_strdup(before, s))
     \/ NewString("ft_strmapi", s, NULL, 0, ft_strmapi(before, s))
     \/ \E t \in Callers :
          \/ NewString("ft_strjoin", s, t, 0, ft_strjoin(before, s, t))
          \/ NewString("ft_strtrim", s, t, 0, ft_strtrim(before, s, t))
     \/ \E c \in Bytes : NewString("charjoin", s, NULL, c, charjoin(before, s, c))
     \/ \E start, len \in 0 .. LAST :
          NewString("ft_substr", s, start, len, ft_substr(before, s, start, len))

StringCalls ==
  call = NoCall("memory") /\ (Move \/ CopyString \/ Search \/ Compare \/ Make)

------------------------------------------------------------------------------
(* Properties.                                                             *)

(* The text of the string at s.                                            *)
Text(m, s) == [k \in 1 .. ft_strlen(m, s) |-> m[s + k - 1]]

Ascii(text) == \A k \in DOMAIN text : text[k] < 128

(* What was copied by ft_memmove is what the source held before, although  *)
(* the loop goes on reading where it has written; all else is as it was.   *)
MovedBytesAreRight ==
  call.fn = "ft_memmove" =>
    \A a \in Callers :
      after[a] = IF a \in call.a .. call.a + call.n - 1
                 THEN before[call.b + (a - call.a)]
                 ELSE before[a]

(* ft_strlcpy and ft_strlcat write nothing outside the size bytes of dest, *)
(* leave a string there, the first part of the whole, and return a length  *)
(* from which the caller can tell whether it is all of it.                 *)
CopiedStringsFit ==
  LET dest  == call.a
      old   == IF call.fn = "ft_strlcat" THEN Text(before, dest) ELSE <<>>
      whole == old \o Text(before, call.b)
  IN call.fn \in {"ft_strlcpy", "ft_strlcat"} =>
       /\ \A a \in Callers \ (dest .. dest + call.n - 1) : after[a] = before[a]
       /\ call.n > Len(old) =>
            /\ ret = Len(whole)
            /\ Text(after, dest) = SubSeq(whole, 1, Min({Len(whole), call.n - 1}))
       /\ call.n <= Len(old) => ret >= call.n

(* The functions that copy within the caller's memory write what they      *)
(* should, and nothing else.                                               *)
CopiesAreExact == MovedBytesAreRight /\ CopiedStringsFit

(* ft_strnstr finds the first place where all of str2 stands within the    *)
(* first len characters; ft_strchr and ft_strrchr the first and the last   *)
(* place of a character of ASCII, and both find the NUL; on a whole string *)
(* ft_memchr agrees with ft_strchr.                                        *)
SearchesAreRight ==
  LET s == Text(before, call.a) \o <<NUL>>
      t == Text(before, call.b)
      stands(k) == /\ k + Len(t) - 1 <= Min({call.n, Len(s) - 1})
                   /\ SubSeq(s, k, k + Len(t) - 1) = t
      found == IF ret = NULL THEN 0 ELSE ret - call.a + 1
  IN /\ call.fn = "ft_strnstr" =>
          found = Lowest({k \in DOMAIN s : stands(k)})
     /\ call.fn = "ft_strchr" /\ call.n < 128 =>
          found = Lowest({k \in DOMAIN s : s[k] = call.n})
     /\ call.fn = "ft_strrchr" /\ call.n < 128 =>
          found = Highest({k \in DOMAIN s : s[k] = call.n})
     /\ call.fn = "ft_memchr" /\ call.n = Len(s) /\ call.b < 128 =>
          ret = ft_strchr(before, call.a, call.b)

(* The comparisons are antisymmetric, and equal is equal: up to n bytes,   *)
(* for strings also up to their ends.                                      *)
ComparisonsAreOrders ==
  LET UpTo(text) == SubSeq(text, 1, Min({call.n, Len(text)}))
      s == UpTo(Text(before, call.a))
      t == UpTo(Text(before, call.b))
  IN /\ call.fn = "ft_strncmp" =>
          /\ ret = 0 <=> s = t
          /\ ret = -ft_strncmp(before, call.b, call.a, call.n)
     /\ call.fn = "ft_memcmp" =>
          /\ ret = -ft_memcmp(before, call.b, call.a, call.n)
          /\ s = t /\ Len(s) = call.n => ret = 0

(* A new string fits the bytes allocated for it, which are all that is     *)
(* written, and has the text asked for; ft_strmapi makes what ft_striteri  *)
(* makes in place.                                                         *)
NewStringsFit ==
  LET s == Text(before, call.a)
      t == Text(before, call.b)
      kept == {k \in DOMAIN s : s[k] \notin ToSet(t)}
      expected ==
        CASE call.fn = "ft_strdup"  -> s
          [] call.fn = "ft_strmapi" ->
               Text(ft_striteri(before, call.a), call.a)
          [] call.fn = "ft_strjoin" -> s \o t
          [] call.fn = "charjoin"   -> s \o (IF call.n = NUL THEN <<>> ELSE <<call.n>>)
          [] call.fn = "ft_substr"  ->
               SubSeq(s, call.b + 1, Min({Len(s), call.b + call.n}))
          [] call.fn = "ft_strtrim" ->
               IF kept = {} THEN <<>> ELSE SubSeq(s, Min(kept), Max(kept))
          [] call.fn = "ft_calloc"  -> <<>>
  IN "room" \in DOMAIN call /\ call.room > 0 /\ ret = BLOCK =>
       /\ \A a \in Callers : after[a] = before[a]
       /\ DOMAIN after = Callers \cup (BLOCK .. BLOCK + call.room - 1)
       /\ ft_strlen(after, BLOCK) < call.room
       /\ (call.fn = "ft_strtrim" => Ascii(t)) => Text(after, BLOCK) = expected
=============================================================================

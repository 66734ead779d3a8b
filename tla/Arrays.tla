-------------------------------- MODULE Arrays ---------------------------------
(***************************************************************************)
(* The NULL-terminated arrays of strings of libft: ft_split, array_dup,    *)
(* array_free and array_to_str.  The first two allocate a string in each   *)
(* turn of a loop, a step here, and have to undo what they did when an     *)
(* allocation fails.                                                       *)
(*                                                                         *)
(* A string on the heap is a sequence of characters; an array is a function *)
(* from indices to pointers, and an entry nobody set is not in its domain. *)
(***************************************************************************)
EXTENDS Caller

CONSTANTS
  Texts,      \* what is split
  Separators  \* at which characters

ASSUME ArraysAssumption == Texts \subseteq Seq(UNION {ToSet(s) : s \in Texts})

VARIABLES
  arrays,   \* the arrays the caller has, each with the words it should hold
  strings   \* the strings the caller has, each with the text it should hold

------------------------------------------------------------------------------
(* What is asked for.                                                      *)

(* Where the maximal pieces of a text without the separator begin and end. *)
Pieces(text, c) ==
  {w \in (1 .. Len(text)) \X (1 .. Len(text)) :
     /\ w[1] <= w[2] /\ \A k \in w[1] .. w[2] : text[k] # c
     /\ w[1] = 1 \/ text[w[1] - 1] = c
     /\ w[2] = Len(text) \/ text[w[2] + 1] = c}

(* These pieces in order: before the k-th one begin k - 1 others.          *)
Words(text, c) ==
  LET pieces == Pieces(text, c)
      nth(k) == CHOOSE w \in pieces : k = Cardinality({v \in pieces : v[1] <= w[1]})
  IN [k \in 1 .. Cardinality(pieces) |-> SubSeq(text, nth(k)[1], nth(k)[2])]

Joined(words, spliter) ==
  FlattenSeq([k \in DOMAIN words |->
                words[k] \o (IF k = Len(words) THEN <<>> ELSE spliter)])

------------------------------------------------------------------------------
(* The functions.                                                          *)

array_len(h, a) ==
  IF a = NULL THEN 0 ELSE Min({k \in DOMAIN h[a] : h[a][k] = NULL})

Elements(h, a) == [k \in 1 .. array_len(h, a) |-> h[h[a][k - 1]]]

array_char_len(h, a) ==
  LET pieces == Elements(h, a)
      sum[k \in 0 .. Len(pieces)] == IF k = 0 THEN 0 ELSE sum[k - 1] + Len(pieces[k])
  IN sum[Len(pieces)]

FreeEach(h, ptrs) == FoldLeft(free, h, ptrs)

array_free(h, a) ==
  IF a = NULL
  THEN h
  ELSE free(FreeEach(h, [k \in 1 .. array_len(h, a) |-> h[a][k - 1]]), a)

(* Entries nb down to 0, of which the last set one is NULL.                *)
free_split(h, a, nb) ==
  free(FreeEach(h, [k \in 1 .. nb + 1 |-> h[a][nb + 1 - k]]), a)

(* Seeded fault: a separator at the end counts, too. *)
count_split_Trailing(s, c) ==
  LET words == {i \in DOMAIN s : s[i] # c}
  IN IF words = {}
     THEN 0
     ELSE 1 + Cardinality({i \in Min(words) .. Len(s) :
                             s[i] = c /\ (i = Len(s) \/ s[i + 1] # c)})

(* One for what follows the leading separators, then one for each place    *)
(* where a separator is followed by something else.                        *)
count_split(s, c) ==
  LET words == {i \in DOMAIN s : s[i] # c}
  IN IF words = {}
     THEN 0
     ELSE 1 + Cardinality({i \in Min(words) .. Len(s) - 1 :
                             s[i] = c /\ s[i + 1] # c})

(* How many characters from behind the first n on are, or are not, c.      *)
Passed(s, n, c)   == Min({k \in n .. Len(s) : k = Len(s) \/ s[k + 1] # c}) - n
word_len(s, n, c) == Min({k \in n .. Len(s) : k = Len(s) \/ s[k + 1] = c}) - n

(* ft_strlcat: as much of text as a buffer of len characters has room for. *)
Appended(str, text, len) == str \o SubSeq(text, 1, Min({Len(text), len - Len(str)}))

array_to_str_len(h, a, spliter) ==
  array_char_len(h, a) + (IF spliter = <<>> THEN 0 ELSE array_len(h, a))

(* spliter is a sequence of one character, or of none for '\0'.            *)
array_to_str(h, a, spliter) ==
  LET len    == array_to_str_len(h, a, spliter)
      pieces == Elements(h, a)
      str[k \in 0 .. Len(pieces)] ==
        IF k = 0
        THEN <<>>
        ELSE LET more == Appended(str[k - 1], pieces[k], len)
             IN IF k = Len(pieces) THEN more ELSE Appended(more, spliter, len)
  IN malloc(h, str[Len(pieces)])

------------------------------------------------------------------------------
NoArrays == arrays = <<>> /\ strings = <<>>

(* ft_split: room for the words it counts and the NULL behind them.        *)
CallSplit(s, c) ==
  /\ Room
  /\ \E r \in malloc(heap, <<>>) :
       /\ heap' = r.heap
       /\ call' = IF r.ptr = NULL
                  THEN Idle
                  ELSE [op |-> "split", s |-> s, c |-> c, array |-> r.ptr,
                        n |-> 0, nb |-> 0, left |-> count_split(s, c)]
  /\ UNCHANGED <<arrays, strings>>

(* Seeded fault: what was made is left when a word cannot be had. *)
SplitWord_Leak ==
  /\ call.op = "split" /\ call.left > 0
  /\ LET n   == call.n + Passed(call.s, call.n, call.c)
         end == n + word_len(call.s, n, call.c)
     IN \E r \in malloc(heap, SubSeq(call.s, n + 1, end)) :
          LET set == [r.heap EXCEPT ![call.array] = Store(@, call.nb, r.ptr)]
          IN IF r.ptr = NULL
             THEN /\ heap' = free(set, call.array)
                  /\ call' = Idle
             ELSE /\ heap' = set
                  /\ call' = [call EXCEPT !.n = end, !.nb = @ + 1, !.left = @ - 1]
  /\ UNCHANGED <<arrays, strings>>

(* The next word, as a string of its own (ft_substr).                      *)
SplitWord ==
  /\ call.op = "split" /\ call.left > 0
  /\ LET n   == call.n + Passed(call.s, call.n, call.c)
         end == n + word_len(call.s, n, call.c)
     IN \E r \in malloc(heap, SubSeq(call.s, n + 1, end)) :
          LET set == [r.heap EXCEPT ![call.array] = Store(@, call.nb, r.ptr)]
          IN IF r.ptr = NULL
             THEN /\ heap' = free_split(set, call.array, call.nb)
                  /\ call' = Idle
             ELSE /\ heap' = set
                  /\ call' = [call EXCEPT !.n = end, !.nb = @ + 1, !.left = @ - 1]
  /\ UNCHANGED <<arrays, strings>>

SplitDone ==
  /\ call.op = "split" /\ call.left = 0
  /\ heap' = [heap EXCEPT ![call.array] = Store(@, call.nb, NULL)]
  /\ arrays' = Store(arrays, call.array, Words(call.s, call.c))
  /\ call' = Idle
  /\ UNCHANGED strings

(* array_dup: the entries of the copy are NULL from the start.             *)
CallDup(a) ==
  /\ Room
  /\ \E r \in malloc(heap, [k \in 0 .. array_len(heap, a) |-> NULL]) :
       /\ heap' = r.heap
       /\ call' = IF r.ptr = NULL
                  THEN Idle
                  ELSE [op |-> "dup", from |-> a, array |-> r.ptr, i |-> 0]
  /\ UNCHANGED <<arrays, strings>>

DupString ==
  /\ call.op = "dup" /\ call.i < array_len(heap, call.from)
  /\ \E r \in malloc(heap, heap[heap[call.from][call.i]]) :
       IF r.ptr = NULL
       THEN /\ heap' = array_free(heap, call.array)
            /\ call' = Idle
       ELSE /\ heap' = [r.heap EXCEPT ![call.array][call.i] = r.ptr]
            /\ call' = [call EXCEPT !.i = @ + 1]
  /\ UNCHANGED <<arrays, strings>>

DupDone ==
  /\ call.op = "dup" /\ call.i = array_len(heap, call.from)
  /\ arrays' = Store(arrays, call.array, arrays[call.from])
  /\ call' = Idle
  /\ UNCHANGED <<heap, strings>>

ToStr(a, spliter) ==
  /\ Room
  /\ \E r \in array_to_str(heap, a, spliter) :
       /\ heap' = r.heap
       /\ strings' = IF r.ptr = NULL
                     THEN strings
                     ELSE Store(strings, r.ptr, Joined(arrays[a], spliter))
  /\ UNCHANGED <<arrays, call>>

FreeArray(a) ==
  /\ call = Idle
  /\ heap' = array_free(heap, a)
  /\ arrays' = Drop(arrays, a)
  /\ UNCHANGED <<strings, call>>

FreeString(p) ==
  /\ call = Idle
  /\ heap' = free(heap, p)
  /\ strings' = Drop(strings, p)
  /\ UNCHANGED <<arrays, call>>

ArrayStep ==
  \/ \E s \in Texts, c \in Separators : CallSplit(s, c)
  \/ SplitWord \/ SplitDone
  \/ \E a \in DOMAIN arrays : CallDup(a)
  \/ DupString \/ DupDone
  \/ \E a \in DOMAIN arrays, c \in Separators : ToStr(a, <<>>) \/ ToStr(a, <<c>>)
  \/ \E a \in DOMAIN arrays : FreeArray(a)
  \/ \E p \in DOMAIN strings : FreeString(p)

------------------------------------------------------------------------------
(* Properties.                                                             *)

(* An array and its entries.                                               *)
ArrayParts(a) == <<a>> \o [k \in 1 .. array_len(heap, a) |-> heap[a][k - 1]]

(* An array holds the words of what was split, a copy those of its         *)
(* original, also when that is gone.                                       *)
WordsAreRight ==
  \A a \in DOMAIN arrays : Elements(heap, a) = arrays[a]

(* A string made of an array has all its words and a separator between.    *)
StringsAreRight ==
  \A p \in DOMAIN strings : heap[p] = strings[p]
=============================================================================

---------------------------- MODULE StaticsProofs -----------------------------
(***************************************************************************)
(* The functions that keep something in a static variable between calls:   *)
(* get_next_line its table, get_pagesize and get_max_alloc_size what the   *)
(* kernel told them.                                                       *)
(*                                                                         *)
(* Whatever a file holds, however short the reads are and whichever reads  *)
(* and allocations fail: get_next_line loses no buffer, frees none twice,  *)
(* loses no text of a descriptor that met no failure, and hands out lines. *)
(*                                                                         *)
(* The descriptor OPEN_MAX passes the test of the code but has no entry in *)
(* the table, so that the theorems are about callers that do not use it.   *)
(*                                                                         *)
(* The inductive invariant follows the buffers through a call: what is in  *)
(* the table, except for the entry of the descriptor that is being read,   *)
(* which is out of date until the call returns; the lines the caller has;  *)
(* and the buffers that only the locals of the call point to.              *)
(*                                                                         *)
(* For any number of threads, caches and limits: the other two return only *)
(* what the kernel has said, and a cache that is filled settles.           *)
(***************************************************************************)
EXTENDS LineReader, Limits, TLAPS, SequenceTheorems, FiniteSetTheorems,
        WellFoundedInduction, NaturalsInduction

Text == Seq(STRING)

(* The least element of a set of natural numbers.                          *)
LEMMA MinOfSet ==
  ASSUME NEW S \in SUBSET Nat, S # {}
  PROVE  Min(S) \in S /\ \A x \in S : Min(S) <= x
<1>1. PICK a \in S : \A x \in S : ~(<<x, a>> \in OpToRel(<, Nat))
  BY WFMin, NatLessThanWellFounded
<1>2. OpToRel(<, Nat) = {ss \in Nat \X Nat : ss[1] < ss[2]}
  BY DEF OpToRel
<1>3. \A x \in S : a <= x
  <2> TAKE x \in S
  <2>1. x \in Nat /\ a \in Nat
    OBVIOUS
  <2>2. <<x, a>> \notin {ss \in Nat \X Nat : ss[1] < ss[2]}
    BY <1>1, <1>2
  <2> QED
    BY <2>1, <2>2
<1> QED
  BY <1>3 DEF Min

------------------------------------------------------------------------------
(* Buffers.                                                                *)

(* A heap of texts, in which nothing was freed that was not live.          *)
GoodTexts(h) == /\ h \in [DOMAIN h -> Text]
                /\ IsFiniteSet(DOMAIN h)
                /\ DOMAIN h \subseteq Nat \ {NULL}

(* The live buffers are those of the caller, H, those in the table tab,    *)
(* and those of the call, L; each is only one of these.                    *)
Owned(h, H, tab, L) ==
  /\ GoodTexts(h)
  /\ tab \in [DOMAIN tab -> Nat]
  /\ \A p : p \in DOMAIN h <=>
       p \in H \/ p \in L \/ \E d \in DOMAIN tab : tab[d] = p /\ p # NULL
  /\ H \cap L = {}
  /\ \A d \in DOMAIN tab : tab[d] # NULL => tab[d] \notin H /\ tab[d] \notin L
  /\ \A d, e \in DOMAIN tab : tab[d] # NULL /\ tab[d] = tab[e] => d = e

(* The texts of the buffers P are the same in both heaps.                  *)
Same(h, k, P) == \A p \in P : p \in DOMAIN h /\ p \in DOMAIN k => k[p] = h[p]

(* malloc gives out an address that is not in use, or none.                *)
LEMMA FreshIsFree ==
  ASSUME NEW h, GoodTexts(h)
  PROVE  Fresh(h) \in Nat \ {NULL} /\ Fresh(h) \notin DOMAIN h
<1> DEFINE D == DOMAIN h
           n == Cardinality(D)
           F == (1 .. n + 1) \ D
<1>1. IsFiniteSet(D) /\ n \in Nat
  BY FS_CardinalityType DEF GoodTexts
<1>2. F # {}
  <2> SUFFICES ASSUME (1 .. n + 1) \subseteq D
               PROVE  FALSE
    OBVIOUS
  <2> HIDE DEF D
  <2>1. Cardinality(1 .. n + 1) <= Cardinality(D)
    BY <1>1, FS_Subset
  <2>2. Cardinality(1 .. n + 1) = n + 1
    BY <1>1, FS_Interval
  <2> QED
    BY <1>1, <2>1, <2>2
<1>3. F \in SUBSET Nat
  BY <1>1
<1>4. Fresh(h) = Min(F)
  BY DEF Fresh
<1>5. Min(F) \in F
  <2> HIDE DEF F
  <2> QED
    BY <1>2, <1>3, MinOfSet
<1> QED
  BY <1>1, <1>4, <1>5 DEF NULL

(* A new buffer belongs to the call.                                       *)
LEMMA MallocOwned ==
  ASSUME NEW h, NEW H, NEW tab, NEW L, Owned(h, H, tab, L),
         NEW text \in Text, NEW r \in malloc(h, text)
  PROVE  /\ r.ptr = NULL => r.heap = h
         /\ r.ptr # NULL => /\ r.ptr \in Nat /\ r.ptr \notin DOMAIN h
                            /\ r.ptr \in DOMAIN r.heap
                            /\ r.heap[r.ptr] = text
                            /\ Owned(r.heap, H, tab, L \cup {r.ptr})
                            /\ Same(h, r.heap, DOMAIN h)
<1> DEFINE f == Fresh(h)
           k == Store(h, f, text)
<1>1. f \in Nat \ {NULL} /\ f \notin DOMAIN h
  BY FreshIsFree DEF Owned
<1>2. r = Outcome(h, NULL) \/ r = Outcome(k, f)
  BY DEF malloc
<1>3. CASE r = Outcome(h, NULL)
  BY <1>3 DEF Outcome
<1>4. CASE r = Outcome(k, f)
  <2> HIDE DEF f
  <2>1. r.ptr = f /\ r.heap = k
    BY <1>4 DEF Outcome
  <2>2. /\ DOMAIN k = DOMAIN h \cup {f}
        /\ k[f] = text
        /\ \A p \in DOMAIN h : k[p] = h[p]
    BY <1>1 DEF Store
  <2>3. GoodTexts(k)
    <3>1. IsFiniteSet(DOMAIN k)
      BY <2>2, FS_AddElement DEF Owned, GoodTexts
    <3>2. \A p \in DOMAIN k : k[p] \in Text
      BY <1>1, <2>2 DEF Owned, GoodTexts
    <3>3. k = [p \in DOMAIN k |-> k[p]]
      BY DEF Store
    <3>4. DOMAIN k \subseteq Nat \ {NULL}
      BY <1>1, <2>2 DEF Owned, GoodTexts
    <3> HIDE DEF k
    <3> QED
      BY <3>1, <3>2, <3>3, <3>4 DEF GoodTexts
  <2> HIDE DEF k
  <2>4. Owned(k, H, tab, L \cup {f})
    BY <1>1, <2>2, <2>3 DEF Owned
  <2> QED
    BY <1>1, <2>1, <2>2, <2>4 DEF Same
<1> QED
  BY <1>2, <1>3, <1>4

(* Freeing a live buffer removes it and nothing else.                      *)
LEMMA FreeLive ==
  ASSUME NEW h, GoodTexts(h), NEW p \in DOMAIN h
  PROVE  /\ GoodTexts(free(h, p))
         /\ DOMAIN free(h, p) = DOMAIN h \ {p}
         /\ Same(h, free(h, p), DOMAIN h)
<1> DEFINE k == Drop(h, p)
<1>1. p # NULL
  BY DEF GoodTexts
<1>2. free(h, p) = k
  BY <1>1 DEF free
<1>3. /\ DOMAIN k = DOMAIN h \ {p} /\ k = [y \in DOMAIN k |-> k[y]]
      /\ \A y \in DOMAIN k : k[y] = h[y]
  BY DEF Drop
<1>4. IsFiniteSet(DOMAIN k)
  BY <1>3, FS_RemoveElement DEF GoodTexts
<1> HIDE DEF k
<1>5. GoodTexts(k)
  BY <1>3, <1>4 DEF GoodTexts
<1> QED
  BY <1>2, <1>3, <1>5 DEF Same

(* The call frees one of its buffers, or NULL.                             *)
LEMMA FreeOwned ==
  ASSUME NEW h, NEW H, NEW tab, NEW L, Owned(h, H, tab, L),
         NEW p, p \in L \/ p = NULL
  PROVE  /\ Owned(free(h, p), H, tab, L \ {p})
         /\ Same(h, free(h, p), DOMAIN h)
<1>1. CASE p = NULL
  <2>1. free(h, p) = h
    BY <1>1 DEF free
  <2>2. L \ {p} = L
    BY <1>1 DEF Owned, GoodTexts
  <2> QED
    BY <2>1, <2>2 DEF Same
<1>2. CASE p # NULL
  <2> DEFINE k == free(h, p)
  <2>1. p \in L /\ p \in DOMAIN h /\ GoodTexts(h)
    BY <1>2 DEF Owned
  <2>2. GoodTexts(k) /\ DOMAIN k = DOMAIN h \ {p} /\ Same(h, k, DOMAIN h)
    BY <2>1, FreeLive
  <2> HIDE DEF k
  <2>3. Owned(k, H, tab, L \ {p})
    BY <2>1, <2>2 DEF Owned
  <2> QED
    BY <2>2, <2>3 DEF k
<1> QED
  BY <1>1, <1>2

(* The caller frees one of its lines.                                      *)
LEMMA FreeLineOwned ==
  ASSUME NEW h, NEW H, NEW tab, NEW L, Owned(h, H, tab, L), NEW p \in H
  PROVE  /\ Owned(free(h, p), H \ {p}, tab, L)
         /\ Same(h, free(h, p), DOMAIN h)
<1> DEFINE k == free(h, p)
<1>1. p \in DOMAIN h /\ GoodTexts(h)
  BY DEF Owned
<1>2. GoodTexts(k) /\ DOMAIN k = DOMAIN h \ {p} /\ Same(h, k, DOMAIN h)
  BY <1>1, FreeLive
<1> HIDE DEF k
<1>3. Owned(k, H \ {p}, tab, L)
  BY <1>2 DEF Owned
<1> QED
  BY <1>2, <1>3 DEF k

(* What a pointer leads to, and what is kept in the table.                 *)
TextAt(h, p) == IF p = NULL THEN <<>> ELSE h[p]
KeptTexts(h, tab) == [d \in DOMAIN tab |-> TextAt(h, tab[d])]

(* The table with nothing in the entry of d.                               *)
Cleared(tab, d) == [tab EXCEPT ![d] = NULL]

(* A change to other buffers does not show in the table.                   *)
LEMMA SameKept ==
  ASSUME NEW h, NEW H, NEW tab, NEW L, Owned(h, H, tab, L),
         NEW k, NEW K, NEW M, Owned(k, K, tab, M), Same(h, k, DOMAIN h)
  PROVE  KeptTexts(k, tab) = KeptTexts(h, tab)
<1>1. \A d \in DOMAIN tab : TextAt(k, tab[d]) = TextAt(h, tab[d])
  <2> SUFFICES ASSUME NEW d \in DOMAIN tab, tab[d] # NULL
               PROVE  TextAt(k, tab[d]) = TextAt(h, tab[d])
    BY DEF TextAt
  <2>1. tab[d] \in DOMAIN h /\ tab[d] \in DOMAIN k
    BY DEF Owned
  <2> QED
    BY <2>1 DEF TextAt, Same
<1> QED
  BY <1>1 DEF KeptTexts

(* The call takes over what the table has for d.                           *)
LEMMA TakeOutOwned ==
  ASSUME NEW h, NEW H, NEW tab, Owned(h, H, tab, {}), NEW d \in DOMAIN tab
  PROVE  Owned(h, H, Cleared(tab, d), {tab[d]} \ {NULL})
<1> DEFINE t == Cleared(tab, d)
           L == {tab[d]} \ {NULL}
<1>1. tab \in [DOMAIN tab -> Nat] /\ NULL \in Nat
  BY DEF Owned, NULL
<1>2. /\ t \in [DOMAIN tab -> Nat] /\ DOMAIN t = DOMAIN tab
      /\ t[d] = NULL /\ \A e \in DOMAIN tab : e # d => t[e] = tab[e]
  BY <1>1 DEF Cleared
<1>3. \A p : p \in L <=> p = tab[d] /\ p # NULL
  OBVIOUS
<1> HIDE DEF t, L
<1>4. GoodTexts(h) /\ H \cap L = {}
  BY <1>3 DEF Owned
<1>5. \A p : p \in DOMAIN h <=>
       p \in H \/ p \in L \/ \E e \in DOMAIN t : t[e] = p /\ p # NULL
  BY <1>2, <1>3 DEF Owned
<1>6. /\ \A e \in DOMAIN t : t[e] # NULL => t[e] \notin H /\ t[e] \notin L
      /\ \A e, f \in DOMAIN t : t[e] # NULL /\ t[e] = t[f] => e = f
  BY <1>2, <1>3 DEF Owned
<1>7. Owned(h, H, t, L)
  BY <1>2, <1>4, <1>5, <1>6 DEF Owned
<1> QED
  BY <1>7 DEF t, L

(* The call leaves a buffer, or NULL, in the table, and keeps no other.    *)
LEMMA PutInOwned ==
  ASSUME NEW h, NEW H, NEW tab, NEW d \in DOMAIN tab, NEW p \in Nat,
         Owned(h, H, Cleared(tab, d), {p} \ {NULL})
  PROVE  Owned(h, H, [tab EXCEPT ![d] = p], {})
<1> DEFINE t == Cleared(tab, d)
           u == [tab EXCEPT ![d] = p]
           L == {p} \ {NULL}
<1>1. /\ DOMAIN t = DOMAIN tab /\ DOMAIN u = DOMAIN tab
      /\ t[d] = NULL /\ u[d] = p
      /\ \A e \in DOMAIN tab : e # d => u[e] = t[e]
      /\ u = [e \in DOMAIN tab |-> u[e]]
  BY DEF Cleared
<1>2. \A x : x \in L <=> x = p /\ x # NULL
  OBVIOUS
<1>3. Owned(h, H, t, L)
  OBVIOUS
<1> HIDE DEF t, u, L
<1>4. GoodTexts(h) /\ u \in [DOMAIN u -> Nat]
  BY <1>1, <1>3 DEF Owned
<1>5. \A x : x \in DOMAIN h <=> x \in H \/ \E e \in DOMAIN u : u[e] = x /\ x # NULL
  BY <1>1, <1>2, <1>3 DEF Owned
<1>6. /\ \A e \in DOMAIN u : u[e] # NULL => u[e] \notin H
      /\ \A e, f \in DOMAIN u : u[e] # NULL /\ u[e] = u[f] => e = f
  BY <1>1, <1>2, <1>3 DEF Owned
<1>7. Owned(h, H, u, {})
  BY <1>4, <1>5, <1>6 DEF Owned
<1> QED
  BY <1>7 DEF u

(* The caller gets one of the buffers of the call.                         *)
LEMMA HandOutOwned ==
  ASSUME NEW h, NEW H, NEW tab, NEW L, Owned(h, H, tab, L), NEW p \in L
  PROVE  Owned(h, H \cup {p}, tab, L \ {p})
  BY DEF Owned

------------------------------------------------------------------------------
(* The steps of a call.                                                    *)

(* What strjoin_nl returns takes the place of its first argument.          *)
JoinGives(h, H, tab, L, s, text, r) ==
  /\ KeptTexts(r.heap, tab) = KeptTexts(h, tab)
  /\ r.ptr = NULL => Owned(r.heap, H, tab, L \ {s})
  /\ r.ptr # NULL => /\ r.ptr \in Nat /\ r.ptr \notin L
                     /\ Owned(r.heap, H, tab, (L \ {s}) \cup {r.ptr})
                     /\ r.heap[r.ptr] = TextAt(h, s) \o text

LEMMA JoinOwned ==
  ASSUME NEW h, NEW H, NEW tab, NEW L, Owned(h, H, tab, L),
         NEW s, s \in L \/ s = NULL, NEW text \in Text,
         NEW r \in strjoin_nl(h, s, text)
  PROVE  JoinGives(h, H, tab, L, s, text, r)
<1> USE DEF JoinGives
<1> DEFINE first == IF s = NULL THEN malloc(h, <<>>) ELSE {Outcome(h, s)}
<1>1. PICK a \in first :
        r \in IF a.ptr = NULL
              THEN {a}
              ELSE {Outcome(free(b.heap, a.ptr), b.ptr)
                      : b \in malloc(a.heap, a.heap[a.ptr] \o text)}
  BY DEF strjoin_nl
<1>2. <<>> \in Text
  BY EmptySeq DEF Text
<1>3. /\ a.ptr = NULL => s = NULL /\ a.heap = h
      /\ a.ptr # NULL => /\ a.ptr \in DOMAIN a.heap
                         /\ a.heap[a.ptr] = TextAt(h, s)
                         /\ Owned(a.heap, H, tab, L \cup {a.ptr})
                         /\ KeptTexts(a.heap, tab) = KeptTexts(h, tab)
                         /\ DOMAIN h \subseteq DOMAIN a.heap
                         /\ (L \cup {a.ptr}) \ {a.ptr} = L \ {s}
  <2>1. CASE s = NULL
    <3>1. a \in malloc(h, <<>>)
      BY <2>1
    <3>2. /\ a.ptr = NULL => a.heap = h
          /\ a.ptr # NULL => /\ a.ptr \notin DOMAIN h
                             /\ a.ptr \in DOMAIN a.heap
                             /\ a.heap[a.ptr] = <<>>
                             /\ Owned(a.heap, H, tab, L \cup {a.ptr})
                             /\ Same(h, a.heap, DOMAIN h)
      <4> DEFINE nothing == <<>>
      <4>1. nothing \in Text /\ a \in malloc(h, nothing)
        BY <1>2, <3>1
      <4> HIDE DEF first, nothing
      <4>2. /\ a.ptr = NULL => a.heap = h
            /\ a.ptr # NULL => /\ a.ptr \notin DOMAIN h
                               /\ a.ptr \in DOMAIN a.heap
                               /\ a.heap[a.ptr] = nothing
                               /\ Owned(a.heap, H, tab, L \cup {a.ptr})
                               /\ Same(h, a.heap, DOMAIN h)
        BY <4>1, MallocOwned
      <4> QED
        BY <4>2 DEF nothing
    <3>3. a.ptr # NULL => a.ptr \notin L /\ DOMAIN h \subseteq DOMAIN a.heap
      BY <3>2 DEF Owned
    <3>4. NULL \notin L
      BY DEF Owned, GoodTexts
    <3>5. a.ptr # NULL => KeptTexts(a.heap, tab) = KeptTexts(h, tab)
      BY <3>2, SameKept
    <3> QED
      BY <2>1, <3>2, <3>3, <3>4, <3>5 DEF TextAt
  <2>2. CASE s # NULL
    <3>1. a.ptr = s /\ a.heap = h
      BY <2>2 DEF Outcome
    <3>2. s \in L /\ s \in DOMAIN h /\ L \cup {s} = L
      BY <2>2 DEF Owned
    <3> QED
      BY <2>2, <3>1, <3>2 DEF TextAt
  <2> QED
    BY <2>1, <2>2
<1> HIDE DEF first
<1>4. CASE a.ptr = NULL
  <2>1. r = a /\ s = NULL /\ r.heap = h
    BY <1>1, <1>3, <1>4
  <2>2. L \ {s} = L
    BY <2>1 DEF Owned, GoodTexts
  <2> QED
    BY <1>4, <2>1, <2>2
<1>5. CASE a.ptr # NULL
  <2> DEFINE whole == a.heap[a.ptr] \o text
             M == L \cup {a.ptr}
  <2>1. PICK b \in malloc(a.heap, whole) : r = Outcome(free(b.heap, a.ptr), b.ptr)
    BY <1>1, <1>5
  <2>2. r.ptr = b.ptr /\ r.heap = free(b.heap, a.ptr)
    BY <2>1 DEF Outcome
  <2>3. a.heap[a.ptr] \in Text /\ Owned(a.heap, H, tab, M)
    BY <1>3, <1>5 DEF Owned, GoodTexts
  <2>4. whole \in Text
    BY <2>3, ConcatProperties DEF Text
  <2>5. whole = TextAt(h, s) \o text
    BY <1>3, <1>5
  <2>6. a.ptr \in M /\ M \ {a.ptr} = L \ {s}
    BY <1>3, <1>5
  <2>7. DOMAIN h \subseteq DOMAIN a.heap /\ KeptTexts(a.heap, tab) = KeptTexts(h, tab)
    BY <1>3, <1>5
  <2>8. a.ptr \in DOMAIN a.heap
    BY <1>3, <1>5
  <2> HIDE DEF whole, M
  <2>9. CASE b.ptr = NULL
    <3>1. b.heap = a.heap
      <4>1. b \in malloc(a.heap, whole)
        BY <2>1
      <4>2. Fresh(a.heap) # NULL
        BY <2>3, FreshIsFree DEF Owned
      <4> QED
        BY <2>9, <4>1, <4>2 DEF malloc, Outcome
    <3>2. /\ Owned(r.heap, H, tab, M \ {a.ptr})
          /\ Same(a.heap, r.heap, DOMAIN a.heap)
      BY <2>2, <2>3, <2>6, <3>1, FreeOwned
    <3>3. KeptTexts(r.heap, tab) = KeptTexts(h, tab)
      BY <2>3, <2>7, <3>2, SameKept
    <3> QED
      BY <2>2, <2>6, <2>9, <3>2, <3>3
  <2>10. CASE b.ptr # NULL
    <3>1. /\ b.ptr \in Nat /\ b.ptr \notin DOMAIN a.heap
          /\ b.ptr \in DOMAIN b.heap
          /\ b.heap[b.ptr] = whole
          /\ Owned(b.heap, H, tab, M \cup {b.ptr})
          /\ Same(a.heap, b.heap, DOMAIN a.heap)
      BY <2>1, <2>3, <2>4, <2>10, MallocOwned
    <3>2. a.ptr \in M \cup {b.ptr}
      BY <2>6
    <3>3. /\ Owned(r.heap, H, tab, (M \cup {b.ptr}) \ {a.ptr})
          /\ Same(b.heap, r.heap, DOMAIN b.heap)
      BY <2>2, <3>1, <3>2, FreeOwned
    <3>4. b.ptr # a.ptr /\ b.ptr \notin L
      BY <2>7, <2>8, <3>1 DEF Owned
    <3>5. (M \cup {b.ptr}) \ {a.ptr} = (L \ {s}) \cup {b.ptr}
      BY <2>6, <3>4
    <3>6. b.ptr \in DOMAIN r.heap
      BY <3>3, <3>5 DEF Owned
    <3>7. r.heap[b.ptr] = whole
      BY <3>1, <3>3, <3>6 DEF Same
    <3>8. /\ KeptTexts(b.heap, tab) = KeptTexts(a.heap, tab)
          /\ KeptTexts(r.heap, tab) = KeptTexts(b.heap, tab)
      BY <2>3, <3>1, <3>3, SameKept
    <3> QED
      BY <2>2, <2>5, <2>7, <2>10, <3>1, <3>3, <3>4, <3>5, <3>7, <3>8
  <2> QED
    BY <2>9, <2>10
<1> QED
  BY <1>4, <1>5

------------------------------------------------------------------------------
(* The first line of a text, and the rest of it.                           *)

(* NewLineAt finds the first newline.                                      *)
LEMMA NewLineFirst ==
  ASSUME NEW text \in Text
  PROVE  /\ NewLineAt(text) \in 0 .. Len(text)
         /\ NewLineAt(text) # 0 => text[NewLineAt(text)] = NL
         /\ \A i \in 1 .. Len(text) : text[i] = NL =>
              NewLineAt(text) # 0 /\ NewLineAt(text) <= i
<1> DEFINE I == {i \in 1 .. Len(text) : text[i] = NL}
<1>1. NewLineAt(text) = IF I # {} THEN Min(I) ELSE 0
  BY DEF NewLineAt, SelectInSeq
<1>2. Len(text) \in Nat
  BY LenProperties DEF Text
<1>3. I \in SUBSET Nat
  BY <1>2
<1>4. I # {} => Min(I) \in I /\ \A x \in I : Min(I) <= x
  <2> HIDE DEF I
  <2> QED
    BY <1>3, MinOfSet
<1>5. CASE I = {}
  <2>1. NewLineAt(text) = 0 /\ \A i \in 1 .. Len(text) : text[i] # NL
    BY <1>1, <1>5
  <2> QED
    BY <1>2, <2>1
<1>6. CASE I # {}
  <2> DEFINE m == Min(I)
  <2>1. NewLineAt(text) = m /\ m \in I /\ \A x \in I : m <= x
    BY <1>1, <1>4, <1>6
  <2> HIDE DEF m
  <2> QED
    BY <1>2, <2>1
<1> QED
  BY <1>5, <1>6

FirstLine(text) ==
  IF NewLineAt(text) = 0 THEN text ELSE SubSeq(text, 1, NewLineAt(text))
Rest(text) ==
  IF NewLineAt(text) = 0 THEN <<>> ELSE SubSeq(text, NewLineAt(text) + 1, Len(text))

(* A text that is not empty is its first line followed by the rest; the    *)
(* line ends with its only newline, or is all there is.                    *)
LEMMA LineAndRest ==
  ASSUME NEW text \in Text
  PROVE  /\ FirstLine(text) \in Text /\ Rest(text) \in Text
         /\ FirstLine(text) \o Rest(text) = text
         /\ text # <<>> => FirstLine(text) # <<>>
         /\ NewLineAt(text) # 0 => NewLineAt(FirstLine(text)) = Len(FirstLine(text))
<1> DEFINE at == NewLineAt(text)
<1>1. /\ Len(text) \in Nat /\ at \in 0 .. Len(text)
      /\ at # 0 => text[at] = NL
      /\ \A i \in 1 .. Len(text) : text[i] = NL => at # 0 /\ at <= i
  BY NewLineFirst, LenProperties DEF Text
<1>2. CASE at = 0
  BY <1>2, EmptySeq, ConcatEmptySeq DEF FirstLine, Rest, Text
<1>3. CASE at # 0
  <2> DEFINE line == SubSeq(text, 1, at)
             rest == SubSeq(text, at + 1, Len(text))
  <2>1. FirstLine(text) = line /\ Rest(text) = rest
    BY <1>3 DEF FirstLine, Rest
  <2>2. \A i \in 1 .. Len(text) : text[i] \in STRING
    BY ElementOfSeq DEF Text
  <2> HIDE DEF at
  <2>3. line \in Text /\ Len(line) = at /\ \A i \in 1 .. at : line[i] = text[i]
    BY <1>1, <1>3, <2>2, SubSeqProperties DEF Text
  <2>4. rest \in Text
    BY <1>1, <1>3, <2>2, SubSeqProperties DEF Text
  <2>5. line \o rest = text
    <3>1. /\ text \in Seq(STRING) /\ 1 \in 1 .. Len(text) + 1
          /\ at \in 1 - 1 .. Len(text) /\ Len(text) \in at .. Len(text)
      BY <1>1, <1>3 DEF Text
    <3>2. line \o rest = SubSeq(text, 1, Len(text))
      BY <3>1, ConcatAdjacentSubSeq
    <3> QED
      BY <3>2, SubSeqFull DEF Text
  <2> HIDE DEF line, rest
  <2>6. line # <<>>
    BY <1>1, <1>3, <2>3
  <2>7. NewLineAt(line) = at
    <3>1. line[at] = NL /\ at \in 1 .. Len(line)
      BY <1>1, <1>3, <2>3
    <3>2. /\ NewLineAt(line) \in 0 .. at
          /\ NewLineAt(line) # 0 => line[NewLineAt(line)] = NL
          /\ NewLineAt(line) # 0
      BY <2>3, <3>1, NewLineFirst
    <3>3. text[NewLineAt(line)] = NL /\ NewLineAt(line) \in 1 .. Len(text)
      BY <1>1, <2>3, <3>2
    <3> QED
      BY <1>1, <3>2, <3>3
  <2> QED
    BY <1>3, <2>1, <2>3, <2>4, <2>5, <2>6, <2>7 DEF at
<1> QED
  BY <1>2, <1>3

(* substr_nl copies the first line.                                        *)
LineGives(h, H, tab, L, p, r) ==
  /\ r.ptr = NULL => r.heap = h
  /\ r.ptr # NULL => /\ r.ptr \in Nat /\ r.ptr \notin DOMAIN h
                     /\ r.ptr \in DOMAIN r.heap
                     /\ h[p] # <<>>
                     /\ r.heap[r.ptr] = FirstLine(h[p])
                     /\ Owned(r.heap, H, tab, L \cup {r.ptr})
                     /\ Same(h, r.heap, DOMAIN h)

LEMMA LineOwned ==
  ASSUME NEW h, NEW H, NEW tab, NEW L, Owned(h, H, tab, L), NEW p \in L,
         NEW r \in substr_nl(h, p)
  PROVE  LineGives(h, H, tab, L, p, r)
<1> USE DEF LineGives
<1>1. h[p] \in Text
  BY DEF Owned, GoodTexts
<1>2. CASE h[p] = <<>>
  BY <1>2 DEF substr_nl, Outcome
<1>3. CASE h[p] # <<>>
  <2> DEFINE line == FirstLine(h[p])
  <2>1. line \in Text /\ r \in malloc(h, line)
    BY <1>1, <1>3, LineAndRest DEF substr_nl, FirstLine
  <2> HIDE DEF line
  <2>2. /\ r.ptr = NULL => r.heap = h
        /\ r.ptr # NULL => /\ r.ptr \in Nat /\ r.ptr \notin DOMAIN h
                           /\ r.ptr \in DOMAIN r.heap
                           /\ r.heap[r.ptr] = line
                           /\ Owned(r.heap, H, tab, L \cup {r.ptr})
                           /\ Same(h, r.heap, DOMAIN h)
    BY <2>1, MallocOwned
  <2> QED
    BY <1>3, <2>2 DEF line
<1> QED
  BY <1>2, <1>3

(* order_nl gives back the buffer with the text, and copies the rest of it *)
(* when there is some.                                                     *)
RestGives(h, H, tab, L, p, r) ==
  /\ r.ptr \in Nat
  /\ Owned(r.heap, H, tab, (L \ {p}) \cup ({r.ptr} \ {NULL}))
  /\ \A q \in DOMAIN h \ {p} : q \in DOMAIN r.heap /\ r.heap[q] = h[q]
  /\ Same(h, r.heap, DOMAIN h)
  /\ r.ptr # NULL \/ NewLineAt(h[p]) = 0 => TextAt(r.heap, r.ptr) = Rest(h[p])

LEMMA RestOwned ==
  ASSUME NEW h, NEW H, NEW tab, NEW L, Owned(h, H, tab, L), NEW p \in L,
         NEW r \in order_nl(h, p)
  PROVE  RestGives(h, H, tab, L, p, r)
<1> USE DEF RestGives
<1>1. /\ h[p] \in Text /\ GoodTexts(h) /\ p \in DOMAIN h /\ p # NULL
  BY DEF Owned, GoodTexts
<1>2. CASE NewLineAt(h[p]) = 0
  <2>1. r.heap = free(h, p) /\ r.ptr = NULL
    BY <1>2 DEF order_nl, Outcome
  <2>2. /\ Owned(r.heap, H, tab, L \ {p}) /\ Same(h, r.heap, DOMAIN h)
        /\ DOMAIN r.heap = DOMAIN h \ {p}
    BY <1>1, <2>1, FreeOwned, FreeLive
  <2>3. (L \ {p}) \cup ({r.ptr} \ {NULL}) = L \ {p}
    BY <2>1
  <2>4. TextAt(r.heap, r.ptr) = Rest(h[p])
    BY <1>2, <2>1 DEF TextAt, Rest
  <2>5. \A q \in DOMAIN h \ {p} : q \in DOMAIN r.heap /\ r.heap[q] = h[q]
    BY <2>2 DEF Same
  <2> QED
    BY <2>1, <2>2, <2>3, <2>4, <2>5 DEF NULL
<1>3. CASE NewLineAt(h[p]) # 0
  <2> DEFINE rest == Rest(h[p])
  <2>1. rest \in Text /\ rest = SubSeq(h[p], NewLineAt(h[p]) + 1, Len(h[p]))
    BY <1>1, <1>3, LineAndRest DEF Rest
  <2>2. PICK b \in malloc(h, rest) : r = Outcome(free(b.heap, p), b.ptr)
    BY <1>3, <2>1 DEF order_nl
  <2>3. r.heap = free(b.heap, p) /\ r.ptr = b.ptr
    BY <2>2 DEF Outcome
  <2> HIDE DEF rest
  <2>4. CASE b.ptr = NULL
    <3>1. b.heap = h
      BY <1>1, <2>2, <2>4, FreshIsFree DEF malloc, Outcome
    <3>2. /\ Owned(r.heap, H, tab, L \ {p}) /\ Same(h, r.heap, DOMAIN h)
          /\ DOMAIN r.heap = DOMAIN h \ {p}
      BY <1>1, <2>3, <3>1, FreeOwned, FreeLive
    <3>3. (L \ {p}) \cup ({r.ptr} \ {NULL}) = L \ {p}
      BY <2>3, <2>4
    <3>4. \A q \in DOMAIN h \ {p} : q \in DOMAIN r.heap /\ r.heap[q] = h[q]
      BY <3>2 DEF Same
    <3> QED
      BY <1>3, <2>3, <2>4, <3>2, <3>3, <3>4 DEF NULL
  <2>5. CASE b.ptr # NULL
    <3>1. /\ b.ptr \in Nat /\ b.ptr \notin DOMAIN h
          /\ b.ptr \in DOMAIN b.heap /\ b.heap[b.ptr] = rest
          /\ Owned(b.heap, H, tab, L \cup {b.ptr})
          /\ Same(h, b.heap, DOMAIN h)
      <4>1. rest \in Text /\ b \in malloc(h, rest)
        BY <2>1, <2>2
      <4> QED
        BY <2>5, <4>1, MallocOwned, Z3
    <3>2. DOMAIN h \subseteq DOMAIN b.heap
      BY <3>1 DEF Owned
    <3>3. GoodTexts(b.heap) /\ p \in DOMAIN b.heap /\ p \in L \cup {b.ptr}
      BY <1>1, <3>1, <3>2 DEF Owned
    <3>4. /\ Owned(r.heap, H, tab, (L \cup {b.ptr}) \ {p})
          /\ Same(b.heap, r.heap, DOMAIN b.heap)
      BY <2>3, <3>1, <3>3, FreeOwned
    <3>5. DOMAIN r.heap = DOMAIN b.heap \ {p}
      BY <2>3, <3>3, FreeLive
    <3>6. (L \cup {b.ptr}) \ {p} = (L \ {p}) \cup ({r.ptr} \ {NULL})
      BY <1>1, <2>3, <2>5, <3>1
    <3>7. /\ \A q \in DOMAIN h \ {p} : q \in DOMAIN r.heap /\ r.heap[q] = h[q]
          /\ Same(h, r.heap, DOMAIN h)
          /\ r.heap[r.ptr] = rest
      BY <1>1, <2>3, <3>1, <3>2, <3>4, <3>5 DEF Same
    <3> QED
      BY <2>3, <2>5, <3>1, <3>4, <3>6, <3>7 DEF TextAt, rest
  <2> QED
    BY <2>4, <2>5
<1> QED
  BY <1>2, <1>3
------------------------------------------------------------------------------
(* The inductive invariant.                                                *)

LTypes ==
  /\ file \in [Files -> Text] /\ given \in [Files -> Text]
  /\ taken \in [Files -> Nat] /\ \A d \in Files : taken[d] <= Len(file[d])
  /\ DOMAIN temp = 0 .. OPEN_MAX - 1
  /\ str \in Nat /\ res \in Nat
  /\ pc \in {"idle", "entered", "reading", "line"}
  /\ pc # "idle" => fd \in Files

(* Whose the live buffers are, at each point of a call.                    *)
Buffers ==
  /\ pc \in {"idle", "entered"} =>
       /\ str = NULL /\ res = NULL
       /\ Owned(heap, held, temp, {})
  /\ pc = "reading" =>
       /\ res # NULL /\ res # str
       /\ Owned(heap, held, Cleared(temp, fd), {res} \cup ({str} \ {NULL}))
  /\ pc = "line" =>
       Owned(heap, held, Cleared(temp, fd), {str} \ {NULL})

(* The buffer with what was read for d and not handed out yet.             *)
BufferOf(d) == IF pc \in {"reading", "line"} /\ d = fd THEN str ELSE temp[d]

Complete ==
  \A d \in Files : d \notin troubled =>
    given[d] \o TextAt(heap, BufferOf(d)) = SubSeq(file[d], 1, taken[d])

LInv ==
  /\ LTypes
  /\ Buffers
  /\ Complete
  /\ pc = "line" => HasLine \/ taken[fd] = Len(file[fd])

(* A change to other buffers does not show in the entries but d's.         *)
LEMMA KeptElsewhere ==
  ASSUME NEW h, NEW k, NEW tab, NEW d \in DOMAIN tab,
         KeptTexts(k, Cleared(tab, d)) = KeptTexts(h, Cleared(tab, d)),
         NEW e \in DOMAIN tab, e # d
  PROVE  TextAt(k, tab[e]) = TextAt(h, tab[e])
<1> DEFINE t == Cleared(tab, d)
<1>1. DOMAIN t = DOMAIN tab /\ t[e] = tab[e]
  BY DEF Cleared
<1> HIDE DEF t
<1>2. KeptTexts(k, t)[e] = KeptTexts(h, t)[e]
  BY DEF t
<1> QED
  BY <1>1, <1>2 DEF KeptTexts

(* A call that returns with kept in the table keeps the invariant, when    *)
(* that is its only buffer and is the text that was not handed out, or the *)
(* call met a failure.                                                     *)
LEMMA ReturnKeeps ==
  ASSUME LInv, pc # "idle", NEW h, NEW kept \in Nat, Return(h, kept),
         file' = file, fd' = fd,
         taken' \in [Files -> Nat], given' \in [Files -> Text],
         taken'[fd] <= Len(file[fd]),
         \A d \in Files \ {fd} : taken'[d] = taken[d] /\ given'[d] = given[d],
         troubled \subseteq troubled',
         Owned(h, held', Cleared(temp, fd), {kept} \ {NULL}),
         KeptTexts(h, Cleared(temp, fd)) = KeptTexts(heap, Cleared(temp, fd)),
         fd \in troubled' \/
           given'[fd] \o TextAt(h, kept) = SubSeq(file[fd], 1, taken'[fd])
  PROVE  LInv'
<1>1. fd \in DOMAIN temp /\ fd \in Files /\ Files \subseteq DOMAIN temp
  BY DEF LInv, LTypes, Files
<1>2. /\ heap' = h /\ temp' = [temp EXCEPT ![fd] = kept]
      /\ pc' = "idle" /\ str' = NULL /\ res' = NULL
  BY DEF Return
<1>3. Owned(heap', held', temp', {})
  BY <1>1, <1>2, PutInOwned
<1>4. /\ DOMAIN temp' = DOMAIN temp /\ temp'[fd] = kept
      /\ \A d \in Files \ {fd} : temp'[d] = temp[d]
  BY <1>1, <1>2
<1>5. \A d \in Files \ {fd} : TextAt(h, temp[d]) = TextAt(heap, temp[d])
  BY <1>1, KeptElsewhere
<1>6. LTypes'
  BY <1>2, <1>4 DEF LInv, LTypes, NULL, Files
<1>7. Buffers'
  BY <1>2, <1>3 DEF Buffers
<1>8. Complete'
  <2> SUFFICES ASSUME NEW d \in Files, d \notin troubled'
               PROVE  given'[d] \o TextAt(heap', temp'[d])
                        = SubSeq(file[d], 1, taken'[d])
    BY <1>2 DEF Complete, BufferOf, Files
  <2>1. CASE d = fd
    BY <1>2, <1>4, <2>1
  <2>2. CASE d # fd
    <3>1. given[d] \o TextAt(heap, temp[d]) = SubSeq(file[d], 1, taken[d])
      BY <2>2 DEF LInv, Complete, BufferOf
    <3> QED
      BY <1>2, <1>4, <1>5, <2>2, <3>1
  <2> QED
    BY <2>1, <2>2
<1> QED
  BY <1>2, <1>6, <1>7, <1>8 DEF LInv

(* The invariant holds at the start.                                       *)
LEMMA InitKeeps == ASSUME Init PROVE LInv
<1> USE LineReaderAssumption
<1>1. LTypes
  BY EmptySeq DEF Init, LTypes, Text, NULL, Files
<1>2. Owned(heap, held, temp, {})
  BY FS_EmptySet DEF Init, Owned, GoodTexts, NULL
<1>3. Complete
  BY EmptySeq, SubSeqEmpty, ConcatEmptySeq
     DEF Init, Complete, BufferOf, TextAt, Files
<1> QED
  BY <1>1, <1>2, <1>3 DEF Init, LInv, Buffers

(* A call for a descriptor below OPEN_MAX.                                 *)
LEMMA CallKeeps ==
  ASSUME OPEN_MAX \notin FDs, LInv, NEW d \in FDs, Call(d)
  PROVE  LInv'
<1>1. d \in Files
  BY LineReaderAssumption DEF Call, Files
<1>2. LTypes'
  BY <1>1 DEF LInv, LTypes, Call, Files
<1>3. Buffers'
  BY DEF LInv, Buffers, Call
<1>4. Complete'
  BY DEF LInv, Complete, BufferOf, Call, Files
<1> QED
  BY <1>2, <1>3, <1>4 DEF LInv, Call

(* The caller frees a line of its own.                                     *)
LEMMA FreeLineKeeps ==
  ASSUME LInv, NEW line \in held, FreeLine(line)
  PROVE  LInv'
<1>1. /\ Owned(heap, held, temp, {}) /\ heap' = free(heap, line)
      /\ held' = held \ {line} /\ pc = "idle"
      /\ UNCHANGED <<file, taken, temp, given, troubled, pc, fd, str, res>>
  BY DEF LInv, Buffers, FreeLine
<1>2. Owned(heap', held', temp, {}) /\ Same(heap, heap', DOMAIN heap)
  BY <1>1, FreeLineOwned
<1>3. KeptTexts(heap', temp) = KeptTexts(heap, temp)
  BY <1>1, <1>2, SameKept
<1>4. \A d \in DOMAIN temp : TextAt(heap', temp[d]) = TextAt(heap, temp[d])
  <2> TAKE d \in DOMAIN temp
  <2>1. KeptTexts(heap', temp)[d] = KeptTexts(heap, temp)[d]
    BY <1>3
  <2> QED
    BY <2>1 DEF KeptTexts
<1>5. LTypes'
  BY <1>1 DEF LInv, LTypes, Files
<1>6. Buffers'
  BY <1>1, <1>2 DEF LInv, Buffers
<1>7. Complete'
  BY <1>1, <1>4 DEF LInv, LTypes, Complete, BufferOf, Files
<1> QED
  BY <1>1, <1>5, <1>6, <1>7 DEF LInv

(* The steps: each keeps the invariant.                                    *)
LEMMA EnterKeeps ==
  ASSUME LInv, Enter
  PROVE  LInv'
<1> DEFINE t == Cleared(temp, fd)
           p == temp[fd]
           L == {p} \ {NULL}
           none == <<>>
<1>1. /\ pc = "entered" /\ fd \in Files /\ fd \in DOMAIN temp
      /\ str = NULL /\ res = NULL /\ Owned(heap, held, temp, {})
      /\ UNCHANGED <<file, taken, fd>>
  BY DEF LInv, LTypes, Buffers, Files, Enter
<1>2. Owned(heap, held, t, L)
  BY <1>1, TakeOutOwned
<1>3. PICK r \in malloc(heap, none) :
        IF r.ptr = NULL
        THEN ReturnNull(free(heap, p), TRUE)
        ELSE /\ heap' = r.heap /\ res' = r.ptr /\ str' = p
             /\ pc' = "reading"
             /\ UNCHANGED <<temp, held, given, troubled>>
  BY DEF Enter
<1>4. none \in Text /\ p \in Nat
  BY <1>1, EmptySeq DEF Text, Owned
<1>5. CASE r.ptr = NULL
  <2> DEFINE h == free(heap, p)
  <2>1. p \in L \/ p = NULL
    OBVIOUS
  <2> HIDE DEF t
  <2>2. L \ {p} = {NULL} \ {NULL}
    OBVIOUS
  <2> HIDE DEF p, L
  <2>3. Owned(h, held, t, L \ {p}) /\ Same(heap, h, DOMAIN heap)
    BY <1>2, <2>1, FreeOwned
  <2>4. KeptTexts(h, t) = KeptTexts(heap, t)
    BY <1>2, <2>3, SameKept
  <2>5. /\ Return(h, NULL) /\ troubled' = troubled \cup {fd}
        /\ held' = held /\ given' = given
    BY <1>3, <1>5 DEF ReturnNull
  <2> HIDE DEF h
  <2>6. Owned(h, held', Cleared(temp, fd), {NULL} \ {NULL})
    BY <2>2, <2>3, <2>5 DEF t
  <2>7. KeptTexts(h, Cleared(temp, fd)) = KeptTexts(heap, Cleared(temp, fd))
    BY <2>4 DEF t
  <2>8. /\ NULL \in Nat
        /\ taken' \in [Files -> Nat] /\ given' \in [Files -> Text]
        /\ taken'[fd] <= Len(file[fd])
        /\ \A d \in Files \ {fd} : taken'[d] = taken[d] /\ given'[d] = given[d]
        /\ troubled \subseteq troubled' /\ fd \in troubled'
    BY <1>1, <2>5 DEF LInv, LTypes, NULL
  <2> QED
    BY <1>1, <2>5, <2>6, <2>7, <2>8, ReturnKeeps
<1>6. CASE r.ptr # NULL
  <2>1. /\ heap' = r.heap /\ res' = r.ptr /\ str' = p /\ pc' = "reading"
        /\ UNCHANGED <<temp, held, given, troubled>>
    BY <1>3, <1>6
  <2>2. p # NULL => p \in DOMAIN heap
    BY <1>1 DEF Owned
  <2>3. L \cup {r.ptr} = {res'} \cup ({str'} \ {NULL})
    BY <2>1
  <2> HIDE DEF t, p, L, none
  <2>4. /\ r.ptr \in Nat /\ r.ptr \notin DOMAIN heap
        /\ Owned(r.heap, held, t, L \cup {r.ptr})
        /\ Same(heap, r.heap, DOMAIN heap)
    <3>1. r \in malloc(heap, none)
      OBVIOUS
    <3> QED
      BY <1>2, <1>4, <1>6, <3>1, MallocOwned, Z3
  <2>5. KeptTexts(r.heap, t) = KeptTexts(heap, t)
    BY <1>2, <2>4, SameKept
  <2>6. TextAt(r.heap, p) = TextAt(heap, p)
    <3>1. p # NULL => p \in L /\ p \in L \cup {r.ptr}
      BY DEF L
    <3>2. p # NULL => p \in DOMAIN r.heap
      BY <2>4, <3>1 DEF Owned
    <3> QED
      BY <2>2, <2>4, <3>2 DEF TextAt, Same
  <2>7. \A d \in Files \ {fd} : TextAt(heap', temp[d]) = TextAt(heap, temp[d])
    <3>1. Files \subseteq DOMAIN temp
      BY DEF LInv, LTypes, Files
    <3> QED
      BY <1>1, <2>1, <2>5, <3>1, KeptElsewhere DEF t
  <2>8. LTypes'
    BY <1>1, <1>4, <2>1, <2>4 DEF LInv, LTypes, Files
  <2>9. Buffers'
    <3>1. res' # NULL /\ res' # str'
      BY <1>6, <2>1, <2>2, <2>4
    <3>2. Owned(heap', held', Cleared(temp', fd'), {res'} \cup ({str'} \ {NULL}))
      BY <1>1, <2>1, <2>3, <2>4 DEF t
    <3> QED
      BY <2>1, <3>1, <3>2 DEF Buffers
  <2>10. Complete'
    <3> SUFFICES ASSUME NEW d \in Files, d \notin troubled
                 PROVE  given[d] \o TextAt(heap', IF d = fd THEN p ELSE temp[d])
                          = SubSeq(file[d], 1, taken[d])
      BY <1>1, <2>1 DEF Complete, BufferOf, Files
    <3>1. given[d] \o TextAt(heap, temp[d]) = SubSeq(file[d], 1, taken[d])
      BY <1>1 DEF LInv, Complete, BufferOf
    <3>2. CASE d = fd
      BY <2>1, <2>6, <3>1, <3>2 DEF p
    <3>3. CASE d # fd
      BY <2>7, <3>1, <3>3
    <3> QED
      BY <3>2, <3>3
  <2> QED
    BY <2>1, <2>8, <2>9, <2>10 DEF LInv
<1> QED
  BY <1>5, <1>6

(* A failed read gives both buffers of the call back.                      *)
LEMMA ReadFailsKeeps ==
  ASSUME LInv, ReadFails
  PROVE  LInv'
<1> DEFINE t == Cleared(temp, fd)
           L == {res} \cup ({str} \ {NULL})
           h == free(heap, res)
           k == free(h, str)
<1>1. /\ pc = "reading" /\ fd \in Files /\ fd \in DOMAIN temp
      /\ res # NULL /\ res # str /\ Owned(heap, held, t, L)
      /\ UNCHANGED <<file, taken, fd>>
      /\ Return(k, NULL) /\ troubled' = troubled \cup {fd}
      /\ held' = held /\ given' = given
  BY DEF LInv, LTypes, Buffers, Files, ReadFails, ReturnNull
<1>2. L \ {res} = {str} \ {NULL}
  BY <1>1
<1>3. ({str} \ {NULL}) \ {str} = {NULL} \ {NULL}
  OBVIOUS
<1>4. res \in L
  OBVIOUS
<1> HIDE DEF t, L, h, k
<1>5. Owned(h, held, t, L \ {res}) /\ Same(heap, h, DOMAIN heap)
  BY <1>1, <1>4, FreeOwned DEF h
<1> DEFINE M == {str} \ {NULL}
<1>6. str \in M \/ str = NULL
  OBVIOUS
<1>7. Owned(h, held, t, M) /\ M \ {str} = {NULL} \ {NULL}
  BY <1>2, <1>3, <1>5
<1> HIDE DEF M
<1>8. Owned(k, held, t, M \ {str}) /\ Same(h, k, DOMAIN h)
  BY <1>6, <1>7, FreeOwned DEF k
<1>9. KeptTexts(h, t) = KeptTexts(heap, t) /\ KeptTexts(k, t) = KeptTexts(h, t)
  <2>1. KeptTexts(h, t) = KeptTexts(heap, t)
    BY <1>1, <1>5, SameKept
  <2>2. KeptTexts(k, t) = KeptTexts(h, t)
    BY <1>7, <1>8, SameKept
  <2> QED
    BY <2>1, <2>2
<1>10. Owned(k, held', Cleared(temp, fd), {NULL} \ {NULL})
  BY <1>1, <1>7, <1>8 DEF t
<1>11. KeptTexts(k, Cleared(temp, fd)) = KeptTexts(heap, Cleared(temp, fd))
  BY <1>9 DEF t
<1>12. /\ NULL \in Nat
       /\ taken' \in [Files -> Nat] /\ given' \in [Files -> Text]
       /\ taken'[fd] <= Len(file[fd])
       /\ \A d \in Files \ {fd} : taken'[d] = taken[d] /\ given'[d] = given[d]
       /\ troubled \subseteq troubled' /\ fd \in troubled'
  BY <1>1 DEF LInv, LTypes, NULL
<1> QED
  BY <1>1, <1>10, <1>11, <1>12, ReturnKeeps

(* Joining texts is associative.                                           *)
LEMMA JoinedTexts ==
  ASSUME NEW x \in Text, NEW y \in Text, NEW z \in Text
  PROVE  (x \o y) \o z = x \o (y \o z)
  BY ConcatAssociative DEF Text

(* The piece that is read ends in the file.                                *)
LEMMA PieceInFile ==
  ASSUME LInv, pc = "reading",
         NEW n \in 1 .. Min({BUFFER_SIZE, Len(file[fd]) - taken[fd]})
  PROVE  /\ n \in Nat /\ taken[fd] \in Nat /\ taken[fd] + n <= Len(file[fd])
         /\ SubSeq(file[fd], taken[fd] + 1, taken[fd] + n) \in Text
         /\ SubSeq(file[fd], 1, taken[fd])
              \o SubSeq(file[fd], taken[fd] + 1, taken[fd] + n)
              = SubSeq(file[fd], 1, taken[fd] + n)
<1> DEFINE f == file[fd]
           a == taken[fd]
           left == Len(f) - a
           S == {BUFFER_SIZE, left}
<1>1. f \in Text /\ a \in Nat /\ Len(f) \in Nat /\ a <= Len(f)
  BY LenProperties DEF LInv, LTypes, Text
<1> HIDE DEF f, a
<1>2. left \in Nat /\ BUFFER_SIZE \in Nat
  BY <1>1, LineReaderAssumption
<1>3. S \in SUBSET Nat /\ S # {} /\ left \in S
  BY <1>2
<1>4. n \in 1 .. Min(S)
  BY DEF f, a
<1> HIDE DEF S
<1>5. Min(S) \in S /\ Min(S) <= left
  BY <1>3, MinOfSet
<1>6. Min(S) \in Nat
  BY <1>3, <1>5
<1>7. n \in Nat /\ n >= 1 /\ a + n <= Len(f)
  BY <1>1, <1>2, <1>4, <1>5, <1>6
<1>8. \A i \in 1 .. Len(f) : f[i] \in STRING
  BY <1>1, ElementOfSeq DEF Text
<1>9. SubSeq(f, a + 1, a + n) \in Text
  <2>1. \A i \in a + 1 .. a + n : f[i] \in STRING
    BY <1>1, <1>7, <1>8
  <2> QED
    BY <1>1, <1>7, <2>1, SubSeqProperties DEF Text
<1>10. SubSeq(f, 1, a) \o SubSeq(f, a + 1, a + n) = SubSeq(f, 1, a + n)
  <2>1. /\ f \in Seq(STRING) /\ 1 \in 1 .. Len(f) + 1
        /\ a \in 1 - 1 .. Len(f) /\ a + n \in a .. Len(f)
    BY <1>1, <1>7 DEF Text
  <2> QED
    BY <2>1, ConcatAdjacentSubSeq
<1> QED
  BY <1>1, <1>7, <1>9, <1>10 DEF f, a

(* A piece is joined to the text, or the call gives all it had back.       *)
LEMMA ReadSomeKeeps ==
  ASSUME LInv, ReadSome
  PROVE  LInv'
<1> DEFINE t == Cleared(temp, fd)
           L == {res} \cup ({str} \ {NULL})
<1>1. /\ pc = "reading" /\ fd \in Files /\ fd \in DOMAIN temp
      /\ res # NULL /\ res # str /\ str \in Nat /\ Owned(heap, held, t, L)
      /\ UNCHANGED <<file, fd>>
  BY DEF LInv, LTypes, Buffers, Files, ReadSome
<1>2. PICK n \in 1 .. Min({BUFFER_SIZE, Len(file[fd]) - taken[fd]}) :
        /\ taken' = [taken EXCEPT ![fd] = @ + n]
        /\ \E r \in strjoin_nl(heap, str,
                               SubSeq(file[fd], taken[fd] + 1, taken[fd] + n)) :
             IF r.ptr = NULL
             THEN ReturnNull(free(r.heap, res), TRUE)
             ELSE /\ heap' = r.heap /\ str' = r.ptr
                  /\ UNCHANGED <<temp, held, given, troubled, pc, res>>
  BY DEF ReadSome
<1> DEFINE piece == SubSeq(file[fd], taken[fd] + 1, taken[fd] + n)
<1>3. PICK r \in strjoin_nl(heap, str, piece) :
        IF r.ptr = NULL
        THEN ReturnNull(free(r.heap, res), TRUE)
        ELSE /\ heap' = r.heap /\ str' = r.ptr
             /\ UNCHANGED <<temp, held, given, troubled, pc, res>>
  BY <1>2
<1>4. /\ n \in Nat /\ taken[fd] \in Nat /\ taken[fd] + n <= Len(file[fd])
      /\ piece \in Text
      /\ SubSeq(file[fd], 1, taken[fd]) \o piece
           = SubSeq(file[fd], 1, taken[fd] + n)
  BY <1>1, PieceInFile
<1> HIDE DEF piece
<1>5. /\ taken' \in [Files -> Nat] /\ taken'[fd] = taken[fd] + n
      /\ \A d \in Files \ {fd} : taken'[d] = taken[d]
      /\ \A d \in Files : taken'[d] <= Len(file[d])
  <2>1. taken \in [Files -> Nat] /\ \A d \in Files : taken[d] <= Len(file[d])
    BY DEF LInv, LTypes
  <2> QED
    BY <1>1, <1>2, <1>4, <2>1
<1>6. L \ {str} = {res} /\ (str \in L \/ str = NULL) /\ res \in L
  BY <1>1
<1> HIDE DEF t, L
<1>7. /\ KeptTexts(r.heap, t) = KeptTexts(heap, t)
      /\ r.ptr = NULL => Owned(r.heap, held, t, L \ {str})
      /\ r.ptr # NULL => /\ r.ptr \in Nat /\ r.ptr \notin L
                         /\ Owned(r.heap, held, t, (L \ {str}) \cup {r.ptr})
                         /\ r.heap[r.ptr] = TextAt(heap, str) \o piece
  <2>1. r \in strjoin_nl(heap, str, piece)
    OBVIOUS
  <2>2. /\ Owned(heap, held, t, L) /\ piece \in Text
        /\ str \in L \/ str = NULL
    BY <1>1, <1>4, <1>6
  <2>3. JoinGives(heap, held, t, L, str, piece, r)
    BY <2>1, <2>2, JoinOwned
  <2> QED
    BY <2>3 DEF JoinGives
<1>8. CASE r.ptr = NULL
  <2> DEFINE M == L \ {str}
             h == free(r.heap, res)
  <2>1. Owned(r.heap, held, t, M) /\ res \in M /\ M \ {res} = {NULL} \ {NULL}
    BY <1>6, <1>7, <1>8
  <2>2. /\ Return(h, NULL) /\ troubled' = troubled \cup {fd}
        /\ held' = held /\ given' = given
    BY <1>3, <1>8 DEF ReturnNull
  <2> HIDE DEF M, h
  <2>3. Owned(h, held, t, M \ {res}) /\ Same(r.heap, h, DOMAIN r.heap)
    BY <2>1, FreeOwned DEF h
  <2>4. KeptTexts(h, t) = KeptTexts(r.heap, t)
    BY <2>1, <2>3, SameKept
  <2>5. Owned(h, held', Cleared(temp, fd), {NULL} \ {NULL})
    BY <2>1, <2>2, <2>3 DEF t
  <2>6. KeptTexts(h, Cleared(temp, fd)) = KeptTexts(heap, Cleared(temp, fd))
    BY <1>7, <2>4 DEF t
  <2>7. /\ NULL \in Nat /\ given' \in [Files -> Text]
        /\ \A d \in Files \ {fd} : taken'[d] = taken[d] /\ given'[d] = given[d]
        /\ taken'[fd] <= Len(file[fd])
        /\ troubled \subseteq troubled' /\ fd \in troubled'
    BY <1>1, <1>5, <2>2 DEF LInv, LTypes, NULL
  <2> QED
    BY <1>1, <1>5, <2>2, <2>5, <2>6, <2>7, ReturnKeeps
<1>9. CASE r.ptr # NULL
  <2>1. /\ heap' = r.heap /\ str' = r.ptr
        /\ UNCHANGED <<temp, held, given, troubled, pc, res>>
    BY <1>3, <1>9
  <2>2. /\ r.ptr \in Nat /\ r.ptr # res
        /\ Owned(r.heap, held, t, {res} \cup {r.ptr})
        /\ TextAt(heap', str') = TextAt(heap, str) \o piece
    BY <1>6, <1>7, <1>9, <2>1 DEF TextAt
  <2>3. {res} \cup {r.ptr} = {res'} \cup ({str'} \ {NULL})
    BY <1>9, <2>1
  <2>4. \A d \in Files \ {fd} : TextAt(heap', temp[d]) = TextAt(heap, temp[d])
    <3>1. Files \subseteq DOMAIN temp
      BY DEF LInv, LTypes, Files
    <3> QED
      BY <1>1, <1>7, <2>1, <3>1, KeptElsewhere DEF t
  <2>5. LTypes'
    BY <1>1, <1>5, <2>1, <2>2 DEF LInv, LTypes, Files
  <2>6. Buffers'
    <3>1. Owned(heap', held', Cleared(temp', fd'), {res'} \cup ({str'} \ {NULL}))
      BY <1>1, <2>1, <2>2, <2>3 DEF t
    <3> QED
      BY <1>1, <2>1, <2>2, <3>1 DEF Buffers
  <2>7. Complete'
    <3> SUFFICES ASSUME NEW d \in Files, d \notin troubled
                 PROVE  given[d] \o TextAt(heap', IF d = fd THEN str' ELSE temp[d])
                          = SubSeq(file[d], 1, taken'[d])
      BY <1>1, <2>1 DEF Complete, BufferOf, Files
    <3>1. CASE d = fd
      <4> DEFINE x == TextAt(heap, str)
      <4>1. given[fd] \o x = SubSeq(file[fd], 1, taken[fd])
        BY <1>1, <3>1 DEF LInv, Complete, BufferOf
      <4>2. given[fd] \in Text /\ x \in Text
        <5>1. given[fd] \in Text
          BY <1>1 DEF LInv, LTypes
        <5>2. str # NULL => heap[str] \in Text
          BY <1>1, <1>6 DEF Owned, GoodTexts
        <5> QED
          BY <5>1, <5>2, EmptySeq DEF TextAt, Text
      <4> HIDE DEF x
      <4>3. (given[fd] \o x) \o piece = given[fd] \o (x \o piece)
        BY <1>4, <4>2, JoinedTexts
      <4>4. TextAt(heap', str') = x \o piece
        BY <2>2 DEF x
      <4> QED
        BY <1>4, <1>5, <3>1, <4>1, <4>3, <4>4
    <3>2. CASE d # fd
      <4>1. given[d] \o TextAt(heap, temp[d]) = SubSeq(file[d], 1, taken[d])
        BY <3>2 DEF LInv, Complete, BufferOf
      <4> QED
        BY <1>5, <2>4, <3>2, <4>1
    <3> QED
      BY <3>1, <3>2
  <2> QED
    BY <1>1, <2>1, <2>5, <2>6, <2>7 DEF LInv
<1> QED
  BY <1>8, <1>9

(* The buffer that was read into is given back.                            *)
LEMMA StopReadingKeeps ==
  ASSUME LInv, StopReading
  PROVE  LInv'
<1> DEFINE t == Cleared(temp, fd)
           L == {res} \cup ({str} \ {NULL})
           h == free(heap, res)
<1>1. /\ pc = "reading" /\ fd \in Files /\ fd \in DOMAIN temp
      /\ res # NULL /\ res # str /\ Owned(heap, held, t, L)
      /\ HasLine \/ taken[fd] = Len(file[fd])
      /\ heap' = h /\ pc' = "line"
      /\ UNCHANGED <<file, taken, temp, held, given, troubled, fd, str, res>>
  BY DEF LInv, LTypes, Buffers, Files, StopReading
<1>2. L \ {res} = {str} \ {NULL} /\ res \in L /\ (str # NULL => str \in L)
  BY <1>1
<1> HIDE DEF t, L, h
<1>3. Owned(h, held, t, L \ {res}) /\ Same(heap, h, DOMAIN heap)
  BY <1>1, <1>2, FreeOwned DEF h
<1>4. KeptTexts(h, t) = KeptTexts(heap, t)
  BY <1>1, <1>3, SameKept
<1>5. str # NULL => str \in DOMAIN heap /\ str \in DOMAIN h /\ h[str] = heap[str]
  <2>1. str # NULL => str \in DOMAIN heap
    BY <1>1, <1>2 DEF Owned
  <2>2. str # NULL => str \in L \ {res}
    BY <1>1, <1>2
  <2>3. str # NULL => str \in DOMAIN h
    BY <1>3, <2>2 DEF Owned
  <2> QED
    BY <1>3, <2>1, <2>3 DEF Same
<1>6. \A d \in Files \ {fd} : TextAt(heap', temp[d]) = TextAt(heap, temp[d])
  <2>1. Files \subseteq DOMAIN temp
    BY DEF LInv, LTypes, Files
  <2> QED
    BY <1>1, <1>4, <2>1, KeptElsewhere DEF t
<1>7. TextAt(heap', str) = TextAt(heap, str)
  BY <1>1, <1>5 DEF TextAt
<1>8. LTypes'
  BY <1>1 DEF LInv, LTypes, Files
<1>9. Buffers'
  <2>1. Owned(heap', held', Cleared(temp', fd'), {str'} \ {NULL})
    BY <1>1, <1>2, <1>3 DEF t
  <2> QED
    BY <1>1, <2>1 DEF Buffers
<1>10. Complete'
  BY <1>1, <1>6, <1>7 DEF LInv, Complete, BufferOf, Files
<1>11. (HasLine \/ taken[fd] = Len(file[fd]))'
  <2>1. CASE HasLine
    BY <1>1, <1>5, <2>1 DEF HasLine
  <2>2. CASE taken[fd] = Len(file[fd])
    BY <1>1, <2>2
  <2> QED
    BY <1>1, <2>1, <2>2
<1> QED
  BY <1>8, <1>9, <1>10, <1>11 DEF LInv

(* The line that is given out: it is not one that the caller has, and the  *)
(* call met no failure if it is followed by what is kept.                  *)
LineGiven(line, rest, text) ==
  /\ line.ptr \notin held
  /\ heap' = rest.heap
  /\ held' = held \cup {line.ptr}
  /\ Return(rest.heap, rest.ptr)
  /\ rest.ptr \in Nat
  /\ given' = [given EXCEPT ![fd] = @ \o FirstLine(text)]
  /\ troubled' = troubled \cup
       (IF rest.ptr = NULL /\ NewLineAt(text) # 0 THEN {fd} ELSE {})
  /\ Owned(rest.heap, held', Cleared(temp, fd), {rest.ptr} \ {NULL})
  /\ KeptTexts(rest.heap, Cleared(temp, fd)) = KeptTexts(heap, Cleared(temp, fd))
  /\ rest.heap[line.ptr] = FirstLine(text)
  /\ rest.ptr # NULL \/ NewLineAt(text) = 0 =>
       TextAt(rest.heap, rest.ptr) = Rest(text)

(* How a call can end once it has stopped reading.                         *)
LEMMA GiveLineGives ==
  ASSUME LInv, GiveLine
  PROVE  \/ str = NULL /\ ReturnNull(heap, FALSE)
         \/ str # NULL /\ ReturnNull(free(heap, str), heap[str] # <<>>)
         \/ /\ str # NULL /\ heap[str] # <<>>
            /\ \E line, rest : LineGiven(line, rest, heap[str])
<1>1. /\ pc = "line" /\ Owned(heap, held, Cleared(temp, fd), {str} \ {NULL})
  BY DEF LInv, Buffers, GiveLine
<1>2. CASE str = NULL
  BY <1>2 DEF GiveLine
<1>3. CASE str # NULL
  <2> DEFINE t == Cleared(temp, fd)
             L == {str} \ {NULL}
             text == heap[str]
  <2>1. PICK line \in substr_nl(heap, str) :
          IF line.ptr = NULL
          THEN ReturnNull(free(heap, str), heap[str] # <<>>)
          ELSE \E rest \in order_nl(line.heap, str) :
                 /\ Return(rest.heap, rest.ptr)
                 /\ held' = held \cup {line.ptr}
                 /\ given' = [given EXCEPT ![fd] = @ \o line.heap[line.ptr]]
                 /\ troubled' = troubled \cup
                      (IF rest.ptr = NULL /\ NewLineAt(heap[str]) # 0
                       THEN {fd} ELSE {})
    BY <1>3 DEF GiveLine
  <2>2. CASE line.ptr = NULL
    BY <1>3, <2>1, <2>2
  <2>3. CASE line.ptr # NULL
    <3>1. PICK rest \in order_nl(line.heap, str) :
            /\ Return(rest.heap, rest.ptr)
            /\ held' = held \cup {line.ptr}
            /\ given' = [given EXCEPT ![fd] = @ \o line.heap[line.ptr]]
            /\ troubled' = troubled \cup
                 (IF rest.ptr = NULL /\ NewLineAt(heap[str]) # 0
                  THEN {fd} ELSE {})
      BY <2>1, <2>3
    <3>2. str \in L /\ Owned(heap, held, t, L) /\ L = {str} /\ str \in DOMAIN heap
      BY <1>1, <1>3 DEF Owned
    <3> DEFINE M == L \cup {line.ptr}
               H == held \cup {line.ptr}
    <3> HIDE DEF t, L
    <3>3. /\ line.ptr \in Nat /\ line.ptr \notin DOMAIN heap
          /\ line.ptr \in DOMAIN line.heap
          /\ text # <<>>
          /\ line.heap[line.ptr] = FirstLine(text)
          /\ Owned(line.heap, held, t, M)
          /\ Same(heap, line.heap, DOMAIN heap)
      <4>1. line \in substr_nl(heap, str)
        OBVIOUS
      <4>2. LineGives(heap, held, t, L, str, line)
        BY <3>2, <4>1, LineOwned
      <4> QED
        BY <2>3, <4>2 DEF LineGives
    <3>4. line.ptr \in M /\ str \in M /\ line.ptr # str
      BY <3>2, <3>3
    <3>5. line.ptr \notin held
      BY <3>2, <3>3 DEF Owned
    <3>6. str \in DOMAIN line.heap /\ line.heap[str] = text
      BY <3>2, <3>3, <3>4 DEF Owned, Same
    <3>7. M \ {line.ptr} = {str}
      BY <3>2, <3>4
    <3> HIDE DEF M, H, text
    <3>8. Owned(line.heap, H, t, M \ {line.ptr})
      BY <3>3, <3>4, HandOutOwned DEF H
    <3> DEFINE N == {str}
    <3>9. Owned(line.heap, H, t, N) /\ str \in N
      BY <3>7, <3>8
    <3> HIDE DEF N
    <3>10. /\ rest.ptr \in Nat
           /\ Owned(rest.heap, H, t, (N \ {str}) \cup ({rest.ptr} \ {NULL}))
           /\ \A q \in DOMAIN line.heap \ {str} :
                q \in DOMAIN rest.heap /\ rest.heap[q] = line.heap[q]
           /\ Same(line.heap, rest.heap, DOMAIN line.heap)
           /\ rest.ptr # NULL \/ NewLineAt(line.heap[str]) = 0 =>
                TextAt(rest.heap, rest.ptr) = Rest(line.heap[str])
      <4>1. rest \in order_nl(line.heap, str)
        OBVIOUS
      <4>2. RestGives(line.heap, H, t, N, str, rest)
        BY <3>9, <4>1, RestOwned
      <4> QED
        BY <4>2 DEF RestGives
    <3>11. Owned(rest.heap, H, t, {rest.ptr} \ {NULL})
      <4>1. (N \ {str}) \cup ({rest.ptr} \ {NULL}) = {rest.ptr} \ {NULL}
        BY DEF N
      <4> QED
        BY <3>10, <4>1
    <3>12. /\ KeptTexts(line.heap, t) = KeptTexts(heap, t)
           /\ KeptTexts(rest.heap, t) = KeptTexts(line.heap, t)
      <4>1. KeptTexts(line.heap, t) = KeptTexts(heap, t)
        BY <3>2, <3>3, SameKept
      <4> DEFINE R == {rest.ptr} \ {NULL}
      <4>2. Owned(rest.heap, H, t, R)
        BY <3>11
      <4> HIDE DEF R
      <4>3. KeptTexts(rest.heap, t) = KeptTexts(line.heap, t)
        BY <3>9, <3>10, <4>2, SameKept
      <4> QED
        BY <4>1, <4>3
    <3>13. rest.heap[line.ptr] = FirstLine(text)
      BY <3>3, <3>4, <3>10
    <3>14. heap' = rest.heap
      BY <3>1 DEF Return
    <3>15. held' = H
      BY <3>1 DEF H
    <3>16. LineGiven(line, rest, text)
      BY <3>1, <3>3, <3>5, <3>6, <3>10, <3>11, <3>12, <3>13, <3>14, <3>15
         DEF LineGiven, t, text
    <3> QED
      BY <1>3, <3>3, <3>16 DEF text
  <2> QED
    BY <2>2, <2>3
<1> QED
  BY <1>2, <1>3

(* The end of a call leaves the text that is due where it belongs.         *)
LEMMA GiveLineKeeps ==
  ASSUME LInv, GiveLine
  PROVE  LInv'
<1> DEFINE t == Cleared(temp, fd)
           L == {str} \ {NULL}
<1>1. /\ pc = "line" /\ fd \in Files /\ fd \in DOMAIN temp /\ NULL \in Nat
      /\ Owned(heap, held, t, L)
      /\ file' = file /\ taken' = taken /\ fd' = fd
      /\ taken' \in [Files -> Nat] /\ taken'[fd] <= Len(file[fd])
      /\ given \in [Files -> Text]
  BY DEF LInv, LTypes, Buffers, Files, GiveLine, NULL
<1>2. fd \notin troubled =>
        given[fd] \o TextAt(heap, str) = SubSeq(file[fd], 1, taken'[fd])
  BY <1>1 DEF LInv, Complete, BufferOf
<1>3. str # NULL => str \in L /\ heap[str] \in Text
  BY <1>1 DEF Owned, GoodTexts
<1>4. CASE str = NULL /\ ReturnNull(heap, FALSE)
  <2>1. /\ Return(heap, NULL) /\ troubled' = troubled
        /\ held' = held /\ given' = given
    BY <1>4 DEF ReturnNull
  <2>2. /\ Owned(heap, held', Cleared(temp, fd), {NULL} \ {NULL})
        /\ fd \in troubled' \/
             given'[fd] \o TextAt(heap, NULL) = SubSeq(file[fd], 1, taken'[fd])
        /\ given' \in [Files -> Text] /\ troubled \subseteq troubled'
        /\ \A d \in Files \ {fd} : taken'[d] = taken[d] /\ given'[d] = given[d]
    BY <1>1, <1>2, <1>4, <2>1
  <2> QED
    BY <1>1, <2>1, <2>2, ReturnKeeps
<1>5. CASE str # NULL /\ ReturnNull(free(heap, str), heap[str] # <<>>)
  <2> DEFINE h == free(heap, str)
  <2>1. /\ Return(h, NULL) /\ held' = held /\ given' = given
        /\ troubled' = troubled \cup (IF heap[str] # <<>> THEN {fd} ELSE {})
    BY <1>5 DEF ReturnNull
  <2>2. L \ {str} = {NULL} \ {NULL}
    OBVIOUS
  <2> HIDE DEF t, L, h
  <2>3. Owned(h, held, t, L \ {str}) /\ Same(heap, h, DOMAIN heap)
    BY <1>1, <1>3, <1>5, FreeOwned DEF h
  <2>4. KeptTexts(h, t) = KeptTexts(heap, t)
    BY <1>1, <2>3, SameKept
  <2>5. fd \in troubled' \/
          given'[fd] \o TextAt(h, NULL) = SubSeq(file[fd], 1, taken'[fd])
    <3>1. CASE heap[str] = <<>>
      <4>1. TextAt(h, NULL) = TextAt(heap, str)
        BY <1>5, <3>1 DEF TextAt
      <4> QED
        BY <1>2, <2>1, <4>1
    <3>2. CASE heap[str] # <<>>
      BY <2>1, <3>2
    <3> QED
      BY <3>1, <3>2
  <2>6. /\ Owned(h, held', Cleared(temp, fd), {NULL} \ {NULL})
        /\ KeptTexts(h, Cleared(temp, fd)) = KeptTexts(heap, Cleared(temp, fd))
    BY <2>1, <2>2, <2>3, <2>4 DEF t
  <2>7. /\ given' \in [Files -> Text] /\ troubled \subseteq troubled'
        /\ \A d \in Files \ {fd} : taken'[d] = taken[d] /\ given'[d] = given[d]
    BY <1>1, <2>1
  <2> QED
    BY <1>1, <2>1, <2>5, <2>6, <2>7, ReturnKeeps
<1>6. ASSUME NEW line, NEW rest, str # NULL, LineGiven(line, rest, heap[str])
      PROVE  LInv'
  <2> DEFINE text == heap[str]
  <2>1. text \in Text /\ TextAt(heap, str) = text
    BY <1>3, <1>6 DEF TextAt
  <2> HIDE DEF text
  <2>2. /\ Return(rest.heap, rest.ptr) /\ rest.ptr \in Nat
        /\ given' = [given EXCEPT ![fd] = @ \o FirstLine(text)]
        /\ troubled' = troubled \cup
             (IF rest.ptr = NULL /\ NewLineAt(text) # 0 THEN {fd} ELSE {})
        /\ Owned(rest.heap, held', Cleared(temp, fd), {rest.ptr} \ {NULL})
        /\ KeptTexts(rest.heap, Cleared(temp, fd))
             = KeptTexts(heap, Cleared(temp, fd))
        /\ rest.ptr # NULL \/ NewLineAt(text) = 0 =>
             TextAt(rest.heap, rest.ptr) = Rest(text)
    BY <1>6 DEF LineGiven, text
  <2>3. /\ FirstLine(text) \in Text /\ Rest(text) \in Text
        /\ FirstLine(text) \o Rest(text) = text
    BY <2>1, LineAndRest
  <2>4. given[fd] \in Text /\ given[fd] \o FirstLine(text) \in Text
    BY <1>1, <2>3, ConcatProperties DEF Text
  <2>5. /\ given' \in [Files -> Text] /\ troubled \subseteq troubled'
        /\ given'[fd] = given[fd] \o FirstLine(text)
        /\ \A d \in Files \ {fd} : taken'[d] = taken[d] /\ given'[d] = given[d]
    BY <1>1, <2>2, <2>4
  <2>6. fd \in troubled' \/
          given'[fd] \o TextAt(rest.heap, rest.ptr)
            = SubSeq(file[fd], 1, taken'[fd])
    <3> SUFFICES ASSUME fd \notin troubled'
                 PROVE  given'[fd] \o TextAt(rest.heap, rest.ptr)
                          = SubSeq(file[fd], 1, taken'[fd])
      OBVIOUS
    <3>1. fd \notin troubled /\ TextAt(rest.heap, rest.ptr) = Rest(text)
      BY <2>2
    <3>2. (given[fd] \o FirstLine(text)) \o Rest(text) = given[fd] \o text
      <4>1. (given[fd] \o FirstLine(text)) \o Rest(text)
              = given[fd] \o (FirstLine(text) \o Rest(text))
        BY <2>3, <2>4, JoinedTexts
      <4> QED
        BY <2>3, <4>1
    <3> QED
      BY <1>2, <2>1, <2>5, <3>1, <3>2
  <2> QED
    BY <1>1, <2>2, <2>5, <2>6, ReturnKeeps
<1> QED
  BY <1>4, <1>5, <1>6, GiveLineGives

(* Every step keeps the invariant.                                         *)
LEMMA StepKeeps ==
  ASSUME OPEN_MAX \notin FDs, LInv, [Next]_vars
  PROVE  LInv'
<1>1. CASE \E d \in FDs : Call(d)
  BY <1>1, CallKeeps
<1>2. CASE Inside
  BY <1>2, EnterKeeps, ReadFailsKeeps, ReadSomeKeeps, StopReadingKeeps,
     GiveLineKeeps DEF Inside
<1>3. CASE \E line \in held : FreeLine(line)
  BY <1>3, FreeLineKeeps
<1>4. CASE UNCHANGED vars
  <2>1. /\ UNCHANGED <<file, taken, heap, temp, held, given>>
        /\ UNCHANGED <<troubled, pc, fd, str, res>>
    BY <1>4 DEF vars
  <2>2. LTypes'
    BY <2>1 DEF LInv, LTypes, Files
  <2>3. Buffers'
    BY <2>1 DEF LInv, Buffers
  <2>4. Complete'
    BY <2>1 DEF LInv, Complete, BufferOf, Files
  <2>5. (pc = "line" => HasLine \/ taken[fd] = Len(file[fd]))'
    BY <2>1 DEF LInv, HasLine
  <2> QED
    BY <2>2, <2>3, <2>4, <2>5 DEF LInv
<1> QED
  BY <1>1, <1>2, <1>3, <1>4 DEF Next

------------------------------------------------------------------------------
(* The theorems.                                                           *)

(* The invariant holds of every run whose caller stays below OPEN_MAX.     *)
THEOREM LineReaderInvariance ==
  ASSUME OPEN_MAX \notin FDs
  PROVE  Spec => []LInv
<1>1. Init => LInv
  BY InitKeeps
<1>2. LInv /\ [Next]_vars => LInv'
  BY StepKeeps
<1> QED
  BY <1>1, <1>2, PTL DEF Spec

(* Between calls every live buffer is a line of the caller or is kept for  *)
(* one descriptor, whichever reads and allocations failed.                 *)
THEOREM BuffersAlwaysHaveOwners ==
  ASSUME OPEN_MAX \notin FDs
  PROVE  Spec => []BuffersHaveOwners
<1>1. LInv => BuffersHaveOwners
  <2> SUFFICES ASSUME LInv, pc = "idle"
               PROVE  LET kept == {d \in DOMAIN temp : temp[d] # NULL} IN
                      /\ DOMAIN heap = held \cup {temp[d] : d \in kept}
                      /\ \A d \in kept : temp[d] \notin held
                      /\ \A d, e \in kept : temp[d] = temp[e] => d = e
    BY DEF BuffersHaveOwners
  <2>1. Owned(heap, held, temp, {})
    BY DEF LInv, Buffers
  <2> QED
    BY <2>1 DEF Owned
<1> QED
  BY <1>1, LineReaderInvariance, PTL

(* What was read of a file is what was handed out followed by what is      *)
(* kept, as long as no call for its descriptor met a failure.              *)
THEOREM NothingEverLost ==
  ASSUME OPEN_MAX \notin FDs
  PROVE  Spec => []NothingLost
<1>1. LInv => NothingLost
  BY DEF LInv, Complete, BufferOf, TextAt, NothingLost
<1> QED
  BY <1>1, LineReaderInvariance, PTL

(* What is handed out is a line: it ends with its only newline, or with    *)
(* the file.                                                               *)
THEOREM OnlyLinesHandedOut ==
  ASSUME OPEN_MAX \notin FDs
  PROVE  Spec => LinesAreLines
<1> DEFINE Lines ==
      \A line \in held' \ held :
        LET text == heap'[line] IN
        \/ NewLineAt(text) = Len(text) /\ text # <<>>
        \/ NewLineAt(text) = 0 /\ text # <<>> /\ taken[fd] = Len(file[fd])
<1>1. LInv /\ [Next]_vars => [Lines]_vars
  <2> SUFFICES ASSUME LInv, Next, NEW given_out \in held', given_out \notin held
               PROVE  LET text == heap'[given_out] IN
                      \/ NewLineAt(text) = Len(text) /\ text # <<>>
                      \/ /\ NewLineAt(text) = 0 /\ text # <<>>
                         /\ taken[fd] = Len(file[fd])
    OBVIOUS
  <2>1. GiveLine
    BY DEF Next, Inside, Call, Enter, ReadFails, ReadSome, StopReading,
           FreeLine, ReturnNull
  <2>2. PICK line, rest : /\ str # NULL /\ heap[str] # <<>>
                          /\ LineGiven(line, rest, heap[str])
    BY <2>1, GiveLineGives DEF ReturnNull
  <2>3. given_out = line.ptr /\ heap'[given_out] = FirstLine(heap[str])
    BY <2>2 DEF LineGiven
  <2>4. heap[str] \in Text /\ (HasLine \/ taken[fd] = Len(file[fd]))
    <3>1. pc = "line" /\ Owned(heap, held, Cleared(temp, fd), {str} \ {NULL})
      BY <2>1 DEF LInv, Buffers, GiveLine
    <3>2. str \in DOMAIN heap
      BY <2>2, <3>1 DEF Owned
    <3> QED
      BY <3>1, <3>2 DEF LInv, Owned, GoodTexts
  <2>5. CASE NewLineAt(heap[str]) # 0
    BY <2>2, <2>3, <2>4, <2>5, LineAndRest
  <2>6. CASE NewLineAt(heap[str]) = 0
    BY <2>2, <2>3, <2>4, <2>6 DEF FirstLine, HasLine
  <2> QED
    BY <2>5, <2>6
<1>2. Spec => [][Lines]_vars
  BY <1>1, LineReaderInvariance, PTL DEF Spec
<1> QED
  BY <1>2 DEF LinesAreLines

------------------------------------------------------------------------------
(* The caches of Limits.                                                   *)

CacheCalls == [pc    : {"idle", "test", "ask", "save", "return"},
               cache : Caches \cup {"none"},
               value : Int]

CachesTyped ==
  /\ cached \in [Caches -> Int]
  /\ call \in [Threads -> CacheCalls]
  /\ answers \in [Caches -> SUBSET Int]
  /\ rlim_cur \in had /\ had \subseteq RLimits
  /\ failed \in BOOLEAN
  /\ \A t \in Threads : call[t].pc # "idle" => call[t].cache \in Caches

(* What the kernel has said to those who fill the cache c.                 *)
Real(c) ==
  IF c \in PageCaches
  THEN {PAGESIZE}
  ELSE had \cup (IF failed THEN {SIZE_MAX} ELSE {})

CachesReal == \A c \in Caches : cached[c] = 0 \/ cached[c] \in Real(c)

(* What a thread is about to store, or to return, is real; and so is what  *)
(* is kept by then, even if it is a limit of zero.                         *)
CallReal(t) ==
  /\ At(t, "save") => call[t].value \in Real(call[t].cache)
  /\ At(t, "return") => /\ call[t].value \in Real(call[t].cache)
                        /\ cached[call[t].cache] \in Real(call[t].cache)

CallsReal == \A t \in Threads : CallReal(t)

AnswersInv == \A c \in Caches : answers[c] \subseteq Real(c)

CachesInv == CachesTyped /\ CachesReal /\ CallsReal /\ AnswersInv

------------------------------------------------------------------------------
LEMMA LimitFacts ==
  /\ PAGESIZE \in Int /\ PAGESIZE # 0 /\ SIZE_MAX \in Int /\ RLimits \subseteq Int
  /\ PageCaches \subseteq Caches /\ LimitCaches \subseteq Caches
  /\ LimitCaches \cap PageCaches = {}
  /\ \A c \in Caches : c \in PageCaches \/ c \in LimitCaches
BY LimitsAssumption DEF Caches

LEMMA CachesInitially == CachesInit => CachesInv
<1> SUFFICES ASSUME CachesInit PROVE CachesInv
  OBVIOUS
<1>1. \A t \in Threads : call[t] = Idle
  BY DEF CachesInit
<1>2. rlim_cur \in RLimits /\ had = {rlim_cur} /\ failed \in BOOLEAN
  BY DEF CachesInit
<1>3. call \in [Threads -> CacheCalls]
  BY DEF CachesInit, Idle, CacheCalls
<1>4. /\ cached \in [Caches -> Int] /\ \A c \in Caches : cached[c] = 0
      /\ answers \in [Caches -> SUBSET Int] /\ \A c \in Caches : answers[c] = {}
  BY DEF CachesInit
<1>5. CachesTyped
  BY <1>1, <1>2, <1>3, <1>4 DEF CachesTyped, Idle
<1>6. CachesReal /\ AnswersInv
  BY <1>4 DEF CachesReal, AnswersInv
<1>7. CallsReal
  BY <1>1 DEF CallsReal, CallReal, At, Idle
<1> QED  BY <1>5, <1>6, <1>7 DEF CachesInv

(* What was real stays real as long as limits and failures only add up.    *)
LEMMA StaysReal ==
  ASSUME CachesTyped, had \subseteq had', failed' \in BOOLEAN, failed => failed',
         NEW c
  PROVE  Real(c) \subseteq Real(c)'
BY DEF Real, CachesTyped

LEMMA RealIsInt ==
  ASSUME CachesTyped, NEW c
  PROVE  Real(c) \subseteq Int
BY LimitFacts DEF CachesTyped, Real

LEMMA CacheBegins ==
  ASSUME CachesInv, NEW t \in Threads, Begin(t)
  PROVE  CachesInv'
<1> USE DEF CachesInv, At
<1>1. PICK c \in Caches :
        call' = [call EXCEPT ![t] = [pc |-> "test", cache |-> c, value |-> 0]]
  BY DEF Begin
<1>2. UNCHANGED <<rlim_cur, cached, answers, had, failed>>
  BY DEF Begin
<1>3. CachesTyped'
  BY <1>1, <1>2 DEF CachesTyped, CacheCalls
<1>4. CachesReal' /\ AnswersInv'
  BY <1>2 DEF CachesReal, AnswersInv, Real
<1>5. CallsReal'
  BY <1>1, <1>2 DEF CallsReal, CallReal, Real, CachesTyped
<1> QED  BY <1>3, <1>4, <1>5

LEMMA CacheTested ==
  ASSUME CachesInv, NEW t \in Threads, Test(t)
  PROVE  CachesInv'
<1> USE DEF CachesInv, At
<1> DEFINE c == call[t].cache
<1>1. /\ call[t].pc = "test" /\ c \in Caches
      /\ cached[c] \in Int
  BY DEF Test, CachesTyped
<1>2. UNCHANGED <<rlim_cur, cached, answers, had, failed>>
  BY DEF Test
<1>3. call' = IF cached[c] # 0
              THEN [call EXCEPT ![t].pc = "return", ![t].value = cached[c]]
              ELSE [call EXCEPT ![t].pc = "ask", ![t].value = 0]
  BY DEF Test, Goto
<1>4. CachesTyped'
  BY <1>1, <1>2, <1>3 DEF CachesTyped, CacheCalls
<1>5. CachesReal' /\ AnswersInv'
  BY <1>2 DEF CachesReal, AnswersInv, Real
<1>6. cached[c] # 0 => cached[c] \in Real(c)
  BY <1>1 DEF CachesReal
<1>7. CallsReal'
  <2> SUFFICES ASSUME NEW u \in Threads PROVE CallReal(u)'
    BY DEF CallsReal
  <2>1. CASE u # t
    BY <1>2, <1>3, <2>1 DEF CallsReal, CallReal, Real, CachesTyped
  <2>2. CASE u = t /\ cached[c] # 0
    BY <1>1, <1>2, <1>3, <1>6, <2>2 DEF CallReal, Real, CachesTyped, CacheCalls
  <2>3. CASE u = t /\ cached[c] = 0
    BY <1>1, <1>2, <1>3, <2>3 DEF CallReal, Real, CachesTyped, CacheCalls
  <2> QED  BY <2>1, <2>2, <2>3
<1> QED  BY <1>4, <1>5, <1>7

LEMMA CacheAsks ==
  ASSUME CachesInv, NEW t \in Threads, Ask(t)
  PROVE  CachesInv'
<1> USE DEF CachesInv, At
<1>1. PICK c \in Caches : c = call[t].cache /\ call[t].pc = "ask"
  BY DEF Ask, CachesTyped
<1>2. UNCHANGED <<rlim_cur, cached, answers, had>>
  BY DEF Ask
<1>3. PICK v : /\ call' = [call EXCEPT ![t].pc = "save", ![t].value = v]
               /\ \/ c \in PageCaches /\ v = PAGESIZE /\ failed' = failed
                  \/ c \in LimitCaches /\ v = rlim_cur /\ failed' = failed
                  \/ c \in LimitCaches /\ v = SIZE_MAX /\ failed' = TRUE
  BY <1>1 DEF Ask, Goto
<1>4. v \in Real(c)' /\ v \in Int
  BY <1>2, <1>3, LimitFacts DEF Real, CachesTyped
<1>5. CachesTyped'
  BY <1>1, <1>2, <1>3, <1>4 DEF CachesTyped, CacheCalls
<1>6. \A d : Real(d) \subseteq Real(d)'
  BY <1>2, <1>3, <1>5, StaysReal DEF CachesTyped
<1>7. CachesReal' /\ AnswersInv'
  BY <1>2, <1>6 DEF CachesReal, AnswersInv
<1>8. CallsReal'
  <2> SUFFICES ASSUME NEW u \in Threads PROVE CallReal(u)'
    BY DEF CallsReal
  <2>1. CASE u # t
    BY <1>2, <1>3, <1>6, <2>1 DEF CallsReal, CallReal, CachesTyped
  <2>2. CASE u = t
    <3>1. call'[u].pc = "save" /\ call'[u].value = v /\ call'[u].cache = c
      BY <1>1, <1>3, <2>2 DEF CachesTyped, CacheCalls
    <3> QED  BY <1>4, <3>1 DEF CallReal
  <2> QED  BY <2>1, <2>2
<1> QED  BY <1>5, <1>7, <1>8

LEMMA CacheSaves ==
  ASSUME CachesInv, NEW t \in Threads, Save(t)
  PROVE  CachesInv'
<1> USE DEF CachesInv, At
<1> DEFINE c == call[t].cache
           v == call[t].value
<1>1. /\ call[t].pc = "save" /\ c \in Caches /\ v \in Int
      /\ v \in Real(c)
  BY DEF Save, CachesTyped, CallsReal, CallReal, CacheCalls
<1>2. UNCHANGED <<rlim_cur, answers, had, failed>>
  BY DEF Save
<1>3. /\ cached' = [cached EXCEPT ![c] = v]
      /\ call' = [call EXCEPT ![t].pc = "return", ![t].value = v]
  BY DEF Save, Goto
<1>4. CachesTyped'
  BY <1>1, <1>2, <1>3 DEF CachesTyped, CacheCalls
<1>5. \A d : Real(d)' = Real(d)
  BY <1>2 DEF Real
<1>6. CachesReal' /\ AnswersInv'
  BY <1>1, <1>2, <1>3, <1>5 DEF CachesReal, AnswersInv, CachesTyped
<1>7. CallsReal'
  <2> SUFFICES ASSUME NEW u \in Threads PROVE CallReal(u)'
    BY DEF CallsReal
  <2>1. CASE u # t
    <3>1. call'[u] = call[u]
      BY <1>3, <2>1 DEF CachesTyped
    <3>2. CallReal(u)
      BY DEF CallsReal
    <3>3. \A d \in Caches : cached[d] \in Real(d) => cached'[d] \in Real(d)
      BY <1>1, <1>3 DEF CachesTyped
    <3>4. call[u].pc = "return" => call[u].cache \in Caches
      BY DEF CachesTyped
    <3> QED  BY <1>5, <3>1, <3>2, <3>3, <3>4 DEF CallReal
  <2>2. CASE u = t
    <3>1. /\ call'[u].pc = "return" /\ call'[u].value = v /\ call'[u].cache = c
          /\ cached'[c] = v
      BY <1>1, <1>3, <2>2 DEF CachesTyped, CacheCalls
    <3> QED  BY <1>1, <1>5, <3>1 DEF CallReal
  <2> QED  BY <2>1, <2>2
<1> QED  BY <1>4, <1>6, <1>7

LEMMA CacheReturns ==
  ASSUME CachesInv, NEW t \in Threads, Answer(t)
  PROVE  CachesInv'
<1> USE DEF CachesInv, At
<1> DEFINE c == call[t].cache
<1>1. /\ call[t].pc = "return" /\ c \in Caches
      /\ call[t].value \in Real(c) /\ cached[c] \in Real(c)
  BY DEF Answer, CachesTyped, CallsReal, CallReal
<1>2. UNCHANGED <<rlim_cur, cached, had, failed>>
  BY DEF Answer
<1>3. PICK v \in {call[t].value, cached[c]} :
        answers' = [answers EXCEPT ![c] = @ \cup {v}]
  BY DEF Answer
<1>4. call' = [call EXCEPT ![t] = Idle]
  BY DEF Answer
<1>5. v \in Real(c) /\ v \in Int
  BY <1>1, <1>3, RealIsInt
<1>6. CachesTyped'
  BY <1>1, <1>2, <1>3, <1>4, <1>5 DEF CachesTyped, CacheCalls, Idle
<1>7. \A d : Real(d)' = Real(d)
  BY <1>2 DEF Real
<1>8. CachesReal'
  BY <1>2, <1>7 DEF CachesReal
<1>9. AnswersInv'
  BY <1>1, <1>3, <1>5, <1>7 DEF AnswersInv, CachesTyped
<1>10. CallsReal'
  BY <1>2, <1>4, <1>7 DEF CallsReal, CallReal, Idle, CachesTyped
<1> QED  BY <1>6, <1>8, <1>9, <1>10

LEMMA CacheLimitSet ==
  ASSUME CachesInv, SetLimit
  PROVE  CachesInv'
<1> USE DEF CachesInv, At
<1>1. /\ UNCHANGED <<cached, call, answers, failed>>
      /\ had \subseteq had'
      /\ CachesTyped'
  BY DEF SetLimit, CachesTyped
<1>2. \A d : Real(d) \subseteq Real(d)'
  BY <1>1, StaysReal DEF CachesTyped
<1> QED  BY <1>1, <1>2 DEF CachesReal, AnswersInv, CallsReal, CallReal

LEMMA CachesStep == CachesInv /\ [CachesNext]_cache_vars => CachesInv'
<1> SUFFICES ASSUME CachesInv, [CachesNext]_cache_vars PROVE CachesInv'
  OBVIOUS
<1>1. CASE UNCHANGED cache_vars
  BY <1>1 DEF cache_vars, CachesInv, CachesTyped, CachesReal, CallsReal, CallReal,
     AnswersInv, Real, At
<1>2. CASE SetLimit
  BY <1>2, CacheLimitSet
<1>3. ASSUME NEW t \in Threads,
             Begin(t) \/ Test(t) \/ Ask(t) \/ Save(t) \/ Answer(t)
      PROVE  CachesInv'
  BY <1>3, CacheBegins, CacheTested, CacheAsks, CacheSaves, CacheReturns
<1> QED  BY <1>1, <1>2, <1>3 DEF CachesNext

LEMMA CachesInvariance == CachesSpec => []CachesInv
BY CachesInitially, CachesStep, PTL DEF CachesSpec

LEMMA InvMeansReal == CachesInv => AnswersAreReal
BY LimitFacts DEF CachesInv, AnswersInv, Real, AnswersAreReal

(* What the functions return the kernel has said, whatever the threads and *)
(* setrlimit do between the test of the static and the store.              *)
THEOREM AlwaysReal == CachesSpec => []AnswersAreReal
BY CachesInvariance, InvMeansReal, PTL

------------------------------------------------------------------------------
(* A step that is no return to the test of a filled cache.                 *)
Settles(c) ==
  cached[c] # 0 /\ Filling(c) = {} => cached'[c] = cached[c] /\ Filling(c)' = {}

LEMMA StepSettles ==
  ASSUME CachesTyped, [CachesNext]_cache_vars, NEW c \in Caches
  PROVE  Settles(c)
<1> SUFFICES ASSUME cached[c] # 0, Filling(c) = {}
             PROVE  cached'[c] = cached[c] /\ Filling(c)' = {}
  BY DEF Settles
<1>1. \A t \in Threads : call[t].cache = c => call[t].pc \notin {"ask", "save"}
  BY DEF Filling
<1>2. SUFFICES /\ cached'[c] = cached[c]
               /\ \A u \in Threads :
                    call'[u].cache = c => call'[u].pc \notin {"ask", "save"}
  BY DEF Filling
<1>3. CASE UNCHANGED cache_vars \/ SetLimit
  BY <1>1, <1>3 DEF cache_vars, SetLimit
<1>4. ASSUME NEW t \in Threads,
             Begin(t) \/ Test(t) \/ Ask(t) \/ Save(t) \/ Answer(t)
      PROVE  /\ cached'[c] = cached[c]
             /\ \A u \in Threads :
                  call'[u].cache = c => call'[u].pc \notin {"ask", "save"}
  <2> USE DEF At, Goto, CachesTyped, CacheCalls
  <2>1. CASE Begin(t)
    BY <1>1, <2>1 DEF Begin
  <2>2. CASE Test(t)
    BY <1>1, <2>2 DEF Test
  <2>3. CASE Ask(t)
    <3>1. call[t].cache # c
      BY <1>1, <2>3 DEF Ask
    <3> QED  BY <1>1, <2>3, <3>1 DEF Ask
  <2>4. CASE Save(t)
    <3>1. call[t].cache # c /\ call[t].cache \in Caches
      BY <1>1, <2>4 DEF Save
    <3> QED  BY <1>1, <2>4, <3>1 DEF Save
  <2>5. CASE Answer(t)
    BY <1>1, <2>5 DEF Answer, Idle
  <2> QED  BY <1>4, <2>1, <2>2, <2>3, <2>4, <2>5
<1> QED  BY <1>3, <1>4 DEF CachesNext

(* Once a cache is filled and nobody is about to fill it, setrlimit and    *)
(* the calls of any number of threads leave it alone for good.             *)
THEOREM AlwaysSettle == CachesSpec => CachesSettle
<1>1. CachesTyped /\ [CachesNext]_cache_vars => [\A c \in Caches :
        cached[c] # 0 /\ Filling(c) = {} =>
          cached'[c] = cached[c] /\ Filling(c)' = {}]_cache_vars
  BY StepSettles DEF Settles
<1>2. CachesInv => CachesTyped
  BY DEF CachesInv
<1> QED  BY <1>1, <1>2, CachesInvariance, PTL DEF CachesSpec, CachesSettle
=============================================================================

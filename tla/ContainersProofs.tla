--------------------------- MODULE ContainersProofs ----------------------------
(***************************************************************************)
(* Whatever lists and arrays a program keeps and whichever allocations     *)
(* fail in the middle of a call: each object has one owner, nothing leaks, *)
(* and the lists, the arrays and the strings hold what they should.        *)
(***************************************************************************)
EXTENDS Containers, TLAPS, SequenceTheorems, FiniteSetTheorems,
        WellFoundedInduction, NaturalsInduction

------------------------------------------------------------------------------
(* Least and greatest numbers, smallest sets.                              *)

(* The least element of a set of natural numbers.                          *)
LEMMA LeastOf ==
  ASSUME NEW S \in SUBSET Nat, S # {}
  PROVE  \E a \in S : \A x \in S : a <= x
<1>1. PICK a \in S : \A x \in S : ~(<<x, a>> \in OpToRel(<, Nat))
  BY WFMin, NatLessThanWellFounded
<1>2. OpToRel(<, Nat) = {ss \in Nat \X Nat : ss[1] < ss[2]}
  BY DEF OpToRel
<1>3. \A x \in S : a <= x
  <2> TAKE x \in S
  <2>1. x \in Nat /\ a \in Nat
    OBVIOUS
  <2>2. <<x, a>> \notin {ss \in Nat \X Nat : ss[1] < ss[2]}
    BY <1>1, <1>2
  <2> QED
    BY <2>1, <2>2
<1> QED
  BY <1>3

LEMMA MinOfSet ==
  ASSUME NEW S \in SUBSET Nat, S # {}
  PROVE  Min(S) \in S /\ \A x \in S : Min(S) <= x
  BY LeastOf DEF Min

LEMMA MaxOfSet ==
  ASSUME NEW n \in Nat, NEW S \in SUBSET (1 .. n), S # {}
  PROVE  Max(S) \in S
<1> DEFINE T == {n - x : x \in S}
<1>1. /\ \A x \in S : x \in Nat /\ n - x \in Nat /\ n - x \in T
      /\ \A y \in T : \E x \in S : y = n - x
  OBVIOUS
<1>5. T \in SUBSET Nat /\ T # {}
  <2> HIDE DEF T
  <2> QED
    BY <1>1
<1>2. PICK a \in T : \A x \in T : a <= x
  <2> HIDE DEF T
  <2> QED
    BY <1>5, LeastOf
<1> HIDE DEF T
<1>3. PICK x \in S : a = n - x
  BY <1>1
<1>4. \A y \in S : x >= y
  BY <1>1, <1>2, <1>3
<1> QED
  BY <1>4 DEF Max

(* Of some subsets of a finite set one is smallest.                        *)
LEMMA SmallestSet ==
  ASSUME NEW S, IsFiniteSet(S), NEW Bad \in SUBSET (SUBSET S), Bad # {}
  PROVE  \E s \in Bad : \A t \in SUBSET s : t # s => t \notin Bad
<1>1. \A s \in SUBSET S : IsFiniteSet(s)
  BY FS_Subset
<1>2. Bad \subseteq FiniteSubsetsOf(S)
  BY <1>1 DEF FiniteSubsetsOf
<1>3. PICK s \in Bad : \A t \in Bad : ~(<<t, s>> \in StrictSubsetOrdering(S))
  BY <1>2, FS_StrictSubsetOrderingWellFounded, WFMin
<1>4. ASSUME NEW t \in SUBSET s, t # s, t \in Bad
      PROVE  FALSE
  <2>1. <<t, s>> \in StrictSubsetOrdering(S)
    BY <1>4 DEF StrictSubsetOrdering
  <2> QED
    BY <1>3, <1>4, <2>1
<1> QED
  BY <1>3, <1>4

------------------------------------------------------------------------------
(* The heap.                                                               *)

GoodHeap(h) == /\ h = [x \in DOMAIN h |-> h[x]]
               /\ IsFiniteSet(DOMAIN h)
               /\ DOMAIN h \subseteq Nat \ {NULL}

(* The heap after the objects P were freed.                                *)
Without(h, P) == [x \in DOMAIN h \ P |-> h[x]]

LEMMA FreshIsFree ==
  ASSUME NEW h, GoodHeap(h)
  PROVE  Fresh(h) \in Nat \ {NULL} /\ Fresh(h) \notin DOMAIN h
<1> DEFINE D == DOMAIN h
           n == Cardinality(D)
           F == (1 .. n + 1) \ D
<1>1. IsFiniteSet(D) /\ n \in Nat
  BY FS_CardinalityType DEF GoodHeap
<1>2. F # {}
  <2> SUFFICES ASSUME (1 .. n + 1) \subseteq D
               PROVE  FALSE
    OBVIOUS
  <2> HIDE DEF D
  <2>1. Cardinality(1 .. n + 1) <= Cardinality(D)
    BY <1>1, FS_Subset
  <2>2. Cardinality(1 .. n + 1) = n + 1
    BY <1>1, FS_Interval
  <2> QED
    BY <1>1, <2>1, <2>2
<1>3. F \in SUBSET Nat
  BY <1>1
<1>4. Fresh(h) = Min(F)
  BY DEF Fresh
<1>5. Min(F) \in F
  <2> HIDE DEF F
  <2> QED
    BY <1>2, <1>3, MinOfSet
<1> QED
  BY <1>1, <1>4, <1>5 DEF NULL

(* What malloc and ft_lstnew give: nothing, or a new object.               *)
LEMMA MallocGives ==
  ASSUME NEW h, GoodHeap(h), NEW v, NEW r \in malloc(h, v)
  PROVE  /\ r.ptr = NULL => r.heap = h
         /\ r.ptr # NULL =>
              /\ r.ptr \in Nat /\ r.ptr \notin DOMAIN h
              /\ GoodHeap(r.heap) /\ DOMAIN r.heap = DOMAIN h \cup {r.ptr}
              /\ r.heap[r.ptr] = v
              /\ \A x \in DOMAIN h : r.heap[x] = h[x]
<1> DEFINE p == Fresh(h)
           k == Store(h, p, v)
<1>1. p \in Nat \ {NULL} /\ p \notin DOMAIN h
  BY FreshIsFree
<1>2. r = Outcome(h, NULL) \/ r = Outcome(k, p)
  BY DEF malloc
<1> HIDE DEF p
<1>3. CASE r = Outcome(h, NULL)
  BY <1>3 DEF Outcome
<1>4. CASE r = Outcome(k, p)
  <2>1. r.ptr = p /\ r.heap = k
    BY <1>4 DEF Outcome
  <2>2. /\ DOMAIN k = DOMAIN h \cup {p} /\ k[p] = v
        /\ \A x \in DOMAIN h : k[x] = h[x]
        /\ k = [x \in DOMAIN k |-> k[x]]
    BY <1>1 DEF Store
  <2> HIDE DEF k
  <2>3. GoodHeap(k)
    BY <1>1, <2>2, FS_AddElement DEF GoodHeap
  <2> QED
    BY <1>1, <2>1, <2>2, <2>3
<1> QED
  BY <1>2, <1>3, <1>4

LEMMA WithoutGood ==
  ASSUME NEW h, GoodHeap(h), NEW P
  PROVE  /\ GoodHeap(Without(h, P)) /\ DOMAIN Without(h, P) = DOMAIN h \ P
         /\ \A x \in DOMAIN h \ P : Without(h, P)[x] = h[x]
<1> DEFINE k == Without(h, P)
<1>1. /\ DOMAIN k = DOMAIN h \ P /\ \A x \in DOMAIN h \ P : k[x] = h[x]
      /\ k = [x \in DOMAIN k |-> k[x]]
  BY DEF Without
<1>2. IsFiniteSet(DOMAIN h \ P)
  BY FS_Difference DEF GoodHeap
<1>3. GoodHeap(k)
  <2> HIDE DEF k
  <2> QED
    BY <1>1, <1>2 DEF GoodHeap
<1> QED
  BY <1>1, <1>3

LEMMA WithoutMore ==
  ASSUME NEW h, NEW P, NEW Q
  PROVE  Without(Without(h, P), Q) = Without(h, P \cup Q)
<1> DEFINE k == Without(h, P)
<1>1. (DOMAIN h \ P) \ Q = DOMAIN h \ (P \cup Q)
  OBVIOUS
<1>2. DOMAIN k = DOMAIN h \ P /\ \A x \in DOMAIN h \ (P \cup Q) : k[x] = h[x]
  BY DEF Without
<1> HIDE DEF k
<1>3. Without(k, Q) = Without(h, P \cup Q)
  BY <1>1, <1>2 DEF Without
<1> QED
  BY <1>3 DEF k

LEMMA WithoutNone ==
  ASSUME NEW h, GoodHeap(h), NEW P, P \cap DOMAIN h = {}
  PROVE  Without(h, P) = h
<1>1. DOMAIN h \ P = DOMAIN h
  OBVIOUS
<1> QED
  BY <1>1 DEF Without, GoodHeap

(* What free does with a live pointer, or with NULL.                       *)
LEMMA FreeGives ==
  ASSUME NEW h, GoodHeap(h), NEW p, p = NULL \/ p \in DOMAIN h
  PROVE  free(h, p) = Without(h, {p})
<1>1. CASE p = NULL
  <2>1. free(h, p) = h
    BY <1>1 DEF free
  <2>2. {p} \cap DOMAIN h = {}
    BY <1>1 DEF GoodHeap
  <2> QED
    BY <2>1, <2>2, WithoutNone
<1>2. CASE p # NULL
  BY <1>2 DEF free, Drop, Without
<1> QED
  BY <1>1, <1>2

(* Freeing several objects, no object twice.                               *)
LEMMA FreeEachGives ==
  ASSUME NEW h, GoodHeap(h), NEW s, NEW n \in Nat, DOMAIN s = 1 .. n,
         \A k \in 1 .. n : s[k] = NULL \/ s[k] \in DOMAIN h,
         \A j, k \in 1 .. n : j # k /\ s[j] = s[k] => s[j] = NULL
  PROVE  FreeEach(h, s) = Without(h, {s[k] : k \in 1 .. n})
<1> DEFINE D == 1 .. n
           V(t) == Without(h, {s[k] : k \in t})
           Is(g) == g = [t \in SUBSET D |->
                           IF t = {} THEN h
                           ELSE LET x == Max(t) IN free(g[t \ {x}], s[x])]
           Vs == [t \in SUBSET D |-> V(t)]
<1>1. IsFiniteSet(D)
  BY FS_Interval
<1>2. ASSUME NEW t \in SUBSET D, t # {}
      PROVE  /\ Max(t) \in t /\ t \ {Max(t)} \in SUBSET D
             /\ V(t) = free(V(t \ {Max(t)}), s[Max(t)])
  <2> DEFINE x == Max(t)
             P == {s[k] : k \in t \ {x}}
  <2>1. x \in t
    BY <1>2, MaxOfSet
  <2> HIDE DEF x
  <2>2. {s[k] : k \in t} = P \cup {s[x]}
    BY <2>1
  <2>3. s[x] = NULL \/ s[x] \in DOMAIN h \ P
    BY <2>1
  <2> HIDE DEF P
  <2>4. /\ GoodHeap(Without(h, P)) /\ DOMAIN Without(h, P) = DOMAIN h \ P
        /\ Without(Without(h, P), {s[x]}) = Without(h, P \cup {s[x]})
    <3>1. /\ GoodHeap(Without(h, P)) /\ DOMAIN Without(h, P) = DOMAIN h \ P
      BY WithoutGood
    <3>2. Without(Without(h, P), {s[x]}) = Without(h, P \cup {s[x]})
      BY WithoutMore
    <3> QED
      BY <3>1, <3>2
  <2>5. free(Without(h, P), s[x]) = Without(Without(h, P), {s[x]})
    BY <2>3, <2>4, FreeGives
  <2> QED
    BY <2>1, <2>2, <2>4, <2>5 DEF P, x
<1>3. V({}) = h
  <2>1. {s[k] : k \in {}} = {}
    OBVIOUS
  <2>2. Without(h, {}) = h
    BY WithoutNone
  <2> QED
    BY <2>1, <2>2
<1>4. Is(Vs)
  <2>1. \A t \in SUBSET D :
          V(t) = IF t = {} THEN h
                 ELSE LET x == Max(t) IN free(Vs[t \ {x}], s[x])
    <3> TAKE t \in SUBSET D
    <3>1. CASE t = {}
      BY <1>3, <3>1
    <3>2. CASE t # {}
      <4>1. t \ {Max(t)} \in SUBSET D
        OBVIOUS
      <4>2. Vs[t \ {Max(t)}] = V(t \ {Max(t)})
        BY <4>1
      <4> QED
        BY <1>2, <3>2, <4>2
    <3> QED
      BY <3>1, <3>2
  <2> HIDE DEF V
  <2> QED
    BY <2>1
<1>5. ASSUME NEW g, Is(g)
      PROVE  g[D] = V(D)
  <2> DEFINE Bad == {t \in SUBSET D : g[t] # V(t)}
  <2> SUFFICES ASSUME Bad # {}
               PROVE  FALSE
    OBVIOUS
  <2>1. PICK t \in Bad : \A u \in SUBSET t : u # t => u \notin Bad
    <3> HIDE DEF Bad
    <3>1. Bad \in SUBSET (SUBSET D)
      BY DEF Bad
    <3> QED
      BY <1>1, <3>1, SmallestSet
  <2>2. t \in SUBSET D /\ g[t] # V(t)
    OBVIOUS
  <2>3. g[t] = IF t = {} THEN h ELSE LET x == Max(t) IN free(g[t \ {x}], s[x])
    BY <1>5, <2>2
  <2>4. t # {}
    BY <1>3, <2>2, <2>3
  <2>5. Max(t) \in t /\ t \ {Max(t)} \in SUBSET D
    BY <1>2, <2>2, <2>4
  <2>6. g[t \ {Max(t)}] = V(t \ {Max(t)})
    BY <2>1, <2>5
  <2> HIDE DEF V
  <2> QED
    BY <1>2, <2>2, <2>3, <2>4, <2>6
<1>6. FreeEach(h, s) = (CHOOSE g : Is(g))[D]
  BY DEF FreeEach, FoldLeft, MapThenFoldSet
<1> HIDE DEF Is, Vs
<1>7. Is(CHOOSE g : Is(g))
  BY <1>4
<1> QED
  BY <1>5, <1>6, <1>7

(* Deleting nodes with their contents.                                     *)
LEMMA DelEachGives ==
  ASSUME NEW h, GoodHeap(h), NEW s, NEW n \in Nat, DOMAIN s = 1 .. n,
         \A k \in 1 .. n : s[k] \in DOMAIN h /\ h[s[k]].content \in DOMAIN h,
         \A j, k \in 1 .. n : /\ s[j] # h[s[k]].content
                              /\ s[j] = s[k] => j = k
                              /\ h[s[j]].content = h[s[k]].content => j = k
  PROVE  FoldLeft(ft_lstdelone, h, s)
           = Without(h, {s[k] : k \in 1 .. n} \cup {h[s[k]].content : k \in 1 .. n})
<1> DEFINE D == 1 .. n
           Ids(t) == {s[k] : k \in t} \cup {h[s[k]].content : k \in t}
           V(t) == Without(h, Ids(t))
           Is(g) == g = [t \in SUBSET D |->
                           IF t = {} THEN h
                           ELSE LET x == Max(t) IN ft_lstdelone(g[t \ {x}], s[x])]
           Vs == [t \in SUBSET D |-> V(t)]
<1>1. IsFiniteSet(D)
  BY FS_Interval
<1>2. ASSUME NEW t \in SUBSET D, t # {}
      PROVE  /\ Max(t) \in t /\ t \ {Max(t)} \in SUBSET D
             /\ V(t) = ft_lstdelone(V(t \ {Max(t)}), s[Max(t)])
  <2> DEFINE x == Max(t)
             P == Ids(t \ {x})
             c == h[s[x]].content
             k == Without(h, P)
  <2>1. x \in t
    BY <1>2, MaxOfSet
  <2> HIDE DEF x
  <2>2. Ids(t) = (P \cup {c}) \cup {s[x]}
    BY <2>1
  <2>3. s[x] \in DOMAIN h \ P /\ c \in DOMAIN h \ P /\ c # s[x]
    BY <2>1
  <2> HIDE DEF P, Ids
  <2>4. /\ GoodHeap(k) /\ DOMAIN k = DOMAIN h \ P /\ k[s[x]] = h[s[x]]
    <3>1. /\ GoodHeap(k) /\ DOMAIN k = DOMAIN h \ P
          /\ \A y \in DOMAIN h \ P : k[y] = h[y]
      BY WithoutGood
    <3> HIDE DEF k
    <3> QED
      BY <2>3, <3>1
  <2> HIDE DEF k
  <2>5. del(k, c) = Without(k, {c})
    BY <2>3, <2>4, FreeGives DEF del
  <2>6. GoodHeap(Without(k, {c})) /\ DOMAIN Without(k, {c}) = DOMAIN k \ {c}
    BY <2>4, WithoutGood
  <2>7. free(Without(k, {c}), s[x]) = Without(Without(k, {c}), {s[x]})
    <3>1. s[x] \in DOMAIN Without(k, {c})
      BY <2>3, <2>4, <2>6
    <3> QED
      BY <2>6, <3>1, FreeGives
  <2>8. Without(Without(k, {c}), {s[x]}) = Without(h, (P \cup {c}) \cup {s[x]})
    <3>1. Without(k, {c}) = Without(h, P \cup {c})
      BY WithoutMore DEF k
    <3> QED
      BY <3>1, WithoutMore
  <2>9. ft_lstdelone(k, s[x]) = Without(h, (P \cup {c}) \cup {s[x]})
    BY <2>4, <2>5, <2>7, <2>8 DEF ft_lstdelone
  <2> QED
    BY <2>1, <2>2, <2>9 DEF P, k, x
<1>3. V({}) = h
  <2>1. Ids({}) = {}
    OBVIOUS
  <2> HIDE DEF Ids
  <2>2. Without(h, {}) = h
    BY WithoutNone
  <2> QED
    BY <2>1, <2>2
<1>4. Is(Vs)
  <2>1. \A t \in SUBSET D :
          V(t) = IF t = {} THEN h
                 ELSE LET x == Max(t) IN ft_lstdelone(Vs[t \ {x}], s[x])
    <3> TAKE t \in SUBSET D
    <3>1. CASE t = {}
      BY <1>3, <3>1
    <3>2. CASE t # {}
      <4>1. t \ {Max(t)} \in SUBSET D
        OBVIOUS
      <4>2. Vs[t \ {Max(t)}] = V(t \ {Max(t)})
        BY <4>1
      <4> QED
        BY <1>2, <3>2, <4>2
    <3> QED
      BY <3>1, <3>2
  <2> HIDE DEF V
  <2> QED
    BY <2>1
<1>5. ASSUME NEW g, Is(g)
      PROVE  g[D] = V(D)
  <2> DEFINE Bad == {t \in SUBSET D : g[t] # V(t)}
  <2> SUFFICES ASSUME Bad # {}
               PROVE  FALSE
    OBVIOUS
  <2>1. PICK t \in Bad : \A u \in SUBSET t : u # t => u \notin Bad
    <3> HIDE DEF Bad
    <3>1. Bad \in SUBSET (SUBSET D)
      BY DEF Bad
    <3> QED
      BY <1>1, <3>1, SmallestSet
  <2>2. t \in SUBSET D /\ g[t] # V(t)
    OBVIOUS
  <2>3. g[t] = IF t = {} THEN h
               ELSE LET x == Max(t) IN ft_lstdelone(g[t \ {x}], s[x])
    BY <1>5, <2>2
  <2>4. t # {}
    BY <1>3, <2>2, <2>3
  <2>5. Max(t) \in t /\ t \ {Max(t)} \in SUBSET D
    BY <1>2, <2>2, <2>4
  <2>6. g[t \ {Max(t)}] = V(t \ {Max(t)})
    BY <2>1, <2>5
  <2> HIDE DEF V
  <2> QED
    BY <1>2, <2>2, <2>3, <2>4, <2>6
<1>6. FoldLeft(ft_lstdelone, h, s) = (CHOOSE g : Is(g))[D]
  BY DEF FoldLeft, MapThenFoldSet
<1> HIDE DEF Is, Vs
<1>7. Is(CHOOSE g : Is(g))
  BY <1>4
<1> QED
  BY <1>5, <1>6, <1>7

------------------------------------------------------------------------------
(* Lists on the heap.                                                      *)

(* The walk along next has a function that describes it, whatever it finds *)
(* behind the end of the list.                                             *)
Walk(h, lst, at, N) ==
  at = [k \in N |-> IF k = 0 THEN lst ELSE h[at[k - 1]].next]

LEMMA WalkMeans ==
  ASSUME NEW h, NEW lst, NEW N, NEW at, Walk(h, lst, at, N), NEW k \in N
  PROVE  at[k] = IF k = 0 THEN lst ELSE h[at[k - 1]].next
<1> DEFINE F(i) == IF i = 0 THEN lst ELSE h[at[i - 1]].next
<1>1. at = [i \in N |-> F(i)]
  BY DEF Walk
<1>2. at[k] = F(k)
  <2> HIDE DEF F
  <2> QED
    BY <1>1
<1> QED
  BY <1>2

LEMMA WalksAgree ==
  ASSUME NEW h, NEW lst, NEW m \in Nat, NEW n \in Nat, m <= n,
         NEW a, Walk(h, lst, a, 0 .. m), NEW b, Walk(h, lst, b, 0 .. n)
  PROVE  \A k \in 0 .. m : a[k] = b[k]
<1> DEFINE Bad == {k \in 0 .. m : a[k] # b[k]}
<1> SUFFICES ASSUME Bad # {}
             PROVE  FALSE
  OBVIOUS
<1>1. PICK k \in Bad : \A j \in Bad : k <= j
  <2>1. Bad \in SUBSET Nat
    OBVIOUS
  <2> HIDE DEF Bad
  <2> QED
    BY <2>1, LeastOf
<1>2. k \in 0 .. m /\ k \in 0 .. n /\ a[k] # b[k]
  OBVIOUS
<1>3. /\ a[k] = IF k = 0 THEN lst ELSE h[a[k - 1]].next
      /\ b[k] = IF k = 0 THEN lst ELSE h[b[k - 1]].next
  BY <1>2 DEF Walk
<1>4. k # 0 => a[k - 1] = b[k - 1]
  BY <1>1, <1>2
<1> HIDE DEF Bad
<1> QED
  BY <1>2, <1>3, <1>4

LEMMA WalkExists ==
  ASSUME NEW h, NEW lst
  PROVE  \E at : Walk(h, lst, at, Nat)
<1> DEFINE Bad == {n \in Nat : ~ \E at : Walk(h, lst, at, 0 .. n)}
<1>1. ASSUME Bad # {}
      PROVE  FALSE
  <2>1. PICK n \in Bad : \A j \in Bad : n <= j
    <3>1. Bad \in SUBSET Nat
      OBVIOUS
    <3> HIDE DEF Bad
    <3> QED
      BY <1>1, <3>1, LeastOf
  <2>2. n \in Nat /\ ~ \E at : Walk(h, lst, at, 0 .. n)
    OBVIOUS
  <2>3. CASE n = 0
    <3> DEFINE at == [k \in 0 .. 0 |-> lst]
    <3>1. \A k \in 0 .. 0 : lst = IF k = 0 THEN lst ELSE h[at[k - 1]].next
      OBVIOUS
    <3>2. at = [k \in 0 .. 0 |-> IF k = 0 THEN lst ELSE h[at[k - 1]].next]
      BY <3>1
    <3>3. Walk(h, lst, at, 0 .. 0)
      BY <3>2 DEF Walk
    <3> QED
      BY <2>2, <2>3, <3>3
  <2>4. CASE n # 0
    <3>1. n - 1 \in Nat /\ n - 1 \notin Bad
      BY <2>1, <2>2, <2>4
    <3>2. PICK a : Walk(h, lst, a, 0 .. n - 1)
      BY <3>1
    <3>3. \A k \in 0 .. n - 1 : a[k] = IF k = 0 THEN lst ELSE h[a[k - 1]].next
      BY <3>2 DEF Walk
    <3> DEFINE at == [k \in 0 .. n |-> IF k = n THEN h[a[n - 1]].next ELSE a[k]]
    <3>4. \A k \in 0 .. n : at[k] = IF k = 0 THEN lst ELSE h[at[k - 1]].next
      <4> TAKE k \in 0 .. n
      <4>1. CASE k = n
        <5>1. n - 1 \in 0 .. n /\ n - 1 # n /\ n \in 0 .. n
          BY <3>1
        <5>2. at[n - 1] = a[n - 1] /\ at[n] = h[a[n - 1]].next
          BY <5>1
        <5> QED
          BY <2>4, <4>1, <5>2
      <4>2. CASE k # n
        <5>1. k \in 0 .. n - 1 /\ (k # 0 => k - 1 \in 0 .. n - 1 /\ k - 1 # n)
          BY <3>1, <4>2
        <5>2. at[k] = a[k] /\ (k # 0 => at[k - 1] = a[k - 1])
          BY <4>2, <5>1
        <5> QED
          BY <3>3, <5>1, <5>2
      <4> QED
        BY <4>1, <4>2
    <3>5. at = [k \in 0 .. n |-> at[k]]
      OBVIOUS
    <3> HIDE DEF at
    <3>6. Walk(h, lst, at, 0 .. n)
      BY <3>4, <3>5 DEF Walk
    <3> QED
      BY <2>2, <3>6
  <2> QED
    BY <2>3, <2>4
<1> DEFINE A(n) == CHOOSE at : Walk(h, lst, at, 0 .. n)
           at == [n \in Nat |-> A(n)[n]]
<1>2. \A n \in Nat : Walk(h, lst, A(n), 0 .. n)
  BY <1>1
<1> HIDE DEF A
<1>3. \A n \in Nat : at[n] = IF n = 0 THEN lst ELSE h[at[n - 1]].next
  <2> TAKE n \in Nat
  <2>1. n \in 0 .. n /\ at[n] = A(n)[n]
    OBVIOUS
  <2>2. A(n)[n] = IF n = 0 THEN lst ELSE h[A(n)[n - 1]].next
    BY <1>2, <2>1 DEF Walk
  <2>3. n # 0 => at[n - 1] = A(n)[n - 1]
    <3> HAVE n # 0
    <3>1. n - 1 \in Nat /\ n - 1 <= n /\ n - 1 \in 0 .. n - 1
      OBVIOUS
    <3>2. Walk(h, lst, A(n - 1), 0 .. n - 1) /\ Walk(h, lst, A(n), 0 .. n)
      BY <1>2, <3>1
    <3>3. A(n - 1)[n - 1] = A(n)[n - 1]
      BY <3>1, <3>2, WalksAgree
    <3> QED
      BY <3>1, <3>3
  <2> QED
    BY <2>1, <2>2, <2>3
<1>4. at = [n \in Nat |-> at[n]]
  OBVIOUS
<1> HIDE DEF at
<1>5. Walk(h, lst, at, Nat)
  BY <1>3, <1>4 DEF Walk
<1> QED
  BY <1>5

(* The list that begins at lst has the nodes s, in this order; its nodes   *)
(* and their contents are all different objects.                           *)
IsList(h, lst, s) ==
  /\ s \in Seq(DOMAIN h)
  /\ lst = IF s = <<>> THEN NULL ELSE s[1]
  /\ \A k \in DOMAIN s :
       /\ h[s[k]] \in [content : DOMAIN h, next : Nat]
       /\ h[s[k]].next = IF k = Len(s) THEN NULL ELSE s[k + 1]
  /\ \A j, k \in DOMAIN s : /\ s[j] # h[s[k]].content
                            /\ s[j] = s[k] => j = k
                            /\ h[s[j]].content = h[s[k]].content => j = k

(* Then these are the nodes that the walk meets.                           *)
LEMMA NodesAre ==
  ASSUME NEW h, GoodHeap(h), NEW lst, NEW s, IsList(h, lst, s)
  PROVE  Nodes(h, lst) = s
<1> DEFINE n == Len(s)
           at == CHOOSE at : Walk(h, lst, at, Nat)
           D == DOMAIN h
           Ends(m) == at[m] = NULL /\ \A k \in 0 .. m - 1 : at[k] # NULL
           size == CHOOSE m \in 0 .. Cardinality(D) : Ends(m)
<1>1. /\ n \in Nat /\ DOMAIN s = 1 .. n /\ s \in [1 .. n -> D]
      /\ s = [k \in 1 .. n |-> s[k]]
      /\ NULL \notin D /\ IsFiniteSet(D)
      /\ lst = IF n = 0 THEN NULL ELSE s[1]
  BY EmptySeq, LenProperties DEF IsList, GoodHeap
<1>2. Nodes(h, lst) = [k \in 1 .. size |-> at[k - 1]]
  BY DEF Nodes, Walk
<1>3. Walk(h, lst, at, Nat)
  BY WalkExists
<1> HIDE DEF at
<1>4. \A k \in Nat : at[k] = IF k = 0 THEN lst ELSE h[at[k - 1]].next
  BY <1>3, WalkMeans
<1>5. \A k \in 0 .. n : at[k] = IF k = n THEN NULL ELSE s[k + 1]
  <2> DEFINE Bad == {k \in 0 .. n : at[k] # IF k = n THEN NULL ELSE s[k + 1]}
  <2> SUFFICES ASSUME Bad # {}
               PROVE  FALSE
    OBVIOUS
  <2>1. PICK k \in Bad : \A j \in Bad : k <= j
    <3>1. Bad \in SUBSET Nat
      OBVIOUS
    <3> HIDE DEF Bad
    <3> QED
      BY <3>1, LeastOf
  <2>2. k \in 0 .. n /\ at[k] # IF k = n THEN NULL ELSE s[k + 1]
    OBVIOUS
  <2>3. k # 0
    BY <1>1, <1>4, <2>2
  <2>4. k - 1 \in 0 .. n /\ k - 1 \notin Bad
    <3>1. k \in Nat /\ k - 1 \in 0 .. n /\ ~ (k <= k - 1)
      BY <1>1, <2>2, <2>3
    <3> QED
      BY <2>1, <3>1
  <2>5. at[k - 1] = s[k]
    BY <1>1, <2>2, <2>3, <2>4
  <2>6. at[k] = h[s[k]].next
    BY <1>1, <1>4, <2>2, <2>3, <2>5
  <2>7. k \in DOMAIN s
    BY <1>1, <2>2, <2>3
  <2> HIDE DEF Bad
  <2> QED
    BY <2>2, <2>6, <2>7 DEF IsList
<1>6. n \in 0 .. Cardinality(D)
  <2>1. s \in Injection(1 .. n, D)
    BY <1>1 DEF Injection, IsInjective, IsList
  <2>2. Cardinality(1 .. n) <= Cardinality(D)
    BY <1>1, <2>1, FS_Injection
  <2>3. Cardinality(1 .. n) = n /\ Cardinality(D) \in Nat
    <3>1. Cardinality(1 .. n) = n
      BY <1>1, FS_Interval
    <3>2. Cardinality(D) \in Nat
      BY <1>1, FS_CardinalityType
    <3> QED
      BY <3>1, <3>2
  <2> QED
    BY <1>1, <2>2, <2>3
<1> HIDE DEF n, D
<1>7. Ends(n)
  BY <1>1, <1>5
<1>8. ASSUME NEW m \in 0 .. Cardinality(D), Ends(m)
      PROVE  m = n
  <2>1. m \in Nat
    OBVIOUS
  <2>2. ~ (m < n)
    <3> SUFFICES ASSUME m < n
                 PROVE  FALSE
      OBVIOUS
    <3>1. at[m] = s[m + 1] /\ s[m + 1] \in D
      BY <1>1, <1>5, <2>1
    <3> QED
      BY <1>1, <1>8, <3>1
  <2>3. ~ (n < m)
    BY <1>1, <1>7, <1>8, <2>1
  <2> QED
    BY <1>1, <2>1, <2>2, <2>3
<1>9. size = n
  <2> HIDE DEF Ends
  <2> QED
    BY <1>6, <1>7, <1>8
<1> HIDE DEF size
<1>10. \A k \in 1 .. n : at[k - 1] = s[k]
  <2> TAKE k \in 1 .. n
  <2>1. k - 1 \in 0 .. n /\ k - 1 # n /\ (k - 1) + 1 = k
    BY <1>1
  <2> QED
    BY <1>5, <2>1
<1> QED
  BY <1>1, <1>2, <1>9, <1>10

(* The objects of a list, and the numbers in it.                           *)
ListIds(h, s) == {s[k] : k \in DOMAIN s} \cup {h[s[k]].content : k \in DOMAIN s}
Values(h, s)  == [k \in DOMAIN s |-> h[h[s[k]].content]]

(* What is in both heaps the same.                                         *)
SameIn(h, k, P) == \A x \in P : x \in DOMAIN k /\ k[x] = h[x]

(* A list depends on its own objects only.                                 *)
LEMMA ListFrame ==
  ASSUME NEW h, NEW lst, NEW s, IsList(h, lst, s), NEW k, SameIn(h, k, ListIds(h, s))
  PROVE  /\ IsList(k, lst, s)
         /\ ListIds(k, s) = ListIds(h, s)
         /\ Values(k, s) = Values(h, s)
<1>1. Len(s) \in Nat /\ DOMAIN s = 1 .. Len(s) /\ s \in [1 .. Len(s) -> DOMAIN h]
  BY LenProperties DEF IsList
<1>2. \A i \in DOMAIN s : /\ s[i] \in DOMAIN k /\ k[s[i]] = h[s[i]]
                          /\ h[s[i]].content \in DOMAIN k
                          /\ k[h[s[i]].content] = h[h[s[i]].content]
  BY DEF SameIn, ListIds
<1>3. s \in [1 .. Len(s) -> DOMAIN k]
  BY <1>1, <1>2
<1>4. s \in Seq(DOMAIN k)
  BY <1>1, <1>3
<1>5. \A i \in DOMAIN s : k[s[i]] \in [content : DOMAIN k, next : Nat]
  <2> TAKE i \in DOMAIN s
  <2>1. h[s[i]] \in [content : DOMAIN h, next : Nat]
    BY DEF IsList
  <2> QED
    BY <1>2, <2>1
<1>6. ListIds(k, s) = ListIds(h, s)
  BY <1>2 DEF ListIds
<1>7. Values(k, s) = Values(h, s)
  BY <1>2 DEF Values
<1>8. IsList(k, lst, s)
  BY <1>2, <1>4, <1>5 DEF IsList
<1> QED
  BY <1>6, <1>7, <1>8

(* The empty list has no objects.                                          *)
LEMMA EmptyList ==
  ASSUME NEW h
  PROVE  IsList(h, NULL, <<>>) /\ ListIds(h, <<>>) = {} /\ Values(h, <<>>) = <<>>
<1>1. <<>> \in Seq(DOMAIN h) /\ DOMAIN <<>> = {}
  BY EmptySeq
<1>2. IsList(h, NULL, <<>>) /\ ListIds(h, <<>>) = {}
  BY <1>1 DEF IsList, ListIds
<1>3. Values(h, <<>>) = <<>>
  BY DEF Values
<1> QED
  BY <1>2, <1>3

(* What a list is made of.                                                 *)
LEMMA ListFacts ==
  ASSUME NEW h, GoodHeap(h), NEW lst, NEW s, IsList(h, lst, s)
  PROVE  /\ Len(s) \in Nat /\ DOMAIN s = 1 .. Len(s)
         /\ ListIds(h, s) \subseteq DOMAIN h
         /\ \A k \in DOMAIN s : /\ s[k] \in DOMAIN h /\ s[k] \in Nat /\ s[k] # NULL
                                /\ h[s[k]].content \in DOMAIN h
                                /\ h[s[k]] = [content |-> h[s[k]].content,
                                              next |-> h[s[k]].next]
                                /\ h[s[k]].next \in Nat
         /\ lst \in Nat /\ (lst # NULL <=> Len(s) # 0)
<1>1. Len(s) \in Nat /\ DOMAIN s = 1 .. Len(s) /\ s \in [1 .. Len(s) -> DOMAIN h]
      /\ (s = <<>> <=> Len(s) = 0)
  BY LenProperties, EmptySeq DEF IsList
<1>2. \A k \in DOMAIN s : h[s[k]] \in [content : DOMAIN h, next : Nat]
  BY DEF IsList
<1>3. ListIds(h, s) \subseteq DOMAIN h
  BY <1>1, <1>2 DEF ListIds
<1>4. \A k \in DOMAIN s : s[k] \in Nat /\ s[k] # NULL
  BY <1>1 DEF GoodHeap
<1>5. lst \in Nat /\ (lst # NULL <=> Len(s) # 0)
  <2>1. lst = IF s = <<>> THEN NULL ELSE s[1]
    BY DEF IsList
  <2> QED
    BY <1>1, <1>4, <2>1 DEF NULL
<1> QED
  BY <1>1, <1>2, <1>3, <1>4, <1>5

(* Writing the field next of a node.                                       *)
LEMMA SetNext ==
  ASSUME NEW h, GoodHeap(h), NEW y \in DOMAIN h, NEW c, NEW w, NEW v,
         h[y] = [content |-> c, next |-> w]
  PROVE  LET k == [h EXCEPT ![y].next = v] IN
         /\ GoodHeap(k) /\ DOMAIN k = DOMAIN h
         /\ k[y] = [content |-> c, next |-> v]
         /\ \A x \in DOMAIN h : x # y => k[x] = h[x]
<1> DEFINE k == [h EXCEPT ![y].next = v]
<1>1. /\ DOMAIN k = DOMAIN h
      /\ k[y] = [h[y] EXCEPT !.next = v]
      /\ \A x \in DOMAIN h : x # y => k[x] = h[x]
      /\ k = [x \in DOMAIN h |-> k[x]]
  BY DEF GoodHeap
<1>2. k[y] = [content |-> c, next |-> v]
  BY <1>1
<1> HIDE DEF k
<1>3. GoodHeap(k)
  BY <1>1 DEF GoodHeap
<1> QED
  BY <1>1, <1>2, <1>3 DEF k

(* A node with its content that is not in the list yet.                    *)
NewNode(h, s, y, c) == /\ y \in DOMAIN h \ ListIds(h, s)
                       /\ c \in DOMAIN h \ ListIds(h, s) /\ y # c
                       /\ h[y] = [content |-> c, next |-> NULL]

Before(x, s) == <<x>> \o s

(* ft_lstadd_front with a new node that has its content.                   *)
LEMMA AddFrontGives ==
  ASSUME NEW h, GoodHeap(h), NEW lst, NEW s, IsList(h, lst, s),
         NEW y, NEW c, NewNode(h, s, y, c)
  PROVE  LET r == ft_lstadd_front(h, lst, y)
             t == Before(y, s)
         IN  /\ GoodHeap(r.heap) /\ DOMAIN r.heap = DOMAIN h
             /\ \A x \in DOMAIN h : x # y => r.heap[x] = h[x]
             /\ r.ptr = y
             /\ IsList(r.heap, y, t)
             /\ ListIds(r.heap, t) = ListIds(h, s) \cup {y, c}
             /\ Values(r.heap, t) = Before(h[c], Values(h, s))
<1> /\ y \in DOMAIN h \ ListIds(h, s) /\ c \in DOMAIN h \ ListIds(h, s)
    /\ y # c /\ h[y] = [content |-> c, next |-> NULL]
  BY DEF NewNode
<1> DEFINE r == ft_lstadd_front(h, lst, y)
           k == [h EXCEPT ![y].next = lst]
           t == <<y>> \o s
           n == Len(s)
<1>1. r.heap = k /\ r.ptr = y
  BY DEF ft_lstadd_front, Outcome
<1>2. /\ GoodHeap(k) /\ DOMAIN k = DOMAIN h
      /\ k[y] = [content |-> c, next |-> lst]
      /\ \A x \in DOMAIN h : x # y => k[x] = h[x]
  BY SetNext
<1> HIDE DEF k
<1>3. /\ n \in Nat /\ DOMAIN s = 1 .. n /\ ListIds(h, s) \subseteq DOMAIN h
      /\ lst \in Nat /\ s \in Seq(DOMAIN h) /\ (s = <<>> <=> n = 0)
  <2>1. s \in Seq(DOMAIN h)
    BY DEF IsList
  <2>2. s = <<>> <=> n = 0
    BY <2>1, EmptySeq
  <2> QED
    BY <2>1, <2>2, ListFacts
<1>4. SameIn(h, k, ListIds(h, s))
  BY <1>2, <1>3 DEF SameIn
<1>5. IsList(k, lst, s) /\ ListIds(k, s) = ListIds(h, s) /\ Values(k, s) = Values(h, s)
  BY <1>4, ListFrame
<1>6. <<y>> \in Seq(DOMAIN h) /\ Len(<<y>>) = 1 /\ <<y>>[1] = y
  OBVIOUS
<1>7. /\ t \in Seq(DOMAIN h) /\ Len(t) = 1 + n
      /\ \A i \in 1 .. 1 + n : t[i] = IF i <= 1 THEN y ELSE s[i - 1]
  BY <1>3, <1>6, ConcatProperties
<1> HIDE DEF t
<1>8. /\ DOMAIN t = 1 .. n + 1 /\ t[1] = y /\ 1 \in DOMAIN t
      /\ \A i \in DOMAIN t : i # 1 => i - 1 \in DOMAIN s /\ t[i] = s[i - 1]
      /\ \A i \in DOMAIN s : i + 1 \in DOMAIN t /\ t[i + 1] = s[i]
  BY <1>3, <1>7, LenProperties
<1>9. ListIds(k, t) = ListIds(h, s) \cup {y, c}
  <2>1. \A i \in DOMAIN s : k[s[i]].content = h[s[i]].content
    BY <1>4 DEF SameIn, ListIds
  <2>2. k[y].content = c
    BY <1>2
  <2>3. ListIds(k, t) \subseteq ListIds(h, s) \cup {y, c}
    <3> SUFFICES ASSUME NEW i \in DOMAIN t
                 PROVE  {t[i], k[t[i]].content} \subseteq ListIds(h, s) \cup {y, c}
      BY DEF ListIds
    <3>1. CASE i = 1
      BY <1>8, <2>2, <3>1
    <3>2. CASE i # 1
      BY <1>8, <2>1, <3>2 DEF ListIds
    <3> QED
      BY <3>1, <3>2
  <2>4. ListIds(h, s) \subseteq ListIds(k, t)
    <3> SUFFICES ASSUME NEW i \in DOMAIN s
                 PROVE  {s[i], h[s[i]].content} \subseteq ListIds(k, t)
      BY DEF ListIds
    <3> QED
      BY <1>8, <2>1 DEF ListIds
  <2>5. {y, c} \subseteq ListIds(k, t)
    BY <1>8, <2>2 DEF ListIds
  <2> QED
    BY <2>3, <2>4, <2>5
<1>10. Values(k, t) = <<h[c]>> \o Values(h, s)
  <2> DEFINE v == Values(h, s)
             X == {h[x] : x \in DOMAIN h}
  <2>1. v \in Seq(X) /\ Len(v) = n /\ \A i \in DOMAIN s : v[i] = h[h[s[i]].content]
    <3>1. \A i \in 1 .. n : h[h[s[i]].content] \in X
      BY <1>3, ListFacts
    <3> HIDE DEF X
    <3> QED
      BY <1>3, <3>1 DEF Values
  <2>2. <<h[c]>> \in Seq(X) /\ Len(<<h[c]>>) = 1
    OBVIOUS
  <2> HIDE DEF v, X
  <2>3. /\ <<h[c]>> \o v \in Seq(X) /\ Len(<<h[c]>> \o v) = 1 + n
        /\ \A i \in 1 .. 1 + n : (<<h[c]>> \o v)[i] = IF i <= 1 THEN h[c] ELSE v[i - 1]
    BY <2>1, <2>2, ConcatProperties
  <2>4. \A i \in DOMAIN t : k[k[t[i]].content] = (<<h[c]>> \o v)[i]
    <3> TAKE i \in DOMAIN t
    <3>1. CASE i = 1
      <4>1. k[y].content = c /\ k[c] = h[c]
        BY <1>2
      <4> QED
        BY <1>3, <1>8, <2>3, <3>1, <4>1
    <3>2. CASE i # 1
      <4>1. i - 1 \in DOMAIN s /\ t[i] = s[i - 1]
        BY <1>8, <3>2
      <4>2. k[k[s[i - 1]].content] = v[i - 1]
        BY <1>5, <4>1 DEF Values, v
      <4>3. (<<h[c]>> \o v)[i] = v[i - 1]
        BY <1>3, <1>8, <2>3, <3>2, <4>1
      <4> QED
        BY <4>1, <4>2, <4>3
    <3> QED
      BY <3>1, <3>2
  <2>5. DOMAIN (<<h[c]>> \o v) = DOMAIN t
    BY <1>3, <1>8, <2>3, LenProperties
  <2>6. <<h[c]>> \o v = [i \in DOMAIN t |-> (<<h[c]>> \o v)[i]]
    BY <2>3, <2>5, LenProperties
  <2> QED
    BY <2>4, <2>6 DEF Values, v
<1>11. IsList(k, y, t)
  <2>1. t \in Seq(DOMAIN k) /\ t # <<>> /\ t[1] = y
    BY <1>2, <1>3, <1>7, <1>8
  <2>2. \A i \in DOMAIN t :
          /\ k[t[i]] \in [content : DOMAIN k, next : Nat]
          /\ k[t[i]].next = IF i = Len(t) THEN NULL ELSE t[i + 1]
    <3> TAKE i \in DOMAIN t
    <3>1. CASE i = 1
      <4>1. lst = IF n = 0 THEN NULL ELSE s[1]
        BY <1>3 DEF IsList
      <4>2. n # 0 => t[2] = s[1]
        BY <1>3, <1>8
      <4> QED
        BY <1>2, <1>3, <1>7, <1>8, <3>1, <4>1, <4>2
    <3>2. CASE i # 1
      <4> DEFINE j == i - 1
      <4>1. j \in DOMAIN s /\ t[i] = s[j] /\ j \in Nat /\ i = j + 1
        BY <1>3, <1>8, <3>2
      <4> HIDE DEF j
      <4>2. /\ k[s[j]] \in [content : DOMAIN k, next : Nat]
            /\ k[s[j]].next = IF j = n THEN NULL ELSE s[j + 1]
        BY <1>5, <4>1 DEF IsList
      <4>3. j # n => j + 1 \in DOMAIN s /\ t[i + 1] = s[j + 1]
        BY <1>3, <1>8, <4>1
      <4> QED
        BY <1>3, <1>7, <4>1, <4>2, <4>3
    <3> QED
      BY <3>1, <3>2
  <2>3. \A i \in DOMAIN t : i # 1 => /\ t[i] \in ListIds(h, s)
                                     /\ k[t[i]].content \in ListIds(h, s)
    <3>1. \A j \in DOMAIN s : s[j] \in ListIds(k, s) /\ k[s[j]].content \in ListIds(k, s)
      BY DEF ListIds
    <3> QED
      BY <1>5, <1>8, <3>1
  <2>4. k[t[1]].content = c /\ t[1] = y /\ y # c
        /\ y \notin ListIds(h, s) /\ c \notin ListIds(h, s)
    BY <1>2, <1>8
  <2>5. \A i, j \in DOMAIN t : i # 1 /\ j # 1 =>
          /\ t[i] # k[t[j]].content
          /\ t[i] = t[j] => i = j
          /\ k[t[i]].content = k[t[j]].content => i = j
    <3> TAKE i, j \in DOMAIN t
    <3> HAVE i # 1 /\ j # 1
    <3>1. i - 1 \in DOMAIN s /\ j - 1 \in DOMAIN s /\ t[i] = s[i - 1] /\ t[j] = s[j - 1]
      BY <1>8
    <3>2. /\ s[i - 1] # k[s[j - 1]].content
          /\ s[i - 1] = s[j - 1] => i - 1 = j - 1
          /\ k[s[i - 1]].content = k[s[j - 1]].content => i - 1 = j - 1
      BY <1>5, <3>1 DEF IsList
    <3>3. i \in Int /\ j \in Int
      BY <1>8
    <3> QED
      BY <3>1, <3>2, <3>3
  <2>6. \A i, j \in DOMAIN t :
          /\ t[i] # k[t[j]].content
          /\ t[i] = t[j] => i = j
          /\ k[t[i]].content = k[t[j]].content => i = j
    BY <2>3, <2>4, <2>5
  <2> QED
    BY <2>1, <2>2, <2>6 DEF IsList
<1> QED
  BY <1>1, <1>2, <1>9, <1>10, <1>11 DEF t, k, Before

(* ft_lstadd_back with a new node that has its content.                    *)
LEMMA AddBackGives ==
  ASSUME NEW h, GoodHeap(h), NEW lst, NEW s, IsList(h, lst, s),
         NEW y, NEW c, NewNode(h, s, y, c)
  PROVE  LET r == ft_lstadd_back(h, lst, y)
             t == Append(s, y)
         IN  /\ GoodHeap(r.heap) /\ DOMAIN r.heap = DOMAIN h
             /\ \A x \in DOMAIN h \ ListIds(h, s) : r.heap[x] = h[x]
             /\ IsList(r.heap, r.ptr, t)
             /\ ListIds(r.heap, t) = ListIds(h, s) \cup {y, c}
             /\ Values(r.heap, t) = Append(Values(h, s), h[c])
<1> /\ y \in DOMAIN h \ ListIds(h, s) /\ c \in DOMAIN h \ ListIds(h, s)
    /\ y # c /\ h[y] = [content |-> c, next |-> NULL]
  BY DEF NewNode
<1> DEFINE r == ft_lstadd_back(h, lst, y)
           t == Append(s, y)
           n == Len(s)
           k == r.heap
           p == r.ptr
<1>1. /\ n \in Nat /\ DOMAIN s = 1 .. n /\ ListIds(h, s) \subseteq DOMAIN h
      /\ lst \in Nat /\ (lst # NULL <=> n # 0)
  BY ListFacts
<1>2. s \in Seq(DOMAIN h) /\ (s = <<>> <=> n = 0)
  <2>1. s \in Seq(DOMAIN h)
    BY DEF IsList
  <2> QED
    BY <2>1, EmptySeq
<1>3. \A i \in DOMAIN s : /\ s[i] \in DOMAIN h /\ s[i] # y /\ s[i] # c
                          /\ h[s[i]].content \in DOMAIN h
                          /\ h[s[i]].content # y /\ h[s[i]].content # c
  BY ListFacts DEF ListIds
<1>4. y \in Nat \ {NULL}
  BY DEF GoodHeap
<1>5. /\ GoodHeap(k) /\ DOMAIN k = DOMAIN h
      /\ p = IF n = 0 THEN y ELSE lst
      /\ \A x \in DOMAIN h : (n = 0 \/ x # s[n]) => k[x] = h[x]
      /\ n # 0 => k[s[n]] = [content |-> h[s[n]].content, next |-> y]
  <2>1. CASE n = 0
    <3>1. k = h /\ p = y
      BY <1>1, <2>1 DEF ft_lstadd_back, Outcome
    <3> HIDE DEF k, p
    <3> QED
      BY <2>1, <3>1
  <2>2. CASE n # 0
    <3> DEFINE g == [h EXCEPT ![s[n]].next = y]
    <3>1. ft_lstlast(h, lst) = s[n]
      BY <1>1, <2>2, NodesAre DEF ft_lstlast, Last
    <3>2. k = g /\ p = lst
      BY <1>1, <2>2, <3>1 DEF ft_lstadd_back, Outcome
    <3>3. /\ n \in DOMAIN s /\ s[n] \in DOMAIN h
          /\ h[s[n]] = [content |-> h[s[n]].content, next |-> h[s[n]].next]
      BY <1>1, <2>2, ListFacts
    <3>4. /\ GoodHeap(g) /\ DOMAIN g = DOMAIN h
          /\ g[s[n]] = [content |-> h[s[n]].content, next |-> y]
          /\ \A x \in DOMAIN h : x # s[n] => g[x] = h[x]
      BY <3>3, SetNext
    <3> HIDE DEF k, p, g, n
    <3> QED
      BY <2>2, <3>2, <3>4
  <2> QED
    BY <2>1, <2>2
<1> HIDE DEF k, p
<1>6. /\ t \in Seq(DOMAIN h) /\ Len(t) = n + 1 /\ t[n + 1] = y
      /\ DOMAIN t = 1 .. n + 1 /\ n + 1 \in DOMAIN t
      /\ \A i \in 1 .. n : t[i] = s[i]
  BY <1>1, <1>2, AppendProperties, LenProperties
<1> HIDE DEF t
<1>7. \A i \in DOMAIN t : i # n + 1 => i \in DOMAIN s /\ t[i] = s[i]
  BY <1>1, <1>6
<1>8. k[y] = h[y] /\ k[c] = h[c] /\ k[y].content = c /\ k[y].next = NULL
  BY <1>1, <1>3, <1>5
<1>9. \A i \in DOMAIN s : /\ k[s[i]].content = h[s[i]].content
                          /\ k[h[s[i]].content] = h[h[s[i]].content]
                          /\ k[s[i]].next = IF i = n THEN y ELSE s[i + 1]
                          /\ k[s[i]] \in [content : DOMAIN k, next : Nat]
  <2> TAKE i \in DOMAIN s
  <2>1. /\ h[s[i]] \in [content : DOMAIN h, next : Nat]
        /\ h[s[i]].next = IF i = n THEN NULL ELSE s[i + 1]
        /\ \A j \in DOMAIN s : /\ s[j] # h[s[i]].content
                               /\ s[i] = s[j] => i = j
    BY DEF IsList
  <2>2. k[h[s[i]].content] = h[h[s[i]].content]
    BY <1>1, <1>3, <1>5, <2>1
  <2>3. CASE i = n
    <3>1. k[s[i]] = [content |-> h[s[i]].content, next |-> y]
      BY <1>1, <1>5, <2>3
    <3> QED
      BY <1>3, <1>4, <1>5, <2>2, <2>3, <3>1
  <2>4. CASE i # n
    <3>1. s[i] # s[n] /\ n # 0
      BY <1>1, <2>1, <2>4
    <3>2. k[s[i]] = h[s[i]]
      BY <1>3, <1>5, <3>1
    <3> QED
      BY <1>5, <2>1, <2>2, <2>4, <3>2
  <2> QED
    BY <2>3, <2>4
<1>10. ListIds(k, t) = ListIds(h, s) \cup {y, c}
  <2>1. ListIds(k, t) \subseteq ListIds(h, s) \cup {y, c}
    <3> SUFFICES ASSUME NEW i \in DOMAIN t
                 PROVE  {t[i], k[t[i]].content} \subseteq ListIds(h, s) \cup {y, c}
      BY DEF ListIds
    <3>1. CASE i = n + 1
      BY <1>6, <1>8, <3>1
    <3>2. CASE i # n + 1
      BY <1>7, <1>9, <3>2 DEF ListIds
    <3> QED
      BY <3>1, <3>2
  <2>2. ListIds(h, s) \subseteq ListIds(k, t)
    <3> SUFFICES ASSUME NEW i \in DOMAIN s
                 PROVE  {s[i], h[s[i]].content} \subseteq ListIds(k, t)
      BY DEF ListIds
    <3>1. i \in DOMAIN t /\ t[i] = s[i]
      BY <1>1, <1>6
    <3> QED
      BY <1>9, <3>1 DEF ListIds
  <2>3. {y, c} \subseteq ListIds(k, t)
    BY <1>6, <1>8 DEF ListIds
  <2> QED
    BY <2>1, <2>2, <2>3
<1>11. Values(k, t) = Append(Values(h, s), h[c])
  <2> DEFINE v == Values(h, s)
             X == {h[x] : x \in DOMAIN h}
  <2>1. v \in Seq(X) /\ Len(v) = n /\ \A i \in DOMAIN s : v[i] = h[h[s[i]].content]
    <3>1. \A i \in 1 .. n : h[h[s[i]].content] \in X
      BY <1>1, <1>3
    <3> HIDE DEF X
    <3> QED
      BY <1>1, <3>1 DEF Values
  <2>2. h[c] \in X
    OBVIOUS
  <2> DEFINE w == Append(v, h[c])
  <2> HIDE DEF v, X
  <2>3. /\ w \in Seq(X) /\ Len(w) = n + 1 /\ w[n + 1] = h[c]
        /\ \A i \in 1 .. n : w[i] = v[i]
    BY <2>1, <2>2, AppendProperties
  <2> HIDE DEF w
  <2>4. \A i \in DOMAIN t : k[k[t[i]].content] = w[i]
    <3> TAKE i \in DOMAIN t
    <3>1. CASE i = n + 1
      BY <1>6, <1>8, <2>3, <3>1
    <3>2. CASE i # n + 1
      <4>1. i \in DOMAIN s /\ t[i] = s[i] /\ i \in 1 .. n
        BY <1>1, <1>7, <3>2
      <4> QED
        BY <1>9, <2>1, <2>3, <4>1
    <3> QED
      BY <3>1, <3>2
  <2>5. w = [i \in DOMAIN t |-> w[i]]
    BY <1>6, <2>3, LenProperties
  <2>6. Values(k, t) = w
    BY <2>4, <2>5 DEF Values
  <2> QED
    BY <2>6 DEF w, v
<1>12. IsList(k, p, t)
  <2>1. t \in Seq(DOMAIN k) /\ t # <<>> /\ p = t[1]
    <3>1. t \in Seq(DOMAIN k) /\ t # <<>>
      BY <1>1, <1>5, <1>6
    <3>2. lst = IF n = 0 THEN NULL ELSE s[1]
      BY <1>2 DEF IsList
    <3>3. n # 0 => 1 \in 1 .. n
      BY <1>1
    <3> QED
      BY <1>1, <1>5, <1>6, <3>1, <3>2, <3>3
  <2>2. \A i \in DOMAIN t :
          /\ k[t[i]] \in [content : DOMAIN k, next : Nat]
          /\ k[t[i]].next = IF i = Len(t) THEN NULL ELSE t[i + 1]
    <3> TAKE i \in DOMAIN t
    <3>1. CASE i = n + 1
      BY <1>5, <1>6, <1>8, <3>1 DEF NULL
    <3>2. CASE i # n + 1
      <4>1. i \in DOMAIN s /\ t[i] = s[i] /\ (i # n => i + 1 \in 1 .. n)
        BY <1>1, <1>7, <3>2
      <4>2. t[i + 1] = IF i = n THEN y ELSE s[i + 1]
        BY <1>6, <4>1
      <4> QED
        BY <1>6, <1>9, <3>2, <4>1, <4>2
    <3> QED
      BY <3>1, <3>2
  <2>3. \A i \in DOMAIN t : i # n + 1 => /\ t[i] # y /\ t[i] # c
                                         /\ k[t[i]].content # y /\ k[t[i]].content # c
    BY <1>3, <1>7, <1>9
  <2>4. \A i, j \in DOMAIN t : i # n + 1 /\ j # n + 1 =>
          /\ t[i] # k[t[j]].content
          /\ t[i] = t[j] => i = j
          /\ k[t[i]].content = k[t[j]].content => i = j
    BY <1>7, <1>9 DEF IsList
  <2>5. \A i, j \in DOMAIN t :
          /\ t[i] # k[t[j]].content
          /\ t[i] = t[j] => i = j
          /\ k[t[i]].content = k[t[j]].content => i = j
    BY <1>6, <1>8, <2>3, <2>4
  <2> QED
    BY <2>1, <2>2, <2>5 DEF IsList
<1>13. \A x \in DOMAIN h \ ListIds(h, s) : k[x] = h[x]
  <2>1. n # 0 => s[n] \in ListIds(h, s)
    BY <1>1 DEF ListIds
  <2> QED
    BY <1>5, <2>1
<1> QED
  BY <1>5, <1>10, <1>11, <1>12, <1>13 DEF t, k, p

(* Taking out the first node and disposing of it.                          *)
LEMMA DeleteFirstGives ==
  ASSUME NEW h, GoodHeap(h), NEW lst, NEW s, IsList(h, lst, s), lst # NULL
  PROVE  LET k == ft_lstdelone(h, lst) IN
         /\ GoodHeap(k)
         /\ DOMAIN k = (DOMAIN h \ ListIds(h, s)) \cup ListIds(k, Tail(s))
         /\ \A x \in DOMAIN h \ ListIds(h, s) : k[x] = h[x]
         /\ IsList(k, h[lst].next, Tail(s))
         /\ ListIds(k, Tail(s)) \subseteq ListIds(h, s)
         /\ Values(k, Tail(s)) = Tail(Values(h, s))
<1> DEFINE k == ft_lstdelone(h, lst)
           c == h[lst].content
           t == Tail(s)
           n == Len(s)
<1>1. /\ n \in Nat /\ n # 0 /\ DOMAIN s = 1 .. n /\ 1 \in DOMAIN s
      /\ ListIds(h, s) \subseteq DOMAIN h /\ s \in Seq(DOMAIN h) /\ s # <<>>
  <2>1. /\ n \in Nat /\ n # 0 /\ DOMAIN s = 1 .. n /\ ListIds(h, s) \subseteq DOMAIN h
    BY ListFacts
  <2>2. s \in Seq(DOMAIN h)
    BY DEF IsList
  <2> QED
    BY <2>1, <2>2, EmptySeq
<1>2. s[1] = lst /\ lst \in DOMAIN h /\ c \in DOMAIN h /\ lst # c
      /\ h[lst].next = IF n = 1 THEN NULL ELSE s[2]
  <2>1. s[1] = lst
    BY <1>1 DEF IsList
  <2>2. s[1] # h[s[1]].content /\ h[s[1]].next = IF n = 1 THEN NULL ELSE s[2]
    BY <1>1 DEF IsList
  <2> QED
    BY <1>1, <2>1, <2>2, ListFacts
<1>3. /\ GoodHeap(k) /\ DOMAIN k = DOMAIN h \ {lst, c}
      /\ \A x \in DOMAIN h \ {lst, c} : k[x] = h[x]
  <2> DEFINE g == Without(h, {c})
  <2>1. del(h, c) = g
    BY <1>2, FreeGives DEF del
  <2>2. GoodHeap(g) /\ DOMAIN g = DOMAIN h \ {c}
    BY WithoutGood
  <2>3. free(g, lst) = Without(g, {lst})
    <3>1. lst \in DOMAIN g
      BY <1>2, <2>2
    <3> HIDE DEF g
    <3> QED
      BY <2>2, <3>1, FreeGives
  <2>4. Without(g, {lst}) = Without(h, {c} \cup {lst})
    BY WithoutMore
  <2>5. k = Without(h, {lst, c})
    <3>1. {c} \cup {lst} = {lst, c}
      OBVIOUS
    <3>2. k = free(del(h, c), lst)
      BY DEF ft_lstdelone
    <3> QED
      BY <2>1, <2>3, <2>4, <3>1, <3>2
  <2> HIDE DEF k
  <2> QED
    BY <2>5, WithoutGood
<1> HIDE DEF k
<1>4. /\ t \in Seq(DOMAIN h) /\ Len(t) = n - 1 /\ DOMAIN t = 1 .. n - 1
      /\ \A i \in DOMAIN t : i + 1 \in DOMAIN s /\ i + 1 # 1 /\ t[i] = s[i + 1]
      /\ \A i \in DOMAIN s : i # 1 => i - 1 \in DOMAIN t /\ t[i - 1] = s[i]
  <2>1. /\ t \in Seq(DOMAIN h) /\ Len(t) = n - 1
        /\ \A i \in 1 .. Len(t) : t[i] = s[i + 1]
    BY <1>1, HeadTailProperties
  <2> HIDE DEF t
  <2>2. DOMAIN t = 1 .. n - 1
    BY <2>1, LenProperties
  <2> QED
    BY <1>1, <2>1, <2>2
<1> HIDE DEF t
<1>5. \A i \in DOMAIN s : i # 1 => /\ s[i] # lst /\ s[i] # c
                                   /\ h[s[i]].content # lst /\ h[s[i]].content # c
                                   /\ s[i] \in DOMAIN h /\ h[s[i]].content \in DOMAIN h
  <2>1. \A i \in DOMAIN s : i # 1 => /\ s[i] # s[1] /\ s[i] # h[s[1]].content
                                     /\ h[s[i]].content # s[1]
                                     /\ h[s[i]].content # h[s[1]].content
    BY <1>1 DEF IsList
  <2> QED
    BY <1>2, <2>1, ListFacts
<1>6. IsList(h, h[lst].next, t)
  <2>1. h[lst].next = IF t = <<>> THEN NULL ELSE t[1]
    <3>1. t = <<>> <=> n = 1
      BY <1>1, <1>4, EmptySeq
    <3>2. n # 1 => 1 \in DOMAIN t /\ t[1] = s[2]
      BY <1>1, <1>4
    <3> QED
      BY <1>2, <3>1, <3>2
  <2>2. \A i \in DOMAIN t :
          /\ h[t[i]] \in [content : DOMAIN h, next : Nat]
          /\ h[t[i]].next = IF i = Len(t) THEN NULL ELSE t[i + 1]
    <3> TAKE i \in DOMAIN t
    <3>1. i + 1 \in DOMAIN s /\ t[i] = s[i + 1] /\ i \in Nat
      BY <1>1, <1>4
    <3>2. /\ h[s[i + 1]] \in [content : DOMAIN h, next : Nat]
          /\ h[s[i + 1]].next = IF i + 1 = n THEN NULL ELSE s[(i + 1) + 1]
      BY <3>1 DEF IsList
    <3>3. i # n - 1 => i + 1 \in DOMAIN t /\ t[i + 1] = s[(i + 1) + 1]
      BY <1>1, <1>4, <3>1
    <3> QED
      BY <1>1, <1>4, <3>1, <3>2, <3>3
  <2>3. \A i, j \in DOMAIN t :
          /\ t[i] # h[t[j]].content
          /\ t[i] = t[j] => i = j
          /\ h[t[i]].content = h[t[j]].content => i = j
    <3> TAKE i, j \in DOMAIN t
    <3>1. /\ s[i + 1] # h[s[j + 1]].content
          /\ s[i + 1] = s[j + 1] => i + 1 = j + 1
          /\ h[s[i + 1]].content = h[s[j + 1]].content => i + 1 = j + 1
      BY <1>4 DEF IsList
    <3>2. i \in Int /\ j \in Int
      BY <1>4
    <3> QED
      BY <1>4, <3>1, <3>2
  <2> QED
    BY <1>4, <2>1, <2>2, <2>3 DEF IsList
<1>7. ListIds(h, s) = ListIds(h, t) \cup {lst, c}
  <2>1. ListIds(h, s) \subseteq ListIds(h, t) \cup {lst, c}
    <3> SUFFICES ASSUME NEW i \in DOMAIN s
                 PROVE  {s[i], h[s[i]].content} \subseteq ListIds(h, t) \cup {lst, c}
      BY DEF ListIds
    <3>1. CASE i = 1
      BY <1>2, <3>1
    <3>2. CASE i # 1
      BY <1>4, <3>2 DEF ListIds
    <3> QED
      BY <3>1, <3>2
  <2>2. ListIds(h, t) \subseteq ListIds(h, s)
    <3> SUFFICES ASSUME NEW i \in DOMAIN t
                 PROVE  {t[i], h[t[i]].content} \subseteq ListIds(h, s)
      BY DEF ListIds
    <3> QED
      BY <1>4 DEF ListIds
  <2>3. {lst, c} \subseteq ListIds(h, s)
    BY <1>1, <1>2 DEF ListIds
  <2> QED
    BY <2>1, <2>2, <2>3
<1>8. lst \notin ListIds(h, t) /\ c \notin ListIds(h, t)
  <2>1. \A i \in DOMAIN t : /\ t[i] # lst /\ t[i] # c
                            /\ h[t[i]].content # lst /\ h[t[i]].content # c
    BY <1>4, <1>5
  <2> QED
    BY <2>1 DEF ListIds
<1>9. SameIn(h, k, ListIds(h, t))
  BY <1>1, <1>3, <1>7, <1>8 DEF SameIn
<1>10. /\ IsList(k, h[lst].next, t) /\ ListIds(k, t) = ListIds(h, t)
       /\ Values(k, t) = Values(h, t)
  BY <1>6, <1>9, ListFrame
<1>11. Values(h, t) = Tail(Values(h, s))
  <2> DEFINE v == Values(h, s)
             X == {h[x] : x \in DOMAIN h}
  <2>1. v \in Seq(X) /\ Len(v) = n /\ \A i \in DOMAIN s : v[i] = h[h[s[i]].content]
    <3>1. \A i \in 1 .. n : h[h[s[i]].content] \in X
      BY <1>1, ListFacts
    <3> HIDE DEF X
    <3> QED
      BY <1>1, <3>1 DEF Values
  <2> HIDE DEF v, X
  <2> DEFINE w == Tail(v)
  <2>2. v # <<>>
    BY <1>1, <2>1, EmptySeq
  <2>3. w \in Seq(X) /\ Len(w) = n - 1 /\ \A i \in 1 .. n - 1 : w[i] = v[i + 1]
    BY <2>1, <2>2, HeadTailProperties
  <2> HIDE DEF w
  <2>4. w = [i \in 1 .. n - 1 |-> w[i]]
    BY <2>3, LenProperties
  <2>5. \A i \in 1 .. n - 1 : h[h[t[i]].content] = w[i]
    <3> TAKE i \in 1 .. n - 1
    <3>1. t[i] = s[i + 1] /\ i + 1 \in DOMAIN s
      BY <1>4
    <3>2. w[i] = v[i + 1]
      BY <2>3
    <3> QED
      BY <2>1, <3>1, <3>2
  <2>6. Values(h, t) = w
    BY <1>4, <2>4, <2>5 DEF Values
  <2> QED
    BY <2>6 DEF w, v
<1>12. DOMAIN k = (DOMAIN h \ ListIds(h, s)) \cup ListIds(k, t)
  BY <1>1, <1>3, <1>7, <1>8, <1>10
<1>13. \A x \in DOMAIN h \ ListIds(h, s) : k[x] = h[x]
  BY <1>3, <1>7
<1> QED
  BY <1>3, <1>7, <1>10, <1>11, <1>12, <1>13 DEF k, t

(* Clearing a list frees its objects.                                      *)
LEMMA ClearGives ==
  ASSUME NEW h, GoodHeap(h), NEW lst, NEW s, IsList(h, lst, s)
  PROVE  ft_lstclear(h, lst) = Without(h, ListIds(h, s))
<1> DEFINE n == Len(s)
<1>1. n \in Nat /\ DOMAIN s = 1 .. n
  BY ListFacts
<1>2. \A k \in 1 .. n : s[k] \in DOMAIN h /\ h[s[k]].content \in DOMAIN h
  BY <1>1, ListFacts
<1>3. \A j, k \in 1 .. n : /\ s[j] # h[s[k]].content
                           /\ s[j] = s[k] => j = k
                           /\ h[s[j]].content = h[s[k]].content => j = k
  BY <1>1 DEF IsList
<1>4. Nodes(h, lst) = s
  BY NodesAre
<1> HIDE DEF n
<1>5. FoldLeft(ft_lstdelone, h, s)
        = Without(h, {s[k] : k \in 1 .. n} \cup {h[s[k]].content : k \in 1 .. n})
  BY <1>1, <1>2, <1>3, DelEachGives
<1> QED
  BY <1>1, <1>4, <1>5 DEF ft_lstclear, ListIds

(* ft_lstiter changes the contents.                                        *)
LEMMA IterateGives ==
  ASSUME NEW h, GoodHeap(h), NEW lst, NEW s, IsList(h, lst, s)
  PROVE  LET k == ft_lstiter(h, lst) IN
         /\ GoodHeap(k) /\ DOMAIN k = DOMAIN h
         /\ \A x \in DOMAIN h \ ListIds(h, s) : k[x] = h[x]
         /\ IsList(k, lst, s) /\ ListIds(k, s) = ListIds(h, s)
         /\ Values(k, s) = [i \in DOMAIN s |-> f(Values(h, s)[i])]
<1> DEFINE k == ft_lstiter(h, lst)
           C == {h[x].content : x \in ToSet(s)}
<1>1. Nodes(h, lst) = s
  BY NodesAre
<1>2. /\ DOMAIN k = DOMAIN h
      /\ \A x \in DOMAIN h : k[x] = IF x \in C THEN f(h[x]) ELSE h[x]
      /\ k = [x \in DOMAIN k |-> k[x]]
  BY <1>1 DEF ft_lstiter
<1>3. \A x : x \in C <=> \E i \in DOMAIN s : x = h[s[i]].content
  BY DEF ToSet
<1> HIDE DEF k, C
<1>4. GoodHeap(k)
  BY <1>2 DEF GoodHeap
<1>5. \A i \in DOMAIN s : /\ s[i] \in DOMAIN h /\ s[i] \notin C
                          /\ h[s[i]].content \in DOMAIN h /\ h[s[i]].content \in C
  <2>1. \A i, j \in DOMAIN s : s[i] # h[s[j]].content
    BY DEF IsList
  <2>2. \A i \in DOMAIN s : s[i] \in DOMAIN h /\ h[s[i]].content \in DOMAIN h
    BY ListFacts
  <2> QED
    BY <1>3, <2>1, <2>2
<1>6. \A i \in DOMAIN s : /\ k[s[i]] = h[s[i]]
                          /\ k[h[s[i]].content] = f(h[h[s[i]].content])
  BY <1>2, <1>5
<1>7. IsList(k, lst, s)
  BY <1>2, <1>6 DEF IsList
<1>8. ListIds(k, s) = ListIds(h, s)
  BY <1>6 DEF ListIds
<1>9. \A x \in DOMAIN h \ ListIds(h, s) : k[x] = h[x]
  BY <1>2, <1>3 DEF ListIds
<1>10. Values(k, s) = [i \in DOMAIN s |-> f(Values(h, s)[i])]
  BY <1>6 DEF Values
<1> QED
  BY <1>2, <1>4, <1>7, <1>8, <1>9, <1>10 DEF k

------------------------------------------------------------------------------
(* Arrays on the heap.                                                     *)

(* The array a has strings in its first n entries, all different objects,  *)
(* and NULL in the others that are set.                                    *)
IsArray(h, a, n) ==
  /\ a \in DOMAIN h /\ n \in Nat
  /\ h[a] = [k \in DOMAIN h[a] |-> h[a][k]]
  /\ DOMAIN h[a] \subseteq Nat /\ 0 .. n - 1 \subseteq DOMAIN h[a]
  /\ \A k \in DOMAIN h[a] : k >= n => h[a][k] = NULL
  /\ \A k \in 0 .. n - 1 : h[a][k] \in DOMAIN h \ {a}
  /\ \A j, k \in 0 .. n - 1 : h[a][j] = h[a][k] => j = k

ArrayIds(h, a, n) == {a} \cup {h[a][k] : k \in 0 .. n - 1}
WordsIn(h, a, n)  == [k \in 1 .. n |-> h[h[a][k - 1]]]

(* An array depends on its own objects only.                               *)
LEMMA ArrayFrame ==
  ASSUME NEW h, NEW a, NEW n, IsArray(h, a, n), NEW k, SameIn(h, k, ArrayIds(h, a, n))
  PROVE  /\ IsArray(k, a, n) /\ k[a] = h[a]
         /\ ArrayIds(k, a, n) = ArrayIds(h, a, n)
         /\ WordsIn(k, a, n) = WordsIn(h, a, n)
<1>1. /\ n \in Nat /\ a \in DOMAIN k /\ k[a] = h[a]
      /\ \A i \in 0 .. n - 1 : h[a][i] \in DOMAIN k /\ k[h[a][i]] = h[h[a][i]]
  BY DEF SameIn, ArrayIds, IsArray
<1>2. ArrayIds(k, a, n) = ArrayIds(h, a, n)
  BY <1>1 DEF ArrayIds
<1>3. \A i \in 1 .. n : i - 1 \in 0 .. n - 1
  BY <1>1
<1>4. WordsIn(k, a, n) = WordsIn(h, a, n)
  BY <1>1, <1>3 DEF WordsIn
<1>5. IsArray(k, a, n)
  BY <1>1 DEF IsArray
<1> QED
  BY <1>1, <1>2, <1>4, <1>5

(* Its length is what array_len counts, once there is a NULL behind.       *)
LEMMA ArrayLen ==
  ASSUME NEW h, GoodHeap(h), NEW a, NEW n, IsArray(h, a, n), n \in DOMAIN h[a]
  PROVE  array_len(h, a) = n /\ Elements(h, a) = WordsIn(h, a, n)
<1> DEFINE S == {k \in DOMAIN h[a] : h[a][k] = NULL}
<1>1. a # NULL /\ n \in Nat
  BY DEF IsArray, GoodHeap
<1>2. n \in S /\ S \in SUBSET Nat
  BY <1>1 DEF IsArray
<1>3. \A k \in S : k >= n
  <2> SUFFICES ASSUME NEW k \in S, ~ (k >= n)
               PROVE  FALSE
    OBVIOUS
  <2>1. k \in 0 .. n - 1 /\ h[a][k] = NULL
    BY <1>1, <1>2
  <2>2. h[a][k] \in DOMAIN h
    BY <2>1 DEF IsArray
  <2> QED
    BY <2>1, <2>2 DEF GoodHeap
<1>4. array_len(h, a) = Min(S)
  BY <1>1 DEF array_len
<1> HIDE DEF S
<1>5. Min(S) \in S /\ \A x \in S : Min(S) <= x
  BY <1>2, MinOfSet
<1>6. Min(S) = n
  BY <1>1, <1>2, <1>3, <1>5
<1> QED
  BY <1>4, <1>6 DEF Elements, WordsIn

(* What an array is made of.                                               *)
LEMMA ArrayFacts ==
  ASSUME NEW h, GoodHeap(h), NEW a, NEW n, IsArray(h, a, n)
  PROVE  /\ n \in Nat /\ a \in DOMAIN h /\ a # NULL
         /\ ArrayIds(h, a, n) \subseteq DOMAIN h
         /\ \A k \in 0 .. n - 1 : /\ h[a][k] \in DOMAIN h /\ h[a][k] # a
                                  /\ h[a][k] # NULL
  BY DEF IsArray, GoodHeap, ArrayIds

(* array_free frees the strings and the array.                             *)
LEMMA ArrayFreeGives ==
  ASSUME NEW h, GoodHeap(h), NEW a, NEW n, IsArray(h, a, n), n \in DOMAIN h[a]
  PROVE  array_free(h, a) = Without(h, ArrayIds(h, a, n))
<1> DEFINE s == [k \in 1 .. n |-> h[a][k - 1]]
           P == {s[k] : k \in 1 .. n}
<1>1. /\ n \in Nat /\ a \in DOMAIN h /\ a # NULL
      /\ \A k \in 0 .. n - 1 : h[a][k] \in DOMAIN h /\ h[a][k] # a
  BY ArrayFacts
<1>2. array_len(h, a) = n
  BY ArrayLen
<1>3. array_free(h, a) = free(FreeEach(h, s), a)
  BY <1>1, <1>2 DEF array_free
<1>4. DOMAIN s = 1 .. n
  OBVIOUS
<1>5. \A k \in 1 .. n : k - 1 \in 0 .. n - 1 /\ s[k] = h[a][k - 1]
  BY <1>1
<1>6. \A j, k \in 1 .. n : j # k /\ s[j] = s[k] => s[j] = NULL
  <2> TAKE j, k \in 1 .. n
  <2>1. h[a][j - 1] = h[a][k - 1] => j - 1 = k - 1
    BY <1>5 DEF IsArray
  <2> QED
    BY <1>5, <2>1
<1>7. P \cup {a} = ArrayIds(h, a, n)
  <2>1. \A k \in 0 .. n - 1 : k + 1 \in 1 .. n /\ s[k + 1] = h[a][k]
    BY <1>1
  <2> HIDE DEF s
  <2> QED
    BY <1>5, <2>1 DEF ArrayIds
<1> HIDE DEF s
<1>8. FreeEach(h, s) = Without(h, P)
  <2>1. \A k \in 1 .. n : s[k] = NULL \/ s[k] \in DOMAIN h
    BY <1>1, <1>5
  <2>2. n \in Nat
    BY <1>1
  <2> QED
    BY <1>4, <1>6, <2>1, <2>2, FreeEachGives
<1>9. a \notin P
  BY <1>1, <1>5
<1> HIDE DEF P
<1>10. GoodHeap(Without(h, P)) /\ a \in DOMAIN Without(h, P)
  BY <1>1, <1>9, WithoutGood
<1>11. free(Without(h, P), a) = Without(Without(h, P), {a})
  BY <1>10, FreeGives
<1> QED
  BY <1>3, <1>7, <1>8, <1>11, WithoutMore

LEMMA AppendIs ==
  ASSUME NEW m \in Nat, NEW w, w = [k \in 1 .. m |-> w[k]], NEW v
  PROVE  Append(w, v) = [k \in 1 .. m + 1 |-> IF k = m + 1 THEN v ELSE w[k]]
<1> DEFINE X == {w[k] : k \in 1 .. m}
<1>1. \A k \in 1 .. m : w[k] \in X
  OBVIOUS
<1> HIDE DEF X
<1>2. w \in Seq(X) /\ Len(w) = m
  BY <1>1
<1> QED
  BY <1>2

LEMMA OneMore ==
  ASSUME NEW n \in Nat, NEW v, NEW w, w = [k \in 1 .. n |-> v[k]]
  PROVE  Append(w, v[n + 1]) = [k \in 1 .. n + 1 |-> v[k]]
<1>1. w = [k \in 1 .. n |-> w[k]] /\ \A k \in 1 .. n : w[k] = v[k]
  OBVIOUS
<1>2. Append(w, v[n + 1])
        = [k \in 1 .. n + 1 |-> IF k = n + 1 THEN v[n + 1] ELSE w[k]]
  BY <1>1, AppendIs
<1>3. \A k \in 1 .. n + 1 : (IF k = n + 1 THEN v[n + 1] ELSE w[k]) = v[k]
  BY <1>1
<1> QED
  BY <1>2, <1>3

(* One more string in an array.                                            *)
LEMMA AddEntryGives ==
  ASSUME NEW h, GoodHeap(h), NEW a, NEW n, IsArray(h, a, n),
         NEW p \in DOMAIN h \ ArrayIds(h, a, n),
         NEW k, GoodHeap(k), DOMAIN k = DOMAIN h,
         \A x \in DOMAIN h : x # a => k[x] = h[x],
         k[a] = Store(h[a], n, p)
  PROVE  /\ IsArray(k, a, n + 1)
         /\ ArrayIds(k, a, n + 1) = ArrayIds(h, a, n) \cup {p}
         /\ WordsIn(k, a, n + 1) = Append(WordsIn(h, a, n), h[p])
<1>1. /\ n \in Nat /\ a \in DOMAIN h /\ p # a
      /\ \A i \in 0 .. n - 1 : h[a][i] \in DOMAIN h /\ h[a][i] # a /\ h[a][i] # p
  BY ArrayFacts DEF ArrayIds
<1>2. /\ DOMAIN k[a] = DOMAIN h[a] \cup {n} /\ k[a][n] = p
      /\ \A i \in DOMAIN h[a] : i # n => k[a][i] = h[a][i]
      /\ k[a] = [i \in DOMAIN k[a] |-> k[a][i]]
  BY DEF Store
<1>3. 0 .. (n + 1) - 1 = (0 .. n - 1) \cup {n} /\ n \notin 0 .. n - 1
  BY <1>1
<1>4. \A i \in 0 .. n - 1 : i \in DOMAIN h[a] /\ i # n /\ k[a][i] = h[a][i]
  BY <1>2, <1>3 DEF IsArray
<1>5. ArrayIds(k, a, n + 1) = ArrayIds(h, a, n) \cup {p}
  <2>1. \A x : x \in ArrayIds(k, a, n + 1)
          <=> x = a \/ x = p \/ \E i \in 0 .. n - 1 : x = k[a][i]
    BY <1>2, <1>3 DEF ArrayIds
  <2>2. \A x : x \in ArrayIds(h, a, n) <=> x = a \/ \E i \in 0 .. n - 1 : x = h[a][i]
    BY DEF ArrayIds
  <2> QED
    BY <1>4, <2>1, <2>2
<1>6. IsArray(k, a, n + 1)
  <2>1. \A i \in 0 .. (n + 1) - 1 : k[a][i] \in DOMAIN k \ {a}
    BY <1>1, <1>2, <1>3, <1>4
  <2>2. \A i, j \in 0 .. (n + 1) - 1 : k[a][i] = k[a][j] => i = j
    <3>1. \A i, j \in 0 .. n - 1 : h[a][i] = h[a][j] => i = j
      BY DEF IsArray
    <3> QED
      BY <1>1, <1>2, <1>3, <1>4, <3>1
  <2>3. \A i \in DOMAIN k[a] : i >= n + 1 => k[a][i] = NULL
    <3>1. \A i \in DOMAIN h[a] : i \in Nat /\ (i >= n => h[a][i] = NULL)
      BY DEF IsArray
    <3> QED
      BY <1>1, <1>2, <3>1
  <2>4. DOMAIN k[a] \subseteq Nat /\ 0 .. (n + 1) - 1 \subseteq DOMAIN k[a]
    BY <1>1, <1>2, <1>3 DEF IsArray
  <2> QED
    BY <1>1, <1>2, <2>1, <2>2, <2>3, <2>4 DEF IsArray
<1>7. WordsIn(k, a, n + 1) = [i \in 1 .. n + 1 |-> IF i = n + 1 THEN h[p]
                                                  ELSE WordsIn(h, a, n)[i]]
  <2>1. \A i \in 1 .. n + 1 :
          k[k[a][i - 1]] = IF i = n + 1 THEN h[p] ELSE WordsIn(h, a, n)[i]
    <3> TAKE i \in 1 .. n + 1
    <3>1. CASE i = n + 1
      <4>1. i - 1 = n
        BY <1>1, <3>1
      <4> QED
        BY <1>1, <1>2, <3>1, <4>1
    <3>2. CASE i # n + 1
      <4>1. i \in 1 .. n /\ i - 1 \in 0 .. n - 1
        BY <1>1, <3>2
      <4>2. WordsIn(h, a, n)[i] = h[h[a][i - 1]]
        BY <4>1 DEF WordsIn
      <4> QED
        BY <1>1, <1>4, <3>2, <4>1, <4>2
    <3> QED
      BY <3>1, <3>2
  <2> QED
    BY <2>1 DEF WordsIn
<1>8. Append(WordsIn(h, a, n), h[p]) = [i \in 1 .. n + 1 |-> IF i = n + 1 THEN h[p]
                                                  ELSE WordsIn(h, a, n)[i]]
  <2> DEFINE w == WordsIn(h, a, n)
  <2>1. w = [i \in 1 .. n |-> w[i]]
    BY DEF WordsIn
  <2> HIDE DEF w
  <2>2. Append(w, h[p]) = [i \in 1 .. n + 1 |-> IF i = n + 1 THEN h[p] ELSE w[i]]
    BY <1>1, <2>1, AppendIs
  <2> QED
    BY <2>2 DEF w
<1> QED
  BY <1>2, <1>5, <1>6, <1>7, <1>8

------------------------------------------------------------------------------
(* Texts and words.                                                        *)

Characters == (UNION {ToSet(s) : s \in Texts}) \cup Separators

(* ft_split has passed n characters of the text s, between two words; nb   *)
(* words were there, left ones are still to come.                          *)
Scanned(s, c, n, nb, left) ==
  /\ n \in 0 .. Len(s) /\ (n = 0 \/ n = Len(s) \/ s[n + 1] = c)
  /\ \A w \in Pieces(s, c) : w[2] <= n \/ n < w[1]
  /\ nb = Cardinality({w \in Pieces(s, c) : w[2] <= n})
  /\ left = Cardinality({w \in Pieces(s, c) : n < w[1]})

(* Two words do not meet.                                                  *)
LEMMA PieceFacts ==
  ASSUME NEW s, NEW c, Len(s) \in Nat, NEW w \in Pieces(s, c)
  PROVE  /\ w = <<w[1], w[2]>> /\ w[1] \in 1 .. Len(s) /\ w[2] \in 1 .. Len(s)
         /\ w[1] <= w[2] /\ \A k \in w[1] .. w[2] : s[k] # c
         /\ w[1] = 1 \/ s[w[1] - 1] = c
         /\ w[2] = Len(s) \/ s[w[2] + 1] = c
  BY DEF Pieces

LEMMA PiecesApart ==
  ASSUME NEW s, NEW c, Len(s) \in Nat, NEW v \in Pieces(s, c), NEW w \in Pieces(s, c),
         v # w
  PROVE  v[2] < w[1] \/ w[2] < v[1]
<1> DEFINE a == v[1]
           b == v[2]
           x == w[1]
           y == w[2]
<1>1. /\ v = <<a, b>> /\ a \in 1 .. Len(s) /\ b \in 1 .. Len(s)
      /\ a <= b /\ \A k \in a .. b : s[k] # c
      /\ a = 1 \/ s[a - 1] = c
      /\ b = Len(s) \/ s[b + 1] = c
  BY PieceFacts
<1>2. /\ w = <<x, y>> /\ x \in 1 .. Len(s) /\ y \in 1 .. Len(s)
      /\ x <= y /\ \A k \in x .. y : s[k] # c
      /\ x = 1 \/ s[x - 1] = c
      /\ y = Len(s) \/ s[y + 1] = c
  BY PieceFacts
<1> HIDE DEF a, b, x, y
<1> SUFFICES ASSUME x <= b, a <= y
             PROVE  FALSE
  BY <1>1, <1>2 DEF a, b, x, y
<1>3. ~ (a < x)
  <2> SUFFICES ASSUME a < x
               PROVE  FALSE
    OBVIOUS
  <2>1. x - 1 \in a .. b /\ x # 1
    BY <1>1, <1>2
  <2> QED
    BY <1>1, <1>2, <2>1
<1>4. ~ (x < a)
  <2> SUFFICES ASSUME x < a
               PROVE  FALSE
    OBVIOUS
  <2>1. a - 1 \in x .. y /\ a # 1
    BY <1>1, <1>2
  <2> QED
    BY <1>1, <1>2, <2>1
<1>5. ~ (b < y)
  <2> SUFFICES ASSUME b < y
               PROVE  FALSE
    OBVIOUS
  <2>1. b + 1 \in x .. y /\ b # Len(s)
    BY <1>1, <1>2
  <2> QED
    BY <1>1, <1>2, <2>1
<1>6. ~ (y < b)
  <2> SUFFICES ASSUME y < b
               PROVE  FALSE
    OBVIOUS
  <2>1. y + 1 \in a .. b /\ y # Len(s)
    BY <1>1, <1>2
  <2> QED
    BY <1>1, <1>2, <2>1
<1>7. a = x /\ b = y
  BY <1>1, <1>2, <1>3, <1>4, <1>5, <1>6
<1> QED
  BY <1>1, <1>2, <1>7

LEMMA PiecesFinite ==
  ASSUME NEW s, NEW c, Len(s) \in Nat
  PROVE  IsFiniteSet(Pieces(s, c))
<1> DEFINE D == 1 .. Len(s)
<1>1. IsFiniteSet(D)
  BY FS_Interval
<1> HIDE DEF D
<1>2. IsFiniteSet(D \X D)
  BY <1>1, FS_Product
<1>3. Pieces(s, c) \subseteq D \X D
  BY DEF Pieces, D
<1> QED
  BY <1>2, <1>3, FS_Subset

(* Where no separator is and one, or nothing, before it, a word begins.    *)
WordEnd(s, c, i) == Min({e \in i .. Len(s) : e = Len(s) \/ s[e + 1] = c})

LEMMA PieceAt ==
  ASSUME NEW s, NEW c, Len(s) \in Nat, NEW i \in 1 .. Len(s), s[i] # c,
         i = 1 \/ s[i - 1] = c
  PROVE  <<i, WordEnd(s, c, i)>> \in Pieces(s, c)
<1> DEFINE S == {e \in i .. Len(s) : e = Len(s) \/ s[e + 1] = c}
<1>1. Len(s) \in S /\ S \in SUBSET Nat
  OBVIOUS
<1>2. PICK e \in S : e = WordEnd(s, c, i) /\ \A x \in S : e <= x
  <2>1. WordEnd(s, c, i) = Min(S)
    BY DEF WordEnd
  <2> HIDE DEF S
  <2> QED
    BY <1>1, <2>1, MinOfSet
<1>3. e \in i .. Len(s) /\ (e = Len(s) \/ s[e + 1] = c)
  OBVIOUS
<1>4. \A k \in i .. e : s[k] # c
  <2> TAKE k \in i .. e
  <2>1. CASE k = i
    BY <2>1
  <2>2. CASE k # i
    <3>1. k - 1 \in i .. Len(s) /\ ~ (e <= k - 1)
      BY <1>3, <2>2
    <3>2. k - 1 \notin S
      BY <1>2, <3>1
    <3>3. s[(k - 1) + 1] # c
      BY <3>1, <3>2
    <3> QED
      BY <1>3, <3>3
  <2> QED
    BY <2>1, <2>2
<1>5. e \in 1 .. Len(s) /\ i <= e
  BY <1>3
<1> DEFINE w == <<i, e>>
<1>6. w \in (1 .. Len(s)) \X (1 .. Len(s)) /\ w[1] = i /\ w[2] = e
  BY <1>5
<1> HIDE DEF w, S
<1>7. w \in Pieces(s, c)
  BY <1>3, <1>4, <1>5, <1>6 DEF Pieces
<1> QED
  BY <1>2, <1>7 DEF w

(* ft_split counts the words.                                              *)
LEMMA CountIs ==
  ASSUME NEW C, NEW s \in Seq(C), NEW c
  PROVE  count_split(s, c) = Cardinality(Pieces(s, c))
<1> DEFINE P == Pieces(s, c)
           F == {i \in DOMAIN s : s[i] # c}
           m == Min(F)
           I == {i \in m .. Len(s) - 1 : s[i] = c /\ s[i + 1] # c}
           J == {i + 1 : i \in I}
           S == {i \in 1 .. Len(s) : s[i] # c /\ (i = 1 \/ s[i - 1] = c)}
<1>1. Len(s) \in Nat /\ DOMAIN s = 1 .. Len(s)
  OBVIOUS
<1>2. CASE F = {}
  <2>1. count_split(s, c) = 0
    BY <1>2 DEF count_split
  <2>2. P = {}
    <3> SUFFICES ASSUME NEW w \in P
                 PROVE  FALSE
      OBVIOUS
    <3>1. w[1] \in 1 .. Len(s) /\ w[1] \in w[1] .. w[2] /\ s[w[1]] # c
      BY <1>1, PieceFacts
    <3> QED
      BY <1>1, <1>2, <3>1
  <2> QED
    BY <2>1, <2>2, FS_EmptySet
<1>3. CASE F # {}
  <2>1. count_split(s, c) = 1 + Cardinality(I)
    BY <1>3 DEF count_split
  <2>2. F \in SUBSET Nat
    BY <1>1
  <2>3. m \in F /\ \A i \in F : m <= i
    <3> HIDE DEF F
    <3> QED
      BY <1>3, <2>2, MinOfSet
  <2> HIDE DEF m
  <2>4. m \in 1 .. Len(s) /\ s[m] # c /\ \A i \in 1 .. Len(s) : i < m => s[i] = c
    BY <1>1, <2>3
  <2> HIDE DEF F
  <2>5. S = J \cup {m} /\ m \notin J
    <3>1. m \in S
      <4>1. m # 1 => m - 1 \in 1 .. Len(s) /\ m - 1 < m
        BY <2>4
      <4> QED
        BY <2>4, <4>1
    <3>2. ASSUME NEW i \in I
          PROVE  i + 1 \in S /\ i + 1 # m
      <4>1. i + 1 \in 1 .. Len(s) /\ (i + 1) - 1 = i /\ i + 1 # m
        BY <1>1, <2>4
      <4> QED
        BY <4>1
    <3>3. ASSUME NEW i \in S, i # m
          PROVE  i \in J
      <4>1. i \in 1 .. Len(s) /\ s[i] # c /\ (i = 1 \/ s[i - 1] = c)
        OBVIOUS
      <4>2. m < i
        BY <2>4, <3>3, <4>1
      <4>3. i - 1 \in m .. Len(s) - 1 /\ (i - 1) + 1 = i /\ i # 1
        BY <1>1, <2>4, <4>1, <4>2
      <4>4. i - 1 \in I
        BY <4>1, <4>3
      <4> HIDE DEF I
      <4> QED
        BY <4>3, <4>4
    <3> HIDE DEF I, S
    <3> QED
      BY <3>1, <3>2, <3>3
  <2>6. IsFiniteSet(I)
    <3>1. m \in Int /\ Len(s) - 1 \in Int /\ I \subseteq m .. Len(s) - 1
      BY <1>1, <2>4
    <3> HIDE DEF I
    <3> QED
      BY <3>1, FS_Interval, FS_Subset
  <2>7. \A i \in I : i \in Int
    BY <2>4
  <2> HIDE DEF I
  <2>8. IsFiniteSet(J) /\ Cardinality(J) = Cardinality(I)
    <3> DEFINE g == [i \in I |-> i + 1]
    <3>1. g \in Bijection(I, J)
      BY <2>7 DEF Bijection, Injection, Surjection, IsInjective
    <3> HIDE DEF g, J
    <3> QED
      BY <2>6, <3>1, FS_Bijection DEF ExistsBijection
  <2> HIDE DEF J
  <2>9. IsFiniteSet(S) /\ Cardinality(S) = Cardinality(J) + 1
    BY <2>5, <2>8, FS_AddElement
  <2>10. Cardinality(S) = Cardinality(P)
    <3> DEFINE g == [w \in P |-> w[1]]
    <3>1. g \in [P -> S]
      <4> SUFFICES ASSUME NEW w \in P
                   PROVE  w[1] \in S
        OBVIOUS
      <4>1. w[1] \in w[1] .. w[2] /\ w[1] \in 1 .. Len(s)
            /\ (w[1] = 1 \/ s[w[1] - 1] = c) /\ \A k \in w[1] .. w[2] : s[k] # c
        BY <1>1, PieceFacts
      <4> QED
        BY <4>1
    <3>2. \A v, w \in P : v[1] = w[1] => v = w
      <4> SUFFICES ASSUME NEW v \in P, NEW w \in P, v[1] = w[1], v # w
                   PROVE  FALSE
        OBVIOUS
      <4>1. v[2] < w[1] \/ w[2] < v[1]
        BY <1>1, PiecesApart
      <4>2. /\ v[1] \in 1 .. Len(s) /\ v[2] \in 1 .. Len(s) /\ v[1] <= v[2]
            /\ w[1] \in 1 .. Len(s) /\ w[2] \in 1 .. Len(s) /\ w[1] <= w[2]
        BY <1>1, PieceFacts
      <4> QED
        BY <4>1, <4>2
    <3>3. \A i \in S : \E w \in P : w[1] = i
      <4> TAKE i \in S
      <4> DEFINE w == <<i, WordEnd(s, c, i)>>
      <4>1. w \in P /\ w[1] = i
        BY <1>1, PieceAt
      <4> QED
        BY <4>1
    <3> HIDE DEF P, S
    <3>4. g \in Bijection(P, S)
      BY <3>1, <3>2, <3>3 DEF Bijection, Injection, Surjection, IsInjective
    <3>5. IsFiniteSet(P)
      BY <1>1, PiecesFinite DEF P
    <3> HIDE DEF g
    <3> QED
      BY <3>4, <3>5, FS_Bijection DEF ExistsBijection
  <2>11. Cardinality(I) \in Nat
    BY <2>6, FS_CardinalityType
  <2> QED
    BY <2>1, <2>8, <2>9, <2>10, <2>11
<1> QED
  BY <1>2, <1>3

LEMMA TextIs ==
  ASSUME NEW s \in Texts
  PROVE  s \in Seq(Characters)
<1> DEFINE X == UNION {ToSet(u) : u \in Texts}
<1>1. s \in Seq(X)
  BY ArraysAssumption
<1>2. X \subseteq Characters
  BY DEF Characters
<1> HIDE DEF X
<1>3. Len(s) \in Nat /\ s \in [1 .. Len(s) -> X]
  BY <1>1
<1>4. s \in [1 .. Len(s) -> Characters]
  BY <1>2, <1>3
<1> QED
  BY <1>3, <1>4

(* The place of a word among the words.                                    *)
Place(s, c, w) == Cardinality({v \in Pieces(s, c) : v[1] <= w[1]})

LEMMA WordIs ==
  ASSUME NEW s, NEW c, Len(s) \in Nat, NEW w \in Pieces(s, c),
         Place(s, c, w) \in 1 .. Cardinality(Pieces(s, c))
  PROVE  Words(s, c)[Place(s, c, w)] = SubSeq(s, w[1], w[2])
<1> DEFINE P == Pieces(s, c)
           S(v) == {u \in P : u[1] <= v[1]}
           nth(k) == CHOOSE v \in P : k = Cardinality({u \in P : u[1] <= v[1]})
<1>1. IsFiniteSet(P)
  BY PiecesFinite
<1>2. \A v \in P : v[1] \in Nat /\ v[2] \in Nat /\ v[1] <= v[2]
  BY PieceFacts
<1>3. \A u, v \in P : u # v => u[1] < v[1] \/ v[1] < u[1]
  <2> TAKE u, v \in P
  <2> HAVE u # v
  <2>1. u[2] < v[1] \/ v[2] < u[1]
    BY PiecesApart
  <2> QED
    BY <1>2, <2>1
<1> HIDE DEF P
<1>4. ASSUME NEW u \in P, NEW v \in P, u[1] < v[1]
      PROVE  Cardinality(S(u)) # Cardinality(S(v))
  <2>1. IsFiniteSet(S(v))
    BY <1>1, FS_Subset
  <2>2. S(u) \subseteq S(v) /\ v \in S(v) /\ v \notin S(u)
    BY <1>2, <1>4
  <2> HIDE DEF S
  <2> QED
    BY <2>1, <2>2, FS_Subset
<1>5. \A v \in P : Cardinality(S(v)) = Cardinality(S(w)) => v = w
  BY <1>3, <1>4 DEF P
<1>6. nth(Place(s, c, w)) = w
  <2>1. Place(s, c, w) = Cardinality(S(w))
    BY DEF Place, P
  <2> QED
    BY <1>5, <2>1 DEF P
<1>7. Words(s, c)[Place(s, c, w)] = SubSeq(s, nth(Place(s, c, w))[1], nth(Place(s, c, w))[2])
  BY DEF Words, P
<1> QED
  BY <1>6, <1>7

(* ft_split at its beginning, with a word, and at its end.                 *)
LEMMA ScanBegins ==
  ASSUME NEW C, NEW s \in Seq(C), NEW c
  PROVE  Scanned(s, c, 0, 0, count_split(s, c))
<1> DEFINE P == Pieces(s, c)
<1>1. Len(s) \in Nat
  OBVIOUS
<1>2. \A w \in P : w[1] \in Nat /\ w[2] \in Nat /\ 0 < w[1] /\ ~ (w[2] <= 0)
  BY <1>1, PieceFacts
<1>3. {w \in P : w[2] <= 0} = {} /\ {w \in P : 0 < w[1]} = P
  BY <1>2
<1>4. count_split(s, c) = Cardinality(P)
  BY CountIs
<1>5. Cardinality({}) = 0 /\ 0 \in 0 .. Len(s)
  BY <1>1, FS_EmptySet
<1>6. /\ 0 = Cardinality({w \in P : w[2] <= 0})
      /\ count_split(s, c) = Cardinality({w \in P : 0 < w[1]})
  BY <1>3, <1>4, <1>5
<1>7. \A w \in P : w[2] <= 0 \/ 0 < w[1]
  BY <1>2
<1> QED
  BY <1>5, <1>6, <1>7 DEF Scanned

LEMMA ScannedNumbers ==
  ASSUME NEW C, NEW s \in Seq(C), NEW c, NEW n, NEW nb, NEW left,
         Scanned(s, c, n, nb, left)
  PROVE  /\ n \in Nat /\ nb \in Nat /\ left \in Nat
         /\ left = 0 => /\ Words(s, c) = [k \in 1 .. nb |-> Words(s, c)[k]]
                        /\ nb = Cardinality(Pieces(s, c))
<1> DEFINE P == Pieces(s, c)
           A == {w \in P : w[2] <= n}
           B == {w \in P : n < w[1]}
<1>1. Len(s) \in Nat /\ n \in Nat
  BY DEF Scanned
<1>2. IsFiniteSet(P)
  BY <1>1, PiecesFinite
<1>3. IsFiniteSet(A) /\ IsFiniteSet(B)
  BY <1>2, FS_Subset
<1>4. nb = Cardinality(A) /\ left = Cardinality(B) /\ nb \in Nat /\ left \in Nat
  BY <1>3, FS_CardinalityType DEF Scanned
<1>5. ASSUME left = 0
      PROVE  nb = Cardinality(P)
  <2>1. B = {}
    BY <1>3, <1>4, <1>5, FS_EmptySet
  <2>2. A = P
    BY <2>1 DEF Scanned
  <2> QED
    BY <1>4, <2>2
<1>6. Words(s, c) = [k \in 1 .. Cardinality(P) |-> Words(s, c)[k]]
  <2> DEFINE N == 1 .. Cardinality(P)
             nth(k) == CHOOSE w \in P : k = Cardinality({v \in P : v[1] <= w[1]})
             t(k) == SubSeq(s, nth(k)[1], nth(k)[2])
             W == [k \in N |-> t(k)]
  <2>1. Words(s, c) = W
    BY DEF Words
  <2> HIDE DEF N, t
  <2>2. W = [k \in N |-> W[k]]
    OBVIOUS
  <2> HIDE DEF W
  <2> QED
    BY <2>1, <2>2 DEF N
<1> QED
  BY <1>1, <1>4, <1>5, <1>6

LEMMA ScanWord ==
  ASSUME NEW C, NEW s \in Seq(C), NEW c, NEW n, NEW nb, NEW left,
         Scanned(s, c, n, nb, left), left > 0
  PROVE  LET from == n + Passed(s, n, c)
             end  == from + word_len(s, from, c)
         IN /\ Scanned(s, c, end, nb + 1, left - 1)
            /\ Words(s, c)[nb + 1] = SubSeq(s, from + 1, end)
            /\ SubSeq(s, from + 1, end) \in Seq(C)
<1> DEFINE L == Len(s)
           P == Pieces(s, c)
           Behind(k) == {w \in P : w[2] <= k}
           Ahead(k)  == {w \in P : k < w[1]}
           from == n + Passed(s, n, c)
           end  == from + word_len(s, from, c)
<1>1. /\ L \in Nat /\ n \in 0 .. L /\ (n = 0 \/ n = L \/ s[n + 1] = c)
      /\ \A w \in P : w[2] <= n \/ n < w[1]
      /\ nb = Cardinality(Behind(n)) /\ left = Cardinality(Ahead(n))
      /\ \A i \in 1 .. L : s[i] \in C
  BY DEF Scanned
<1>2. /\ IsFiniteSet(P)
      /\ \A w \in P : /\ w[1] \in 1 .. L /\ w[2] \in 1 .. L /\ w[1] <= w[2]
                      /\ \A k \in w[1] .. w[2] : s[k] # c
                      /\ w[2] = L \/ s[w[2] + 1] = c
      /\ \A v, w \in P : v # w => v[2] < w[1] \/ w[2] < v[1]
  BY <1>1, PiecesFinite, PieceFacts, PiecesApart
<1>3. \A i \in 1 .. L : s[i] # c /\ (i = 1 \/ s[i - 1] = c) => \E w \in P : w[1] = i
  <2> SUFFICES ASSUME NEW i \in 1 .. L, s[i] # c, i = 1 \/ s[i - 1] = c
               PROVE  \E w \in P : w[1] = i
    OBVIOUS
  <2> DEFINE w == <<i, WordEnd(s, c, i)>>
  <2>1. w \in P /\ w[1] = i
    BY <1>1, PieceAt
  <2> QED
    BY <2>1
<1> HIDE DEF P
<1>4. /\ \A k : IsFiniteSet(Behind(k)) /\ IsFiniteSet(Ahead(k))
      /\ nb \in Nat /\ left \in Nat /\ Ahead(n) # {}
  <2>1. \A k : IsFiniteSet(Behind(k)) /\ IsFiniteSet(Ahead(k))
    BY <1>2, FS_Subset
  <2> HIDE DEF Behind, Ahead
  <2> QED
    BY <1>1, <2>1, FS_CardinalityType, FS_EmptySet
<1>5. PICK w \in Ahead(n) : \A v \in Ahead(n) : w[1] <= v[1]
  <2> DEFINE T == {v[1] : v \in Ahead(n)}
  <2>1. T \in SUBSET Nat /\ T # {}
    <3>1. \A v \in Ahead(n) : v[1] \in Nat
      BY <1>2
    <3> HIDE DEF Ahead
    <3> QED
      BY <1>4, <3>1
  <2>2. PICK a \in T : \A x \in T : a <= x
    <3> HIDE DEF T
    <3> QED
      BY <2>1, LeastOf
  <2> QED
    BY <2>2
<1> DEFINE b == w[1]
           e == w[2]
<1>6. /\ w \in P /\ b \in 1 .. L /\ e \in 1 .. L /\ b <= e /\ n < b
      /\ \A k \in b .. e : s[k] # c
      /\ e = L \/ s[e + 1] = c
  BY <1>2, <1>5
<1>7. \A v \in P : n < v[1] => b <= v[1]
  BY <1>5
<1>8. \A v \in P : v # w => v[2] < b \/ e < v[1]
  BY <1>2, <1>6
<1> HIDE DEF b, e
<1>9. from = b - 1
  <2> DEFINE K == {k \in n .. L : k = L \/ s[k + 1] # c}
  <2>1. K \in SUBSET Nat /\ b - 1 \in K
    <3>1. b - 1 \in n .. L /\ (b - 1) + 1 = b /\ b \in b .. e
      BY <1>1, <1>6
    <3> QED
      BY <1>1, <1>6, <3>1
  <2>2. PICK m \in K : m = Min(K) /\ \A x \in K : m <= x
    <3> HIDE DEF K
    <3> QED
      BY <2>1, MinOfSet
  <2>3. m \in n .. L /\ m <= b - 1 /\ (m = L \/ s[m + 1] # c)
    BY <2>1, <2>2
  <2>4. ~ (m < b - 1)
    <3> SUFFICES ASSUME m < b - 1
                 PROVE  FALSE
      OBVIOUS
    <3>1. m + 1 \in 1 .. L /\ s[m + 1] # c /\ m # L
      BY <1>1, <1>6, <2>3
    <3>2. m + 1 = 1 \/ s[(m + 1) - 1] = c
      <4>1. CASE m = n
        BY <1>1, <2>3, <3>1, <4>1
      <4>2. CASE m # n
        <5>1. m - 1 \in n .. L /\ ~ (m <= m - 1) /\ (m - 1) + 1 = m /\ (m + 1) - 1 = m
          BY <1>1, <2>3, <4>2
        <5>2. m - 1 \notin K
          <6> HIDE DEF K
          <6> QED
            BY <2>2, <5>1
        <5>3. ~ (m - 1 = L \/ s[(m - 1) + 1] # c)
          BY <5>1, <5>2
        <5> QED
          BY <5>1, <5>3
      <4> QED
        BY <4>1, <4>2
    <3>3. PICK v \in P : v[1] = m + 1
      BY <1>3, <3>1, <3>2
    <3>4. n < m + 1 /\ ~ (b <= m + 1)
      BY <1>1, <1>6, <2>3
    <3> QED
      BY <1>7, <3>3, <3>4
  <2>5. Passed(s, n, c) = m - n
    BY <2>2 DEF Passed
  <2> QED
    BY <1>1, <1>6, <2>3, <2>4, <2>5
<1>10. end = e
  <2> DEFINE E == {k \in from .. L : k = L \/ s[k + 1] = c}
  <2>1. from \in Nat /\ from + 1 = b
    BY <1>6, <1>9
  <2> HIDE DEF from
  <2>2. E \in SUBSET Nat /\ e \in E
    BY <1>6, <2>1
  <2>3. PICK m \in E : m = Min(E) /\ \A x \in E : m <= x
    <3> HIDE DEF E
    <3> QED
      BY <2>2, MinOfSet
  <2>4. m \in from .. L /\ m <= e /\ (m = L \/ s[m + 1] = c)
    BY <2>2, <2>3
  <2>5. ~ (m < e)
    <3> SUFFICES ASSUME m < e
                 PROVE  FALSE
      OBVIOUS
    <3>1. m + 1 \in b .. e /\ m # L
      BY <1>1, <1>6, <2>1, <2>4
    <3> QED
      BY <1>6, <2>4, <3>1
  <2>6. word_len(s, from, c) = m - from
    BY <2>3 DEF word_len
  <2> QED
    BY <1>6, <2>1, <2>4, <2>5, <2>6
<1> HIDE DEF from, end
<1>11. Behind(e) = Behind(n) \cup {w} /\ w \notin Behind(n)
  <2>1. \A v \in P : v # w /\ v[2] <= e => v[2] <= n
    <3> SUFFICES ASSUME NEW v \in P, v # w, v[2] <= e
                 PROVE  v[2] <= n
      OBVIOUS
    <3>1. /\ v[2] < b \/ e < v[1]
          /\ v[1] \in 1 .. L /\ v[2] \in 1 .. L /\ v[1] <= v[2]
          /\ v[2] <= n \/ n < v[1]
          /\ n < v[1] => b <= v[1]
      BY <1>1, <1>2, <1>7, <1>8
    <3> QED
      BY <1>1, <1>6, <3>1
  <2>2. \A v \in P : v[2] <= n => v[2] <= e
    BY <1>1, <1>2, <1>6
  <2>3. w[2] <= e /\ ~ (w[2] <= n)
    BY <1>1, <1>6 DEF e
  <2> QED
    BY <1>6, <2>1, <2>2, <2>3
<1>12. Ahead(e) = Ahead(n) \ {w}
  <2>1. \A v \in P : e < v[1] => n < v[1] /\ v # w
    <3> SUFFICES ASSUME NEW v \in P, e < v[1]
                 PROVE  n < v[1] /\ v # w
      OBVIOUS
    <3>1. v[1] \in 1 .. L
      BY <1>2
    <3>2. n < v[1]
      BY <1>1, <1>6, <3>1
    <3>3. v[1] # b
      BY <1>6, <3>1
    <3> QED
      BY <3>2, <3>3 DEF b
  <2>2. \A v \in P : n < v[1] /\ v # w => e < v[1]
    <3> SUFFICES ASSUME NEW v \in P, n < v[1], v # w
                 PROVE  e < v[1]
      OBVIOUS
    <3>1. /\ v[2] < b \/ e < v[1]
          /\ v[1] \in 1 .. L /\ v[2] \in 1 .. L /\ v[1] <= v[2] /\ b <= v[1]
      BY <1>2, <1>7, <1>8
    <3> QED
      BY <1>6, <3>1
  <2> QED
    BY <2>1, <2>2
<1>13. Cardinality(Behind(e)) = nb + 1 /\ Cardinality(Ahead(e)) = left - 1
  <2>1. w \in Ahead(n)
    OBVIOUS
  <2> HIDE DEF Behind, Ahead
  <2>2. Cardinality(Behind(n) \cup {w}) = Cardinality(Behind(n)) + 1
    BY <1>4, <1>11, FS_AddElement
  <2>3. Cardinality(Ahead(n) \ {w}) = Cardinality(Ahead(n)) - 1
    BY <1>4, <2>1, FS_RemoveElement
  <2> QED
    BY <1>1, <1>11, <1>12, <2>2, <2>3
<1>14. Scanned(s, c, e, nb + 1, left - 1)
  <2>1. \A v \in P : v[2] <= e \/ e < v[1]
    <3> TAKE v \in P
    <3>1. CASE v = w
      BY <1>6, <3>1 DEF e
    <3>2. CASE v # w
      <4>1. (v[2] < b \/ e < v[1]) /\ v[2] \in 1 .. L
        BY <1>2, <1>8, <3>2
      <4> QED
        BY <1>6, <4>1
    <3> QED
      BY <3>1, <3>2
  <2>2. e \in 0 .. L /\ (e = 0 \/ e = L \/ s[e + 1] = c)
    BY <1>6
  <2> QED
    BY <1>13, <2>1, <2>2 DEF Scanned, P
<1>15. Place(s, c, w) = nb + 1 /\ nb + 1 \in 1 .. Cardinality(P)
  <2>1. {v \in P : v[1] <= w[1]} = Behind(e)
    <3> SUFFICES ASSUME NEW v \in P
                 PROVE  v[1] <= b <=> v[2] <= e
      BY DEF b
    <3>1. v[1] \in 1 .. L /\ v[2] \in 1 .. L /\ v[1] <= v[2]
      BY <1>2
    <3>2. CASE v = w
      BY <1>6, <3>2 DEF b, e
    <3>3. CASE v # w
      <4>1. v[2] < b \/ e < v[1]
        BY <1>8, <3>3
      <4> QED
        BY <1>6, <3>1, <4>1
    <3> QED
      BY <3>2, <3>3
  <2>2. Place(s, c, w) = nb + 1
    BY <1>13, <2>1 DEF Place, P
  <2>3. Behind(e) \subseteq P
    OBVIOUS
  <2> HIDE DEF Behind
  <2>4. Cardinality(Behind(e)) <= Cardinality(P) /\ Cardinality(P) \in Nat
    BY <1>2, <2>3, FS_Subset, FS_CardinalityType
  <2> QED
    BY <1>4, <1>13, <2>2, <2>4
<1>16. Words(s, c)[nb + 1] = SubSeq(s, b, e)
  <2>1. w \in Pieces(s, c) /\ Place(s, c, w) \in 1 .. Cardinality(Pieces(s, c))
    BY <1>6, <1>15 DEF P
  <2>2. Words(s, c)[Place(s, c, w)] = SubSeq(s, w[1], w[2])
    BY <1>1, <2>1, WordIs
  <2> QED
    BY <1>15, <2>2 DEF b, e
<1>17. SubSeq(s, b, e) \in Seq(C)
  <2>1. b \in Int /\ e \in Int /\ \A i \in b .. e : s[i] \in C
    BY <1>1, <1>6
  <2> QED
    BY <2>1, SubSeqProperties
<1>18. from + 1 = b
  BY <1>6, <1>9
<1> QED
  BY <1>10, <1>14, <1>16, <1>17, <1>18 DEF from, end

------------------------------------------------------------------------------
(* Joining texts.                                                          *)

(* What is defined inside FlattenSeq.                                      *)
Flat(seqs, fl, n) ==
  fl = [i \in 1 .. n |-> IF i = 1 THEN seqs[i] ELSE fl[i - 1] \o seqs[i]]

LEMMA FlatMeans ==
  ASSUME NEW seqs, NEW fl, NEW n, Flat(seqs, fl, n)
  PROVE  \A i \in 1 .. n : fl[i] = IF i = 1 THEN seqs[i] ELSE fl[i - 1] \o seqs[i]
<1> DEFINE G(i) == IF i = 1 THEN seqs[i] ELSE fl[i - 1] \o seqs[i]
<1>1. fl = [i \in 1 .. n |-> G(i)]
  BY DEF Flat
<1> HIDE DEF G
<1>2. \A i \in 1 .. n : fl[i] = G(i)
  BY <1>1
<1> QED
  BY <1>2 DEF G

LEMMA FlatIs ==
  ASSUME NEW seqs, NEW n, NEW fl, fl = [i \in 1 .. n |-> fl[i]],
         \A i \in 1 .. n : fl[i] = IF i = 1 THEN seqs[i] ELSE fl[i - 1] \o seqs[i]
  PROVE  Flat(seqs, fl, n)
  BY DEF Flat

LEMMA FlatExists ==
  ASSUME NEW seqs, NEW n \in Nat
  PROVE  \E fl : Flat(seqs, fl, n)
<1> DEFINE Bad == {m \in Nat : ~ \E fl : Flat(seqs, fl, m)}
<1> SUFFICES ASSUME Bad # {}
             PROVE  FALSE
  OBVIOUS
<1>1. PICK m \in Bad : \A j \in Bad : m <= j
  <2>1. Bad \in SUBSET Nat
    OBVIOUS
  <2> HIDE DEF Bad
  <2> QED
    BY <2>1, LeastOf
<1>2. m \in Nat /\ ~ \E fl : Flat(seqs, fl, m)
  OBVIOUS
<1>3. CASE m = 0
  <2> DEFINE fl == [i \in 1 .. 0 |-> seqs[i]]
  <2>1. fl = [i \in 1 .. 0 |-> fl[i]] /\ \A i \in 1 .. 0 : FALSE
    OBVIOUS
  <2> HIDE DEF fl
  <2>2. Flat(seqs, fl, 0)
    BY <2>1, FlatIs
  <2> QED
    BY <1>2, <1>3, <2>2
<1>4. CASE m # 0
  <2>1. m - 1 \in Nat /\ m - 1 \notin Bad
    BY <1>1, <1>2, <1>4
  <2>2. PICK a : Flat(seqs, a, m - 1)
    BY <2>1
  <2>3. \A i \in 1 .. m - 1 : a[i] = IF i = 1 THEN seqs[i] ELSE a[i - 1] \o seqs[i]
    BY <2>2, FlatMeans
  <2> DEFINE last == IF m = 1 THEN seqs[m] ELSE a[m - 1] \o seqs[m]
             fl == [i \in 1 .. m |-> IF i = m THEN last ELSE a[i]]
  <2>4. fl = [i \in 1 .. m |-> fl[i]] /\ \A i \in 1 .. m : fl[i] = IF i = m THEN last ELSE a[i]
    OBVIOUS
  <2> HIDE DEF fl
  <2>5. \A i \in 1 .. m : fl[i] = IF i = 1 THEN seqs[i] ELSE fl[i - 1] \o seqs[i]
    <3> TAKE i \in 1 .. m
    <3>1. i # 1 => i - 1 \in 1 .. m /\ i - 1 # m
      BY <1>2
    <3>2. i # 1 => fl[i - 1] = a[i - 1]
      BY <2>4, <3>1
    <3>3. CASE i = m
      BY <2>4, <3>2, <3>3
    <3>4. CASE i # m
      <4>1. i \in 1 .. m - 1
        BY <1>2, <3>4
      <4>2. fl[i] = a[i]
        BY <2>4, <3>4
      <4> QED
        BY <2>3, <3>2, <4>1, <4>2
    <3> QED
      BY <3>3, <3>4
  <2>6. Flat(seqs, fl, m)
    BY <2>4, <2>5, FlatIs
  <2> QED
    BY <1>2, <2>6
<1> QED
  BY <1>3, <1>4

(* A sequence of texts put together, from the empty text on.               *)
Grown(q, F) ==
  /\ F[0] = <<>>
  /\ \A k \in 1 .. Len(q) : F[k] = F[k - 1] \o q[k]

LEMMA GrownGives ==
  ASSUME NEW C, NEW q \in Seq(Seq(C)), NEW F, Grown(q, F)
  PROVE  /\ \A k \in 0 .. Len(q) : F[k] \in Seq(C) /\ Len(F[k]) \in Nat
         /\ \A k \in 1 .. Len(q) : Len(F[k]) = Len(F[k - 1]) + Len(q[k])
<1> DEFINE n == Len(q)
           Bad == {k \in 0 .. n : F[k] \notin Seq(C)}
<1>1. n \in Nat /\ \A k \in 1 .. n : q[k] \in Seq(C)
  OBVIOUS
<1>2. F[0] = <<>> /\ \A k \in 1 .. n : F[k] = F[k - 1] \o q[k]
  BY DEF Grown
<1> HIDE DEF n
<1>3. Bad = {}
  <2> SUFFICES ASSUME Bad # {}
               PROVE  FALSE
    OBVIOUS
  <2>1. PICK m \in Bad : \A j \in Bad : m <= j
    <3>1. Bad \in SUBSET Nat
      BY <1>1
    <3> HIDE DEF Bad
    <3> QED
      BY <3>1, LeastOf
  <2>2. m \in 0 .. n /\ F[m] \notin Seq(C)
    OBVIOUS
  <2>3. m # 0
    <3>1. <<>> \in Seq(C)
      OBVIOUS
    <3> QED
      BY <1>2, <2>2, <3>1
  <2>4. m \in 1 .. n /\ m - 1 \in 0 .. n /\ ~ (m <= m - 1)
    BY <1>1, <2>2, <2>3
  <2>5. F[m - 1] \in Seq(C)
    BY <2>1, <2>4
  <2>6. F[m] = F[m - 1] \o q[m] /\ q[m] \in Seq(C)
    BY <1>1, <1>2, <2>4
  <2> QED
    BY <2>2, <2>5, <2>6
<1>4. \A k \in 0 .. n : F[k] \in Seq(C) /\ Len(F[k]) \in Nat
  BY <1>3
<1>5. \A k \in 1 .. n : Len(F[k]) = Len(F[k - 1]) + Len(q[k])
  <2> TAKE k \in 1 .. n
  <2>1. k - 1 \in 0 .. n
    BY <1>1
  <2>2. F[k - 1] \in Seq(C) /\ q[k] \in Seq(C) /\ F[k] = F[k - 1] \o q[k]
    BY <1>1, <1>2, <1>4, <2>1
  <2> QED
    BY <2>2
<1> QED
  BY <1>4, <1>5 DEF n

LEMMA FlattenGrows ==
  ASSUME NEW C, NEW q \in Seq(Seq(C))
  PROVE  \E F : Grown(q, F) /\ FlattenSeq(q) = F[Len(q)]
<1> DEFINE n == Len(q)
           fl == CHOOSE fl : Flat(q, fl, n)
           F == [k \in 0 .. n |-> IF k = 0 THEN <<>> ELSE fl[k]]
<1>1. n \in Nat /\ \A k \in 1 .. n : q[k] \in Seq(C)
  OBVIOUS
<1>2. FlattenSeq(q) = IF n = 0 THEN q ELSE fl[n]
  BY DEF FlattenSeq, Flat
<1>3. n = 0 => q = <<>>
  OBVIOUS
<1>4. Flat(q, fl, n)
  <2> HIDE DEF n
  <2> QED
    BY <1>1, FlatExists
<1> HIDE DEF fl, n
<1>5. \A k \in 1 .. n : fl[k] = IF k = 1 THEN q[k] ELSE fl[k - 1] \o q[k]
  BY <1>4, FlatMeans
<1>6. F[0] = <<>> /\ \A k \in 1 .. n : F[k] = fl[k]
  BY <1>1
<1> HIDE DEF F
<1>7. \A k \in 1 .. n : F[k] = F[k - 1] \o q[k]
  <2> TAKE k \in 1 .. n
  <2>1. CASE k = 1
    <3>1. <<>> \o q[k] = q[k] /\ k - 1 = 0
      BY <1>1, <2>1
    <3> QED
      BY <1>5, <1>6, <2>1, <3>1
  <2>2. CASE k # 1
    <3>1. k - 1 \in 1 .. n
      BY <1>1, <2>2
    <3> QED
      BY <1>5, <1>6, <2>2, <3>1
  <2> QED
    BY <2>1, <2>2
<1>8. FlattenSeq(q) = F[n]
  <2>1. CASE n = 0
    BY <1>2, <1>3, <1>6, <2>1
  <2>2. CASE n # 0
    <3>1. n \in 1 .. n
      BY <1>1, <2>2
    <3> QED
      BY <1>2, <1>6, <2>2, <3>1
  <2> QED
    BY <2>1, <2>2
<1> QED
  BY <1>6, <1>7, <1>8 DEF Grown, n

(* What never falls is largest at its end.                                 *)
LEMMA LargestLast ==
  ASSUME NEW n \in Nat, NEW g, \A k \in 0 .. n : g[k] \in Nat,
         \A k \in 1 .. n : g[k - 1] <= g[k]
  PROVE  \A k \in 0 .. n : g[k] <= g[n]
<1> DEFINE Bad == {d \in 0 .. n : ~ (g[n - d] <= g[n])}
<1>1. Bad = {}
  <2> SUFFICES ASSUME Bad # {}
               PROVE  FALSE
    OBVIOUS
  <2>1. PICK m \in Bad : \A j \in Bad : m <= j
    <3>1. Bad \in SUBSET Nat
      OBVIOUS
    <3> HIDE DEF Bad
    <3> QED
      BY <3>1, LeastOf
  <2>2. m \in 0 .. n /\ ~ (g[n - m] <= g[n])
    OBVIOUS
  <2>3. m # 0
    <3> SUFFICES ASSUME m = 0
                 PROVE  FALSE
      OBVIOUS
    <3>1. n - m = n /\ n \in 0 .. n
      BY <2>2
    <3>2. g[n] \in Nat
      BY <3>1
    <3> QED
      BY <2>2, <3>1, <3>2
  <2>4. m - 1 \in 0 .. n /\ ~ (m <= m - 1)
    BY <2>2, <2>3
  <2>5. g[n - (m - 1)] <= g[n]
    BY <2>1, <2>4
  <2> DEFINE k == n - m
  <2>6. k + 1 \in 1 .. n /\ n - (m - 1) = k + 1 /\ (k + 1) - 1 = k /\ k \in 0 .. n
        /\ n \in 0 .. n /\ k + 1 \in 0 .. n
    BY <2>2, <2>3
  <2> HIDE DEF k
  <2>7. g[k] <= g[k + 1] /\ g[k] \in Nat /\ g[k + 1] \in Nat /\ g[n] \in Nat
    BY <2>6
  <2>8. g[k] <= g[n]
    BY <2>5, <2>6, <2>7
  <2> QED
    BY <2>2, <2>8 DEF k
<1>2. \A k \in 0 .. n : g[k] <= g[n]
  <2> TAKE k \in 0 .. n
  <2>1. n - k \in 0 .. n /\ n - (n - k) = k
    OBVIOUS
  <2>2. n - k \notin Bad
    BY <1>1
  <2>3. g[n - (n - k)] <= g[n]
    BY <2>1, <2>2
  <2> QED
    BY <2>1, <2>3
<1> QED
  BY <1>2

(* What is defined inside array_char_len.                                  *)
SumOf(w, g) == g = [k \in 0 .. Len(w) |-> IF k = 0 THEN 0 ELSE g[k - 1] + Len(w[k])]
Sums(w) == CHOOSE g : SumOf(w, g)

LEMMA SumsAre ==
  ASSUME NEW C, NEW w \in Seq(Seq(C))
  PROVE  /\ Sums(w)[0] = 0
         /\ \A k \in 1 .. Len(w) : Sums(w)[k] = Sums(w)[k - 1] + Len(w[k])
<1> DEFINE n == Len(w)
<1>1. n \in Nat
  OBVIOUS
<1>2. PICK F : Grown(w, F)
  BY FlattenGrows
<1>3. /\ F[0] = <<>> /\ \A k \in 0 .. n : Len(F[k]) \in Nat
      /\ \A k \in 1 .. n : Len(F[k]) = Len(F[k - 1]) + Len(w[k])
  BY <1>2, GrownGives DEF Grown
<1> HIDE DEF n
<1> DEFINE L(k) == Len(F[k])
           g == [k \in 0 .. n |-> L(k)]
           V(k) == IF k = 0 THEN 0 ELSE g[k - 1] + Len(w[k])
<1>4. \A k \in 0 .. n : L(k) = V(k)
  <2> TAKE k \in 0 .. n
  <2>1. CASE k = 0
    BY <1>3, <2>1
  <2>2. CASE k # 0
    <3>1. k \in 1 .. n /\ k - 1 \in 0 .. n
      BY <1>1, <2>2
    <3>2. g[k - 1] = L(k - 1)
      BY <3>1
    <3> QED
      BY <1>3, <2>2, <3>1, <3>2
  <2> QED
    BY <2>1, <2>2
<1>5. SumOf(w, g)
  <2>1. g = [k \in 0 .. n |-> V(k)]
    BY <1>4
  <2> HIDE DEF g
  <2> QED
    BY <2>1 DEF SumOf, n
<1>6. SumOf(w, Sums(w))
  <2> HIDE DEF g
  <2> QED
    BY <1>5 DEF Sums
<1>7. PICK s : s = Sums(w)
  OBVIOUS
<1> DEFINE W(k) == IF k = 0 THEN 0 ELSE s[k - 1] + Len(w[k])
<1>8. s = [k \in 0 .. n |-> W(k)]
  BY <1>6, <1>7 DEF SumOf, n
<1>9. \A k \in 0 .. n : s[k] = W(k)
  <2> HIDE DEF W
  <2> QED
    BY <1>8
<1>10. 0 \in 0 .. n /\ \A k \in 1 .. n : k \in 0 .. n /\ k # 0
  BY <1>1
<1> QED
  BY <1>7, <1>9, <1>10 DEF n

(* ft_strlcat, where there is room.                                        *)
LEMMA AppendedAll ==
  ASSUME NEW C, NEW s \in Seq(C), NEW t \in Seq(C), NEW len \in Nat,
         Len(s) + Len(t) <= len
  PROVE  Appended(s, t, len) = s \o t
<1> DEFINE S == {Len(t), len - Len(s)}
<1>1. S \in SUBSET Nat /\ S # {}
  OBVIOUS
<1>2. Min(S) \in S /\ \A x \in S : Min(S) <= x
  <2> HIDE DEF S
  <2> QED
    BY <1>1, MinOfSet
<1>3. Min(S) = Len(t)
  BY <1>2
<1>4. SubSeq(t, 1, Len(t)) = t
  OBVIOUS
<1> QED
  BY <1>3, <1>4 DEF Appended

(* What is defined inside array_to_str.                                    *)
StrOf(w, sp, len, g) ==
  g = [k \in 0 .. Len(w) |->
         IF k = 0
         THEN <<>>
         ELSE LET more == Appended(g[k - 1], w[k], len)
              IN IF k = Len(w) THEN more ELSE Appended(more, sp, len)]

(* The texts of an array and what stands between them.                     *)
Between(w, sp) ==
  [k \in DOMAIN w |-> w[k] \o (IF k = Len(w) THEN <<>> ELSE sp)]

LEMMA BetweenIs ==
  ASSUME NEW C, NEW w \in Seq(Seq(C)), NEW sp \in Seq(C)
  PROVE  /\ Between(w, sp) \in Seq(Seq(C)) /\ Len(Between(w, sp)) = Len(w)
         /\ \A k \in 1 .. Len(w) :
              /\ w[k] \in Seq(C)
              /\ Between(w, sp)[k] = IF k = Len(w) THEN w[k] ELSE w[k] \o sp
<1> DEFINE n == Len(w)
           v(k) == w[k] \o (IF k = n THEN <<>> ELSE sp)
           q == [k \in 1 .. n |-> v(k)]
           X == Seq(C)
<1>1. n \in Nat /\ DOMAIN w = 1 .. n /\ \A k \in 1 .. n : w[k] \in Seq(C)
  OBVIOUS
<1>2. \A k \in 1 .. n : v(k) \in X /\ v(k) = IF k = n THEN w[k] ELSE w[k] \o sp
  <2> TAKE k \in 1 .. n
  <2> DEFINE u == w[k]
  <2>1. u \in Seq(C)
    BY <1>1
  <2> HIDE DEF u
  <2>2. u \o <<>> = u /\ u \o sp \in Seq(C)
    BY <2>1
  <2> QED
    BY <2>1, <2>2 DEF u
<1>3. Between(w, sp) = q
  BY <1>1 DEF Between
<1> HIDE DEF v, n, X
<1>4. q \in Seq(X) /\ Len(q) = n /\ \A k \in 1 .. n : q[k] = v(k)
  BY <1>1, <1>2
<1> QED
  BY <1>1, <1>2, <1>3, <1>4 DEF n, X

(* There is room for all of it.                                            *)
RoomFor(w, sp) == Sums(w)[Len(w)] + (IF sp = <<>> THEN 0 ELSE Len(w))

LEMMA RoomEnough ==
  ASSUME NEW C, NEW w \in Seq(Seq(C)), NEW sp \in Seq(C), Len(sp) <= 1,
         NEW F, Grown(Between(w, sp), F)
  PROVE  RoomFor(w, sp) \in Nat /\ \A k \in 0 .. Len(w) : Len(F[k]) <= RoomFor(w, sp)
<1> DEFINE n == Len(w)
           q == Between(w, sp)
           one == IF sp = <<>> THEN 0 ELSE 1
           add(k) == IF sp = <<>> THEN 0 ELSE k
           S == Sums(w)
<1>1. n \in Nat /\ one \in Nat /\ Len(sp) \in Nat /\ Len(sp) <= one
  OBVIOUS
<1>2. /\ q \in Seq(Seq(C)) /\ Len(q) = n
      /\ \A k \in 1 .. n : /\ w[k] \in Seq(C)
                           /\ q[k] = IF k = n THEN w[k] ELSE w[k] \o sp
  BY BetweenIs
<1>3. \A k \in 1 .. n : /\ Len(w[k]) \in Nat /\ Len(q[k]) \in Nat
                        /\ Len(q[k]) <= Len(w[k]) + one
  <2> TAKE k \in 1 .. n
  <2> DEFINE u == w[k]
  <2>1. u \in Seq(C) /\ q[k] = IF k = n THEN u ELSE u \o sp
    BY <1>2
  <2> HIDE DEF u, q, one
  <2>2. Len(u) \in Nat /\ Len(u \o sp) = Len(u) + Len(sp)
    BY <2>1
  <2> QED
    BY <1>1, <2>1, <2>2 DEF u
<1>4. /\ F[0] = <<>> /\ \A k \in 0 .. n : Len(F[k]) \in Nat
      /\ \A k \in 1 .. n : Len(F[k]) = Len(F[k - 1]) + Len(q[k])
  <2> HIDE DEF q, n
  <2> QED
    BY <1>2, GrownGives DEF Grown, q
<1>5. S[0] = 0 /\ \A k \in 1 .. n : S[k] = S[k - 1] + Len(w[k])
  BY SumsAre
<1> HIDE DEF S, n, q
<1>6. \A k \in 0 .. n : S[k] \in Nat /\ Len(F[k]) <= S[k] + add(k)
  <2> DEFINE Bad == {k \in 0 .. n : ~ (S[k] \in Nat /\ Len(F[k]) <= S[k] + add(k))}
  <2> SUFFICES ASSUME Bad # {}
               PROVE  FALSE
    OBVIOUS
  <2>1. PICK m \in Bad : \A j \in Bad : m <= j
    <3>1. Bad \in SUBSET Nat
      BY <1>1
    <3> HIDE DEF Bad
    <3> QED
      BY <3>1, LeastOf
  <2>2. m \in 0 .. n /\ ~ (S[m] \in Nat /\ Len(F[m]) <= S[m] + add(m))
    OBVIOUS
  <2>3. m # 0
    <3>1. Len(F[0]) = 0 /\ S[0] + add(0) = 0
      BY <1>4, <1>5
    <3> QED
      BY <1>5, <2>2, <3>1
  <2>4. m \in 1 .. n /\ m - 1 \in 0 .. n /\ ~ (m <= m - 1)
    BY <1>1, <2>2, <2>3
  <2>5. S[m - 1] \in Nat /\ Len(F[m - 1]) <= S[m - 1] + add(m - 1)
    BY <2>1, <2>4
  <2>6. add(m) = add(m - 1) + one /\ add(m - 1) \in Nat /\ add(m) \in Nat
    BY <2>4
  <2> HIDE DEF Bad, add, one
  <2>7. /\ Len(w[m]) \in Nat /\ Len(q[m]) \in Nat /\ Len(q[m]) <= Len(w[m]) + one
        /\ Len(F[m]) = Len(F[m - 1]) + Len(q[m])
        /\ S[m] = S[m - 1] + Len(w[m]) /\ Len(F[m - 1]) \in Nat
    BY <1>3, <1>4, <1>5, <2>4
  <2>8. S[m] \in Nat /\ Len(F[m]) <= S[m] + add(m)
    <3> DEFINE j == m - 1
               b == Len(w[m])
               d == Len(q[m])
    <3>1. /\ S[j] \in Nat /\ Len(F[j]) <= S[j] + add(j)
          /\ add(m) = add(j) + one /\ add(j) \in Nat
          /\ b \in Nat /\ d \in Nat /\ d <= b + one /\ one \in Nat
          /\ Len(F[m]) = Len(F[j]) + d /\ S[m] = S[j] + b /\ Len(F[j]) \in Nat
      BY <1>1, <2>5, <2>6, <2>7
    <3> HIDE DEF j, b, d
    <3> QED
      BY <3>1
  <2> QED
    BY <2>2, <2>8
<1>7. \A k \in 0 .. n : Len(F[k]) <= Len(F[n])
  <2> DEFINE g == [k \in 0 .. n |-> Len(F[k])]
  <2>1. n \in 0 .. n /\ \A k \in 0 .. n : g[k] = Len(F[k]) /\ g[k] \in Nat
    BY <1>1, <1>4
  <2>2. \A k \in 1 .. n : k \in 0 .. n /\ k - 1 \in 0 .. n
    BY <1>1
  <2> HIDE DEF g
  <2>3. \A k \in 1 .. n : g[k - 1] <= g[k]
    <3> TAKE k \in 1 .. n
    <3>1. g[k] = g[k - 1] + Len(q[k]) /\ g[k - 1] \in Nat /\ Len(q[k]) \in Nat
      BY <1>3, <1>4, <2>1, <2>2
    <3> QED
      BY <3>1
  <2>4. \A k \in 0 .. n : g[k] <= g[n]
    BY <1>1, <2>1, <2>3, LargestLast
  <2> QED
    BY <2>1, <2>4
<1>8. RoomFor(w, sp) = S[n] + add(n)
  BY DEF RoomFor, S, n
<1>9. n \in 0 .. n /\ add(n) \in Nat
  BY <1>1
<1> HIDE DEF add
<1>10. RoomFor(w, sp) \in Nat /\ Len(F[n]) <= RoomFor(w, sp)
  BY <1>6, <1>8, <1>9
<1>11. \A k \in 0 .. n : Len(F[k]) <= RoomFor(w, sp)
  <2> TAKE k \in 0 .. n
  <2>1. Len(F[k]) \in Nat /\ Len(F[n]) \in Nat /\ Len(F[k]) <= Len(F[n])
    BY <1>4, <1>7, <1>9
  <2> QED
    BY <1>10, <2>1
<1> QED
  BY <1>10, <1>11 DEF n

(* Then array_to_str puts all of it together.                              *)
StrStep(w, sp, len, s, k) ==
  LET more == Appended(s, w[k], len)
  IN IF k = Len(w) THEN more ELSE Appended(more, sp, len)

LEMMA StrIs ==
  ASSUME NEW C, NEW w \in Seq(Seq(C)), NEW sp \in Seq(C), Len(sp) <= 1
  PROVE  (CHOOSE g : StrOf(w, sp, RoomFor(w, sp), g))[Len(w)] = Joined(w, sp)
<1> DEFINE n == Len(w)
           q == Between(w, sp)
           len == RoomFor(w, sp)
           Step(s, k) == StrStep(w, sp, len, s, k)
<1>1. n \in Nat
  OBVIOUS
<1>2. /\ q \in Seq(Seq(C)) /\ Len(q) = n
      /\ \A k \in 1 .. n : /\ w[k] \in Seq(C)
                           /\ q[k] = IF k = n THEN w[k] ELSE w[k] \o sp
  BY BetweenIs
<1>3. PICK F : Grown(q, F) /\ FlattenSeq(q) = F[Len(q)]
  <2> HIDE DEF q
  <2> QED
    BY <1>2, FlattenGrows
<1>4. /\ F[0] = <<>> /\ \A k \in 1 .. n : F[k] = F[k - 1] \o q[k]
      /\ \A k \in 0 .. n : F[k] \in Seq(C)
  <2> HIDE DEF q, n
  <2> QED
    BY <1>2, <1>3, GrownGives DEF Grown
<1>5. len \in Nat /\ \A k \in 0 .. n : Len(F[k]) <= len
  BY <1>3, RoomEnough
<1> HIDE DEF n, q, len
<1>6. \A k \in 1 .. n : Step(F[k - 1], k) = F[k]
  <2> TAKE k \in 1 .. n
  <2>1. PICK s : s = F[k - 1]
    OBVIOUS
  <2>2. PICK u : u = w[k]
    OBVIOUS
  <2>3. k - 1 \in 0 .. n /\ k \in 0 .. n
    BY <1>1
  <2>4. /\ s \in Seq(C) /\ u \in Seq(C)
        /\ F[k] = s \o (IF k = n THEN u ELSE u \o sp) /\ Len(F[k]) <= len
    BY <1>2, <1>4, <1>5, <2>1, <2>2, <2>3
  <2>5. CASE k = n
    <3>1. F[k] = s \o u /\ Len(s \o u) = Len(s) + Len(u)
      BY <2>4, <2>5
    <3>2. Appended(s, u, len) = s \o u
      BY <1>5, <2>4, <3>1, AppendedAll
    <3> QED
      BY <2>1, <2>2, <2>5, <3>1, <3>2 DEF StrStep, n
  <2>6. CASE k # n
    <3>1. F[k] = s \o (u \o sp)
      BY <2>4, <2>6
    <3>2. /\ s \o (u \o sp) = (s \o u) \o sp /\ s \o u \in Seq(C)
      BY <2>4, ConcatAssociative
    <3>3. Len(s \o u) = Len(s) + Len(u) /\ Len(s) \in Nat /\ Len(u) \in Nat /\ Len(sp) \in Nat
      BY <2>4
    <3>4. Len((s \o u) \o sp) = Len(s \o u) + Len(sp)
      BY <3>2
    <3>5. Len(s \o u) + Len(sp) <= len /\ Len(s) + Len(u) <= len
      BY <1>5, <2>4, <3>1, <3>2, <3>3, <3>4
    <3>6. Appended(s, u, len) = s \o u
      BY <1>5, <2>4, <3>5, AppendedAll
    <3>7. Appended(s \o u, sp, len) = (s \o u) \o sp
      BY <1>5, <3>2, <3>5, AppendedAll
    <3> QED
      BY <2>1, <2>2, <2>6, <3>1, <3>2, <3>6, <3>7 DEF StrStep, n
  <2> QED
    BY <2>5, <2>6
<1> DEFINE G == [k \in 0 .. n |-> F[k]]
           g == CHOOSE g : StrOf(w, sp, len, g)
<1>7. \A x : StrOf(w, sp, len, x)
        <=> x = [k \in 0 .. n |-> IF k = 0 THEN <<>> ELSE Step(x[k - 1], k)]
  BY DEF StrOf, StrStep, n
<1> HIDE DEF Step
<1>8. StrOf(w, sp, len, G)
  <2> DEFINE V(k) == IF k = 0 THEN <<>> ELSE Step(G[k - 1], k)
  <2>1. \A k \in 0 .. n : F[k] = V(k)
    <3> TAKE k \in 0 .. n
    <3>1. CASE k = 0
      BY <1>4, <3>1
    <3>2. CASE k # 0
      <4>1. k \in 1 .. n /\ k - 1 \in 0 .. n
        BY <1>1, <3>2
      <4>2. G[k - 1] = F[k - 1]
        BY <4>1
      <4> QED
        BY <1>6, <3>2, <4>1, <4>2
    <3> QED
      BY <3>1, <3>2
  <2>2. G = [k \in 0 .. n |-> V(k)]
    BY <2>1
  <2> HIDE DEF G
  <2> QED
    BY <1>7, <2>2
<1>9. StrOf(w, sp, len, g)
  <2> HIDE DEF G
  <2> QED
    BY <1>8
<1> HIDE DEF g, G
<1>10. \A k \in 0 .. n : g[k] = IF k = 0 THEN <<>> ELSE Step(g[k - 1], k)
  <2> DEFINE V(k) == IF k = 0 THEN <<>> ELSE Step(g[k - 1], k)
  <2>1. g = [k \in 0 .. n |-> V(k)]
    BY <1>7, <1>9
  <2> HIDE DEF V
  <2>2. \A k \in 0 .. n : g[k] = V(k)
    BY <2>1
  <2> QED
    BY <2>2 DEF V
<1>11. \A k \in 0 .. n : g[k] = F[k]
  <2> DEFINE Bad == {k \in 0 .. n : g[k] # F[k]}
  <2> SUFFICES ASSUME Bad # {}
               PROVE  FALSE
    OBVIOUS
  <2>1. PICK m \in Bad : \A j \in Bad : m <= j
    <3>1. Bad \in SUBSET Nat
      BY <1>1
    <3> HIDE DEF Bad
    <3> QED
      BY <3>1, LeastOf
  <2>2. m \in 0 .. n /\ g[m] # F[m]
    OBVIOUS
  <2>3. m # 0
    BY <1>4, <1>10, <2>2
  <2>4. m \in 1 .. n /\ m - 1 \in 0 .. n /\ ~ (m <= m - 1)
    BY <1>1, <2>2, <2>3
  <2>5. g[m - 1] = F[m - 1]
    BY <2>1, <2>4
  <2> QED
    BY <1>6, <1>10, <2>2, <2>3, <2>4, <2>5
<1>12. Joined(w, sp) = FlattenSeq(q)
  BY DEF Joined, Between, q
<1>13. n \in 0 .. n
  BY <1>1
<1>14. g[n] = F[n]
  BY <1>11, <1>13
<1> QED
  BY <1>2, <1>3, <1>12, <1>14 DEF g, n, len

------------------------------------------------------------------------------
(* Owners.  Every object is part of one list, of one array, is a string of *)
(* the caller's, or belongs to the call that is being made.                *)

CALL       == <<"call", 0>>
ListO(l)   == <<"list", l>>
ArrayO(a)  == <<"array", a>>
StringO(p) == <<"string", p>>
Owners == {CALL} \cup {ListO(l) : l \in Heads}
            \cup {ArrayO(a) : a \in Nat} \cup {StringO(p) : p \in Nat}

(* What belongs to an owner.                                               *)
ListShare(l)  == ListIds(heap, Nodes(heap, head[l]))
ArrayShare(a) == IF a \in DOMAIN arrays THEN ArrayIds(heap, a, array_len(heap, a))
                                        ELSE {}
StringShare(p) == IF p \in DOMAIN strings THEN {p} ELSE {}
CallShare ==
  CASE call.op = "map"   -> ListIds(heap, Nodes(heap, call.list))
    [] call.op = "split" -> ArrayIds(heap, call.array, call.nb)
    [] call.op = "dup"   -> ArrayIds(heap, call.array, call.i)
    [] OTHER             -> {}
Share(o) ==
  CASE o[1] = "list"   -> ListShare(o[2])
    [] o[1] = "array"  -> ArrayShare(o[2])
    [] o[1] = "string" -> StringShare(o[2])
    [] OTHER           -> CallShare

(* What can be relied on of each.  A list has the numbers it should, an    *)
(* array the words, a string the text; and an array ends with a NULL.      *)
ListFits(l) == /\ IsList(heap, head[l], Nodes(heap, head[l]))
               /\ Values(heap, Nodes(heap, head[l])) = numbers[l]
Ended(h, a) == IsArray(h, a, array_len(h, a)) /\ array_len(h, a) \in DOMAIN h[a]
ArrayFits(a) ==
  a \in DOMAIN arrays => /\ Ended(heap, a)
                         /\ Elements(heap, a) = arrays[a]
                         /\ arrays[a] \in Seq(Seq(Characters))
StringFits(p) == p \in DOMAIN strings => heap[p] = strings[p]

(* The copy that ft_lstmap makes follows the nodes before lst.             *)
MapFits ==
  /\ call.op = "map"
  /\ call = [op |-> "map", from |-> call.from, to |-> call.to,
             lst |-> call.lst, list |-> call.list]
  /\ call.from \in Heads /\ call.to \in Heads /\ head[call.to] = NULL
  /\ LET s == Nodes(heap, head[call.from])
         t == Nodes(heap, call.list)
     IN /\ IsList(heap, call.list, t)
        /\ Len(t) <= Len(s)
        /\ call.lst = IF Len(t) = Len(s) THEN NULL ELSE s[Len(t) + 1]
        /\ Values(heap, t) = [k \in 1 .. Len(t) |-> f(numbers[call.from][k])]
(* ft_split has set no entry behind the words it made, the first of s.     *)
SplitFits ==
  /\ call.op = "split"
  /\ call = [op |-> "split", s |-> call.s, c |-> call.c, array |-> call.array,
             n |-> call.n, nb |-> call.nb, left |-> call.left]
  /\ IsArray(heap, call.array, call.nb)
  /\ DOMAIN heap[call.array] = 0 .. call.nb - 1
  /\ call.s \in Texts /\ Scanned(call.s, call.c, call.n, call.nb, call.left)
  /\ WordsIn(heap, call.array, call.nb)
       = [k \in 1 .. call.nb |-> Words(call.s, call.c)[k]]
  /\ \A k \in 1 .. call.nb : Words(call.s, call.c)[k] \in Seq(Characters)
(* The copy that array_dup makes ends with a NULL from the start.          *)
DupFits ==
  /\ call.op = "dup"
  /\ call = [op |-> "dup", from |-> call.from, array |-> call.array, i |-> call.i]
  /\ call.from \in DOMAIN arrays
  /\ IsArray(heap, call.array, call.i)
  /\ DOMAIN heap[call.array] = 0 .. array_len(heap, call.from)
  /\ call.i <= array_len(heap, call.from)
  /\ WordsIn(heap, call.array, call.i) = [k \in 1 .. call.i |-> arrays[call.from][k]]
CallFits == call = Idle \/ MapFits \/ SplitFits \/ DupFits

Fits(o) ==
  CASE o[1] = "list"   -> ListFits(o[2])
    [] o[1] = "array"  -> ArrayFits(o[2])
    [] o[1] = "string" -> StringFits(o[2])
    [] OTHER           -> CallFits

Tables == /\ head = [l \in Heads |-> head[l]]
          /\ numbers = [l \in Heads |-> numbers[l]]
          /\ DOMAIN arrays \subseteq Nat /\ DOMAIN strings \subseteq Nat

EachHasOneOwner ==
  /\ \A y \in DOMAIN heap : \E o \in Owners : y \in Share(o)
  /\ \A o \in Owners : Share(o) \subseteq DOMAIN heap
  /\ \A o, p \in Owners : o # p => Share(o) \cap Share(p) = {}

(* The inductive invariant.                                                *)
Ownership == /\ GoodHeap(heap) /\ Tables /\ EachHasOneOwner
             /\ \A o \in Owners : Fits(o)

LEMMA OwnersAre ==
  /\ CALL \in Owners
  /\ \A l \in Heads : ListO(l) \in Owners /\ ListO(l) # CALL
  /\ \A a \in Nat : ArrayO(a) \in Owners /\ ArrayO(a) # CALL
  /\ \A p \in Nat : StringO(p) \in Owners /\ StringO(p) # CALL
  /\ \A o \in Owners : \/ o = CALL
                       \/ \E l \in Heads : o = ListO(l)
                       \/ \E a \in Nat : o = ArrayO(a)
                       \/ \E p \in Nat : o = StringO(p)
  BY DEF Owners, CALL, ListO, ArrayO, StringO

LEMMA SharesAre ==
  /\ Share(CALL) = CallShare
  /\ \A l : Share(ListO(l)) = ListShare(l)
  /\ \A a : Share(ArrayO(a)) = ArrayShare(a)
  /\ \A p : Share(StringO(p)) = StringShare(p)
  BY DEF Share, CALL, ListO, ArrayO, StringO

LEMMA FitsAre ==
  /\ Fits(CALL) <=> CallFits
  /\ \A l : Fits(ListO(l)) <=> ListFits(l)
  /\ \A a : Fits(ArrayO(a)) <=> ArrayFits(a)
  /\ \A p : Fits(StringO(p)) <=> StringFits(p)
  BY DEF Fits, CALL, ListO, ArrayO, StringO

LEMMA SharesAreNext ==
  /\ Share(CALL)' = CallShare'
  /\ \A l : Share(ListO(l))' = ListShare(l)'
  /\ \A a : Share(ArrayO(a))' = ArrayShare(a)'
  /\ \A p : Share(StringO(p))' = StringShare(p)'
  BY DEF Share, CALL, ListO, ArrayO, StringO

LEMMA FitsAreNext ==
  /\ Fits(CALL)' <=> CallFits'
  /\ \A l : Fits(ListO(l))' <=> ListFits(l)'
  /\ \A a : Fits(ArrayO(a))' <=> ArrayFits(a)'
  /\ \A p : Fits(StringO(p))' <=> StringFits(p)'
  BY DEF Fits, CALL, ListO, ArrayO, StringO

(* What a step does not touch of an owner.                                 *)
KeepsOwner(o) ==
  /\ \A l \in Heads : o = ListO(l) => head'[l] = head[l] /\ numbers'[l] = numbers[l]
  /\ \A a \in Nat : o = ArrayO(a) => /\ (a \in DOMAIN arrays' <=> a \in DOMAIN arrays)
                                     /\ a \in DOMAIN arrays => arrays'[a] = arrays[a]
  /\ \A p \in Nat : o = StringO(p) => /\ (p \in DOMAIN strings' <=> p \in DOMAIN strings)
                                      /\ p \in DOMAIN strings => strings'[p] = strings[p]

LEMMA KeptOwner ==
  ASSUME GoodHeap(heap), GoodHeap(heap'), NEW o \in Owners, o # CALL,
         Fits(o), KeepsOwner(o), SameIn(heap, heap', Share(o))
  PROVE  Fits(o)' /\ Share(o)' = Share(o)
<1>1. CASE \E l \in Heads : o = ListO(l)
  <2>1. PICK l \in Heads : o = ListO(l)
    BY <1>1
  <2> DEFINE s == Nodes(heap, head[l])
  <2>2. /\ IsList(heap, head[l], s) /\ Values(heap, s) = numbers[l]
        /\ SameIn(heap, heap', ListIds(heap, s)) /\ Share(o) = ListIds(heap, s)
    BY <2>1, FitsAre, SharesAre DEF ListFits, ListShare
  <2>3. head'[l] = head[l] /\ numbers'[l] = numbers[l]
    BY <2>1 DEF KeepsOwner
  <2> HIDE DEF s
  <2>4. /\ IsList(heap', head[l], s) /\ ListIds(heap', s) = ListIds(heap, s)
        /\ Values(heap', s) = Values(heap, s)
    BY <2>2, ListFrame
  <2>5. Nodes(heap', head'[l]) = s
    BY <2>3, <2>4, NodesAre
  <2>6. ListFits(l)' /\ ListShare(l)' = ListIds(heap', s)
    BY <2>2, <2>3, <2>4, <2>5 DEF ListFits, ListShare
  <2> QED
    BY <2>1, <2>2, <2>4, <2>6, SharesAreNext, FitsAreNext
<1>2. CASE \E a \in Nat : o = ArrayO(a)
  <2>1. PICK a \in Nat : o = ArrayO(a)
    BY <1>2
  <2>2. a \in DOMAIN arrays' <=> a \in DOMAIN arrays
    BY <2>1 DEF KeepsOwner
  <2>3. CASE a \in DOMAIN arrays
    <3> DEFINE n == array_len(heap, a)
    <3>1. /\ IsArray(heap, a, n) /\ n \in DOMAIN heap[a]
          /\ Share(o) = ArrayIds(heap, a, n)
          /\ Elements(heap, a) = arrays[a] /\ arrays[a] \in Seq(Seq(Characters))
      BY <2>1, <2>3, FitsAre, SharesAre DEF Ended, ArrayFits, ArrayShare
    <3> HIDE DEF n
    <3>2. /\ IsArray(heap', a, n) /\ heap'[a] = heap[a]
          /\ ArrayIds(heap', a, n) = ArrayIds(heap, a, n)
          /\ WordsIn(heap', a, n) = WordsIn(heap, a, n)
      BY <3>1, ArrayFrame
    <3>3. /\ array_len(heap', a) = n /\ Elements(heap', a) = WordsIn(heap', a, n)
          /\ Elements(heap, a) = WordsIn(heap, a, n)
      BY <3>1, <3>2, ArrayLen
    <3>4. ArrayFits(a)' /\ ArrayShare(a)' = ArrayIds(heap', a, n)
      <4>1. arrays'[a] = arrays[a]
        BY <2>1, <2>3 DEF KeepsOwner
      <4> QED
        BY <2>2, <2>3, <3>1, <3>2, <3>3, <4>1 DEF Ended, ArrayFits, ArrayShare
    <3> QED
      BY <2>1, <3>1, <3>2, <3>4, SharesAreNext, FitsAreNext
  <2>4. CASE a \notin DOMAIN arrays
    <3>1. ArrayShare(a)' = ArrayShare(a) /\ ArrayFits(a)'
      BY <2>2, <2>4 DEF ArrayShare, ArrayFits
    <3> QED
      BY <2>1, <2>2, <2>4, <3>1, SharesAre, SharesAreNext, FitsAreNext
  <2> QED
    BY <2>3, <2>4
<1>3. CASE \E p \in Nat : o = StringO(p)
  <2>1. PICK p \in Nat : o = StringO(p)
    BY <1>3
  <2>2. p \in DOMAIN strings' <=> p \in DOMAIN strings
    BY <2>1 DEF KeepsOwner
  <2>3. StringShare(p)' = StringShare(p)
    BY <2>2 DEF StringShare
  <2>4. StringFits(p)'
    <3> SUFFICES ASSUME p \in DOMAIN strings
                 PROVE  StringFits(p)'
      BY <2>2 DEF StringFits
    <3>1. strings'[p] = strings[p]
      BY <2>1 DEF KeepsOwner
    <3>2. heap'[p] = heap[p]
      BY <2>1, SharesAre DEF StringShare, SameIn
    <3>3. heap[p] = strings[p]
      BY <2>1, FitsAre DEF StringFits
    <3> QED
      BY <3>1, <3>2, <3>3 DEF StringFits
  <2> QED
    BY <2>1, <2>3, <2>4, SharesAre, SharesAreNext, FitsAreNext
<1> QED
  BY <1>1, <1>2, <1>3, OwnersAre

(* A step that touches the call and one other owner at most.               *)
LEMMA StepKeeps ==
  ASSUME Ownership, GoodHeap(heap'), Tables', NEW x \in Owners,
         \A o \in Owners : o # x => KeepsOwner(o),
         \A y \in DOMAIN heap \ (Share(CALL) \cup Share(x)) :
           y \in DOMAIN heap' /\ heap'[y] = heap[y],
         Fits(CALL)', Fits(x)',
         DOMAIN heap' = (DOMAIN heap \ (Share(CALL) \cup Share(x)))
                          \cup Share(CALL)' \cup Share(x)',
         \A y \in Share(CALL)' \cup Share(x)' :
           y \notin DOMAIN heap \ (Share(CALL) \cup Share(x)),
         x # CALL => Share(CALL)' \cap Share(x)' = {}
  PROVE  Ownership'
<1> DEFINE Touched(o) == o = CALL \/ o = x
           Rest == DOMAIN heap \ (Share(CALL) \cup Share(x))
<1>1. CALL \in Owners
  BY OwnersAre
<1>2. /\ \A y \in DOMAIN heap : \E o \in Owners : y \in Share(o)
      /\ \A o \in Owners : Share(o) \subseteq DOMAIN heap
      /\ \A o, p \in Owners : o # p => Share(o) \cap Share(p) = {}
  BY DEF Ownership, EachHasOneOwner
<1>3. \A o \in Owners : ~Touched(o) => Share(o) \subseteq Rest
  BY <1>1, <1>2
<1>4. \A o \in Owners : ~Touched(o) => Fits(o)' /\ Share(o)' = Share(o)
  <2> SUFFICES ASSUME NEW o \in Owners, ~Touched(o)
               PROVE  Fits(o)' /\ Share(o)' = Share(o)
    OBVIOUS
  <2>1. SameIn(heap, heap', Share(o))
    BY <1>3 DEF SameIn
  <2>2. GoodHeap(heap) /\ Fits(o) /\ KeepsOwner(o) /\ o # CALL
    BY DEF Ownership
  <2> QED
    BY <2>1, <2>2, KeptOwner
<1>5. \A o \in Owners : Fits(o)'
  BY <1>4
<1>6. \A o \in Owners : Share(o)' \subseteq DOMAIN heap'
  BY <1>3, <1>4
<1>7. \A y \in DOMAIN heap' : \E o \in Owners : y \in Share(o)'
  <2> SUFFICES ASSUME NEW y \in DOMAIN heap'
               PROVE  \E o \in Owners : y \in Share(o)'
    OBVIOUS
  <2>1. CASE y \in Share(CALL)' \cup Share(x)'
    BY <1>1, <2>1
  <2>2. CASE y \in Rest
    <3>1. PICK o \in Owners : y \in Share(o)
      BY <1>2, <2>2
    <3>2. ~Touched(o)
      BY <2>2, <3>1
    <3> QED
      BY <1>4, <3>1, <3>2
  <2> QED
    BY <2>1, <2>2
<1>8. \A o, p \in Owners : o # p => Share(o)' \cap Share(p)' = {}
  <2> SUFFICES ASSUME NEW o \in Owners, NEW p \in Owners, o # p
               PROVE  Share(o)' \cap Share(p)' = {}
    OBVIOUS
  <2>1. CASE Touched(o) /\ Touched(p)
    BY <2>1
  <2>2. CASE ~Touched(o) /\ ~Touched(p)
    BY <1>2, <1>4, <2>2
  <2>3. CASE Touched(o) /\ ~Touched(p)
    <3>1. Share(p)' \subseteq Rest
      BY <1>3, <1>4, <2>3
    <3> QED
      BY <2>3, <3>1
  <2>4. CASE ~Touched(o) /\ Touched(p)
    <3>1. Share(o)' \subseteq Rest
      BY <1>3, <1>4, <2>4
    <3> QED
      BY <2>4, <3>1
  <2> QED
    BY <2>1, <2>2, <2>3, <2>4
<1>9. EachHasOneOwner'
  BY <1>6, <1>7, <1>8 DEF EachHasOneOwner
<1> QED
  BY <1>5, <1>9 DEF Ownership

LEMMA IdleCall ==
  /\ call = Idle => CallShare = {} /\ CallFits
  /\ (call = Idle)' => CallShare' = {} /\ CallFits'
  BY DEF CallShare, CallFits, Idle

------------------------------------------------------------------------------
(* The steps of a list.                                                    *)

(* The node and its content that a caller makes.                           *)
LEMMA NewNodeGives ==
  ASSUME NEW h, GoodHeap(h), NEW v, NEW c \in malloc(h, v), c.ptr # NULL,
         NEW n \in ft_lstnew(c.heap, c.ptr), n.ptr # NULL
  PROVE  /\ GoodHeap(n.heap) /\ DOMAIN n.heap = DOMAIN h \cup {c.ptr, n.ptr}
         /\ c.ptr \notin DOMAIN h /\ n.ptr \notin DOMAIN h /\ c.ptr # n.ptr
         /\ n.heap[n.ptr] = [content |-> c.ptr, next |-> NULL]
         /\ n.heap[c.ptr] = v
         /\ \A x \in DOMAIN h : n.heap[x] = h[x]
<1>1. /\ c.ptr \in Nat /\ c.ptr \notin DOMAIN h
      /\ GoodHeap(c.heap) /\ DOMAIN c.heap = DOMAIN h \cup {c.ptr}
      /\ c.heap[c.ptr] = v /\ \A x \in DOMAIN h : c.heap[x] = h[x]
  BY MallocGives
<1>2. n \in malloc(c.heap, [content |-> c.ptr, next |-> NULL])
  BY DEF ft_lstnew
<1>3. /\ n.ptr \notin DOMAIN c.heap
      /\ GoodHeap(n.heap) /\ DOMAIN n.heap = DOMAIN c.heap \cup {n.ptr}
      /\ n.heap[n.ptr] = [content |-> c.ptr, next |-> NULL]
      /\ \A x \in DOMAIN c.heap : n.heap[x] = c.heap[x]
  BY <1>1, <1>2, MallocGives
<1> QED
  BY <1>1, <1>3

(* Between calls, a step that touches one list.                            *)
LEMMA ListStepKeeps ==
  ASSUME Ownership, call = Idle, UNCHANGED <<call, arrays, strings>>,
         NEW l \in Heads, GoodHeap(heap'), Tables',
         \A m \in Heads : m # l => head'[m] = head[m] /\ numbers'[m] = numbers[m],
         ListFits(l)',
         \A y \in DOMAIN heap \ ListShare(l) : y \in DOMAIN heap' /\ heap'[y] = heap[y],
         DOMAIN heap' = (DOMAIN heap \ ListShare(l)) \cup ListShare(l)',
         \A y \in ListShare(l)' : y \notin DOMAIN heap \ ListShare(l)
  PROVE  Ownership'
<1>1. ListO(l) \in Owners /\ ListO(l) # CALL
  BY OwnersAre
<1>2. /\ Share(CALL) = {} /\ Share(CALL)' = {}
      /\ Share(ListO(l)) = ListShare(l) /\ Share(ListO(l))' = ListShare(l)'
  BY SharesAre, SharesAreNext, IdleCall
<1>3. Fits(CALL)' /\ Fits(ListO(l))'
  BY FitsAreNext, IdleCall
<1>4. \A o \in Owners : o # ListO(l) => KeepsOwner(o)
  BY DEF KeepsOwner
<1>5. Share(CALL) \cup Share(ListO(l)) = ListShare(l)
  BY <1>2
<1> QED
  BY <1>1, <1>2, <1>3, <1>4, <1>5, StepKeeps

(* What is known of a list between two steps.                              *)
LEMMA TheList ==
  ASSUME Ownership, NEW l \in Heads
  PROVE  LET s == Nodes(heap, head[l]) IN
         /\ GoodHeap(heap)
         /\ IsList(heap, head[l], s) /\ Values(heap, s) = numbers[l]
         /\ ListShare(l) = ListIds(heap, s) /\ ListShare(l) \subseteq DOMAIN heap
         /\ DOMAIN numbers[l] = DOMAIN s
<1>1. ListO(l) \in Owners
  BY OwnersAre
<1>2. Fits(ListO(l)) /\ Share(ListO(l)) \subseteq DOMAIN heap /\ GoodHeap(heap)
  BY <1>1 DEF Ownership, EachHasOneOwner
<1> QED
  BY <1>2, FitsAre, SharesAre DEF ListFits, ListShare, Values

(* A list step that gives the variable l the list t.                       *)
LEMMA AssignKeeps ==
  ASSUME Ownership, call = Idle, UNCHANGED <<arrays, strings>>,
         NEW l \in Heads, NEW r, NEW v, NEW t, Assign(l, r, v),
         GoodHeap(r.heap), IsList(r.heap, r.ptr, t), Values(r.heap, t) = v,
         \A y \in DOMAIN heap \ ListShare(l) : r.heap[y] = heap[y],
         DOMAIN r.heap = (DOMAIN heap \ ListShare(l)) \cup ListIds(r.heap, t),
         \A y \in ListIds(r.heap, t) : y \notin DOMAIN heap \ ListShare(l)
  PROVE  Ownership'
<1>1. /\ heap' = r.heap /\ head' = [head EXCEPT ![l] = r.ptr]
      /\ numbers' = [numbers EXCEPT ![l] = v] /\ call' = call
  BY DEF Assign
<1>2. Tables
  BY DEF Ownership
<1>3. /\ Tables' /\ head'[l] = r.ptr /\ numbers'[l] = v
      /\ \A m \in Heads : m # l => head'[m] = head[m] /\ numbers'[m] = numbers[m]
  BY <1>1, <1>2 DEF Tables
<1>4. Nodes(heap', head'[l]) = t
  BY <1>1, <1>3, NodesAre
<1>5. ListFits(l)' /\ ListShare(l)' = ListIds(r.heap, t)
  BY <1>1, <1>3, <1>4 DEF ListFits, ListShare
<1> QED
  BY <1>1, <1>3, <1>5, ListStepKeeps

LEMMA AddFrontKeeps ==
  ASSUME Ownership, NEW l \in Heads, NEW number \in Numbers, AddFront(l, number),
         UNCHANGED <<arrays, strings>>
  PROVE  Ownership'
<1> DEFINE s == Nodes(heap, head[l])
<1>1. PICK c \in malloc(heap, number) : \E n \in ft_lstnew(c.heap, c.ptr) :
        /\ c.ptr # NULL /\ n.ptr # NULL
        /\ Assign(l, ft_lstadd_front(n.heap, head[l], n.ptr), <<number>> \o numbers[l])
  BY DEF AddFront
<1>2. PICK n \in ft_lstnew(c.heap, c.ptr) :
        /\ c.ptr # NULL /\ n.ptr # NULL
        /\ Assign(l, ft_lstadd_front(n.heap, head[l], n.ptr), <<number>> \o numbers[l])
  BY <1>1
<1>3. /\ GoodHeap(heap) /\ IsList(heap, head[l], s) /\ Values(heap, s) = numbers[l]
      /\ ListShare(l) = ListIds(heap, s) /\ ListShare(l) \subseteq DOMAIN heap
  BY TheList
<1> HIDE DEF s
<1> DEFINE g == n.heap
           y == n.ptr
           r == ft_lstadd_front(g, head[l], y)
           t == Before(y, s)
<1>4. /\ GoodHeap(g) /\ DOMAIN g = DOMAIN heap \cup {c.ptr, y}
      /\ c.ptr \notin DOMAIN heap /\ y \notin DOMAIN heap /\ c.ptr # y
      /\ g[y] = [content |-> c.ptr, next |-> NULL]
      /\ g[c.ptr] = number
      /\ \A x \in DOMAIN heap : g[x] = heap[x]
  BY <1>2, <1>3, NewNodeGives
<1>5. Assign(l, r, <<number>> \o numbers[l])
  BY <1>2
<1> HIDE DEF g, y
<1>6. SameIn(heap, g, ListIds(heap, s))
  BY <1>3, <1>4 DEF SameIn
<1>7. /\ IsList(g, head[l], s) /\ ListIds(g, s) = ListIds(heap, s)
      /\ Values(g, s) = Values(heap, s)
  BY <1>3, <1>6, ListFrame
<1>8. NewNode(g, s, y, c.ptr)
  BY <1>3, <1>4, <1>7 DEF NewNode
<1>9. /\ GoodHeap(r.heap) /\ DOMAIN r.heap = DOMAIN g
      /\ \A x \in DOMAIN g : x # y => r.heap[x] = g[x]
      /\ r.ptr = y
      /\ IsList(r.heap, y, t)
      /\ ListIds(r.heap, t) = ListIds(g, s) \cup {y, c.ptr}
      /\ Values(r.heap, t) = Before(g[c.ptr], Values(g, s))
  BY <1>4, <1>7, <1>8, AddFrontGives
<1> HIDE DEF r, t
<1>10. DOMAIN r.heap = (DOMAIN heap \ ListShare(l)) \cup ListIds(r.heap, t)
  BY <1>3, <1>4, <1>7, <1>9
<1>11. \A x \in DOMAIN heap \ ListShare(l) : r.heap[x] = heap[x]
  BY <1>4, <1>9
<1>12. \A x \in ListIds(r.heap, t) : x \notin DOMAIN heap \ ListShare(l)
  BY <1>3, <1>4, <1>7, <1>9
<1>13. IsList(r.heap, r.ptr, t) /\ Values(r.heap, t) = <<number>> \o numbers[l]
  BY <1>3, <1>4, <1>7, <1>9 DEF Before
<1>14. call = Idle
  BY DEF AddFront, Room
<1> QED
  BY <1>5, <1>9, <1>10, <1>11, <1>12, <1>13, <1>14, AssignKeeps

LEMMA AddBackKeeps ==
  ASSUME Ownership, NEW l \in Heads, NEW number \in Numbers, AddBack(l, number),
         UNCHANGED <<arrays, strings>>
  PROVE  Ownership'
<1> DEFINE s == Nodes(heap, head[l])
<1>1. PICK c \in malloc(heap, number) : \E n \in ft_lstnew(c.heap, c.ptr) :
        /\ c.ptr # NULL /\ n.ptr # NULL
        /\ Assign(l, ft_lstadd_back(n.heap, head[l], n.ptr), Append(numbers[l], number))
  BY DEF AddBack
<1>2. PICK n \in ft_lstnew(c.heap, c.ptr) :
        /\ c.ptr # NULL /\ n.ptr # NULL
        /\ Assign(l, ft_lstadd_back(n.heap, head[l], n.ptr), Append(numbers[l], number))
  BY <1>1
<1>3. /\ GoodHeap(heap) /\ IsList(heap, head[l], s) /\ Values(heap, s) = numbers[l]
      /\ ListShare(l) = ListIds(heap, s) /\ ListShare(l) \subseteq DOMAIN heap
  BY TheList
<1> HIDE DEF s
<1> DEFINE g == n.heap
           y == n.ptr
           r == ft_lstadd_back(g, head[l], y)
           t == Append(s, y)
<1>4. /\ GoodHeap(g) /\ DOMAIN g = DOMAIN heap \cup {c.ptr, y}
      /\ c.ptr \notin DOMAIN heap /\ y \notin DOMAIN heap /\ c.ptr # y
      /\ g[y] = [content |-> c.ptr, next |-> NULL]
      /\ g[c.ptr] = number
      /\ \A x \in DOMAIN heap : g[x] = heap[x]
  BY <1>2, <1>3, NewNodeGives
<1>5. Assign(l, r, Append(numbers[l], number))
  BY <1>2
<1> HIDE DEF g, y
<1>6. SameIn(heap, g, ListIds(heap, s))
  BY <1>3, <1>4 DEF SameIn
<1>7. /\ IsList(g, head[l], s) /\ ListIds(g, s) = ListIds(heap, s)
      /\ Values(g, s) = Values(heap, s)
  BY <1>3, <1>6, ListFrame
<1>8. NewNode(g, s, y, c.ptr)
  BY <1>3, <1>4, <1>7 DEF NewNode
<1>9. /\ GoodHeap(r.heap) /\ DOMAIN r.heap = DOMAIN g
      /\ \A x \in DOMAIN g \ ListIds(g, s) : r.heap[x] = g[x]
      /\ IsList(r.heap, r.ptr, t)
      /\ ListIds(r.heap, t) = ListIds(g, s) \cup {y, c.ptr}
      /\ Values(r.heap, t) = Append(Values(g, s), g[c.ptr])
  BY <1>4, <1>7, <1>8, AddBackGives
<1> HIDE DEF r, t
<1>10. DOMAIN r.heap = (DOMAIN heap \ ListShare(l)) \cup ListIds(r.heap, t)
  BY <1>3, <1>4, <1>7, <1>9
<1>11. \A x \in DOMAIN heap \ ListShare(l) : r.heap[x] = heap[x]
  BY <1>3, <1>4, <1>7, <1>9
<1>12. \A x \in ListIds(r.heap, t) : x \notin DOMAIN heap \ ListShare(l)
  BY <1>3, <1>4, <1>7, <1>9
<1>13. Values(r.heap, t) = Append(numbers[l], number)
  BY <1>3, <1>4, <1>7, <1>9
<1>14. call = Idle
  BY DEF AddBack, Room
<1> QED
  BY <1>5, <1>9, <1>10, <1>11, <1>12, <1>13, <1>14, AssignKeeps

LEMMA DeleteFirstKeeps ==
  ASSUME Ownership, NEW l \in Heads, DeleteFirst(l), UNCHANGED <<arrays, strings>>
  PROVE  Ownership'
<1> DEFINE s == Nodes(heap, head[l])
           k == ft_lstdelone(heap, head[l])
           t == Tail(s)
           r == Outcome(k, heap[head[l]].next)
<1>1. /\ GoodHeap(heap) /\ IsList(heap, head[l], s) /\ Values(heap, s) = numbers[l]
      /\ ListShare(l) = ListIds(heap, s) /\ ListShare(l) \subseteq DOMAIN heap
  BY TheList
<1>2. call = Idle /\ head[l] # NULL /\ Assign(l, r, Tail(numbers[l]))
  BY DEF DeleteFirst
<1>3. r.heap = k /\ r.ptr = heap[head[l]].next
  BY DEF Outcome
<1> HIDE DEF s
<1>4. /\ GoodHeap(k)
      /\ DOMAIN k = (DOMAIN heap \ ListIds(heap, s)) \cup ListIds(k, t)
      /\ \A x \in DOMAIN heap \ ListIds(heap, s) : k[x] = heap[x]
      /\ IsList(k, heap[head[l]].next, t)
      /\ ListIds(k, t) \subseteq ListIds(heap, s)
      /\ Values(k, t) = Tail(Values(heap, s))
  BY <1>1, <1>2, DeleteFirstGives
<1> HIDE DEF k, t, r
<1>5. /\ GoodHeap(r.heap) /\ IsList(r.heap, r.ptr, t)
      /\ Values(r.heap, t) = Tail(numbers[l])
      /\ \A y \in DOMAIN heap \ ListShare(l) : r.heap[y] = heap[y]
      /\ DOMAIN r.heap = (DOMAIN heap \ ListShare(l)) \cup ListIds(r.heap, t)
      /\ \A y \in ListIds(r.heap, t) : y \notin DOMAIN heap \ ListShare(l)
  BY <1>1, <1>3, <1>4
<1> QED
  BY <1>2, <1>5, AssignKeeps

LEMMA ClearKeeps ==
  ASSUME Ownership, NEW l \in Heads, Clear(l), UNCHANGED <<arrays, strings>>
  PROVE  Ownership'
<1> DEFINE s == Nodes(heap, head[l])
           k == ft_lstclear(heap, head[l])
           r == Outcome(k, NULL)
<1>1. /\ GoodHeap(heap) /\ IsList(heap, head[l], s) /\ Values(heap, s) = numbers[l]
      /\ ListShare(l) = ListIds(heap, s) /\ ListShare(l) \subseteq DOMAIN heap
  BY TheList
<1>2. call = Idle /\ Assign(l, r, <<>>)
  BY DEF Clear
<1>3. r.heap = k /\ r.ptr = NULL
  BY DEF Outcome
<1> HIDE DEF s
<1>4. k = Without(heap, ListIds(heap, s))
  BY <1>1, ClearGives
<1> HIDE DEF k, r
<1>5. /\ GoodHeap(k) /\ DOMAIN k = DOMAIN heap \ ListIds(heap, s)
      /\ \A x \in DOMAIN heap \ ListIds(heap, s) : k[x] = heap[x]
  BY <1>1, <1>4, WithoutGood
<1>6. IsList(k, NULL, <<>>) /\ ListIds(k, <<>>) = {} /\ Values(k, <<>>) = <<>>
  BY EmptyList
<1>7. /\ GoodHeap(r.heap) /\ IsList(r.heap, r.ptr, <<>>)
      /\ Values(r.heap, <<>>) = <<>>
      /\ \A y \in DOMAIN heap \ ListShare(l) : r.heap[y] = heap[y]
      /\ DOMAIN r.heap = (DOMAIN heap \ ListShare(l)) \cup ListIds(r.heap, <<>>)
      /\ \A y \in ListIds(r.heap, <<>>) : y \notin DOMAIN heap \ ListShare(l)
  BY <1>1, <1>3, <1>5, <1>6
<1> QED
  BY <1>2, <1>7, AssignKeeps

LEMMA IterateKeeps ==
  ASSUME Ownership, NEW l \in Heads, Iterate(l), UNCHANGED <<arrays, strings>>
  PROVE  Ownership'
<1> DEFINE s == Nodes(heap, head[l])
           k == ft_lstiter(heap, head[l])
           r == Outcome(k, head[l])
           v == [i \in DOMAIN numbers[l] |-> f(numbers[l][i])]
<1>1. /\ GoodHeap(heap) /\ IsList(heap, head[l], s) /\ Values(heap, s) = numbers[l]
      /\ ListShare(l) = ListIds(heap, s) /\ ListShare(l) \subseteq DOMAIN heap
      /\ DOMAIN numbers[l] = DOMAIN s
  BY TheList
<1>2. call = Idle /\ Assign(l, r, v)
  BY DEF Iterate
<1>3. r.heap = k /\ r.ptr = head[l]
  BY DEF Outcome
<1> HIDE DEF s
<1>4. /\ GoodHeap(k) /\ DOMAIN k = DOMAIN heap
      /\ \A x \in DOMAIN heap \ ListIds(heap, s) : k[x] = heap[x]
      /\ IsList(k, head[l], s) /\ ListIds(k, s) = ListIds(heap, s)
      /\ Values(k, s) = [i \in DOMAIN s |-> f(Values(heap, s)[i])]
  BY <1>1, IterateGives
<1> HIDE DEF k, r
<1>5. Values(k, s) = v
  BY <1>1, <1>4
<1> HIDE DEF v
<1>6. /\ GoodHeap(r.heap) /\ IsList(r.heap, r.ptr, s) /\ Values(r.heap, s) = v
      /\ \A y \in DOMAIN heap \ ListShare(l) : r.heap[y] = heap[y]
      /\ DOMAIN r.heap = (DOMAIN heap \ ListShare(l)) \cup ListIds(r.heap, s)
      /\ \A y \in ListIds(r.heap, s) : y \notin DOMAIN heap \ ListShare(l)
  BY <1>1, <1>3, <1>4, <1>5
<1> QED
  BY <1>2, <1>6, AssignKeeps

------------------------------------------------------------------------------
(* The steps of ft_lstmap.                                                 *)

(* What belongs to the call belongs to no list and to no array.            *)
LEMMA CallApart ==
  ASSUME Ownership
  PROVE  /\ CallShare \subseteq DOMAIN heap
         /\ \A l \in Heads : /\ ListShare(l) \subseteq DOMAIN heap
                             /\ ListShare(l) \cap CallShare = {}
         /\ \A a \in DOMAIN arrays : /\ ArrayShare(a) \subseteq DOMAIN heap
                                     /\ ArrayShare(a) \cap CallShare = {}
<1>1. /\ \A o \in Owners : Share(o) \subseteq DOMAIN heap
      /\ \A o, p \in Owners : o # p => Share(o) \cap Share(p) = {}
      /\ DOMAIN arrays \subseteq Nat
  BY DEF Ownership, EachHasOneOwner, Tables
<1> QED
  BY <1>1, OwnersAre, SharesAre

(* A step that touches only what belongs to the call.                      *)
CallStep == /\ UNCHANGED <<head, numbers, arrays, strings>>
            /\ GoodHeap(heap')
            /\ \A y \in DOMAIN heap \ CallShare : y \in DOMAIN heap' /\ heap'[y] = heap[y]

LEMMA CallStepKeeps ==
  ASSUME Ownership, CallStep, CallFits',
         DOMAIN heap' = (DOMAIN heap \ CallShare) \cup CallShare',
         \A y \in CallShare' : y \notin DOMAIN heap \ CallShare
  PROVE  Ownership'
<1>1. CALL \in Owners
  BY OwnersAre
<1>2. /\ Share(CALL) = CallShare /\ Share(CALL)' = CallShare' /\ Fits(CALL)'
  BY SharesAre, SharesAreNext, FitsAreNext
<1>3. Tables' /\ GoodHeap(heap')
  BY DEF Ownership, Tables, CallStep
<1>4. \A o \in Owners : o # CALL => KeepsOwner(o)
  BY DEF KeepsOwner, CallStep
<1>5. Share(CALL) \cup Share(CALL) = CallShare
  BY <1>2
<1>6. \A y \in DOMAIN heap \ CallShare : y \in DOMAIN heap' /\ heap'[y] = heap[y]
  BY DEF CallStep
<1> HIDE DEF CallStep
<1> QED
  BY <1>1, <1>2, <1>3, <1>4, <1>5, <1>6, StepKeeps

LEMMA CallStepStands ==
  ASSUME Ownership, CallStep
  PROVE  /\ \A l \in Heads : /\ Nodes(heap', head'[l]) = Nodes(heap, head[l])
                             /\ numbers'[l] = numbers[l] /\ head'[l] = head[l]
         /\ \A a \in DOMAIN arrays : array_len(heap', a) = array_len(heap, a)
<1>1. /\ GoodHeap(heap) /\ GoodHeap(heap') /\ DOMAIN arrays \subseteq Nat
      /\ \A o \in Owners : Fits(o)
  BY DEF Ownership, CallStep, Tables
<1>2. ASSUME NEW l \in Heads
      PROVE  /\ Nodes(heap', head'[l]) = Nodes(heap, head[l])
             /\ numbers'[l] = numbers[l] /\ head'[l] = head[l]
  <2> DEFINE s == Nodes(heap, head[l])
  <2>1. /\ IsList(heap, head[l], s) /\ ListShare(l) = ListIds(heap, s)
    BY TheList
  <2> HIDE DEF s
  <2>2. SameIn(heap, heap', ListIds(heap, s))
    BY <2>1, CallApart DEF SameIn, CallStep
  <2>3. IsList(heap', head[l], s)
    BY <2>1, <2>2, ListFrame
  <2>4. Nodes(heap', head[l]) = s
    BY <1>1, <2>3, NodesAre
  <2> QED
    BY <2>4 DEF CallStep, s
<1>3. ASSUME NEW a \in DOMAIN arrays
      PROVE  array_len(heap', a) = array_len(heap, a)
  <2> DEFINE n == array_len(heap, a)
  <2>1. ArrayO(a) \in Owners
    BY <1>1, OwnersAre
  <2>2. IsArray(heap, a, n) /\ n \in DOMAIN heap[a] /\ ArrayShare(a) = ArrayIds(heap, a, n)
    BY <1>1, <2>1, FitsAre DEF Ended, ArrayFits, ArrayShare
  <2> HIDE DEF n
  <2>3. SameIn(heap, heap', ArrayIds(heap, a, n))
    BY <2>2, CallApart DEF SameIn, CallStep
  <2>4. IsArray(heap', a, n) /\ heap'[a] = heap[a]
    BY <2>2, <2>3, ArrayFrame
  <2> QED
    BY <1>1, <2>2, <2>4, ArrayLen DEF n
<1> QED
  BY <1>2, <1>3

LEMMA CallMapKeeps ==
  ASSUME Ownership, NEW from \in Heads, NEW to \in Heads, CallMap(from, to),
         UNCHANGED <<arrays, strings>>
  PROVE  Ownership'
<1> DEFINE s == Nodes(heap, head[from])
<1>1. /\ call = Idle /\ head[from] # NULL /\ head[to] = NULL
      /\ call' = [op |-> "map", from |-> from, to |-> to,
                  lst |-> head[from], list |-> NULL]
      /\ heap' = heap /\ head' = head /\ numbers' = numbers
  BY DEF CallMap, Room
<1>2. /\ GoodHeap(heap) /\ IsList(heap, head[from], s)
  BY TheList
<1>3. CallShare = {}
  BY <1>1, IdleCall
<1>4. CallStep
  BY <1>1, <1>2 DEF CallStep
<1>5. IsList(heap, NULL, <<>>) /\ ListIds(heap, <<>>) = {} /\ Values(heap, <<>>) = <<>>
  BY EmptyList
<1>6. Nodes(heap, NULL) = <<>>
  BY <1>2, <1>5, NodesAre
<1>7. CallShare' = {}
  BY <1>1, <1>5, <1>6 DEF CallShare
<1>8. Len(s) \in Nat /\ head[from] = IF Len(s) = 0 THEN NULL ELSE s[1]
  BY <1>2, ListFacts, EmptySeq DEF IsList
<1>9. /\ Len(<<>>) = 0
      /\ [k \in 1 .. 0 |-> f(numbers[from][k])] = <<>>
  OBVIOUS
<1> HIDE DEF s
<1>10. MapFits'
  <2>1. 0 <= Len(s) /\ head[from] = IF 0 = Len(s) THEN NULL ELSE s[0 + 1]
    BY <1>8
  <2>2. /\ Nodes(heap, head[from]) = s /\ Nodes(heap', head'[from]) = s
        /\ Nodes(heap', NULL) = <<>>
    BY <1>1, <1>6 DEF s
  <2>3. /\ call'.from = from /\ call'.to = to /\ call'.lst = head[from]
        /\ call'.list = NULL /\ call'.op = "map"
    BY <1>1
  <2> QED
    BY <1>1, <1>5, <1>9, <2>1, <2>2, <2>3 DEF MapFits
<1>11. DOMAIN heap' = (DOMAIN heap \ CallShare) \cup CallShare'
  BY <1>1, <1>3, <1>7
<1> QED
  BY <1>4, <1>7, <1>10, <1>11, CallStepKeeps DEF CallFits

(* When nothing could be had behind a first object, nothing is left of it. *)
LEMMA GivenBack ==
  ASSUME NEW h, GoodHeap(h), NEW v, NEW r \in malloc(h, v), r.ptr # NULL
  PROVE  free(r.heap, r.ptr) = h
<1> DEFINE g == r.heap
           p == r.ptr
<1>1. /\ p \notin DOMAIN h /\ GoodHeap(g) /\ DOMAIN g = DOMAIN h \cup {p}
      /\ \A x \in DOMAIN h : g[x] = h[x]
  BY MallocGives
<1> HIDE DEF g, p
<1>2. free(g, p) = Without(g, {p})
  BY <1>1, FreeGives
<1>3. DOMAIN g \ {p} = DOMAIN h
  BY <1>1
<1>4. Without(g, {p}) = [x \in DOMAIN h |-> h[x]]
  BY <1>1, <1>3 DEF Without
<1> QED
  BY <1>2, <1>4 DEF GoodHeap, g, p

(* Where ft_lstmap is.                                                     *)
LEMMA TheMap ==
  ASSUME Ownership, call.op = "map"
  PROVE  LET s == Nodes(heap, head[call.from])
             t == Nodes(heap, call.list)
         IN  /\ MapFits /\ CallShare = ListIds(heap, t) /\ GoodHeap(heap)
             /\ IsList(heap, head[call.from], s) /\ IsList(heap, call.list, t)
             /\ Values(heap, s) = numbers[call.from]
             /\ Len(s) \in Nat /\ DOMAIN s = 1 .. Len(s)
             /\ Len(t) \in Nat /\ DOMAIN t = 1 .. Len(t)
<1>1. Fits(CALL) /\ GoodHeap(heap)
  BY OwnersAre DEF Ownership
<1>2. MapFits
  BY <1>1, FitsAre DEF CallFits, SplitFits, DupFits, Idle
<1>3. call.from \in Heads
  BY <1>2 DEF MapFits
<1>4. PICK l \in Heads : l = call.from
  BY <1>3
<1> DEFINE s == Nodes(heap, head[l])
           t == Nodes(heap, call.list)
<1>5. IsList(heap, head[l], s) /\ Values(heap, s) = numbers[l]
  BY TheList
<1>6. IsList(heap, call.list, t)
  BY <1>2 DEF MapFits
<1>7. CallShare = ListIds(heap, t)
  BY DEF CallShare
<1> HIDE DEF s, t
<1>8. Len(s) \in Nat /\ DOMAIN s = 1 .. Len(s)
  BY <1>1, <1>5, ListFacts
<1>9. Len(t) \in Nat /\ DOMAIN t = 1 .. Len(t)
  BY <1>1, <1>6, ListFacts
<1> QED
  BY <1>1, <1>2, <1>4, <1>5, <1>6, <1>7, <1>8, <1>9 DEF s, t

LEMMA MapNodeKeeps ==
  ASSUME Ownership, MapNode, UNCHANGED <<arrays, strings>>
  PROVE  Ownership'
<1> DEFINE l == call.from
           s == Nodes(heap, head[l])
           t == Nodes(heap, call.list)
           m == Len(t)
           v == f(heap[heap[call.lst].content])
<1>1. call.op = "map" /\ call.lst # NULL /\ UNCHANGED <<head, numbers, arrays, strings>>
  BY DEF MapNode
<1>2. /\ MapFits /\ CallShare = ListIds(heap, t) /\ GoodHeap(heap)
      /\ IsList(heap, head[l], s) /\ IsList(heap, call.list, t)
      /\ Values(heap, s) = numbers[l]
      /\ Len(s) \in Nat /\ DOMAIN s = 1 .. Len(s)
      /\ m \in Nat /\ DOMAIN t = 1 .. m
  BY <1>1, TheMap
<1>3. /\ call = [op |-> "map", from |-> l, to |-> call.to,
                 lst |-> call.lst, list |-> call.list]
      /\ l \in Heads /\ call.to \in Heads /\ head[call.to] = NULL
      /\ m <= Len(s)
      /\ call.lst = IF m = Len(s) THEN NULL ELSE s[m + 1]
      /\ Values(heap, t) = [k \in 1 .. m |-> f(numbers[l][k])]
  BY <1>2 DEF MapFits
<1>4. PICK tmp \in malloc(heap, v) :
        tmp.ptr # NULL /\ \E node \in ft_lstnew(tmp.heap, tmp.ptr) :
          IF node.ptr = NULL
          THEN /\ heap' = ft_lstclear(free(tmp.heap, tmp.ptr), call.list)
               /\ call' = Idle
          ELSE LET added == ft_lstadd_back(node.heap, call.list, node.ptr)
               IN /\ heap' = added.heap
                  /\ call' = [call EXCEPT !.list = added.ptr,
                                          !.lst  = heap[@].next]
  BY DEF MapNode
<1>5. PICK node \in ft_lstnew(tmp.heap, tmp.ptr) :
          IF node.ptr = NULL
          THEN /\ heap' = ft_lstclear(free(tmp.heap, tmp.ptr), call.list)
               /\ call' = Idle
          ELSE LET added == ft_lstadd_back(node.heap, call.list, node.ptr)
               IN /\ heap' = added.heap
                  /\ call' = [call EXCEPT !.list = added.ptr,
                                          !.lst  = heap[@].next]
  BY <1>4
<1>6. /\ m + 1 \in DOMAIN s /\ call.lst = s[m + 1] /\ v = f(numbers[l][m + 1])
      /\ heap[call.lst].next = IF m + 1 = Len(s) THEN NULL ELSE s[(m + 1) + 1]
  <2>1. m + 1 \in DOMAIN s /\ call.lst = s[m + 1]
    BY <1>1, <1>2, <1>3
  <2>2. numbers[l][m + 1] = heap[heap[s[m + 1]].content]
    BY <1>2, <2>1 DEF Values
  <2>3. heap[s[m + 1]].next = IF m + 1 = Len(s) THEN NULL ELSE s[(m + 1) + 1]
    BY <1>2, <2>1 DEF IsList
  <2> QED
    BY <2>1, <2>2, <2>3
<1> HIDE DEF s, t, l, m, v
<1>7. CASE node.ptr = NULL
  <2>1. heap' = ft_lstclear(heap, call.list) /\ call' = Idle
    BY <1>2, <1>4, <1>5, <1>7, GivenBack
  <2>2. heap' = Without(heap, CallShare)
    BY <1>2, <2>1, ClearGives
  <2>3. /\ GoodHeap(heap') /\ DOMAIN heap' = DOMAIN heap \ CallShare
        /\ \A x \in DOMAIN heap \ CallShare : heap'[x] = heap[x]
    <3> DEFINE h == heap
               P == CallShare
    <3>1. GoodHeap(h)
      BY <1>2
    <3> HIDE DEF h, P
    <3>2. /\ GoodHeap(Without(h, P)) /\ DOMAIN Without(h, P) = DOMAIN h \ P
          /\ \A x \in DOMAIN h \ P : Without(h, P)[x] = h[x]
      BY <3>1, WithoutGood
    <3> QED
      BY <2>2, <3>2 DEF h, P
  <2>4. CallStep
    BY <1>1, <2>3 DEF CallStep
  <2>5. CallShare' = {} /\ CallFits'
    BY <2>1, IdleCall
  <2> QED
    BY <2>3, <2>4, <2>5, CallStepKeeps
<1>8. CASE node.ptr # NULL
  <2> DEFINE c == tmp.ptr
             y == node.ptr
             g == node.heap
             lst == call.list
             r == ft_lstadd_back(g, lst, y)
             u == Append(t, y)
  <2>1. /\ heap' = r.heap
        /\ call' = [call EXCEPT !.list = r.ptr, !.lst = heap[@].next]
    BY <1>5, <1>8
  <2>2. /\ GoodHeap(g) /\ DOMAIN g = DOMAIN heap \cup {c, y}
        /\ c \notin DOMAIN heap /\ y \notin DOMAIN heap /\ c # y
        /\ g[y] = [content |-> c, next |-> NULL]
        /\ g[c] = v
        /\ \A x \in DOMAIN heap : g[x] = heap[x]
    BY <1>2, <1>4, <1>8, NewNodeGives
  <2> HIDE DEF c, g, y, lst
  <2>3. ListIds(heap, t) \subseteq DOMAIN heap
    BY <1>2, CallApart
  <2>4. SameIn(heap, g, ListIds(heap, t))
    BY <2>2, <2>3 DEF SameIn
  <2>5. /\ IsList(g, lst, t) /\ ListIds(g, t) = ListIds(heap, t)
        /\ Values(g, t) = Values(heap, t)
    BY <1>2, <2>4, ListFrame DEF lst
  <2>6. NewNode(g, t, y, c)
    BY <2>2, <2>3, <2>5 DEF NewNode
  <2>7. /\ GoodHeap(r.heap) /\ DOMAIN r.heap = DOMAIN g
        /\ \A x \in DOMAIN g \ ListIds(g, t) : r.heap[x] = g[x]
        /\ IsList(r.heap, r.ptr, u)
        /\ ListIds(r.heap, u) = ListIds(g, t) \cup {y, c}
        /\ Values(r.heap, u) = Append(Values(g, t), g[c])
    BY <2>2, <2>5, <2>6, AddBackGives
  <2> HIDE DEF r
  <2>8. /\ GoodHeap(heap')
        /\ \A x \in DOMAIN heap \ CallShare : x \in DOMAIN heap' /\ heap'[x] = heap[x]
    BY <1>2, <2>1, <2>2, <2>5, <2>7
  <2>9. CallStep
    BY <1>1, <2>8 DEF CallStep
  <2>10. call' = [op |-> "map", from |-> l, to |-> call.to,
                  lst |-> heap[call.lst].next, list |-> r.ptr]
    <3> DEFINE c1 == [call EXCEPT !.list = r.ptr]
    <3>1. c1 = [op |-> "map", from |-> l, to |-> call.to,
                lst |-> call.lst, list |-> r.ptr]
      BY <1>3
    <3>2. call' = [c1 EXCEPT !.lst = heap[call.lst].next]
      BY <2>1
    <3> HIDE DEF c1
    <3> QED
      BY <3>1, <3>2
  <2>11. /\ call'.op = "map" /\ call'.from = l /\ call'.to = call.to
         /\ call'.lst = heap[call.lst].next /\ call'.list = r.ptr
    BY <2>10
  <2>12. Nodes(heap', call'.list) = u
    BY <2>1, <2>7, <2>11, NodesAre
  <2>13. Nodes(heap', head'[l]) = s /\ numbers'[l] = numbers[l]
    BY <1>3, <2>9, CallStepStands DEF s
  <2>14. Len(u) = m + 1
    <3>1. t \in Seq(DOMAIN heap)
      BY <1>2 DEF IsList
    <3> QED
      BY <1>2, <3>1, LenProperties DEF m
  <2>15. Values(r.heap, u) = [k \in 1 .. m + 1 |-> f(numbers[l][k])]
    <3> DEFINE w == [k \in 1 .. m |-> f(numbers[l][k])]
    <3>3. Append(w, v) = [k \in 1 .. m + 1 |-> IF k = m + 1 THEN v ELSE w[k]]
      <4>1. w = [k \in 1 .. m |-> w[k]]
        OBVIOUS
      <4> HIDE DEF w
      <4> QED
        BY <1>2, <4>1, AppendIs
    <3>4. \A k \in 1 .. m + 1 : (IF k = m + 1 THEN v ELSE w[k]) = f(numbers[l][k])
      <4> TAKE k \in 1 .. m + 1
      <4>1. CASE k = m + 1
        BY <1>6, <4>1
      <4>2. CASE k # m + 1
        <5>1. k \in 1 .. m
          BY <1>2, <4>2
        <5> QED
          BY <4>2, <5>1
      <4> QED
        BY <4>1, <4>2
    <3>5. Append(w, v) = [k \in 1 .. m + 1 |-> f(numbers[l][k])]
      BY <3>3, <3>4
    <3>6. Values(r.heap, u) = Append(w, v)
      BY <1>3, <2>2, <2>5, <2>7
    <3> QED
      BY <3>5, <3>6
  <2>16. CallShare' = ListIds(heap, t) \cup {y, c}
    BY <2>1, <2>5, <2>7, <2>11, <2>12 DEF CallShare
  <2>17. MapFits'
    <3>1. m + 1 <= Len(s)
      BY <1>2, <1>6
    <3> HIDE DEF u
    <3>2. head'[call.to] = NULL
      BY <1>1, <1>3
    <3> QED
      BY <1>3, <1>6, <2>1, <2>7, <2>10, <2>11, <2>12, <2>13, <2>14, <2>15, <3>1, <3>2
         DEF MapFits
  <2>18. DOMAIN heap' = (DOMAIN heap \ CallShare) \cup CallShare'
    BY <1>2, <2>1, <2>2, <2>3, <2>7, <2>16
  <2>19. \A x \in CallShare' : x \notin DOMAIN heap \ CallShare
    BY <1>2, <2>2, <2>16
  <2> QED
    BY <2>9, <2>17, <2>18, <2>19, CallStepKeeps DEF CallFits
<1> QED
  BY <1>7, <1>8

LEMMA MapDoneKeeps ==
  ASSUME Ownership, MapDone, UNCHANGED <<arrays, strings>>
  PROVE  Ownership'
<1> DEFINE from == call.from
           s == Nodes(heap, head[from])
           t == Nodes(heap, call.list)
           m == Len(t)
           v == [k \in DOMAIN numbers[from] |-> f(numbers[from][k])]
<1>1. /\ call.op = "map" /\ call.lst = NULL
      /\ head' = [head EXCEPT ![call.to] = call.list]
      /\ numbers' = [numbers EXCEPT ![call.to] = v]
      /\ call' = Idle /\ heap' = heap
  BY DEF MapDone
<1>2. /\ MapFits /\ CallShare = ListIds(heap, t) /\ GoodHeap(heap)
      /\ IsList(heap, head[from], s) /\ IsList(heap, call.list, t)
      /\ Values(heap, s) = numbers[from]
      /\ Len(s) \in Nat /\ DOMAIN s = 1 .. Len(s)
      /\ m \in Nat /\ DOMAIN t = 1 .. m
  BY <1>1, TheMap
<1>3. /\ call.to \in Heads /\ head[call.to] = NULL
      /\ m <= Len(s)
      /\ call.lst = IF m = Len(s) THEN NULL ELSE s[m + 1]
      /\ Values(heap, t) = [k \in 1 .. m |-> f(numbers[from][k])]
  BY <1>2 DEF MapFits
<1>4. PICK to \in Heads : to = call.to
  BY <1>3
<1>5. m = Len(s)
  <2> SUFFICES ASSUME m # Len(s)
               PROVE  FALSE
    OBVIOUS
  <2>1. m + 1 \in DOMAIN s /\ s[m + 1] = NULL
    BY <1>1, <1>2, <1>3
  <2>2. s[m + 1] # NULL
    BY <1>2, <2>1, ListFacts
  <2> QED
    BY <2>1, <2>2
<1>6. Values(heap, t) = v
  <2>1. DOMAIN numbers[from] = 1 .. m
    BY <1>2, <1>5 DEF Values
  <2> QED
    BY <1>3, <2>1
<1> HIDE DEF v, s
<1>7. ListShare(to) = {}
  <2> DEFINE z == Nodes(heap, head[to])
  <2>1. IsList(heap, NULL, z) /\ ListShare(to) = ListIds(heap, z)
    BY <1>3, <1>4, TheList
  <2> HIDE DEF z
  <2>2. Len(z) = 0 /\ DOMAIN z = 1 .. Len(z)
    BY <1>2, <2>1, ListFacts
  <2>3. DOMAIN z = {}
    BY <2>2
  <2> QED
    BY <2>1, <2>3 DEF ListIds
<1>8. /\ Tables' /\ head'[to] = call.list /\ numbers'[to] = v
      /\ \A l \in Heads : l # to => head'[l] = head[l] /\ numbers'[l] = numbers[l]
  <2>1. Tables
    BY DEF Ownership
  <2> QED
    BY <1>1, <1>4, <2>1 DEF Tables
<1>9. ListFits(to)' /\ ListShare(to)' = ListIds(heap, t)
  BY <1>1, <1>2, <1>6, <1>8 DEF ListFits, ListShare
<1> HIDE DEF t
<1> DEFINE x == ListO(to)
<1>10. x \in Owners /\ x # CALL
  BY OwnersAre
<1>11. /\ Share(CALL) = CallShare /\ Share(CALL)' = {}
       /\ Share(x) = {} /\ Share(x)' = CallShare
  BY <1>1, <1>2, <1>7, <1>9, SharesAre, SharesAreNext, IdleCall
<1>12. Fits(CALL)' /\ Fits(x)'
  BY <1>1, <1>9, FitsAreNext, IdleCall
<1>13. \A o \in Owners : o # x => KeepsOwner(o)
  BY <1>8 DEF KeepsOwner
<1> HIDE DEF x
<1>14. DOMAIN heap' = (DOMAIN heap \ (Share(CALL) \cup Share(x)))
                        \cup Share(CALL)' \cup Share(x)'
  BY <1>1, <1>11, CallApart
<1>15. /\ \A y \in DOMAIN heap \ (Share(CALL) \cup Share(x)) :
            y \in DOMAIN heap' /\ heap'[y] = heap[y]
       /\ \A y \in Share(CALL)' \cup Share(x)' :
            y \notin DOMAIN heap \ (Share(CALL) \cup Share(x))
       /\ Share(CALL)' \cap Share(x)' = {}
  BY <1>1, <1>11
<1>16. GoodHeap(heap')
  BY <1>1, <1>2
<1> QED
  BY <1>8, <1>10, <1>12, <1>13, <1>14, <1>15, <1>16, StepKeeps

------------------------------------------------------------------------------
(* The steps of ft_split.                                                  *)

LEMMA SetObject ==
  ASSUME NEW h, GoodHeap(h), NEW a \in DOMAIN h, NEW v
  PROVE  LET k == [h EXCEPT ![a] = v] IN
         /\ GoodHeap(k) /\ DOMAIN k = DOMAIN h /\ k[a] = v
         /\ \A x \in DOMAIN h : x # a => k[x] = h[x]
<1> DEFINE k == [h EXCEPT ![a] = v]
<1>1. /\ DOMAIN k = DOMAIN h /\ k[a] = v
      /\ \A x \in DOMAIN h : x # a => k[x] = h[x]
      /\ k = [x \in DOMAIN k |-> k[x]]
  OBVIOUS
<1> HIDE DEF k
<1>2. GoodHeap(k)
  BY <1>1 DEF GoodHeap
<1> QED
  BY <1>1, <1>2 DEF k

(* The array that ft_split has made ends with a NULL.                      *)
WithNull(h, a, n) == [h EXCEPT ![a] = Store(@, n, NULL)]

LEMMA EndedGives ==
  ASSUME NEW h, GoodHeap(h), NEW a, NEW n, IsArray(h, a, n)
  PROVE  LET k == WithNull(h, a, n) IN
         /\ GoodHeap(k) /\ DOMAIN k = DOMAIN h
         /\ \A x \in DOMAIN h : x # a => k[x] = h[x]
         /\ IsArray(k, a, n) /\ n \in DOMAIN k[a]
         /\ ArrayIds(k, a, n) = ArrayIds(h, a, n)
         /\ WordsIn(k, a, n) = WordsIn(h, a, n)
         /\ k[a][n] = NULL /\ \A i \in 0 .. n - 1 : k[a][i] = h[a][i]
<1> DEFINE w == Store(h[a], n, NULL)
           k == [h EXCEPT ![a] = w]
<1>1. /\ n \in Nat /\ a \in DOMAIN h
      /\ \A i \in 0 .. n - 1 : h[a][i] \in DOMAIN h /\ h[a][i] # a
  BY ArrayFacts
<1>2. /\ DOMAIN w = DOMAIN h[a] \cup {n} /\ w[n] = NULL
      /\ \A i \in DOMAIN h[a] : i # n => w[i] = h[a][i]
      /\ w = [i \in DOMAIN w |-> w[i]]
  BY DEF Store
<1> HIDE DEF w
<1>3. /\ GoodHeap(k) /\ DOMAIN k = DOMAIN h /\ k[a] = w
      /\ \A x \in DOMAIN h : x # a => k[x] = h[x]
  BY <1>1, SetObject
<1>4. \A i \in 0 .. n - 1 : i \in DOMAIN h[a] /\ i # n /\ w[i] = h[a][i]
  BY <1>1, <1>2 DEF IsArray
<1> HIDE DEF k
<1>5. IsArray(k, a, n)
  <2>1. \A i \in DOMAIN w : i >= n => w[i] = NULL
    BY <1>2 DEF IsArray
  <2>2. DOMAIN w \subseteq Nat /\ 0 .. n - 1 \subseteq DOMAIN w
    BY <1>1, <1>2 DEF IsArray
  <2>3. \A i, j \in 0 .. n - 1 : w[i] = w[j] => i = j
    BY <1>4 DEF IsArray
  <2> QED
    BY <1>1, <1>2, <1>3, <1>4, <2>1, <2>2, <2>3 DEF IsArray
<1>6. ArrayIds(k, a, n) = ArrayIds(h, a, n)
  BY <1>3, <1>4 DEF ArrayIds
<1>7. WordsIn(k, a, n) = WordsIn(h, a, n)
  <2>1. \A i \in 1 .. n : k[k[a][i - 1]] = h[h[a][i - 1]]
    <3> TAKE i \in 1 .. n
    <3>1. i - 1 \in 0 .. n - 1
      BY <1>1
    <3> QED
      BY <1>1, <1>3, <1>4, <3>1
  <2> QED
    BY <2>1 DEF WordsIn
<1>8. k = WithNull(h, a, n)
  BY <1>1 DEF k, w, WithNull
<1>9. n \in DOMAIN k[a] /\ k[a][n] = NULL /\ \A i \in 0 .. n - 1 : k[a][i] = h[a][i]
  BY <1>2, <1>3, <1>4
<1> QED
  BY <1>3, <1>5, <1>6, <1>7, <1>8, <1>9

(* free_split frees the strings and the array.                             *)
LEMMA SplitFreeGives ==
  ASSUME NEW h, GoodHeap(h), NEW a, NEW n, IsArray(h, a, n)
  PROVE  free_split(WithNull(h, a, n), a, n) = Without(h, ArrayIds(h, a, n))
<1> DEFINE k == WithNull(h, a, n)
           s == [i \in 1 .. n + 1 |-> k[a][n + 1 - i]]
           P == {s[i] : i \in 1 .. n + 1}
<1>1. /\ n \in Nat /\ a \in DOMAIN h /\ a # NULL
      /\ \A i \in 0 .. n - 1 : h[a][i] \in DOMAIN h /\ h[a][i] # a
  BY ArrayFacts
<1>2. /\ GoodHeap(k) /\ DOMAIN k = DOMAIN h
      /\ \A x \in DOMAIN h : x # a => k[x] = h[x]
      /\ k[a][n] = NULL /\ \A i \in 0 .. n - 1 : k[a][i] = h[a][i]
  BY EndedGives
<1> HIDE DEF k
<1>3. free_split(k, a, n) = free(FreeEach(k, s), a)
  BY DEF free_split
<1>4. /\ DOMAIN s = 1 .. n + 1 /\ n + 1 \in Nat
      /\ \A i \in 1 .. n + 1 : s[i] = k[a][n + 1 - i]
  BY <1>1
<1> HIDE DEF s
<1>5. /\ s[1] = NULL
      /\ \A i \in 2 .. n + 1 : n + 1 - i \in 0 .. n - 1 /\ s[i] = h[a][n + 1 - i]
  <2>1. 1 \in 1 .. n + 1 /\ n + 1 - 1 = n
    BY <1>1
  <2>2. s[1] = NULL
    BY <1>2, <1>4, <2>1
  <2>3. \A i \in 2 .. n + 1 : n + 1 - i \in 0 .. n - 1 /\ i \in 1 .. n + 1
    BY <1>1
  <2> QED
    BY <1>2, <1>4, <2>2, <2>3
<1>6. \A i \in 1 .. n + 1 : i = 1 \/ i \in 2 .. n + 1
  BY <1>1
<1>7. \A i \in 1 .. n + 1 : s[i] = NULL \/ s[i] \in DOMAIN k
  BY <1>1, <1>2, <1>5, <1>6
<1>8. \A i, j \in 1 .. n + 1 : i # j /\ s[i] = s[j] => s[i] = NULL
  <2> SUFFICES ASSUME NEW i \in 2 .. n + 1, NEW j \in 2 .. n + 1, s[i] = s[j]
               PROVE  i = j
    BY <1>5, <1>6
  <2>1. n + 1 - i = n + 1 - j
    BY <1>5 DEF IsArray
  <2> QED
    BY <1>1, <2>1
<1>9. FreeEach(k, s) = Without(k, P)
  BY <1>2, <1>4, <1>7, <1>8, FreeEachGives
<1>10. \A x : x \in P <=> x = NULL \/ \E i \in 0 .. n - 1 : x = h[a][i]
  <2>1. \A i \in 0 .. n - 1 : n + 1 - i \in 2 .. n + 1 /\ n + 1 - (n + 1 - i) = i
    BY <1>1
  <2>2. 1 \in 1 .. n + 1 /\ \A i \in 2 .. n + 1 : i \in 1 .. n + 1
    BY <1>1
  <2> QED
    BY <1>5, <1>6, <2>1, <2>2
<1> HIDE DEF P
<1>11. a \notin P
  BY <1>1, <1>10
<1>12. GoodHeap(Without(k, P)) /\ a \in DOMAIN Without(k, P)
  <2>1. GoodHeap(Without(k, P)) /\ DOMAIN Without(k, P) = DOMAIN k \ P
    BY <1>2, WithoutGood
  <2> QED
    BY <1>1, <1>2, <1>11, <2>1
<1>13. free(Without(k, P), a) = Without(Without(k, P), {a})
  BY <1>12, FreeGives
<1>14. Without(Without(k, P), {a}) = Without(k, P \cup {a})
  BY WithoutMore
<1>15. Without(k, P \cup {a}) = Without(h, ArrayIds(h, a, n))
  <2>1. NULL \notin DOMAIN h
    BY DEF GoodHeap
  <2>2. \A x \in DOMAIN h : x \in P \cup {a} <=> x \in ArrayIds(h, a, n)
    BY <1>10, <2>1 DEF ArrayIds
  <2>3. DOMAIN k \ (P \cup {a}) = DOMAIN h \ ArrayIds(h, a, n)
    BY <1>2, <2>2
  <2>4. \A x \in DOMAIN h \ ArrayIds(h, a, n) : k[x] = h[x]
    BY <1>2 DEF ArrayIds
  <2> QED
    BY <2>3, <2>4 DEF Without
<1> QED
  BY <1>3, <1>9, <1>13, <1>14, <1>15 DEF k

LEMMA CallSplitKeeps ==
  ASSUME Ownership, NEW s \in Texts, NEW c \in Separators, CallSplit(s, c),
         UNCHANGED <<head, numbers>>
  PROVE  Ownership'
<1>1. call = Idle /\ UNCHANGED <<head, numbers, arrays, strings>>
  BY DEF CallSplit, Room
<1>2. PICK r \in malloc(heap, <<>>) :
        /\ heap' = r.heap
        /\ call' = IF r.ptr = NULL
                   THEN Idle
                   ELSE [op |-> "split", s |-> s, c |-> c, array |-> r.ptr,
                         n |-> 0, nb |-> 0, left |-> count_split(s, c)]
  BY DEF CallSplit
<1>3. GoodHeap(heap) /\ CallShare = {}
  BY <1>1, IdleCall DEF Ownership
<1>4. CASE r.ptr = NULL
  <2>1. heap' = heap /\ call' = Idle
    BY <1>2, <1>3, <1>4, MallocGives
  <2>2. CallShare' = {} /\ CallFits'
    BY <2>1, IdleCall
  <2>3. CallStep
    BY <1>1, <1>3, <2>1 DEF CallStep
  <2> QED
    BY <1>3, <2>1, <2>2, <2>3, CallStepKeeps
<1>5. CASE r.ptr # NULL
  <2> DEFINE a == r.ptr
             g == r.heap
  <2>1. /\ a \in Nat /\ a \notin DOMAIN heap
        /\ GoodHeap(g) /\ DOMAIN g = DOMAIN heap \cup {a}
        /\ g[a] = <<>> /\ \A x \in DOMAIN heap : g[x] = heap[x]
    BY <1>3, <1>5, MallocGives
  <2>2. /\ heap' = g
        /\ call' = [op |-> "split", s |-> s, c |-> c, array |-> a,
                    n |-> 0, nb |-> 0, left |-> count_split(s, c)]
    BY <1>2, <1>5
  <2> HIDE DEF a, g
  <2>3. 0 .. 0 - 1 = {} /\ DOMAIN <<>> = {} /\ <<>> = [k \in DOMAIN <<>> |-> <<>>[k]]
    OBVIOUS
  <2>4. IsArray(g, a, 0) /\ DOMAIN g[a] = 0 .. 0 - 1 /\ ArrayIds(g, a, 0) = {a}
    BY <2>1, <2>3 DEF IsArray, ArrayIds
  <2>5. /\ call'.op = "split" /\ call'.array = a /\ call'.nb = 0
        /\ call'.s = s /\ call'.c = c /\ call'.n = 0 /\ call'.left = count_split(s, c)
    BY <2>2
  <2>6. SplitFits' /\ CallShare' = {a}
    <3>1. Scanned(s, c, 0, 0, count_split(s, c))
      BY TextIs, ScanBegins
    <3>2. 1 .. 0 = {} /\ WordsIn(g, a, 0) = [k \in 1 .. 0 |-> Words(s, c)[k]]
      BY DEF WordsIn
    <3> QED
      BY <2>2, <2>4, <2>5, <3>1, <3>2 DEF SplitFits, CallShare
  <2>7. CallStep
    BY <1>1, <2>1, <2>2 DEF CallStep
  <2>8. DOMAIN heap' = (DOMAIN heap \ CallShare) \cup CallShare'
    BY <1>3, <2>1, <2>2, <2>6
  <2>9. \A y \in CallShare' : y \notin DOMAIN heap \ CallShare
    BY <2>1, <2>6
  <2> QED
    BY <2>6, <2>7, <2>8, <2>9, CallStepKeeps DEF CallFits
<1> QED
  BY <1>4, <1>5

(* Where ft_split is.                                                      *)
LEMMA TheSplit ==
  ASSUME Ownership, call.op = "split"
  PROVE  /\ SplitFits /\ GoodHeap(heap)
         /\ CallShare = ArrayIds(heap, call.array, call.nb)
         /\ CallShare \subseteq DOMAIN heap
         /\ IsArray(heap, call.array, call.nb)
         /\ call.array \in DOMAIN heap /\ call.array \in Nat /\ call.nb \in Nat
         /\ call.array \in CallShare
<1>1. Fits(CALL) /\ GoodHeap(heap)
  BY OwnersAre DEF Ownership
<1>2. SplitFits
  BY <1>1, FitsAre DEF CallFits, MapFits, DupFits, Idle
<1>3. CallShare = ArrayIds(heap, call.array, call.nb)
  BY DEF CallShare
<1>4. IsArray(heap, call.array, call.nb)
  BY <1>2 DEF SplitFits
<1>5. call.array \in DOMAIN heap /\ call.nb \in Nat
  BY <1>4 DEF IsArray
<1> QED
  BY <1>1, <1>2, <1>3, <1>4, <1>5, CallApart DEF GoodHeap, ArrayIds

LEMMA SplitWordKeeps ==
  ASSUME Ownership, SplitWord, UNCHANGED <<head, numbers>>
  PROVE  Ownership'
<1> DEFINE a == call.array
           i == call.nb
           from == call.n + Passed(call.s, call.n, call.c)
           end == from + word_len(call.s, from, call.c)
           word == SubSeq(call.s, from + 1, end)
<1>1. call.op = "split" /\ UNCHANGED <<head, numbers, arrays, strings>>
  BY DEF SplitWord
<1>2. PICK r \in malloc(heap, word) :
        LET set == [r.heap EXCEPT ![a] = Store(@, i, r.ptr)]
        IN IF r.ptr = NULL
           THEN /\ heap' = free_split(set, a, i)
                /\ call' = Idle
           ELSE /\ heap' = set
                /\ call' = [call EXCEPT !.n = end, !.nb = @ + 1, !.left = @ - 1]
  BY DEF SplitWord
<1>3. /\ GoodHeap(heap) /\ CallShare = ArrayIds(heap, a, i)
      /\ CallShare \subseteq DOMAIN heap
      /\ IsArray(heap, a, i) /\ a \in DOMAIN heap /\ i \in Nat /\ a \in CallShare
      /\ DOMAIN heap[a] = 0 .. i - 1
      /\ call = [op |-> "split", s |-> call.s, c |-> call.c, array |-> a,
                 n |-> call.n, nb |-> i, left |-> call.left]
      /\ call.s \in Texts /\ Scanned(call.s, call.c, call.n, i, call.left)
      /\ WordsIn(heap, a, i) = [k \in 1 .. i |-> Words(call.s, call.c)[k]]
      /\ \A k \in 1 .. i : Words(call.s, call.c)[k] \in Seq(Characters)
  BY <1>1, TheSplit DEF SplitFits
<1>6. /\ Scanned(call.s, call.c, end, i + 1, call.left - 1)
      /\ Words(call.s, call.c)[i + 1] = word /\ word \in Seq(Characters)
  <2>1. call.left > 0 /\ call.s \in Seq(Characters)
    BY <1>3, TextIs DEF SplitWord
  <2> HIDE DEF i
  <2> QED
    BY <1>3, <2>1, ScanWord
<1> HIDE DEF word, end, a, i
<1>4. CASE r.ptr = NULL
  <2>1. r.heap = heap
    BY <1>3, <1>4, MallocGives
  <2>2. heap' = free_split(WithNull(heap, a, i), a, i) /\ call' = Idle
    BY <1>2, <1>4, <2>1 DEF WithNull
  <2>3. heap' = Without(heap, CallShare)
    BY <1>3, <2>2, SplitFreeGives
  <2>4. /\ GoodHeap(heap') /\ DOMAIN heap' = DOMAIN heap \ CallShare
        /\ \A x \in DOMAIN heap \ CallShare : heap'[x] = heap[x]
    <3> DEFINE h == heap
               P == CallShare
    <3>1. GoodHeap(h)
      BY <1>3
    <3> HIDE DEF h, P
    <3>2. /\ GoodHeap(Without(h, P)) /\ DOMAIN Without(h, P) = DOMAIN h \ P
          /\ \A x \in DOMAIN h \ P : Without(h, P)[x] = h[x]
      BY <3>1, WithoutGood
    <3> QED
      BY <2>3, <3>2 DEF h, P
  <2>5. CallStep
    BY <1>1, <2>4 DEF CallStep
  <2>6. CallShare' = {} /\ CallFits'
    BY <2>2, IdleCall
  <2> QED
    BY <2>4, <2>5, <2>6, CallStepKeeps
<1>5. CASE r.ptr # NULL
  <2> DEFINE p == r.ptr
             g == r.heap
             k == [g EXCEPT ![a] = Store(g[a], i, p)]
  <2>1. /\ p \in Nat /\ p \notin DOMAIN heap
        /\ GoodHeap(g) /\ DOMAIN g = DOMAIN heap \cup {p} /\ g[p] = word
        /\ \A x \in DOMAIN heap : g[x] = heap[x]
    BY <1>3, <1>5, MallocGives
  <2>2. /\ heap' = k
        /\ call' = [call EXCEPT !.n = end, !.nb = @ + 1, !.left = @ - 1]
    BY <1>2, <1>3, <1>5, <2>1
  <2> HIDE DEF p, g
  <2>3. SameIn(heap, g, ArrayIds(heap, a, i))
    BY <1>3, <2>1 DEF SameIn
  <2>4. /\ IsArray(g, a, i) /\ g[a] = heap[a]
        /\ ArrayIds(g, a, i) = ArrayIds(heap, a, i)
        /\ WordsIn(g, a, i) = WordsIn(heap, a, i)
    BY <1>3, <2>3, ArrayFrame
  <2>5. a \in DOMAIN g /\ p \in DOMAIN g \ ArrayIds(g, a, i)
    BY <1>3, <2>1, <2>4
  <2>6. /\ GoodHeap(k) /\ DOMAIN k = DOMAIN g /\ k[a] = Store(g[a], i, p)
        /\ \A x \in DOMAIN g : x # a => k[x] = g[x]
    BY <2>1, <2>5, SetObject
  <2> HIDE DEF k
  <2>7. /\ IsArray(k, a, i + 1)
        /\ ArrayIds(k, a, i + 1) = ArrayIds(g, a, i) \cup {p}
        /\ WordsIn(k, a, i + 1) = Append(WordsIn(g, a, i), g[p])
    BY <2>1, <2>4, <2>5, <2>6, AddEntryGives
  <2>8. DOMAIN k[a] = 0 .. (i + 1) - 1
    <3>1. DOMAIN k[a] = DOMAIN g[a] \cup {i}
      BY <2>6 DEF Store
    <3> QED
      BY <1>3, <2>4, <3>1
  <2>9. call' = [op |-> "split", s |-> call.s, c |-> call.c, array |-> a,
                 n |-> end, nb |-> i + 1, left |-> call.left - 1]
    <3> DEFINE c1 == [call EXCEPT !.n = end]
               c2 == [c1 EXCEPT !.nb = call.nb + 1]
               c3 == [c2 EXCEPT !.left = call.left - 1]
    <3>1. c1 = [op |-> "split", s |-> call.s, c |-> call.c, array |-> a,
                n |-> end, nb |-> i, left |-> call.left]
      BY <1>3
    <3>2. call' = c3
      BY <2>2
    <3> HIDE DEF c1, c3
    <3>3. c2 = [op |-> "split", s |-> call.s, c |-> call.c, array |-> a,
                n |-> end, nb |-> i + 1, left |-> call.left]
      BY <3>1 DEF i
    <3> HIDE DEF c2
    <3>4. c3 = [op |-> "split", s |-> call.s, c |-> call.c, array |-> a,
                n |-> end, nb |-> i + 1, left |-> call.left - 1]
      BY <3>3 DEF c3
    <3> QED
      BY <3>2, <3>4
  <2>10. /\ call'.op = "split" /\ call'.array = a /\ call'.nb = i + 1
         /\ call'.s = call.s /\ call'.c = call.c /\ call'.n = end
         /\ call'.left = call.left - 1
    BY <2>9
  <2>11. SplitFits'
    <3> DEFINE all == Words(call.s, call.c)
    <3> HIDE DEF all
    <3>1. WordsIn(k, a, i + 1) = [j \in 1 .. i + 1 |-> all[j]]
      <4>1. WordsIn(k, a, i + 1) = Append(WordsIn(heap, a, i), all[i + 1])
        BY <1>6, <2>1, <2>4, <2>7 DEF all
      <4> DEFINE w == WordsIn(heap, a, i)
      <4>2. w = [j \in 1 .. i |-> all[j]] /\ i \in Nat
        BY <1>3 DEF all
      <4> HIDE DEF w
      <4>3. Append(w, all[i + 1]) = [j \in 1 .. i + 1 |-> all[j]]
        BY <4>2, OneMore
      <4> QED
        BY <4>1, <4>3 DEF w
    <3>2. \A j \in 1 .. i + 1 : all[j] \in Seq(Characters)
      <4>1. \A j \in 1 .. i + 1 : j = i + 1 \/ j \in 1 .. i
        BY <1>3
      <4> QED
        BY <1>3, <1>6, <4>1 DEF all
    <3> QED
      BY <1>3, <1>6, <2>2, <2>7, <2>8, <2>9, <2>10, <3>1, <3>2 DEF SplitFits, all
  <2>12. CallShare' = CallShare \cup {p}
    BY <1>3, <2>2, <2>4, <2>7, <2>10 DEF CallShare
  <2>13. CallStep
    <3>1. /\ GoodHeap(heap')
          /\ \A x \in DOMAIN heap \ CallShare : x \in DOMAIN heap' /\ heap'[x] = heap[x]
      BY <1>3, <2>1, <2>2, <2>6
    <3> QED
      BY <1>1, <3>1 DEF CallStep
  <2>14. DOMAIN heap' = (DOMAIN heap \ CallShare) \cup CallShare'
    BY <1>3, <2>1, <2>2, <2>6, <2>12
  <2>15. \A y \in CallShare' : y \notin DOMAIN heap \ CallShare
    BY <2>1, <2>12
  <2> QED
    BY <2>11, <2>13, <2>14, <2>15, CallStepKeeps DEF CallFits
<1> QED
  BY <1>4, <1>5

(* A call that ends gives the caller an array of its own.                  *)
LEMMA HandOverKeeps ==
  ASSUME Ownership, UNCHANGED <<head, numbers, strings>>,
         NEW a \in Nat, NEW w, arrays' = Store(arrays, a, w), call' = Idle,
         CallShare = ArrayIds(heap, a, array_len(heap', a)),
         GoodHeap(heap'), DOMAIN heap' = DOMAIN heap,
         \A y \in DOMAIN heap \ CallShare : heap'[y] = heap[y],
         Ended(heap', a), Elements(heap', a) = w, w \in Seq(Seq(Characters)),
         ArrayIds(heap', a, array_len(heap', a)) = CallShare
  PROVE  Ownership'
<1> DEFINE x == ArrayO(a)
<1>1. x \in Owners /\ x # CALL
  BY OwnersAre
<1>2. Tables
  BY DEF Ownership
<1>3. /\ a \in CallShare /\ CallShare \subseteq DOMAIN heap
      /\ a \notin DOMAIN arrays
  <2>1. a \in CallShare
    BY DEF ArrayIds
  <2>2. \A b \in DOMAIN arrays : b \in ArrayShare(b) /\ ArrayShare(b) \cap CallShare = {}
    BY CallApart DEF ArrayShare, ArrayIds
  <2> QED
    BY <2>1, <2>2, CallApart
<1>4. /\ DOMAIN arrays' = DOMAIN arrays \cup {a} /\ arrays'[a] = w
      /\ \A b \in DOMAIN arrays : arrays'[b] = arrays[b]
  BY <1>3 DEF Store
<1>5. /\ Share(CALL) = CallShare /\ Share(CALL)' = {}
      /\ Share(x) = {} /\ Share(x)' = CallShare
  <2>1. ArrayShare(a) = {} /\ ArrayShare(a)' = CallShare
    BY <1>3, <1>4 DEF ArrayShare
  <2> QED
    BY <2>1, SharesAre, SharesAreNext, IdleCall
<1>6. Fits(CALL)' /\ Fits(x)'
  <2>1. ArrayFits(a)'
    BY <1>4 DEF ArrayFits
  <2> QED
    BY <2>1, FitsAreNext, IdleCall
<1>7. Tables'
  BY <1>2, <1>4 DEF Tables
<1>8. \A o \in Owners : o # x => KeepsOwner(o)
  BY <1>4 DEF KeepsOwner
<1> HIDE DEF x
<1>9. /\ DOMAIN heap' = (DOMAIN heap \ (Share(CALL) \cup Share(x)))
                          \cup Share(CALL)' \cup Share(x)'
      /\ \A y \in DOMAIN heap \ (Share(CALL) \cup Share(x)) :
            y \in DOMAIN heap' /\ heap'[y] = heap[y]
      /\ \A y \in Share(CALL)' \cup Share(x)' :
            y \notin DOMAIN heap \ (Share(CALL) \cup Share(x))
      /\ Share(CALL)' \cap Share(x)' = {}
  BY <1>3, <1>5
<1> QED
  BY <1>1, <1>6, <1>7, <1>8, <1>9, StepKeeps

LEMMA SplitDoneKeeps ==
  ASSUME Ownership, SplitDone, UNCHANGED <<head, numbers>>
  PROVE  Ownership'
<1>1. /\ call.op = "split" /\ call' = Idle
      /\ heap' = WithNull(heap, call.array, call.nb)
      /\ arrays' = Store(arrays, call.array, Words(call.s, call.c))
      /\ UNCHANGED <<head, numbers, strings>>
  BY DEF SplitDone, WithNull
<1>2. /\ GoodHeap(heap) /\ CallShare = ArrayIds(heap, call.array, call.nb)
      /\ CallShare \subseteq DOMAIN heap /\ IsArray(heap, call.array, call.nb)
      /\ call.array \in Nat /\ call.array \in CallShare /\ SplitFits
  BY <1>1, TheSplit
<1>3. PICK a \in Nat : a = call.array
  BY <1>2
<1>4. PICK n : n = call.nb
  OBVIOUS
<1> DEFINE k == WithNull(heap, a, n)
<1>5. IsArray(heap, a, n)
  BY <1>2, <1>3, <1>4
<1>6. /\ GoodHeap(k) /\ DOMAIN k = DOMAIN heap
      /\ \A x \in DOMAIN heap : x # a => k[x] = heap[x]
      /\ IsArray(k, a, n) /\ n \in DOMAIN k[a]
      /\ ArrayIds(k, a, n) = ArrayIds(heap, a, n)
      /\ WordsIn(k, a, n) = WordsIn(heap, a, n)
  BY <1>2, <1>5, EndedGives
<1>7. heap' = k
  BY <1>1, <1>3, <1>4
<1> HIDE DEF k
<1>8. array_len(k, a) = n /\ Elements(k, a) = WordsIn(heap, a, n)
  BY <1>6, ArrayLen
<1>9. Ended(heap', a) /\ array_len(heap', a) = n
  BY <1>6, <1>7, <1>8 DEF Ended
<1>10. PICK w : w = Words(call.s, call.c)
  OBVIOUS
<1>11. arrays' = Store(arrays, a, w)
  BY <1>1, <1>3, <1>10
<1>13. Elements(heap', a) = w /\ w \in Seq(Seq(Characters))
  <2>1. /\ call.s \in Texts /\ Scanned(call.s, call.c, call.n, n, call.left)
        /\ call.left = 0
        /\ WordsIn(heap, a, n) = [j \in 1 .. n |-> w[j]]
        /\ \A j \in 1 .. n : w[j] \in Seq(Characters)
    BY <1>2, <1>3, <1>4, <1>10 DEF SplitFits, SplitDone
  <2>2. n \in Nat /\ w = [j \in 1 .. n |-> w[j]]
    BY <1>10, <2>1, TextIs, ScannedNumbers
  <2> DEFINE X == Seq(Characters)
  <2> HIDE DEF X
  <2>3. w \in Seq(X)
    BY <2>1, <2>2 DEF X
  <2> QED
    BY <1>7, <1>8, <2>1, <2>2, <2>3 DEF X
<1>12. /\ CallShare = ArrayIds(heap, a, array_len(heap', a))
       /\ GoodHeap(heap') /\ DOMAIN heap' = DOMAIN heap
       /\ \A y \in DOMAIN heap \ CallShare : heap'[y] = heap[y]
       /\ ArrayIds(heap', a, array_len(heap', a)) = CallShare
  BY <1>2, <1>3, <1>4, <1>6, <1>7, <1>9
<1> QED
  BY <1>1, <1>9, <1>11, <1>12, <1>13, HandOverKeeps

------------------------------------------------------------------------------
(* The steps of array_dup.                                                 *)

(* An array of the caller's.                                               *)
LEMMA TheArray ==
  ASSUME Ownership, NEW a \in DOMAIN arrays
  PROVE  LET n == array_len(heap, a) IN
         /\ GoodHeap(heap) /\ a \in Nat /\ a \in DOMAIN heap /\ n \in Nat
         /\ IsArray(heap, a, n) /\ n \in DOMAIN heap[a]
         /\ ArrayShare(a) = ArrayIds(heap, a, n) /\ ArrayShare(a) \subseteq DOMAIN heap
         /\ WordsIn(heap, a, n) = arrays[a] /\ arrays[a] \in Seq(Seq(Characters))
<1>1. a \in Nat /\ GoodHeap(heap)
  BY DEF Ownership, Tables
<1>2. ArrayO(a) \in Owners
  BY <1>1, OwnersAre
<1>3. Fits(ArrayO(a))
  BY <1>2 DEF Ownership
<1>4. /\ Ended(heap, a) /\ Elements(heap, a) = arrays[a]
      /\ arrays[a] \in Seq(Seq(Characters))
  BY <1>3, FitsAre DEF ArrayFits
<1>5. ArrayShare(a) = ArrayIds(heap, a, array_len(heap, a))
  BY DEF ArrayShare
<1>6. ArrayShare(a) \subseteq DOMAIN heap
  BY CallApart
<1>7. Elements(heap, a) = WordsIn(heap, a, array_len(heap, a))
  BY DEF Elements, WordsIn
<1> QED
  BY <1>1, <1>4, <1>5, <1>6, <1>7 DEF Ended, IsArray

LEMMA CallDupKeeps ==
  ASSUME Ownership, NEW b \in DOMAIN arrays, CallDup(b), UNCHANGED <<head, numbers>>
  PROVE  Ownership'
<1> DEFINE n == array_len(heap, b)
           v == [k \in 0 .. n |-> NULL]
<1>1. call = Idle /\ UNCHANGED <<head, numbers, arrays, strings>>
  BY DEF CallDup, Room
<1>2. PICK r \in malloc(heap, v) :
        /\ heap' = r.heap
        /\ call' = IF r.ptr = NULL
                   THEN Idle
                   ELSE [op |-> "dup", from |-> b, array |-> r.ptr, i |-> 0]
  BY DEF CallDup
<1>3. GoodHeap(heap) /\ CallShare = {} /\ n \in Nat
  BY <1>1, IdleCall, TheArray
<1> HIDE DEF n
<1>4. CASE r.ptr = NULL
  <2>1. heap' = heap /\ call' = Idle
    BY <1>2, <1>3, <1>4, MallocGives
  <2>2. CallShare' = {} /\ CallFits'
    BY <2>1, IdleCall
  <2>3. CallStep
    BY <1>1, <1>3, <2>1 DEF CallStep
  <2> QED
    BY <1>3, <2>1, <2>2, <2>3, CallStepKeeps
<1>5. CASE r.ptr # NULL
  <2> DEFINE a == r.ptr
             g == r.heap
  <2>1. /\ a \in Nat /\ a \notin DOMAIN heap
        /\ GoodHeap(g) /\ DOMAIN g = DOMAIN heap \cup {a}
        /\ g[a] = v /\ \A x \in DOMAIN heap : g[x] = heap[x]
    <3> HIDE DEF v
    <3> QED
      BY <1>3, <1>5, MallocGives
  <2>2. /\ heap' = g
        /\ call' = [op |-> "dup", from |-> b, array |-> a, i |-> 0]
    BY <1>2, <1>5
  <2> HIDE DEF a, g
  <2>3. /\ 0 .. 0 - 1 = {} /\ DOMAIN v = 0 .. n /\ DOMAIN v \subseteq Nat
        /\ \A k \in DOMAIN v : v[k] = NULL
        /\ v = [k \in DOMAIN v |-> v[k]]
    BY <1>3
  <2> HIDE DEF v
  <2>4. IsArray(g, a, 0) /\ DOMAIN g[a] = 0 .. n /\ ArrayIds(g, a, 0) = {a}
    BY <2>1, <2>3 DEF IsArray, ArrayIds
  <2>5. call'.op = "dup" /\ call'.array = a /\ call'.from = b /\ call'.i = 0
    BY <2>2
  <2>6. CallStep
    BY <1>1, <2>1, <2>2 DEF CallStep
  <2>7. array_len(heap', b) = n
    BY <2>6, CallStepStands DEF n
  <2>8. DupFits'
    <3>1. 1 .. 0 = {} /\ WordsIn(g, a, 0) = [k \in 1 .. 0 |-> arrays[b][k]]
      BY DEF WordsIn
    <3>2. WordsIn(heap', call'.array, call'.i)
            = [k \in 1 .. call'.i |-> arrays'[call'.from][k]]
      BY <1>1, <2>2, <2>5, <3>1
    <3> QED
      BY <1>1, <1>3, <2>2, <2>4, <2>5, <2>7, <3>2 DEF DupFits
  <2>9. CallShare' = {a}
    BY <2>2, <2>4, <2>5 DEF CallShare
  <2>10. DOMAIN heap' = (DOMAIN heap \ CallShare) \cup CallShare'
    BY <1>3, <2>1, <2>2, <2>9
  <2>11. \A y \in CallShare' : y \notin DOMAIN heap \ CallShare
    BY <2>1, <2>9
  <2> QED
    BY <2>6, <2>8, <2>10, <2>11, CallStepKeeps DEF CallFits
<1> QED
  BY <1>4, <1>5

(* Where array_dup is.                                                     *)
LEMMA TheDup ==
  ASSUME Ownership, call.op = "dup"
  PROVE  /\ DupFits /\ GoodHeap(heap)
         /\ CallShare = ArrayIds(heap, call.array, call.i)
         /\ CallShare \subseteq DOMAIN heap
         /\ IsArray(heap, call.array, call.i)
         /\ call.array \in DOMAIN heap /\ call.array \in Nat /\ call.i \in Nat
         /\ call.array \in CallShare
         /\ call.from \in DOMAIN arrays /\ array_len(heap, call.from) \in Nat
         /\ call.i \in DOMAIN heap[call.array]
<1>1. Fits(CALL) /\ GoodHeap(heap)
  BY OwnersAre DEF Ownership
<1>2. DupFits
  BY <1>1, FitsAre DEF CallFits, MapFits, SplitFits, Idle
<1>3. CallShare = ArrayIds(heap, call.array, call.i)
  BY DEF CallShare
<1>4. IsArray(heap, call.array, call.i) /\ call.from \in DOMAIN arrays
  BY <1>2 DEF DupFits
<1>5. call.array \in DOMAIN heap /\ call.i \in Nat
  BY <1>4 DEF IsArray
<1>6. array_len(heap, call.from) \in Nat
  BY <1>4, TheArray
<1>7. call.i \in DOMAIN heap[call.array]
  BY <1>2, <1>5, <1>6 DEF DupFits
<1>8. call.array \in CallShare /\ CallShare \subseteq DOMAIN heap
  BY <1>3, CallApart DEF ArrayIds
<1> QED
  BY <1>1, <1>2, <1>3, <1>4, <1>5, <1>6, <1>7, <1>8 DEF GoodHeap

LEMMA DupStringKeeps ==
  ASSUME Ownership, DupString, UNCHANGED <<head, numbers>>
  PROVE  Ownership'
<1> DEFINE a == call.array
           i == call.i
           b == call.from
           text == heap[heap[call.from][call.i]]
<1>1. /\ call.op = "dup" /\ i < array_len(heap, b)
      /\ UNCHANGED <<head, numbers, arrays, strings>>
  BY DEF DupString
<1>2. PICK r \in malloc(heap, text) :
        IF r.ptr = NULL
        THEN /\ heap' = array_free(heap, a)
             /\ call' = Idle
        ELSE /\ heap' = [r.heap EXCEPT ![a][i] = r.ptr]
             /\ call' = [call EXCEPT !.i = @ + 1]
  BY DEF DupString
<1>3. /\ GoodHeap(heap) /\ CallShare = ArrayIds(heap, a, i)
      /\ CallShare \subseteq DOMAIN heap
      /\ IsArray(heap, a, i) /\ a \in DOMAIN heap /\ i \in Nat /\ a \in CallShare
      /\ b \in DOMAIN arrays /\ array_len(heap, b) \in Nat /\ i \in DOMAIN heap[a]
      /\ DOMAIN heap[a] = 0 .. array_len(heap, b)
      /\ call = [op |-> "dup", from |-> b, array |-> a, i |-> i]
      /\ WordsIn(heap, a, i) = [k \in 1 .. i |-> arrays[b][k]]
  BY <1>1, TheDup DEF DupFits
<1>6. text = arrays[b][i + 1]
  <2> DEFINE n == array_len(heap, b)
  <2> HIDE DEF i, b
  <2>1. i + 1 \in 1 .. n /\ (i + 1) - 1 = i
    BY <1>1, <1>3
  <2>2. arrays[b] = WordsIn(heap, b, n)
    BY <1>3, TheArray
  <2> HIDE DEF n
  <2>3. arrays[b][i + 1] = heap[heap[b][(i + 1) - 1]]
    BY <2>1, <2>2 DEF WordsIn
  <2> QED
    BY <2>1, <2>3 DEF i, b
<1> HIDE DEF text, a, i, b
<1>4. CASE r.ptr = NULL
  <2>1. heap' = Without(heap, CallShare) /\ call' = Idle
    BY <1>2, <1>3, <1>4, ArrayFreeGives
  <2>2. /\ GoodHeap(heap') /\ DOMAIN heap' = DOMAIN heap \ CallShare
        /\ \A x \in DOMAIN heap \ CallShare : heap'[x] = heap[x]
    <3> DEFINE h == heap
               P == CallShare
    <3>1. GoodHeap(h)
      BY <1>3
    <3> HIDE DEF h, P
    <3>2. /\ GoodHeap(Without(h, P)) /\ DOMAIN Without(h, P) = DOMAIN h \ P
          /\ \A x \in DOMAIN h \ P : Without(h, P)[x] = h[x]
      BY <3>1, WithoutGood
    <3> QED
      BY <2>1, <3>2 DEF h, P
  <2>3. CallStep
    BY <1>1, <2>2 DEF CallStep
  <2>4. CallShare' = {} /\ CallFits'
    BY <2>1, IdleCall
  <2> QED
    BY <2>2, <2>3, <2>4, CallStepKeeps
<1>5. CASE r.ptr # NULL
  <2> DEFINE p == r.ptr
             g == r.heap
             k == [g EXCEPT ![a] = Store(g[a], i, p)]
  <2>1. /\ p \in Nat /\ p \notin DOMAIN heap
        /\ GoodHeap(g) /\ DOMAIN g = DOMAIN heap \cup {p} /\ g[p] = text
        /\ \A x \in DOMAIN heap : g[x] = heap[x]
    BY <1>3, <1>5, MallocGives
  <2>2. heap' = [g EXCEPT ![a][i] = p] /\ call' = [call EXCEPT !.i = @ + 1]
    BY <1>2, <1>5
  <2> HIDE DEF p, g
  <2>3. SameIn(heap, g, ArrayIds(heap, a, i))
    BY <1>3, <2>1 DEF SameIn
  <2>4. /\ IsArray(g, a, i) /\ g[a] = heap[a]
        /\ ArrayIds(g, a, i) = ArrayIds(heap, a, i)
        /\ WordsIn(g, a, i) = WordsIn(heap, a, i)
    BY <1>3, <2>3, ArrayFrame
  <2>5. a \in DOMAIN g /\ p \in DOMAIN g \ ArrayIds(g, a, i)
    BY <1>3, <2>1, <2>4
  <2>6. heap' = k
    <3>1. g[a] = [j \in DOMAIN g[a] |-> g[a][j]] /\ i \in DOMAIN g[a]
      BY <1>3, <2>4 DEF IsArray
    <3>2. DOMAIN g[a] \cup {i} = DOMAIN g[a]
      BY <3>1
    <3>3. [g[a] EXCEPT ![i] = p] = Store(g[a], i, p)
      BY <3>1, <3>2 DEF Store
    <3> QED
      BY <2>2, <3>3
  <2>7. /\ GoodHeap(k) /\ DOMAIN k = DOMAIN g /\ k[a] = Store(g[a], i, p)
        /\ \A x \in DOMAIN g : x # a => k[x] = g[x]
    BY <2>1, <2>5, SetObject
  <2> HIDE DEF k
  <2>8. /\ IsArray(k, a, i + 1)
        /\ ArrayIds(k, a, i + 1) = ArrayIds(g, a, i) \cup {p}
        /\ WordsIn(k, a, i + 1) = Append(WordsIn(g, a, i), g[p])
    BY <2>1, <2>4, <2>5, <2>7, AddEntryGives
  <2>9. DOMAIN k[a] = 0 .. array_len(heap, b)
    <3>1. DOMAIN k[a] = DOMAIN g[a] \cup {i}
      BY <2>7 DEF Store
    <3> QED
      BY <1>3, <2>4, <3>1
  <2>10. call' = [op |-> "dup", from |-> b, array |-> a, i |-> i + 1]
    BY <1>3, <2>2
  <2>11. call'.op = "dup" /\ call'.array = a /\ call'.from = b /\ call'.i = i + 1
    BY <2>10
  <2>12. CallStep
    <3>1. /\ GoodHeap(heap')
          /\ \A x \in DOMAIN heap \ CallShare : x \in DOMAIN heap' /\ heap'[x] = heap[x]
      BY <1>3, <2>1, <2>6, <2>7
    <3> QED
      BY <1>1, <3>1 DEF CallStep
  <2>13. array_len(heap', b) = array_len(heap, b)
    BY <1>3, <2>12, CallStepStands
  <2>14. DupFits'
    <3>1. i + 1 <= array_len(heap, b)
      BY <1>1, <1>3
    <3>2. WordsIn(k, a, i + 1) = [j \in 1 .. i + 1 |-> arrays[b][j]]
      <4> DEFINE all == arrays[b]
      <4> HIDE DEF all
      <4>1. WordsIn(k, a, i + 1) = Append(WordsIn(heap, a, i), all[i + 1])
        BY <1>6, <2>1, <2>4, <2>8 DEF all
      <4> DEFINE w == WordsIn(heap, a, i)
      <4>2. w = [j \in 1 .. i |-> all[j]] /\ i \in Nat
        BY <1>3 DEF all
      <4> HIDE DEF w
      <4>3. Append(w, all[i + 1]) = [j \in 1 .. i + 1 |-> all[j]]
        BY <4>2, OneMore
      <4> QED
        BY <4>1, <4>3 DEF all, w
    <3> QED
      BY <1>1, <1>3, <2>6, <2>8, <2>9, <2>10, <2>11, <2>13, <3>1, <3>2 DEF DupFits
  <2>15. CallShare' = CallShare \cup {p}
    BY <1>3, <2>4, <2>6, <2>8, <2>11 DEF CallShare
  <2>16. DOMAIN heap' = (DOMAIN heap \ CallShare) \cup CallShare'
    BY <1>3, <2>1, <2>6, <2>7, <2>15
  <2>17. \A y \in CallShare' : y \notin DOMAIN heap \ CallShare
    BY <2>1, <2>15
  <2> QED
    BY <2>12, <2>14, <2>16, <2>17, CallStepKeeps DEF CallFits
<1> QED
  BY <1>4, <1>5

LEMMA DupDoneKeeps ==
  ASSUME Ownership, DupDone, UNCHANGED <<head, numbers>>
  PROVE  Ownership'
<1>1. /\ call.op = "dup" /\ call.i = array_len(heap, call.from)
      /\ arrays' = Store(arrays, call.array, arrays[call.from])
      /\ call' = Idle /\ heap' = heap /\ UNCHANGED <<head, numbers, strings>>
  BY DEF DupDone
<1>2. /\ GoodHeap(heap) /\ CallShare = ArrayIds(heap, call.array, call.i)
      /\ IsArray(heap, call.array, call.i)
      /\ call.array \in Nat /\ call.i \in DOMAIN heap[call.array] /\ DupFits
  BY <1>1, TheDup
<1>3. PICK a \in Nat : a = call.array
  BY <1>2
<1>4. PICK n : n = call.i
  OBVIOUS
<1>5. /\ IsArray(heap, a, n) /\ n \in DOMAIN heap[a]
      /\ CallShare = ArrayIds(heap, a, n)
  BY <1>2, <1>3, <1>4
<1>6. array_len(heap, a) = n /\ Elements(heap, a) = WordsIn(heap, a, n)
  BY <1>2, <1>5, ArrayLen
<1>7. PICK w : w = arrays[call.from]
  OBVIOUS
<1>10. Elements(heap', a) = w /\ w \in Seq(Seq(Characters))
  <2>1. /\ call.from \in DOMAIN arrays
        /\ WordsIn(heap, a, n) = [k \in 1 .. n |-> w[k]]
    BY <1>2, <1>3, <1>4, <1>7 DEF DupFits
  <2>2. /\ w = WordsIn(heap, call.from, n)
        /\ w \in Seq(Seq(Characters))
    BY <1>1, <1>4, <1>7, <2>1, TheArray
  <2>3. w = [k \in 1 .. n |-> w[k]]
    BY <2>2 DEF WordsIn
  <2> QED
    BY <1>1, <1>6, <2>1, <2>2, <2>3
<1>8. arrays' = Store(arrays, a, w)
  BY <1>1, <1>3, <1>7
<1>9. /\ array_len(heap', a) = n /\ Ended(heap', a)
      /\ GoodHeap(heap') /\ DOMAIN heap' = DOMAIN heap
      /\ \A y \in DOMAIN heap \ CallShare : heap'[y] = heap[y]
      /\ CallShare = ArrayIds(heap, a, array_len(heap', a))
      /\ ArrayIds(heap', a, array_len(heap', a)) = CallShare
  BY <1>1, <1>2, <1>5, <1>6 DEF Ended
<1> QED
  BY <1>1, <1>8, <1>9, <1>10, HandOverKeeps

------------------------------------------------------------------------------
(* The other steps with arrays and strings.                                *)

(* Between calls, a step that touches one owner.                           *)
LEMMA IdleStepKeeps ==
  ASSUME Ownership, call = Idle, call' = call, NEW x \in Owners, x # CALL,
         GoodHeap(heap'), Tables',
         \A o \in Owners : o # x => KeepsOwner(o), Fits(x)',
         \A y \in DOMAIN heap \ Share(x) : y \in DOMAIN heap' /\ heap'[y] = heap[y],
         DOMAIN heap' = (DOMAIN heap \ Share(x)) \cup Share(x)',
         \A y \in Share(x)' : y \notin DOMAIN heap \ Share(x)
  PROVE  Ownership'
<1>1. Share(CALL) = {} /\ Share(CALL)' = {}
  BY SharesAre, SharesAreNext, IdleCall
<1>2. Fits(CALL)'
  BY FitsAreNext, IdleCall
<1>3. Share(CALL) \cup Share(x) = Share(x)
  BY <1>1
<1> QED
  BY <1>1, <1>2, <1>3, StepKeeps

(* The string is the words of the array, joined.                           *)
LEMMA ToStrGives ==
  ASSUME Ownership, NEW a \in DOMAIN arrays,
         NEW spliter \in Seq(Characters), Len(spliter) <= 1
  PROVE  array_to_str(heap, a, spliter) = malloc(heap, Joined(arrays[a], spliter))
<1> DEFINE w == arrays[a]
           n == array_len(heap, a)
<1>1. WordsIn(heap, a, n) = w /\ w \in Seq(Seq(Characters)) /\ n \in Nat
  BY TheArray
<1>2. w = Elements(heap, a) /\ Len(w) = n
  BY <1>1 DEF WordsIn, Elements
<1> HIDE DEF w, n
<1>3. array_char_len(heap, a) = Sums(w)[Len(w)]
  BY <1>2 DEF array_char_len, Sums, SumOf
<1>4. array_to_str_len(heap, a, spliter) = RoomFor(w, spliter)
  BY <1>2, <1>3 DEF array_to_str_len, RoomFor, n
<1>5. array_to_str(heap, a, spliter)
        = malloc(heap, (CHOOSE g : StrOf(w, spliter, RoomFor(w, spliter), g))[Len(w)])
  BY <1>2, <1>4 DEF array_to_str, StrOf
<1>6. (CHOOSE g : StrOf(w, spliter, RoomFor(w, spliter), g))[Len(w)] = Joined(w, spliter)
  BY <1>1, StrIs
<1> QED
  BY <1>5, <1>6 DEF w

LEMMA ToStrKeeps ==
  ASSUME Ownership, NEW a \in DOMAIN arrays,
         NEW spliter \in Seq(Characters), Len(spliter) <= 1,
         ToStr(a, spliter), UNCHANGED <<head, numbers>>
  PROVE  Ownership'
<1>1. call = Idle /\ UNCHANGED <<head, numbers, arrays, call>>
  BY DEF ToStr, Room
<1>2. PICK r \in array_to_str(heap, a, spliter) :
        /\ heap' = r.heap
        /\ strings' = IF r.ptr = NULL
                      THEN strings
                      ELSE Store(strings, r.ptr, Joined(arrays[a], spliter))
  BY DEF ToStr
<1>3. PICK v : v = Joined(arrays[a], spliter)
  OBVIOUS
<1>4. r \in malloc(heap, v)
  BY <1>2, <1>3, ToStrGives
<1>5. GoodHeap(heap) /\ Tables
  BY DEF Ownership
<1>6. CASE r.ptr = NULL
  <2>1. heap' = heap /\ strings' = strings
    BY <1>2, <1>4, <1>5, <1>6, MallocGives
  <2>2. CallStep
    BY <1>1, <1>5, <2>1 DEF CallStep
  <2>3. CallShare = {} /\ CallShare' = {} /\ CallFits'
    BY <1>1, IdleCall
  <2> QED
    BY <2>1, <2>2, <2>3, CallStepKeeps
<1>7. CASE r.ptr # NULL
  <2> DEFINE g == r.heap
  <2>1. PICK p \in Nat : p = r.ptr /\ p \notin DOMAIN heap
    BY <1>4, <1>5, <1>7, MallocGives
  <2>2. /\ GoodHeap(g) /\ DOMAIN g = DOMAIN heap \cup {p}
        /\ g[p] = v /\ \A x \in DOMAIN heap : g[x] = heap[x]
    BY <1>4, <1>5, <1>7, <2>1, MallocGives
  <2>3. /\ heap' = g /\ DOMAIN strings' = DOMAIN strings \cup {p}
        /\ strings'[p] = v
        /\ \A q \in DOMAIN strings : q # p => strings'[q] = strings[q]
    <3>1. heap' = g /\ strings' = Store(strings, p, v)
      BY <1>2, <1>3, <1>7, <2>1
    <3> QED
      BY <3>1 DEF Store
  <2> HIDE DEF g
  <2> DEFINE x == StringO(p)
  <2>4. x \in Owners /\ x # CALL
    BY OwnersAre
  <2>5. Share(x) \subseteq DOMAIN heap
    BY <2>4 DEF Ownership, EachHasOneOwner
  <2>6. Share(x) = {} /\ Share(x)' = {p}
    BY <2>1, <2>3, <2>5, SharesAre, SharesAreNext DEF StringShare
  <2>7. Fits(x)'
    BY <2>2, <2>3, FitsAreNext DEF StringFits
  <2>8. \A o \in Owners : o # x => KeepsOwner(o)
    BY <1>1, <2>3 DEF KeepsOwner
  <2>9. Tables'
    BY <1>1, <1>5, <2>3 DEF Tables
  <2> HIDE DEF x
  <2>10. /\ GoodHeap(heap')
         /\ \A y \in DOMAIN heap \ Share(x) : y \in DOMAIN heap' /\ heap'[y] = heap[y]
         /\ DOMAIN heap' = (DOMAIN heap \ Share(x)) \cup Share(x)'
         /\ \A y \in Share(x)' : y \notin DOMAIN heap \ Share(x)
    BY <2>1, <2>2, <2>3, <2>6
  <2> QED
    BY <1>1, <2>4, <2>7, <2>8, <2>9, <2>10, IdleStepKeeps
<1> QED
  BY <1>6, <1>7

LEMMA FreeArrayKeeps ==
  ASSUME Ownership, NEW b \in DOMAIN arrays, FreeArray(b), UNCHANGED <<head, numbers>>
  PROVE  Ownership'
<1>1. /\ call = Idle /\ call' = call /\ UNCHANGED <<head, numbers, strings>>
      /\ heap' = array_free(heap, b) /\ arrays' = Drop(arrays, b)
  BY DEF FreeArray
<1> DEFINE n == array_len(heap, b)
           P == ArrayIds(heap, b, n)
           x == ArrayO(b)
<1>2. /\ GoodHeap(heap) /\ b \in Nat /\ IsArray(heap, b, n) /\ n \in DOMAIN heap[b]
      /\ ArrayShare(b) = P
  BY TheArray
<1>3. Tables
  BY DEF Ownership
<1> HIDE DEF n
<1>4. array_free(heap, b) = Without(heap, P)
  BY <1>2, ArrayFreeGives
<1> HIDE DEF P
<1>5. /\ GoodHeap(Without(heap, P)) /\ DOMAIN Without(heap, P) = DOMAIN heap \ P
      /\ \A y \in DOMAIN heap \ P : Without(heap, P)[y] = heap[y]
  BY <1>2, WithoutGood
<1>6. /\ DOMAIN arrays' = DOMAIN arrays \ {b}
      /\ \A a \in DOMAIN arrays' : arrays'[a] = arrays[a]
  BY <1>1 DEF Drop
<1>7. x \in Owners /\ x # CALL
  BY <1>2, OwnersAre
<1>8. Share(x) = P /\ Share(x)' = {}
  <2>1. ArrayShare(b)' = {}
    BY <1>6 DEF ArrayShare
  <2> QED
    BY <1>2, <2>1, SharesAre, SharesAreNext
<1>9. Fits(x)'
  BY <1>6, FitsAreNext DEF ArrayFits
<1>10. \A o \in Owners : o # x => KeepsOwner(o)
  BY <1>1, <1>6 DEF KeepsOwner
<1>11. Tables'
  BY <1>1, <1>3, <1>6 DEF Tables
<1> HIDE DEF x
<1>12. /\ GoodHeap(heap')
       /\ \A y \in DOMAIN heap \ Share(x) : y \in DOMAIN heap' /\ heap'[y] = heap[y]
       /\ DOMAIN heap' = (DOMAIN heap \ Share(x)) \cup Share(x)'
       /\ \A y \in Share(x)' : y \notin DOMAIN heap \ Share(x)
  BY <1>1, <1>4, <1>5, <1>8
<1> QED
  BY <1>1, <1>7, <1>9, <1>10, <1>11, <1>12, IdleStepKeeps

LEMMA FreeStringKeeps ==
  ASSUME Ownership, NEW p \in DOMAIN strings, FreeString(p), UNCHANGED <<head, numbers>>
  PROVE  Ownership'
<1>1. /\ call = Idle /\ call' = call /\ UNCHANGED <<head, numbers, arrays>>
      /\ heap' = free(heap, p) /\ strings' = Drop(strings, p)
  BY DEF FreeString
<1> DEFINE P == {p}
           x == StringO(p)
<1>2. Tables /\ GoodHeap(heap) /\ p \in Nat
  BY DEF Ownership, Tables
<1>3. x \in Owners /\ x # CALL
  BY <1>2, OwnersAre
<1>4. /\ DOMAIN strings' = DOMAIN strings \ {p}
      /\ \A q \in DOMAIN strings' : strings'[q] = strings[q]
  BY <1>1 DEF Drop
<1>5. Share(x) = P /\ Share(x)' = {}
  <2>1. StringShare(p) = P /\ StringShare(p)' = {}
    BY <1>4 DEF StringShare
  <2> QED
    BY <2>1, SharesAre, SharesAreNext
<1>6. p \in DOMAIN heap
  BY <1>3, <1>5 DEF Ownership, EachHasOneOwner
<1>7. free(heap, p) = Without(heap, P)
  BY <1>2, <1>6, FreeGives
<1>8. Fits(x)'
  BY <1>4, FitsAreNext DEF StringFits
<1>9. \A o \in Owners : o # x => KeepsOwner(o)
  BY <1>1, <1>4 DEF KeepsOwner
<1>10. Tables'
  BY <1>1, <1>2, <1>4 DEF Tables
<1> HIDE DEF x, P
<1>11. /\ GoodHeap(Without(heap, P)) /\ DOMAIN Without(heap, P) = DOMAIN heap \ P
       /\ \A y \in DOMAIN heap \ P : Without(heap, P)[y] = heap[y]
  BY <1>2, WithoutGood
<1>12. /\ GoodHeap(heap')
       /\ \A y \in DOMAIN heap \ Share(x) : y \in DOMAIN heap' /\ heap'[y] = heap[y]
       /\ DOMAIN heap' = (DOMAIN heap \ Share(x)) \cup Share(x)'
       /\ \A y \in Share(x)' : y \notin DOMAIN heap \ Share(x)
  BY <1>1, <1>5, <1>7, <1>11
<1> QED
  BY <1>1, <1>3, <1>8, <1>9, <1>10, <1>12, IdleStepKeeps

------------------------------------------------------------------------------
(* The inductive invariant.                                                *)

LEMMA OwnershipInit ==
  ASSUME Init
  PROVE  Ownership
<1>1. /\ heap = <<>> /\ call = Idle /\ arrays = <<>> /\ strings = <<>>
      /\ head = [l \in Heads |-> NULL] /\ numbers = [l \in Heads |-> <<>>]
  BY DEF Init, NoLists, NoArrays
<1>2. GoodHeap(<<>>)
  <2>1. DOMAIN <<>> = {} /\ <<>> = [x \in DOMAIN <<>> |-> <<>>[x]]
    OBVIOUS
  <2> QED
    BY <2>1, FS_EmptySet DEF GoodHeap
<1>3. IsList(heap, NULL, <<>>) /\ ListIds(heap, <<>>) = {} /\ Values(heap, <<>>) = <<>>
  BY EmptyList
<1>4. Nodes(heap, NULL) = <<>>
  BY <1>1, <1>2, <1>3, NodesAre
<1>5. DOMAIN heap = {} /\ DOMAIN arrays = {} /\ DOMAIN strings = {}
  BY <1>1
<1>6. Tables
  BY <1>1, <1>5 DEF Tables
<1>7. CallShare = {} /\ CallFits
  BY <1>1, IdleCall
<1>8. \A l \in Heads : ListFits(l) /\ ListShare(l) = {}
  BY <1>1, <1>3, <1>4 DEF ListFits, ListShare
<1>9. \A o \in Owners : Fits(o) /\ Share(o) = {}
  <2> TAKE o \in Owners
  <2>1. CASE o = CALL
    BY <1>7, <2>1, FitsAre, SharesAre
  <2>2. CASE \E l \in Heads : o = ListO(l)
    BY <1>8, <2>2, FitsAre, SharesAre
  <2>3. CASE \E a \in Nat : o = ArrayO(a)
    BY <1>5, <2>3, FitsAre, SharesAre DEF ArrayShare, ArrayFits
  <2>4. CASE \E p \in Nat : o = StringO(p)
    BY <1>5, <2>4, FitsAre, SharesAre DEF StringShare, StringFits
  <2> QED
    BY <2>1, <2>2, <2>3, <2>4, OwnersAre
<1>10. EachHasOneOwner
  BY <1>5, <1>9 DEF EachHasOneOwner
<1> QED
  BY <1>1, <1>2, <1>6, <1>9, <1>10 DEF Ownership

LEMMA OwnershipNext ==
  ASSUME Ownership, [Next]_vars
  PROVE  Ownership'
<1>1. ASSUME ListStep, UNCHANGED <<arrays, strings>>
      PROVE  Ownership'
  <2>1. CASE \E l \in Heads, n \in Numbers : AddFront(l, n) \/ AddBack(l, n)
    BY <1>1, <2>1, AddFrontKeeps, AddBackKeeps
  <2>2. CASE \E l \in Heads : DeleteFirst(l) \/ Clear(l) \/ Iterate(l)
    BY <1>1, <2>2, DeleteFirstKeeps, ClearKeeps, IterateKeeps
  <2>3. CASE \E l, m \in Heads : CallMap(l, m)
    BY <1>1, <2>3, CallMapKeeps
  <2>4. CASE MapNode
    BY <1>1, <2>4, MapNodeKeeps
  <2>5. CASE MapDone
    BY <1>1, <2>5, MapDoneKeeps
  <2> QED
    BY <1>1, <2>1, <2>2, <2>3, <2>4, <2>5 DEF ListStep
<1>2. ASSUME ArrayStep, UNCHANGED <<head, numbers>>
      PROVE  Ownership'
  <2>1. CASE \E s \in Texts, c \in Separators : CallSplit(s, c)
    BY <1>2, <2>1, CallSplitKeeps
  <2>2. CASE SplitWord \/ SplitDone
    BY <1>2, <2>2, SplitWordKeeps, SplitDoneKeeps
  <2>3. CASE \E a \in DOMAIN arrays : CallDup(a)
    BY <1>2, <2>3, CallDupKeeps
  <2>4. CASE DupString \/ DupDone
    BY <1>2, <2>4, DupStringKeeps, DupDoneKeeps
  <2>5. CASE \E a \in DOMAIN arrays, c \in Separators : ToStr(a, <<>>) \/ ToStr(a, <<c>>)
    <3>1. PICK a \in DOMAIN arrays, c \in Separators : ToStr(a, <<>>) \/ ToStr(a, <<c>>)
      BY <2>5
    <3>2. c \in Characters
      BY DEF Characters
    <3>3. /\ <<>> \in Seq(Characters) /\ <<c>> \in Seq(Characters)
          /\ Len(<<>>) <= 1 /\ Len(<<c>>) <= 1
      BY <3>2
    <3> QED
      BY <1>2, <3>1, <3>3, ToStrKeeps
  <2>6. CASE \E a \in DOMAIN arrays : FreeArray(a)
    BY <1>2, <2>6, FreeArrayKeeps
  <2>7. CASE \E p \in DOMAIN strings : FreeString(p)
    BY <1>2, <2>7, FreeStringKeeps
  <2> QED
    BY <1>2, <2>1, <2>2, <2>3, <2>4, <2>5, <2>6, <2>7 DEF ArrayStep
<1>3. CASE UNCHANGED vars
  <2>1. UNCHANGED <<heap, call, head, numbers, arrays, strings>>
    BY <1>3 DEF vars
  <2>2. GoodHeap(heap) /\ Fits(CALL)
    BY OwnersAre DEF Ownership
  <2>3. CallStep
    BY <2>1, <2>2 DEF CallStep
  <2>4. CallShare' = CallShare
    BY <2>1 DEF CallShare
  <2>5. /\ (call = Idle)' <=> call = Idle
        /\ MapFits' <=> MapFits
        /\ SplitFits' <=> SplitFits
        /\ DupFits' <=> DupFits
    <3>1. MapFits' <=> MapFits
      BY <2>1 DEF MapFits
    <3>2. SplitFits' <=> SplitFits
      BY <2>1 DEF SplitFits
    <3>3. DupFits' <=> DupFits
      BY <2>1 DEF DupFits
    <3> QED
      BY <2>1, <3>1, <3>2, <3>3
  <2>6. CallFits'
    BY <2>2, <2>5, FitsAre DEF CallFits
  <2>7. CallShare \subseteq DOMAIN heap
    BY CallApart
  <2> QED
    BY <2>1, <2>3, <2>4, <2>6, <2>7, CallStepKeeps
<1> QED
  BY <1>1, <1>2, <1>3 DEF Next

(* Whatever is called and whichever allocation fails, at every step each   *)
(* object has one owner, the lists hold what they should, and what a call  *)
(* has made so far is known.                                               *)
THEOREM OwnershipHolds == Spec => []Ownership
<1>1. Init => Ownership
  BY OwnershipInit
<1>2. Ownership /\ [Next]_vars => Ownership'
  BY OwnershipNext
<1> QED
  BY <1>1, <1>2, PTL DEF Spec

------------------------------------------------------------------------------
(* Sequences that have every element of a set once.                        *)

Enumerates(s, S) == s \in Seq(S) /\ IsInjective(s) /\ ToSet(s) = S

LEMMA EnumerationFacts ==
  ASSUME NEW s, NEW S, Enumerates(s, S)
  PROVE  /\ Len(s) \in Nat /\ DOMAIN s = 1 .. Len(s)
         /\ \A i \in 1 .. Len(s) : s[i] \in S
         /\ \A i, j \in 1 .. Len(s) : s[i] = s[j] => i = j
         /\ \A x \in S : \E i \in 1 .. Len(s) : x = s[i]
<1>1. s \in Seq(S) /\ IsInjective(s) /\ ToSet(s) = S
  BY DEF Enumerates
<1>2. Len(s) \in Nat /\ DOMAIN s = 1 .. Len(s) /\ s \in [1 .. Len(s) -> S]
  BY <1>1, LenProperties
<1> QED
  BY <1>1, <1>2 DEF IsInjective, ToSet

LEMMA EnumerationIs ==
  ASSUME NEW n \in Nat, NEW s, s = [i \in 1 .. n |-> s[i]], NEW S,
         \A i \in 1 .. n : s[i] \in S,
         \A i, j \in 1 .. n : s[i] = s[j] => i = j,
         \A x \in S : \E i \in 1 .. n : x = s[i]
  PROVE  Enumerates(s, S)
<1>1. DOMAIN s = 1 .. n /\ s \in [1 .. n -> S]
  OBVIOUS
<1>2. s \in Seq(S)
  BY <1>1
<1>3. IsInjective(s)
  BY <1>1 DEF IsInjective
<1>4. ToSet(s) = S
  BY <1>1 DEF ToSet
<1> QED
  BY <1>2, <1>3, <1>4 DEF Enumerates

LEMMA ConcatEnumerates ==
  ASSUME NEW a, NEW A, Enumerates(a, A), NEW b, NEW B, Enumerates(b, B),
         A \cap B = {}
  PROVE  Enumerates(a \o b, A \cup B)
<1> DEFINE m == Len(a)
           n == Len(b)
           s == a \o b
<1>1. /\ m \in Nat /\ \A i \in 1 .. m : a[i] \in A
      /\ \A i, j \in 1 .. m : a[i] = a[j] => i = j
      /\ \A x \in A : \E i \in 1 .. m : x = a[i]
  BY EnumerationFacts
<1>2. /\ n \in Nat /\ \A i \in 1 .. n : b[i] \in B
      /\ \A i, j \in 1 .. n : b[i] = b[j] => i = j
      /\ \A x \in B : \E i \in 1 .. n : x = b[i]
  BY EnumerationFacts
<1>3. /\ s \in Seq(A \cup B) /\ Len(s) = m + n
      /\ \A i \in 1 .. m + n : s[i] = IF i <= m THEN a[i] ELSE b[i - m]
  <2>1. a \in Seq(A) /\ b \in Seq(B) /\ A \subseteq A \cup B /\ B \subseteq A \cup B
    BY DEF Enumerates
  <2>2. a \in Seq(A \cup B) /\ b \in Seq(A \cup B)
    BY <2>1, SeqMonotonic
  <2> QED
    BY <2>2, ConcatProperties
<1> HIDE DEF s, m, n
<1>4. DOMAIN s = 1 .. m + n /\ s = [i \in 1 .. m + n |-> s[i]] /\ m + n \in Nat
  BY <1>1, <1>2, <1>3, LenProperties
<1>5. \A i \in 1 .. m + n : \/ i \in 1 .. m /\ s[i] = a[i]
                            \/ i - m \in 1 .. n /\ ~ (i \in 1 .. m) /\ s[i] = b[i - m]
  BY <1>1, <1>2, <1>3
<1>6. \A i \in 1 .. m + n : s[i] \in A \cup B
  BY <1>1, <1>2, <1>5
<1>7. \A i, j \in 1 .. m + n : s[i] = s[j] => i = j
  <2> TAKE i, j \in 1 .. m + n
  <2> HAVE s[i] = s[j]
  <2>1. CASE i \in 1 .. m /\ j \in 1 .. m
    BY <1>1, <1>5, <2>1
  <2>2. CASE ~ (i \in 1 .. m) /\ ~ (j \in 1 .. m)
    <3>1. i - m = j - m
      BY <1>2, <1>5, <2>2
    <3> QED
      BY <1>1, <3>1
  <2>3. CASE ~ (i \in 1 .. m <=> j \in 1 .. m)
    BY <1>1, <1>2, <1>5, <2>3
  <2> QED
    BY <2>1, <2>2, <2>3
<1>8. \A x \in A \cup B : \E i \in 1 .. m + n : x = s[i]
  <2> TAKE x \in A \cup B
  <2>1. CASE x \in A
    <3>1. PICK i \in 1 .. m : x = a[i]
      BY <1>1, <2>1
    <3>2. i \in 1 .. m + n /\ i <= m
      BY <1>1, <1>2
    <3>3. s[i] = a[i]
      BY <1>3, <3>2
    <3> QED
      BY <3>1, <3>2, <3>3
  <2>2. CASE x \in B
    <3>1. PICK i \in 1 .. n : x = b[i]
      BY <1>2, <2>2
    <3> DEFINE k == m + i
    <3>2. k \in 1 .. m + n /\ ~ (k <= m) /\ k - m = i
      BY <1>1, <1>2
    <3> HIDE DEF k
    <3>3. s[k] = b[i]
      BY <1>3, <3>2
    <3> QED
      BY <3>1, <3>2, <3>3
  <2> QED
    BY <2>1, <2>2
<1>9. Enumerates(s, A \cup B)
  BY <1>4, <1>6, <1>7, <1>8, EnumerationIs
<1> QED
  BY <1>9 DEF s

LEMMA SetToSeqEnumerates ==
  ASSUME NEW S, IsFiniteSet(S)
  PROVE  Enumerates(SetToSeq(S), S)
<1> DEFINE n == Cardinality(S)
           q == SetToSeq(S)
<1>1. n \in Nat /\ ExistsBijection(1 .. n, S)
  BY FS_CardinalityType
<1>2. \E g \in [1 .. n -> S] : IsInjective(g)
  BY <1>1 DEF ExistsBijection, Bijection, Injection
<1>3. q \in [1 .. n -> S] /\ IsInjective(q)
  BY <1>2 DEF SetToSeq
<1> HIDE DEF q
<1>4. Cardinality(1 .. n) = n
  BY <1>1, FS_Interval
<1>5. q \in Surjection(1 .. n, S)
  <2>1. q \in Injection(1 .. n, S)
    BY <1>3 DEF Injection
  <2> QED
    BY <1>4, <2>1, FS_Injection
<1>6. \A x \in S : \E i \in 1 .. n : x = q[i]
  BY <1>5 DEF Surjection
<1> HIDE DEF n
<1>7. q = [i \in 1 .. n |-> q[i]] /\ \A i \in 1 .. n : q[i] \in S
  BY <1>3
<1>8. \A i, j \in 1 .. n : q[i] = q[j] => i = j
  BY <1>3 DEF IsInjective
<1>9. Enumerates(q, S)
  BY <1>1, <1>6, <1>7, <1>8, EnumerationIs
<1> QED
  BY <1>9 DEF q

LEMMA FlattenEnumerates ==
  ASSUME NEW n \in Nat, NEW seqs, seqs = [k \in 1 .. n |-> seqs[k]], NEW T,
         \A k \in 1 .. n : Enumerates(seqs[k], T[k]),
         \A j, k \in 1 .. n : j # k => T[j] \cap T[k] = {}
  PROVE  Enumerates(FlattenSeq(seqs), UNION {T[k] : k \in 1 .. n})
<1> DEFINE Upto(m) == UNION {T[k] : k \in 1 .. m}
           fl == CHOOSE fl : Flat(seqs, fl, n)
<1>1. Len(seqs) = n
  OBVIOUS
<1>2. CASE n = 0
  <2>1. FlattenSeq(seqs) = seqs
    BY <1>1, <1>2 DEF FlattenSeq
  <2>2. Enumerates(seqs, {})
    <3>1. \A i \in 1 .. 0 : FALSE
      OBVIOUS
    <3> QED
      BY <1>2, <3>1, EnumerationIs
  <2>3. Upto(0) = {}
    OBVIOUS
  <2> QED
    BY <1>2, <2>1, <2>2, <2>3
<1>3. CASE n # 0
  <2>1. FlattenSeq(seqs) = fl[n]
    BY <1>1, <1>3 DEF FlattenSeq, Flat
  <2>2. Flat(seqs, fl, n)
    BY FlatExists
  <2> HIDE DEF fl
  <2>3. \A i \in 1 .. n : fl[i] = IF i = 1 THEN seqs[i] ELSE fl[i - 1] \o seqs[i]
    BY <2>2, FlatMeans
  <2> DEFINE Bad == {k \in 1 .. n : ~ Enumerates(fl[k], Upto(k))}
  <2>4. ASSUME Bad # {}
        PROVE  FALSE
    <3>1. PICK m \in Bad : \A j \in Bad : m <= j
      <4>1. Bad \in SUBSET Nat
        OBVIOUS
      <4> HIDE DEF Bad
      <4> QED
        BY <2>4, <4>1, LeastOf
    <3>2. m \in 1 .. n /\ ~ Enumerates(fl[m], Upto(m))
      OBVIOUS
    <3>3. CASE m = 1
      <4>1. fl[1] = seqs[1] /\ Upto(1) = T[1]
        BY <2>3, <3>2, <3>3
      <4> QED
        BY <3>2, <3>3, <4>1
    <3>4. CASE m # 1
      <4>1. m - 1 \in 1 .. n /\ m - 1 \notin Bad
        <5>1. m - 1 \in 1 .. n /\ ~ (m <= m - 1)
          BY <3>2, <3>4
        <5> HIDE DEF Bad
        <5> QED
          BY <3>1, <5>1
      <4>2. Enumerates(fl[m - 1], Upto(m - 1)) /\ Enumerates(seqs[m], T[m])
        BY <3>2, <4>1
      <4>3. Upto(m) = Upto(m - 1) \cup T[m]
        <5>1. 1 .. m = (1 .. m - 1) \cup {m}
          BY <3>2
        <5> QED
          BY <5>1
      <4>4. Upto(m - 1) \cap T[m] = {}
        <5>1. \A k \in 1 .. m - 1 : T[k] \cap T[m] = {}
          BY <3>2
        <5> QED
          BY <5>1
      <4>5. fl[m] = fl[m - 1] \o seqs[m]
        BY <2>3, <3>2, <3>4
      <4> HIDE DEF Upto
      <4>6. Enumerates(fl[m - 1] \o seqs[m], Upto(m - 1) \cup T[m])
        BY <4>2, <4>4, ConcatEnumerates
      <4> QED
        BY <3>2, <4>3, <4>5, <4>6
    <3> QED
      BY <3>3, <3>4
  <2>5. Enumerates(fl[n], Upto(n))
    <3>1. n \in 1 .. n
      BY <1>3
    <3>2. n \notin Bad
      <4> HIDE DEF Bad
      <4> QED
        BY <2>4
    <3> HIDE DEF Upto
    <3> QED
      BY <3>1, <3>2
  <2> QED
    BY <2>1, <2>5
<1> QED
  BY <1>2, <1>3

------------------------------------------------------------------------------
(* Nothing leaks.                                                          *)

LEMMA ListPartsEnumerate ==
  ASSUME Ownership, NEW l \in Heads
  PROVE  Enumerates(ListParts(l), ListShare(l))
<1> DEFINE s == Nodes(heap, head[l])
           c == [k \in DOMAIN s |-> heap[s[k]].content]
           A == {s[k] : k \in DOMAIN s}
           B == {heap[s[k]].content : k \in DOMAIN s}
<1>1. /\ GoodHeap(heap) /\ IsList(heap, head[l], s) /\ ListShare(l) = ListIds(heap, s)
  BY TheList
<1>2. ListShare(l) = A \cup B /\ ListParts(l) = s \o c
  BY <1>1 DEF ListIds, ListParts
<1>3. /\ Len(s) \in Nat /\ DOMAIN s = 1 .. Len(s) /\ s = [k \in 1 .. Len(s) |-> s[k]]
      /\ \A j, k \in DOMAIN s : /\ s[j] # heap[s[k]].content
                                /\ s[j] = s[k] => j = k
                                /\ heap[s[j]].content = heap[s[k]].content => j = k
  BY <1>1, LenProperties DEF IsList
<1> HIDE DEF s
<1>4. Enumerates(s, A)
  <2>1. \A i \in 1 .. Len(s) : s[i] \in A
    BY <1>3
  <2>2. \A x \in A : \E i \in 1 .. Len(s) : x = s[i]
    BY <1>3
  <2>3. \A i, j \in 1 .. Len(s) : s[i] = s[j] => i = j
    BY <1>3
  <2> HIDE DEF A
  <2> QED
    BY <1>3, <2>1, <2>2, <2>3, EnumerationIs
<1>5. Enumerates(c, B)
  <2>1. \A i \in 1 .. Len(s) : c[i] = heap[s[i]].content
    BY <1>3
  <2>2. c = [i \in 1 .. Len(s) |-> c[i]]
    BY <1>3
  <2> HIDE DEF c
  <2>3. \A i \in 1 .. Len(s) : c[i] \in B
    BY <1>3, <2>1
  <2>4. \A x \in B : \E i \in 1 .. Len(s) : x = c[i]
    BY <1>3, <2>1
  <2>5. \A i, j \in 1 .. Len(s) : c[i] = c[j] => i = j
    BY <1>3, <2>1
  <2> HIDE DEF B
  <2> QED
    BY <1>3, <2>2, <2>3, <2>4, <2>5, EnumerationIs
<1>6. A \cap B = {}
  BY <1>3
<1> HIDE DEF A, B, c
<1>7. Enumerates(s \o c, A \cup B)
  BY <1>4, <1>5, <1>6, ConcatEnumerates
<1> QED
  BY <1>2, <1>7

LEMMA ArrayPartsEnumerate ==
  ASSUME Ownership, NEW a \in DOMAIN arrays
  PROVE  Enumerates(ArrayParts(a), ArrayShare(a))
<1> DEFINE n == array_len(heap, a)
           w == <<a>>
           e == [k \in 1 .. n |-> heap[a][k - 1]]
           B == {heap[a][k] : k \in 0 .. n - 1}
<1>1. IsArray(heap, a, n) /\ ArrayShare(a) = ArrayIds(heap, a, n)
  BY TheArray DEF Ended
<1>2. ArrayShare(a) = {a} \cup B /\ ArrayParts(a) = w \o e
  BY <1>1 DEF ArrayIds, ArrayParts
<1>3. /\ n \in Nat
      /\ \A k \in 0 .. n - 1 : heap[a][k] # a
      /\ \A j, k \in 0 .. n - 1 : heap[a][j] = heap[a][k] => j = k
  BY <1>1 DEF IsArray
<1> HIDE DEF n
<1>4. Enumerates(w, {a})
  <2>1. w \in Seq({a}) /\ DOMAIN w = {1} /\ w[1] = a
    OBVIOUS
  <2> HIDE DEF w
  <2> QED
    BY <2>1 DEF Enumerates, IsInjective, ToSet
<1>5. Enumerates(e, B)
  <2>1. \A i \in 1 .. n : e[i] = heap[a][i - 1] /\ i - 1 \in 0 .. n - 1
    BY <1>3
  <2>2. e = [i \in 1 .. n |-> e[i]]
    OBVIOUS
  <2> HIDE DEF e
  <2>3. \A i \in 1 .. n : e[i] \in B
    BY <2>1
  <2>4. \A x \in B : \E i \in 1 .. n : x = e[i]
    <3> TAKE x \in B
    <3>1. PICK k \in 0 .. n - 1 : x = heap[a][k]
      OBVIOUS
    <3> DEFINE i == k + 1
    <3>2. i \in 1 .. n /\ i - 1 = k
      BY <1>3
    <3> HIDE DEF i
    <3>3. e[i] = x
      BY <2>1, <3>1, <3>2
    <3> QED
      BY <3>2, <3>3
  <2>5. \A i, j \in 1 .. n : e[i] = e[j] => i = j
    <3> TAKE i, j \in 1 .. n
    <3> HAVE e[i] = e[j]
    <3>1. i - 1 = j - 1
      BY <1>3, <2>1
    <3> QED
      BY <3>1
  <2> HIDE DEF B
  <2> QED
    BY <1>3, <2>2, <2>3, <2>4, <2>5, EnumerationIs
<1>6. {a} \cap B = {}
  BY <1>3
<1> HIDE DEF B, w, e
<1>7. Enumerates(w \o e, {a} \cup B)
  BY <1>4, <1>5, <1>6, ConcatEnumerates
<1> QED
  BY <1>2, <1>7

ListObjects  == UNION {ListShare(l) : l \in Heads}
ArrayObjects == UNION {ArrayShare(a) : a \in DOMAIN arrays}

AllListParts ==
  LET lists == SetToSeq(Heads)
  IN FlattenSeq([k \in DOMAIN lists |-> ListParts(lists[k])])
AllArrayParts ==
  LET tables == SetToSeq(DOMAIN arrays)
  IN FlattenSeq([k \in DOMAIN tables |-> ArrayParts(tables[k])])

LEMMA AllListPartsEnumerate ==
  ASSUME Ownership
  PROVE  Enumerates(AllListParts, ListObjects)
<1> DEFINE q == SetToSeq(Heads)
           n == Len(q)
           seqs == [k \in DOMAIN q |-> ListParts(q[k])]
           T == [k \in 1 .. n |-> ListShare(q[k])]
<1>1. Enumerates(q, Heads)
  BY SetToSeqEnumerates, TListAssumption
<1>2. AllListParts = FlattenSeq(seqs)
  BY DEF AllListParts
<1> HIDE DEF q
<1>3. /\ n \in Nat /\ DOMAIN q = 1 .. n
      /\ \A k \in 1 .. n : q[k] \in Heads
      /\ \A j, k \in 1 .. n : q[j] = q[k] => j = k
      /\ \A l \in Heads : \E k \in 1 .. n : l = q[k]
  BY <1>1, EnumerationFacts
<1> HIDE DEF n
<1>4. /\ seqs = [k \in 1 .. n |-> seqs[k]]
      /\ \A k \in 1 .. n : seqs[k] = ListParts(q[k]) /\ T[k] = ListShare(q[k])
  BY <1>3
<1> HIDE DEF seqs, T
<1>5. \A k \in 1 .. n : Enumerates(seqs[k], T[k])
  BY <1>3, <1>4, ListPartsEnumerate
<1>6. \A j, k \in 1 .. n : j # k => T[j] \cap T[k] = {}
  <2> TAKE j, k \in 1 .. n
  <2> HAVE j # k
  <2>1. /\ ListO(q[j]) \in Owners /\ ListO(q[k]) \in Owners /\ ListO(q[j]) # ListO(q[k])
    BY <1>3, OwnersAre DEF ListO
  <2>2. Share(ListO(q[j])) \cap Share(ListO(q[k])) = {}
    BY <2>1 DEF Ownership, EachHasOneOwner
  <2> QED
    BY <1>4, <2>2, SharesAre
<1>7. Enumerates(FlattenSeq(seqs), UNION {T[k] : k \in 1 .. n})
  BY <1>3, <1>4, <1>5, <1>6, FlattenEnumerates
<1>8. UNION {T[k] : k \in 1 .. n} = ListObjects
  BY <1>3, <1>4 DEF ListObjects
<1> QED
  BY <1>2, <1>7, <1>8

LEMMA AllArrayPartsEnumerate ==
  ASSUME Ownership
  PROVE  Enumerates(AllArrayParts, ArrayObjects)
<1> DEFINE D == DOMAIN arrays
           q == SetToSeq(D)
           n == Len(q)
           seqs == [k \in DOMAIN q |-> ArrayParts(q[k])]
           T == [k \in 1 .. n |-> ArrayShare(q[k])]
<1>1. IsFiniteSet(D) /\ D \subseteq Nat
  <2>1. \A a \in D : a \in DOMAIN heap
    BY TheArray DEF Ended, IsArray
  <2> QED
    BY <2>1, FS_Subset DEF Ownership, GoodHeap, Tables
<1>2. AllArrayParts = FlattenSeq(seqs)
  BY DEF AllArrayParts
<1>3. Enumerates(q, D)
  BY <1>1, SetToSeqEnumerates
<1> HIDE DEF q
<1>4. /\ n \in Nat /\ DOMAIN q = 1 .. n
      /\ \A k \in 1 .. n : q[k] \in D
      /\ \A j, k \in 1 .. n : q[j] = q[k] => j = k
      /\ \A a \in D : \E k \in 1 .. n : a = q[k]
  BY <1>3, EnumerationFacts
<1> HIDE DEF n
<1>5. /\ seqs = [k \in 1 .. n |-> seqs[k]]
      /\ \A k \in 1 .. n : seqs[k] = ArrayParts(q[k]) /\ T[k] = ArrayShare(q[k])
  BY <1>4
<1> HIDE DEF seqs, T
<1>6. \A k \in 1 .. n : Enumerates(seqs[k], T[k])
  BY <1>4, <1>5, ArrayPartsEnumerate
<1>7. \A j, k \in 1 .. n : j # k => T[j] \cap T[k] = {}
  <2> TAKE j, k \in 1 .. n
  <2> HAVE j # k
  <2>1. /\ ArrayO(q[j]) \in Owners /\ ArrayO(q[k]) \in Owners /\ ArrayO(q[j]) # ArrayO(q[k])
    BY <1>1, <1>4, OwnersAre DEF ArrayO
  <2>2. Share(ArrayO(q[j])) \cap Share(ArrayO(q[k])) = {}
    BY <2>1 DEF Ownership, EachHasOneOwner
  <2> QED
    BY <1>5, <2>2, SharesAre
<1>8. Enumerates(FlattenSeq(seqs), UNION {T[k] : k \in 1 .. n})
  BY <1>4, <1>5, <1>6, <1>7, FlattenEnumerates
<1>9. UNION {T[k] : k \in 1 .. n} = ArrayObjects
  BY <1>4, <1>5 DEF ArrayObjects
<1> QED
  BY <1>2, <1>8, <1>9

LEMMA OwnershipMeansNothingLeaks ==
  ASSUME Ownership
  PROVE  NothingLeaks
<1> DEFINE S == DOMAIN strings
           t == SetToSeq(S)
           owned == AllListParts \o AllArrayParts \o t
<1>1. SUFFICES ASSUME call = Idle
               PROVE  IsInjective(owned) /\ ToSet(owned) = DOMAIN heap
  BY DEF NothingLeaks, AllListParts, AllArrayParts
<1>2. Share(CALL) = {}
  BY <1>1, IdleCall, SharesAre
<1>3. /\ \A l \in Heads : ListO(l) \in Owners /\ Share(ListO(l)) = ListShare(l)
      /\ \A a \in Nat : ArrayO(a) \in Owners /\ Share(ArrayO(a)) = ArrayShare(a)
      /\ \A p \in Nat : StringO(p) \in Owners /\ Share(StringO(p)) = StringShare(p)
  BY OwnersAre, SharesAre
<1>4. /\ \A l \in Heads : \A a : ListO(l) # ArrayO(a)
      /\ \A l \in Heads : \A p : ListO(l) # StringO(p)
      /\ \A a, p : ArrayO(a) # StringO(p)
  BY DEF ListO, ArrayO, StringO
<1>5. /\ DOMAIN arrays \subseteq Nat /\ S \subseteq Nat
      /\ \A p \in S : StringShare(p) = {p}
  BY DEF Ownership, Tables, StringShare
<1>6. /\ \A o \in Owners : Share(o) \subseteq DOMAIN heap
      /\ \A o, p \in Owners : o # p => Share(o) \cap Share(p) = {}
      /\ \A y \in DOMAIN heap : \E o \in Owners : y \in Share(o)
  BY DEF Ownership, EachHasOneOwner
<1>7. ListObjects \cap ArrayObjects = {}
  <2>1. \A l \in Heads, a \in DOMAIN arrays : ListShare(l) \cap ArrayShare(a) = {}
    BY <1>3, <1>4, <1>5, <1>6
  <2> QED
    BY <2>1 DEF ListObjects, ArrayObjects
<1>8. (ListObjects \cup ArrayObjects) \cap S = {}
  <2>1. \A l \in Heads, p \in S : p \notin ListShare(l)
    BY <1>3, <1>4, <1>5, <1>6
  <2>2. \A a \in DOMAIN arrays, p \in S : p \notin ArrayShare(a)
    BY <1>3, <1>4, <1>5, <1>6
  <2> QED
    BY <2>1, <2>2 DEF ListObjects, ArrayObjects
<1>9. ListObjects \cup ArrayObjects \cup S = DOMAIN heap
  <2>1. ListObjects \subseteq DOMAIN heap
    BY <1>3, <1>6 DEF ListObjects
  <2>2. ArrayObjects \subseteq DOMAIN heap
    BY <1>3, <1>5, <1>6 DEF ArrayObjects
  <2>3. S \subseteq DOMAIN heap
    BY <1>3, <1>5, <1>6
  <2>4. \A y \in DOMAIN heap : y \in ListObjects \cup ArrayObjects \cup S
    <3> TAKE y \in DOMAIN heap
    <3>1. PICK o \in Owners : y \in Share(o)
      BY <1>6
    <3>2. CASE o = CALL
      BY <1>2, <3>1, <3>2
    <3>3. ASSUME NEW l \in Heads, o = ListO(l)
          PROVE  y \in ListObjects
      BY <1>3, <3>1, <3>3 DEF ListObjects
    <3>4. ASSUME NEW a \in Nat, o = ArrayO(a)
          PROVE  y \in ArrayObjects
      <4>1. y \in ArrayShare(a)
        BY <1>3, <3>1, <3>4
      <4>2. a \in DOMAIN arrays
        BY <4>1 DEF ArrayShare
      <4> QED
        BY <4>1, <4>2 DEF ArrayObjects
    <3>5. ASSUME NEW p \in Nat, o = StringO(p)
          PROVE  y \in S
      <4>1. y \in StringShare(p)
        BY <1>3, <3>1, <3>5
      <4> QED
        BY <4>1 DEF StringShare
    <3> QED
      BY <3>2, <3>3, <3>4, <3>5, OwnersAre
  <2> QED
    BY <2>1, <2>2, <2>3, <2>4
<1>10. Enumerates(t, S)
  <2>1. IsFiniteSet(S)
    BY <1>9, FS_Subset DEF Ownership, GoodHeap
  <2> QED
    BY <2>1, SetToSeqEnumerates
<1>11. Enumerates(AllListParts \o AllArrayParts, ListObjects \cup ArrayObjects)
  BY <1>7, AllListPartsEnumerate, AllArrayPartsEnumerate, ConcatEnumerates
<1> HIDE DEF t
<1>12. Enumerates(AllListParts \o AllArrayParts \o t, ListObjects \cup ArrayObjects \cup S)
  <2> DEFINE u == AllListParts \o AllArrayParts
             U == ListObjects \cup ArrayObjects
  <2>1. Enumerates(u, U) /\ U \cap S = {}
    BY <1>8, <1>11
  <2> HIDE DEF u, U
  <2>2. Enumerates(u \o t, U \cup S)
    BY <1>10, <2>1, ConcatEnumerates
  <2> QED
    BY <2>2 DEF u, U
<1> QED
  BY <1>9, <1>12 DEF Enumerates

(* Between calls every live object is a node or a content of one list, an  *)
(* array, an entry of one, or a string of the caller's, once: whichever    *)
(* allocation failed in the middle of ft_lstmap, ft_split or array_dup,    *)
(* they have given back what they had made.                                *)
THEOREM NothingEverLeaks == Spec => []NothingLeaks
<1>1. Ownership => NothingLeaks
  BY OwnershipMeansNothingLeaks
<1> QED
  BY <1>1, OwnershipHolds, PTL

(* The lists hold the numbers, the arrays the words and the strings the    *)
(* texts they should: what a failed ft_lstmap, ft_split or array_dup frees *)
(* is never part of another object, the words are cut where the text was   *)
(* split, and array_to_str has room for all it joins.                      *)
THEOREM ContainersAlwaysHold == Spec => []ContainersHold
<1>1. ASSUME Ownership
      PROVE  ListsHold
  <2>1. ASSUME NEW l \in Heads
        PROVE  LET nodes == Nodes(heap, head[l])
               IN [k \in DOMAIN nodes |-> heap[heap[nodes[k]].content]] = numbers[l]
    BY <1>1, TheList DEF Values
  <2> QED
    BY <2>1 DEF ListsHold
<1>2. ASSUME Ownership
      PROVE  WordsAreRight
  <2>1. ASSUME NEW a \in DOMAIN arrays
        PROVE  Elements(heap, a) = arrays[a]
    BY <1>2, TheArray DEF Elements, WordsIn
  <2> QED
    BY <2>1 DEF WordsAreRight
<1>3. ASSUME Ownership
      PROVE  StringsAreRight
  <2>1. ASSUME NEW p \in DOMAIN strings
        PROVE  heap[p] = strings[p]
    <3>1. p \in Nat
      BY <1>3 DEF Ownership, Tables
    <3>2. StringO(p) \in Owners
      BY <3>1, OwnersAre
    <3>3. Fits(StringO(p))
      BY <1>3, <3>2 DEF Ownership
    <3> QED
      BY <3>3, FitsAre DEF StringFits
  <2> QED
    BY <2>1 DEF StringsAreRight
<1>4. Ownership => ContainersHold
  BY <1>1, <1>2, <1>3 DEF ContainersHold
<1> QED
  BY <1>4, OwnershipHolds, PTL
=============================================================================

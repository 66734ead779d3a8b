---------------------------- MODULE MemoryProofs -----------------------------
(***************************************************************************)
(* Whatever calls a program makes, with any layout constants, any size of  *)
(* the address space and any lengths of the lists: the links of all lists  *)
(* agree, and what a caller wrote into its block stays there.              *)
(*                                                                         *)
(* Both need one inductive invariant, MemoryInv.  A heap in order (HeapOK) *)
(* has a list of zones that lie apart on mapped pages; each zone has a     *)
(* shape: its two lists are the blocks B and the empty spaces E, linked in *)
(* both directions in the order of the addresses, and no two chunks of B   *)
(* and E, with their headers, overlap.  Callers own blocks, and of the     *)
(* block that is watched the first bytes are what its owner wrote.         *)
(*                                                                         *)
(* The proof goes up from single stores to calls.                          *)
(*   - A list whose nodes are S in order is described by what is before    *)
(*     and behind each node (Linked), without its positions, so that to    *)
(*     put in, take out or replace a node touches at most three of them    *)
(*     (CloseGap, FillGap); that a walk meets just S is LinkedWalk.        *)
(*   - Touches says of a step which headers it wrote, and that all other   *)
(*     headers and the bytes off these headers are as before; Shape tells  *)
(*     what is off a header.  Worked is what a zone's operation promises:  *)
(*     its blocks from B to C, the sizes and the bytes of the blocks that  *)
(*     stay, and everything outside the zone.                              *)
(*   - Step lifts Worked to the heap: all blocks last, with their bytes,   *)
(*     but those named.  Moved is what realloc promises, wherever the      *)
(*     block goes.                                                         *)
(***************************************************************************)
EXTENDS Memory, TLAPS, FiniteSetTheorems, WellFoundedInduction, NaturalsInduction

------------------------------------------------------------------------------
(* Finite sets of numbers and their elements in order.                     *)

LEMMA LeastOf ==
  ASSUME NEW S \in SUBSET Nat, S # {}
  PROVE  \E a \in S : \A x \in S : a <= x
<1>1. PICK a \in S : \A x \in S : ~(<<x, a>> \in OpToRel(<, Nat))
  BY WFMin, NatLessThanWellFounded
<1>2. OpToRel(<, Nat) = {ss \in Nat \X Nat : ss[1] < ss[2]}
  BY DEF OpToRel
<1>3. \A x \in S : a <= x
  <2> TAKE x \in S
  <2>1. x \in Nat /\ a \in Nat
    OBVIOUS
  <2>2. <<x, a>> \notin {ss \in Nat \X Nat : ss[1] < ss[2]}
    BY <1>1, <1>2
  <2> QED
    BY <2>1, <2>2
<1> QED
  BY <1>3

(* Of some subsets of a finite set one is smallest.                        *)
LEMMA SmallestSet ==
  ASSUME NEW S, IsFiniteSet(S), NEW Bad \in SUBSET (SUBSET S), Bad # {}
  PROVE  \E s \in Bad : \A t \in SUBSET s : t # s => t \notin Bad
<1>1. \A s \in SUBSET S : IsFiniteSet(s)
  BY FS_Subset
<1>2. Bad \subseteq FiniteSubsetsOf(S)
  BY <1>1 DEF FiniteSubsetsOf
<1>3. PICK s \in Bad : \A t \in Bad : ~(<<t, s>> \in StrictSubsetOrdering(S))
  BY <1>2, FS_StrictSubsetOrderingWellFounded, WFMin
<1>4. ASSUME NEW t \in SUBSET s, t # s, t \in Bad
      PROVE  FALSE
  <2>1. <<t, s>> \in StrictSubsetOrdering(S)
    BY <1>4 DEF StrictSubsetOrdering
  <2> QED
    BY <1>3, <1>4, <2>1
<1> QED
  BY <1>3, <1>4

(* A finite set of numbers has a greatest element.                         *)
LEMMA GreatestOf ==
  ASSUME NEW S \in SUBSET Nat, IsFiniteSet(S), S # {}
  PROVE  \E a \in S : \A x \in S : x <= a
<1> DEFINE Bad == {t \in SUBSET S : t # {} /\ ~\E a \in t : \A x \in t : x <= a}
<1> SUFFICES ASSUME Bad # {}
             PROVE  FALSE
  OBVIOUS
<1>1. PICK t \in Bad : \A u \in SUBSET t : u # t => u \notin Bad
  <2> HIDE DEF Bad
  <2>1. Bad \in SUBSET (SUBSET S)
    BY DEF Bad
  <2> QED
    BY <2>1, SmallestSet
<1>2. t \in SUBSET S /\ t # {} /\ ~\E a \in t : \A x \in t : x <= a
  OBVIOUS
<1>3. PICK b \in t : TRUE
  BY <1>2
<1>4. PICK c \in t : c > b
  BY <1>2, <1>3
<1>5. t \ {b} # {} /\ t \ {b} # t /\ t \ {b} \in SUBSET S
  BY <1>2, <1>3, <1>4
<1>6. PICK a \in t \ {b} : \A x \in t \ {b} : x <= a
  BY <1>1, <1>5
<1>7. b < a
  BY <1>2, <1>3, <1>4, <1>6
<1> QED
  BY <1>2, <1>6, <1>7

(* The n elements of S in their order.                                     *)
InOrder(s, n, S) ==
  /\ n \in Nat
  /\ s = [k \in 1 .. n |-> s[k]]
  /\ \A k \in 1 .. n : s[k] \in S
  /\ \A a \in S : \E k \in 1 .. n : s[k] = a
  /\ \A j, k \in 1 .. n : j < k => s[j] < s[k]

LEMMA OrderExists ==
  ASSUME NEW S \in SUBSET Nat, IsFiniteSet(S)
  PROVE  \E n, s : InOrder(s, n, S)
<1> DEFINE Bad == {t \in SUBSET S : ~\E n, s : InOrder(s, n, t)}
<1> SUFFICES ASSUME Bad # {}
             PROVE  FALSE
  OBVIOUS
<1>1. PICK t \in Bad : \A u \in SUBSET t : u # t => u \notin Bad
  <2> HIDE DEF Bad
  <2>1. Bad \in SUBSET (SUBSET S)
    BY DEF Bad
  <2> QED
    BY <2>1, SmallestSet
<1>2. t \in SUBSET S /\ ~\E n, s : InOrder(s, n, t)
  OBVIOUS
<1>3. t # {}
  <2> SUFFICES ASSUME t = {}
               PROVE  FALSE
    OBVIOUS
  <2> DEFINE s == [k \in 1 .. 0 |-> 0]
  <2>1. InOrder(s, 0, t)
    BY DEF InOrder
  <2> HIDE DEF s
  <2> QED
    BY <1>2, <2>1
<1>4. IsFiniteSet(t)
  BY <1>2, FS_Subset
<1>5. PICK a \in t : \A x \in t : x <= a
  BY <1>2, <1>3, <1>4, GreatestOf
<1>6. t \ {a} \in SUBSET S /\ t \ {a} # t /\ t \ {a} \in SUBSET t
  BY <1>2, <1>5
<1>7. PICK n, s : InOrder(s, n, t \ {a})
  BY <1>1, <1>6
<1> DEFINE r == [k \in 1 .. n + 1 |-> IF k = n + 1 THEN a ELSE s[k]]
<1>8. InOrder(r, n + 1, t)
  <2>0. n \in Nat
    BY <1>7 DEF InOrder
  <2>1. 1 .. n + 1 = (1 .. n) \cup {n + 1} /\ n + 1 \notin 1 .. n
    BY <2>0
  <2>2. r[n + 1] = a /\ \A k \in 1 .. n : r[k] = s[k] /\ r[k] \in t /\ r[k] < a
    BY <1>2, <1>5, <1>7, <2>1 DEF InOrder
  <2>3. r = [k \in 1 .. n + 1 |-> r[k]]
    OBVIOUS
  <2> HIDE DEF r
  <2>4. \A j, k \in 1 .. n + 1 : j < k => r[j] < r[k]
    <3> TAKE j, k \in 1 .. n + 1
    <3> HAVE j < k
    <3>1. j \in 1 .. n
      BY <2>0
    <3> QED
      BY <1>7, <2>1, <2>2, <3>1 DEF InOrder
  <2>5. \A b \in t : \E k \in 1 .. n + 1 : r[k] = b
    BY <1>7, <2>1, <2>2 DEF InOrder
  <2>6. \A k \in 1 .. n + 1 : r[k] \in t
    BY <1>5, <2>1, <2>2
  <2> QED
    BY <2>0, <2>3, <2>4, <2>5, <2>6 DEF InOrder
<1> QED
  BY <1>2, <1>8

------------------------------------------------------------------------------
(* Walks.                                                                  *)

(* The nodes of a list from the first to the last, and the links between   *)
(* them.  Before the first and behind the last is NULL.                    *)
At(s, n, k) == IF k \in 1 .. n THEN s[k] ELSE NULL

Chain(nodes, head, s, n) ==
  /\ n \in Nat
  /\ s = [k \in 1 .. n |-> s[k]]
  /\ \A k \in 1 .. n : s[k] \in DOMAIN nodes
  /\ \A j, k \in 1 .. n : s[j] = s[k] => j = k
  /\ head = At(s, n, 1)
  /\ \A k \in 1 .. n : nodes[s[k]].next = At(s, n, k + 1)
  /\ \A k \in 1 .. n : nodes[s[k]].prev = At(s, n, k - 1)

(* What Walk defines: node, for as many nodes as a walk may meet, and      *)
(* those it met.                                                           *)
Walked(nodes, head, node) ==
  node = [k \in 1 .. Cardinality(DOMAIN nodes) |->
            IF k = 1 THEN head ELSE Behind(nodes, node[k - 1])]

Met(node) ==
  [k \in 1 .. Cardinality({k \in DOMAIN node : node[k] # NULL}) |-> node[k]]

LEMMA WalkIs ==
  ASSUME NEW nodes, NEW head
  PROVE  Walk(nodes, head) = Met(CHOOSE node : Walked(nodes, head, node))
  BY DEF Walk, Met, Walked

(* A walk meets the nodes of the list in their order.                      *)
LEMMA WalkChain ==
  ASSUME NEW nodes, IsFiniteSet(DOMAIN nodes), NULL \notin DOMAIN nodes,
         NEW head, NEW s, NEW n, Chain(nodes, head, s, n)
  PROVE  Walk(nodes, head) = s
<1> DEFINE L == Cardinality(DOMAIN nodes)
           Is(node) == Walked(nodes, head, node)
           V == [k \in 1 .. L |-> At(s, n, k)]
<1>1. L \in Nat /\ n \in Nat
  BY FS_CardinalityType DEF Chain
<1>2. n <= L
  <2> DEFINE D == {s[k] : k \in 1 .. n}
  <2>1. D \subseteq DOMAIN nodes
    BY DEF Chain
  <2>2. IsFiniteSet(1 .. n) /\ Cardinality(1 .. n) = n
    BY <1>1, FS_Interval
  <2>3. s \in [1 .. n -> DOMAIN nodes]
    BY DEF Chain
  <2>4. \A j, k \in 1 .. n : j # k => s[j] # s[k]
    BY DEF Chain
  <2>5. n <= L \/ n > L
    BY <1>1
  <2>6. ASSUME n > L
        PROVE  FALSE
    <3>1. \E j, k \in 1 .. n : j # k /\ s[j] = s[k]
      BY <2>2, <2>3, <2>6, FS_PigeonHole
    <3> QED
      BY <2>4, <3>1
  <2> QED
    BY <2>5, <2>6
<1> HIDE DEF L
<1>3. ASSUME NEW k \in 1 .. L
      PROVE  V[k] = IF k = 1 THEN head ELSE Behind(nodes, V[k - 1])
  <2>1. CASE k = 1
    BY <1>1, <2>1 DEF Chain
  <2>2. CASE k > 1
    <3>1. k - 1 \in 1 .. L /\ V[k - 1] = At(s, n, k - 1) /\ V[k] = At(s, n, k)
      BY <1>1, <2>2
    <3>2. CASE k - 1 \in 1 .. n
      <4>1. V[k - 1] = s[k - 1] /\ V[k - 1] # NULL
        BY <3>1, <3>2 DEF At, Chain
      <4>2. nodes[s[k - 1]].next = At(s, n, (k - 1) + 1)
        BY <3>2 DEF Chain
      <4>3. (k - 1) + 1 = k
        BY <1>1
      <4> QED
        BY <2>2, <3>1, <4>1, <4>2, <4>3 DEF Behind
    <3>3. CASE k - 1 \notin 1 .. n
      <4>1. k \notin 1 .. n
        BY <1>1, <2>2, <3>3
      <4> QED
        BY <2>2, <3>1, <3>3, <4>1 DEF At, Behind
    <3> QED
      BY <3>2, <3>3
  <2> QED
    BY <1>1, <2>1, <2>2
<1>4. Is(V)
  <2>1. V = [k \in 1 .. L |-> V[k]]
    OBVIOUS
  <2> HIDE DEF V
  <2> QED
    BY <1>3, <2>1 DEF Walked, L
<1>5. ASSUME NEW node, Is(node)
      PROVE  node = V
  <2> DEFINE Bad == {k \in 1 .. L : node[k] # V[k]}
  <2>1. node = [k \in 1 .. L |-> node[k]] /\ V = [k \in 1 .. L |-> V[k]]
    BY <1>5 DEF Walked, L
  <2>2. ASSUME Bad # {}
        PROVE  FALSE
    <3>1. PICK k \in Bad : \A j \in Bad : k <= j
      <4>1. Bad \in SUBSET Nat
        OBVIOUS
      <4> HIDE DEF Bad
      <4> QED
        BY <2>2, <4>1, LeastOf
    <3>2. k \in 1 .. L /\ node[k] # V[k]
      OBVIOUS
    <3>3. node[k] = IF k = 1 THEN head ELSE Behind(nodes, node[k - 1])
      BY <1>5, <3>2 DEF Walked, L
    <3> HIDE DEF V
    <3>4. k # 1
      BY <1>3, <3>2, <3>3
    <3>5. k - 1 \in 1 .. L /\ k > 1 /\ ~(k <= k - 1)
      BY <1>1, <3>2, <3>4
    <3>6. node[k - 1] = V[k - 1]
      BY <3>1, <3>5
    <3> QED
      BY <1>3, <3>2, <3>3, <3>5, <3>6
  <2> HIDE DEF V
  <2> QED
    BY <2>1, <2>2
<1>6. (CHOOSE node : Is(node)) = V
  <2> HIDE DEF V, Is
  <2> QED
    BY <1>4, <1>5
<1>7. {k \in DOMAIN V : V[k] # NULL} = 1 .. n
  BY <1>1, <1>2 DEF Chain, At
<1>8. Cardinality(1 .. n) = n
  BY <1>1, FS_Interval
<1>9. [k \in 1 .. n |-> V[k]] = s
  BY <1>1, <1>2 DEF Chain, At
<1>10. Walk(nodes, head) = Met(V)
  BY <1>6, WalkIs
<1> HIDE DEF V
<1> QED
  BY <1>7, <1>8, <1>9, <1>10 DEF Met

------------------------------------------------------------------------------
(* Lists in the order of the addresses, seen as sets.                      *)

(* The neighbours of a among the addresses S.  NULL, which is below all of *)
(* them, is before the first one.                                          *)
IsNext(S, a, b) ==
  /\ b \in S \cup {NULL}
  /\ b # NULL => a < b
  /\ \A x \in S : a < x => b # NULL /\ b <= x

IsPrev(S, a, b) ==
  /\ b \in S \cup {NULL}
  /\ b < a
  /\ \A x \in S : x < a => x <= b

(* The list at head has the nodes S, and all links but those of a are set. *)
LinkedBut(nodes, head, S, a) ==
  /\ S \subseteq Nat \ {NULL}
  /\ IsNext(S, NULL, head)
  /\ \A x \in S \ {a} : /\ x \in DOMAIN nodes
                        /\ IsNext(S, x, nodes[x].next)
                        /\ IsPrev(S, x, nodes[x].prev)

Linked(nodes, head, S) == LinkedBut(nodes, head, S, NULL)

LEMMA LinkedMeans ==
  ASSUME NEW nodes, NEW head, NEW S, Linked(nodes, head, S)
  PROVE  /\ S \subseteq Nat \ {NULL} /\ S \subseteq DOMAIN nodes
         /\ IsNext(S, NULL, head)
         /\ \A x \in S : /\ IsNext(S, x, nodes[x].next)
                         /\ IsPrev(S, x, nodes[x].prev)
<1>1. S \ {NULL} = S
  BY DEF Linked, LinkedBut
<1> QED
  BY <1>1 DEF Linked, LinkedBut

LEMMA LinkedWalk ==
  ASSUME NEW nodes, IsFiniteSet(DOMAIN nodes), NULL \notin DOMAIN nodes,
         NEW head, NEW S, Linked(nodes, head, S)
  PROVE  \E n, s : /\ InOrder(s, n, S)
                           /\ Chain(nodes, head, s, n)
                           /\ Walk(nodes, head) = s
<1>1. /\ S \subseteq Nat \ {NULL} /\ S \subseteq DOMAIN nodes
      /\ IsNext(S, NULL, head)
      /\ \A x \in S : /\ IsNext(S, x, nodes[x].next)
                      /\ IsPrev(S, x, nodes[x].prev)
  BY LinkedMeans
<1>2. IsFiniteSet(S)
  BY <1>1, FS_Subset
<1>3. PICK n, s : InOrder(s, n, S)
  BY <1>1, <1>2, OrderExists
<1>4. /\ s = [k \in 1 .. n |-> s[k]]
      /\ \A k \in 1 .. n : s[k] \in S /\ s[k] \in Nat /\ s[k] # NULL
      /\ \A a \in S : \E k \in 1 .. n : s[k] = a
      /\ \A j, k \in 1 .. n : j < k => s[j] < s[k]
  BY <1>1, <1>3 DEF InOrder
<1>5. head = At(s, n, 1)
  <2>1. CASE n = 0
    <3>1. S = {}
      BY <1>4, <2>1
    <3> QED
      BY <1>1, <2>1, <3>1 DEF At, IsNext
  <2>2. CASE n # 0
    <3>1. 1 \in 1 .. n
      BY <1>3, <2>2 DEF InOrder
    <3>2. s[1] \in S /\ NULL < s[1] /\ \A k \in 1 .. n : s[1] <= s[k]
      BY <1>4, <3>1 DEF NULL
    <3>3. head \in S /\ head <= s[1]
      BY <1>1, <3>2 DEF IsNext
    <3>4. PICK k \in 1 .. n : s[k] = head
      BY <1>4, <3>3
    <3>5. head = s[1]
      BY <1>4, <3>2, <3>3, <3>4
    <3> QED
      BY <3>1, <3>5 DEF At
  <2> QED
    BY <2>1, <2>2
<1>6. \A k \in 1 .. n : nodes[s[k]].next = At(s, n, k + 1)
  <2> TAKE k \in 1 .. n
  <2> DEFINE b == nodes[s[k]].next
  <2>1. s[k] \in S /\ IsNext(S, s[k], b)
    BY <1>1, <1>4
  <2> HIDE DEF b
  <2>2. CASE k = n
    <3>1. \A j \in 1 .. n : ~(s[k] < s[j])
      <4> TAKE j \in 1 .. n
      <4>1. j = k \/ j < k
        BY <2>2
      <4> QED
        BY <1>4, <4>1
    <3>2. b = NULL
      <4>1. ASSUME b \in S, s[k] < b
            PROVE  FALSE
        BY <1>4, <3>1, <4>1
      <4> QED
        BY <2>1, <4>1 DEF IsNext
    <3>3. k + 1 \notin 1 .. n
      BY <2>2
    <3> QED
      BY <3>2, <3>3 DEF At, b
  <2>3. CASE k # n
    <3>1. k + 1 \in 1 .. n /\ k < k + 1
      BY <1>3, <2>3 DEF InOrder
    <3>2. s[k + 1] \in S /\ s[k] < s[k + 1]
      BY <1>4, <3>1
    <3>3. b \in S /\ s[k] < b /\ b <= s[k + 1]
      BY <2>1, <3>2 DEF IsNext
    <3>4. PICK j \in 1 .. n : s[j] = b
      BY <1>4, <3>3
    <3>5. j >= k + 1
      <4>1. j = k \/ j < k \/ j >= k + 1
        OBVIOUS
      <4> QED
        BY <1>4, <3>3, <3>4, <4>1
    <3>6. j = k + 1
      <4>1. j = k + 1 \/ k + 1 < j
        BY <3>5
      <4> QED
        BY <1>4, <3>1, <3>3, <3>4, <4>1
    <3> QED
      BY <3>1, <3>4, <3>6 DEF At, b
  <2> QED
    BY <2>2, <2>3
<1>7. \A k \in 1 .. n : nodes[s[k]].prev = At(s, n, k - 1)
  <2> TAKE k \in 1 .. n
  <2> DEFINE b == nodes[s[k]].prev
  <2>1. s[k] \in S /\ IsPrev(S, s[k], b)
    BY <1>1, <1>4
  <2> HIDE DEF b
  <2>2. CASE k = 1
    <3>1. \A j \in 1 .. n : ~(s[j] < s[k])
      <4> TAKE j \in 1 .. n
      <4>1. j = k \/ k < j
        BY <2>2
      <4> QED
        BY <1>4, <4>1
    <3>2. b = NULL
      <4>1. ASSUME b \in S, b < s[k]
            PROVE  FALSE
        BY <1>4, <3>1, <4>1
      <4> QED
        BY <2>1, <4>1 DEF IsPrev
    <3>3. k - 1 \notin 1 .. n
      BY <2>2
    <3> QED
      BY <3>2, <3>3 DEF At, b
  <2>3. CASE k # 1
    <3>1. k - 1 \in 1 .. n /\ k - 1 < k
      BY <1>3, <2>3 DEF InOrder
    <3>2. s[k - 1] \in S /\ s[k - 1] < s[k] /\ s[k - 1] # NULL /\ s[k - 1] \in Nat
      BY <1>4, <3>1
    <3>3. b \in S /\ b < s[k] /\ s[k - 1] <= b
      BY <2>1, <3>2 DEF IsPrev, NULL
    <3>4. PICK j \in 1 .. n : s[j] = b
      BY <1>4, <3>3
    <3>5. j <= k - 1
      <4>1. j = k \/ k < j \/ j <= k - 1
        OBVIOUS
      <4> QED
        BY <1>4, <3>3, <3>4, <4>1
    <3>6. j = k - 1
      <4>1. j = k - 1 \/ j < k - 1
        BY <3>5
      <4> QED
        BY <1>4, <3>1, <3>3, <3>4, <4>1
    <3> QED
      BY <3>1, <3>4, <3>6 DEF At, b
  <2> QED
    BY <2>2, <2>3
<1>8. Chain(nodes, head, s, n)
  <2>1. \A j, k \in 1 .. n : s[j] = s[k] => j = k
    <3> TAKE j, k \in 1 .. n
    <3>1. j < k \/ k < j \/ j = k
      OBVIOUS
    <3> QED
      BY <1>4, <3>1
  <2>2. \A k \in 1 .. n : s[k] \in DOMAIN nodes
    BY <1>1, <1>4
  <2> QED
    BY <1>3, <1>4, <1>5, <1>6, <1>7, <2>1, <2>2 DEF Chain, InOrder
<1>9. Walk(nodes, head) = s
  BY <1>8, WalkChain
<1> QED
  BY <1>3, <1>8, <1>9

(* Neighbours when an address leaves the set, and when one comes.          *)
LEMMA NextWithout ==
  ASSUME NEW S \in SUBSET Nat, NEW a \in S, NEW x, NEW b, IsNext(S, x, b), b # a
  PROVE  IsNext(S \ {a}, x, b)
  BY DEF IsNext

LEMMA PrevWithout ==
  ASSUME NEW S \in SUBSET Nat, NEW a \in S, NEW x, NEW b, IsPrev(S, x, b), b # a
  PROVE  IsPrev(S \ {a}, x, b)
  BY DEF IsPrev

LEMMA NeighboursMeet ==
  ASSUME NEW S \in SUBSET (Nat \ {NULL}), NEW a \in S, NEW p, NEW q,
         IsPrev(S, a, p), IsNext(S, a, q)
  PROVE  /\ p \in (S \ {a}) \cup {NULL} /\ q \in (S \ {a}) \cup {NULL}
         /\ IsNext(S \ {a}, p, q)
         /\ q # NULL => IsPrev(S \ {a}, q, p)
         /\ IsNext(S, p, a)
         /\ q # NULL => IsPrev(S, q, a)
         /\ \A x \in S \cup {NULL} : IsNext(S, x, a) => x = p
         /\ \A x \in S : IsPrev(S, x, a) => x = q
<1>1. /\ p \in S \cup {NULL} /\ p < a /\ \A x \in S : x < a => x <= p
      /\ q \in S \cup {NULL} /\ (q # NULL => a < q)
      /\ \A x \in S : a < x => q # NULL /\ q <= x
      /\ a \in Nat /\ p \in Nat /\ q \in Nat
  BY DEF IsPrev, IsNext, NULL
<1>2. p \in (S \ {a}) \cup {NULL} /\ q \in (S \ {a}) \cup {NULL}
  BY <1>1
<1>3. \A x \in S : x <= p \/ x = a \/ (q # NULL /\ q <= x)
  BY <1>1
<1>4. IsNext(S \ {a}, p, q)
  BY <1>1, <1>2, <1>3 DEF IsNext
<1>5. q # NULL => IsPrev(S \ {a}, q, p)
  BY <1>1, <1>2, <1>3 DEF IsPrev
<1>6. IsNext(S, p, a)
  BY <1>1 DEF IsNext, NULL
<1>7. q # NULL => IsPrev(S, q, a)
  BY <1>1 DEF IsPrev
<1>8. \A x \in S \cup {NULL} : IsNext(S, x, a) => x = p
  BY <1>1 DEF IsNext, NULL
<1>9. \A x \in S : IsPrev(S, x, a) => x = q
  BY <1>1 DEF IsPrev, NULL
<1> QED
  BY <1>2, <1>4, <1>5, <1>6, <1>7, <1>8, <1>9

------------------------------------------------------------------------------
(* Memory, and what writing a header or a field of one does to it.         *)

Addr == Nat \ {NULL}

IsHeader(h) ==
  h = [data_size |-> h.data_size, prev |-> h.prev, next |-> h.next, end |-> h.end]

IsZone(h) ==
  h = [end |-> h.end, type |-> h.type, blocks_num |-> h.blocks_num,
       total_space |-> h.total_space, remaining_space |-> h.remaining_space,
       max_free_space_size |-> h.max_free_space_size, blocks |-> h.blocks,
       empty_spaces |-> h.empty_spaces, prev |-> h.prev, next |-> h.next]

MemOK(m) ==
  /\ m = [g_zones |-> m.g_zones, zone |-> m.zone, hdr |-> m.hdr,
          bytes |-> m.bytes, mapped |-> m.mapped]
  /\ IsFiniteSet(DOMAIN m.hdr) /\ DOMAIN m.hdr \subseteq Addr
  /\ \A a \in DOMAIN m.hdr : IsHeader(m.hdr[a])
  /\ IsFiniteSet(DOMAIN m.zone) /\ DOMAIN m.zone \subseteq Addr
  /\ \A z \in DOMAIN m.zone : IsZone(m.zone[z])
  /\ DOMAIN m.bytes \subseteq Nat

(* What no call changes in the header of a zone that stays.                *)
SameZone(h, k) == /\ k.end = h.end /\ k.type = h.type
                  /\ k.total_space = h.total_space
                  /\ k.prev = h.prev /\ k.next = h.next

(* n is m after work on zone z that wrote, and forgot, no headers of       *)
(* chunks but those at W.                                                  *)
OffHeaders(W, x) == \A w \in W : x < w \/ w + HEADER_SIZE <= x

Touches(m, n, z, W) ==
  /\ MemOK(n)
  /\ n.g_zones = m.g_zones /\ n.mapped = m.mapped
  /\ DOMAIN n.zone = DOMAIN m.zone
  /\ SameZone(m.zone[z], n.zone[z])
  /\ \A y \in DOMAIN m.zone : y # z => n.zone[y] = m.zone[y]
  /\ \A a \in DOMAIN m.hdr : a \notin W => a \in DOMAIN n.hdr /\ n.hdr[a] = m.hdr[a]
  /\ \A x \in DOMAIN m.bytes :
       OffHeaders(W, x) => x \in DOMAIN n.bytes /\ n.bytes[x] = m.bytes[x]

LEMMA TouchesMore ==
  ASSUME NEW m, NEW n, NEW z, NEW V, NEW W, Touches(m, n, z, V), V \subseteq W
  PROVE  Touches(m, n, z, W)
<1>1. \A x : OffHeaders(W, x) => OffHeaders(V, x)
  BY DEF OffHeaders
<1> QED
  BY <1>1 DEF Touches

LEMMA TouchesNone ==
  ASSUME NEW m, MemOK(m), NEW z
  PROVE  Touches(m, m, z, {})
  BY DEF Touches, SameZone

LEMMA TouchesTwice ==
  ASSUME NEW m, NEW n, NEW o, NEW z, NEW W,
         Touches(m, n, z, W), Touches(n, o, z, W)
  PROVE  Touches(m, o, z, W)
<1>1. /\ MemOK(o) /\ o.g_zones = m.g_zones /\ o.mapped = m.mapped
      /\ DOMAIN o.zone = DOMAIN m.zone
      /\ SameZone(m.zone[z], o.zone[z])
  BY DEF Touches, SameZone
<1>2. \A y \in DOMAIN m.zone : y # z => o.zone[y] = m.zone[y]
  BY DEF Touches
<1>3. \A a \in DOMAIN m.hdr : a \notin W => a \in DOMAIN o.hdr /\ o.hdr[a] = m.hdr[a]
  BY DEF Touches
<1>4. \A x \in DOMAIN m.bytes :
        OffHeaders(W, x) => x \in DOMAIN o.bytes /\ o.bytes[x] = m.bytes[x]
  BY DEF Touches
<1> QED
  BY <1>1, <1>2, <1>3, <1>4 DEF Touches

LEMMA HeaderIs ==
  ASSUME NEW a, NEW d
  PROVE  /\ IsHeader(Header(a, d)) /\ Header(a, d).data_size = d
         /\ Header(a, d).end = a + HEADER_SIZE + d
         /\ Header(a, d).prev = NULL /\ Header(a, d).next = NULL
  BY DEF Header, IsHeader

(* n is m with the header h at a.                                          *)
Wrote(m, n, a, h) ==
  /\ n.zone = m.zone
  /\ DOMAIN n.hdr = DOMAIN m.hdr \cup {a}
  /\ n.hdr[a] = h
  /\ \A x \in DOMAIN m.hdr : x # a => n.hdr[x] = m.hdr[x]

LEMMA RecordWrite ==
  ASSUME NEW m, m = [g_zones |-> m.g_zones, zone |-> m.zone, hdr |-> m.hdr,
                     bytes |-> m.bytes, mapped |-> m.mapped],
         NEW H, NEW B
  PROVE  [m EXCEPT !.hdr = H, !.bytes = B]
           = [g_zones |-> m.g_zones, zone |-> m.zone, hdr |-> H, bytes |-> B,
              mapped |-> m.mapped]
<1>1. [m EXCEPT !.hdr = H]
        = [g_zones |-> m.g_zones, zone |-> m.zone, hdr |-> H, bytes |-> m.bytes,
           mapped |-> m.mapped]
  OBVIOUS
<1> DEFINE o == [m EXCEPT !.hdr = H]
<1>2. [m EXCEPT !.hdr = H, !.bytes = B] = [o EXCEPT !.bytes = B]
  OBVIOUS
<1> HIDE DEF o
<1>3. o = [g_zones |-> m.g_zones, zone |-> m.zone, hdr |-> H, bytes |-> m.bytes,
           mapped |-> m.mapped]
  BY <1>1 DEF o
<1> QED
  BY <1>2, <1>3

LEMMA PutGives ==
  ASSUME NEW m, MemOK(m), NEW a \in Addr, NEW h, IsHeader(h),
         NEW n, n = Put(m, a, h)
  PROVE  Wrote(m, n, a, h) /\ \A z : Touches(m, n, z, {a})
<1>1. /\ n = [g_zones |-> m.g_zones, zone |-> m.zone, hdr |-> Store(m.hdr, a, h),
              bytes |-> Without(m.bytes, a, HEADER_SIZE), mapped |-> m.mapped]
  <2>1. n = [m EXCEPT !.hdr = Store(m.hdr, a, h),
                      !.bytes = Without(m.bytes, a, HEADER_SIZE)]
    BY DEF Put
  <2> QED
    BY <2>1, RecordWrite DEF MemOK
<1>2. /\ n.g_zones = m.g_zones /\ n.zone = m.zone /\ n.mapped = m.mapped
      /\ n.hdr = Store(m.hdr, a, h) /\ n.bytes = Without(m.bytes, a, HEADER_SIZE)
      /\ n = [g_zones |-> n.g_zones, zone |-> n.zone, hdr |-> n.hdr,
              bytes |-> n.bytes, mapped |-> n.mapped]
  BY <1>1
<1>3. /\ DOMAIN n.hdr = DOMAIN m.hdr \cup {a} /\ n.hdr[a] = h
      /\ \A x \in DOMAIN m.hdr : x # a => n.hdr[x] = m.hdr[x]
  BY <1>2 DEF Store
<1>4. IsFiniteSet(DOMAIN n.hdr)
  BY <1>3, FS_AddElement DEF MemOK
<1>5. MemOK(n)
  BY <1>2, <1>3, <1>4 DEF MemOK, Without
<1>6. \A x \in DOMAIN m.bytes :
        OffHeaders({a}, x) => x \in DOMAIN n.bytes /\ n.bytes[x] = m.bytes[x]
  <2> TAKE x \in DOMAIN m.bytes
  <2> HAVE OffHeaders({a}, x)
  <2>1. x \notin a .. a + HEADER_SIZE - 1
    BY SizesAssumption DEF OffHeaders, Addr
  <2> QED
    BY <1>2, <2>1 DEF Without
<1>7. \A z : Touches(m, n, z, {a})
  BY <1>2, <1>3, <1>5, <1>6 DEF Touches, SameZone
<1> QED
  BY <1>2, <1>3, <1>7 DEF Wrote

(* All a list operation leaves alone in the headers of chunks and of the   *)
(* zone, but for one link of the node a.                                   *)
SameSizes(m, n) ==
  /\ DOMAIN n.hdr = DOMAIN m.hdr
  /\ \A x \in DOMAIN m.hdr : /\ n.hdr[x].data_size = m.hdr[x].data_size
                             /\ n.hdr[x].end = m.hdr[x].end

SameCounts(h, k) == /\ k.blocks_num = h.blocks_num
                    /\ k.remaining_space = h.remaining_space
                    /\ k.max_free_space_size = h.max_free_space_size

Lists == {"blocks", "empty_spaces"}

(* n is m after a's next pointer, or the head of the list, became b.       *)
LinkedNext(m, n, z, list, a, b) ==
  /\ SameCounts(m.zone[z], n.zone[z])
  /\ SameSizes(m, n)
  /\ \A x \in DOMAIN m.hdr : /\ n.hdr[x].prev = m.hdr[x].prev
                             /\ x # a => n.hdr[x] = m.hdr[x]
                             /\ x = a => n.hdr[x].next = b
  /\ n.zone[z][list] = IF a = NULL THEN b ELSE m.zone[z][list]
  /\ \A l \in Lists : l # list => n.zone[z][l] = m.zone[z][l]

(* And after a's prev pointer, if there is an a, became p.                 *)
LinkedPrev(m, n, a, p) ==
  /\ n.zone = m.zone
  /\ SameSizes(m, n)
  /\ \A x \in DOMAIN m.hdr : /\ n.hdr[x].next = m.hdr[x].next
                             /\ x # a => n.hdr[x] = m.hdr[x]
                             /\ x = a => n.hdr[x].prev = p

LEMMA SetHeadGives ==
  ASSUME NEW m, MemOK(m), NEW z \in DOMAIN m.zone, NEW list \in Lists, NEW b,
         NEW n, n = [m EXCEPT !.zone[z][list] = b]
  PROVE  Touches(m, n, z, {}) /\ LinkedNext(m, n, z, list, NULL, b)
<1> DEFINE h == m.zone[z]
           k == [h EXCEPT ![list] = b]
<1>1. n = [g_zones |-> m.g_zones, zone |-> [m.zone EXCEPT ![z] = k], hdr |-> m.hdr,
           bytes |-> m.bytes, mapped |-> m.mapped]
  BY DEF MemOK
<1>2. /\ n.g_zones = m.g_zones /\ n.mapped = m.mapped
      /\ n.hdr = m.hdr /\ n.bytes = m.bytes
      /\ DOMAIN n.zone = DOMAIN m.zone /\ n.zone[z] = k
      /\ \A y \in DOMAIN m.zone : y # z => n.zone[y] = m.zone[y]
      /\ n = [g_zones |-> n.g_zones, zone |-> n.zone, hdr |-> n.hdr,
              bytes |-> n.bytes, mapped |-> n.mapped]
  BY <1>1
<1>3. IsZone(h)
  BY DEF MemOK
<1>4. /\ IsZone(k) /\ SameZone(h, k) /\ SameCounts(h, k)
      /\ k[list] = b /\ \A l \in Lists : l # list => k[l] = h[l]
  <2> HIDE DEF h
  <2>1. k = [end |-> h.end, type |-> h.type, blocks_num |-> h.blocks_num,
             total_space |-> h.total_space, remaining_space |-> h.remaining_space,
             max_free_space_size |-> h.max_free_space_size,
             blocks |-> IF list = "blocks" THEN b ELSE h.blocks,
             empty_spaces |-> IF list = "blocks" THEN h.empty_spaces ELSE b,
             prev |-> h.prev, next |-> h.next]
    <3>1. CASE list = "blocks"
      <4>1. k = [h EXCEPT !.blocks = b]
        BY <3>1
      <4> HIDE DEF k
      <4> QED
        BY <1>3, <3>1, <4>1 DEF IsZone
    <3>2. CASE list = "empty_spaces"
      <4>1. k = [h EXCEPT !.empty_spaces = b]
        BY <3>2
      <4> HIDE DEF k
      <4> QED
        BY <1>3, <3>2, <4>1 DEF IsZone
    <3> QED
      BY <3>1, <3>2 DEF Lists
  <2> HIDE DEF k
  <2>2. /\ k.end = h.end /\ k.type = h.type /\ k.total_space = h.total_space
        /\ k.prev = h.prev /\ k.next = h.next
        /\ k.blocks_num = h.blocks_num /\ k.remaining_space = h.remaining_space
        /\ k.max_free_space_size = h.max_free_space_size
        /\ k.blocks = (IF list = "blocks" THEN b ELSE h.blocks)
        /\ k.empty_spaces = (IF list = "blocks" THEN h.empty_spaces ELSE b)
    BY <2>1
  <2>3. IsZone(k)
    BY <2>1, <2>2 DEF IsZone
  <2>4. k[list] = b /\ \A l \in Lists : l # list => k[l] = h[l]
    BY <2>2 DEF Lists
  <2> QED
    BY <2>2, <2>3, <2>4 DEF SameZone, SameCounts
<1> HIDE DEF k
<1>5. MemOK(n)
  BY <1>2, <1>4 DEF MemOK
<1>6. Touches(m, n, z, {})
  BY <1>2, <1>4, <1>5 DEF Touches, OffHeaders
<1>7. NULL \notin DOMAIN m.hdr
  BY DEF MemOK, Addr
<1> QED
  BY <1>2, <1>4, <1>6, <1>7 DEF LinkedNext, SameSizes

LEMMA SetNextGives ==
  ASSUME NEW m, MemOK(m), NEW z \in DOMAIN m.zone, NEW list \in Lists,
         NEW a \in DOMAIN m.hdr \cup {NULL}, NEW b,
         NEW n, n = SetNext(m, z, list, a, b)
  PROVE  Touches(m, n, z, {a} \ {NULL}) /\ LinkedNext(m, n, z, list, a, b)
<1>1. CASE a = NULL
  <2>1. n = [m EXCEPT !.zone[z][list] = b]
    BY <1>1 DEF SetNext
  <2>2. Touches(m, n, z, {}) /\ LinkedNext(m, n, z, list, NULL, b)
    BY <2>1, SetHeadGives
  <2>3. {a} \ {NULL} = {}
    BY <1>1
  <2> QED
    BY <1>1, <2>2, <2>3
<1>2. CASE a # NULL
  <2> DEFINE h == [m.hdr[a] EXCEPT !.next = b]
  <2>1. a \in DOMAIN m.hdr /\ a \in Addr /\ IsHeader(m.hdr[a])
    BY <1>2 DEF MemOK
  <2>2. /\ IsHeader(h) /\ h.next = b /\ h.prev = m.hdr[a].prev
        /\ h.data_size = m.hdr[a].data_size /\ h.end = m.hdr[a].end
    BY <2>1 DEF IsHeader
  <2>3. n = Put(m, a, h)
    BY <1>2 DEF SetNext
  <2> HIDE DEF h
  <2>4. Wrote(m, n, a, h) /\ Touches(m, n, z, {a})
    BY <2>1, <2>2, <2>3, PutGives
  <2>5. {a} \ {NULL} = {a} /\ DOMAIN m.hdr \cup {a} = DOMAIN m.hdr
    BY <1>2, <2>1
  <2>6. LinkedNext(m, n, z, list, a, b)
    BY <1>2, <2>2, <2>4, <2>5 DEF Wrote, LinkedNext, SameSizes, SameCounts
  <2> QED
    BY <2>4, <2>5, <2>6
<1> QED
  BY <1>1, <1>2

LEMMA SetPrevGives ==
  ASSUME NEW m, MemOK(m), NEW a \in DOMAIN m.hdr \cup {NULL}, NEW p,
         NEW n, n = SetPrev(m, a, p)
  PROVE  LinkedPrev(m, n, a, p) /\ \A z : Touches(m, n, z, {a} \ {NULL})
<1>1. CASE a = NULL
  <2>1. n = m
    BY <1>1 DEF SetPrev
  <2>2. {a} \ {NULL} = {} /\ NULL \notin DOMAIN m.hdr
    BY <1>1 DEF MemOK, Addr
  <2>3. \A z : Touches(m, m, z, {})
    BY TouchesNone
  <2>4. LinkedPrev(m, n, a, p)
    BY <1>1, <2>1, <2>2 DEF LinkedPrev, SameSizes
  <2> QED
    BY <1>1, <2>1, <2>2, <2>3, <2>4
<1>2. CASE a # NULL
  <2> DEFINE h == [m.hdr[a] EXCEPT !.prev = p]
  <2>1. a \in DOMAIN m.hdr /\ a \in Addr /\ IsHeader(m.hdr[a])
    BY <1>2 DEF MemOK
  <2>2. /\ IsHeader(h) /\ h.prev = p /\ h.next = m.hdr[a].next
        /\ h.data_size = m.hdr[a].data_size /\ h.end = m.hdr[a].end
    BY <2>1 DEF IsHeader
  <2>3. n = Put(m, a, h)
    BY <1>2 DEF SetPrev
  <2> HIDE DEF h
  <2>4. Wrote(m, n, a, h)
    BY <2>1, <2>2, <2>3, PutGives
  <2>5. {a} \ {NULL} = {a} /\ DOMAIN m.hdr \cup {a} = DOMAIN m.hdr
    BY <1>2, <2>1
  <2>6. LinkedPrev(m, n, a, p)
    BY <1>2, <2>2, <2>4, <2>5 DEF Wrote, LinkedPrev, SameSizes
  <2>7. \A z : Touches(m, n, z, {a})
    BY <2>1, <2>2, <2>3, PutGives
  <2> QED
    BY <2>5, <2>6, <2>7
<1> QED
  BY <1>1, <1>2

(* n is m without the header at a.                                         *)
Forgot(m, n, a) ==
  /\ n.zone = m.zone
  /\ DOMAIN n.hdr = DOMAIN m.hdr \ {a}
  /\ \A x \in DOMAIN m.hdr : x # a => n.hdr[x] = m.hdr[x]

LEMMA ForgetGives ==
  ASSUME NEW m, MemOK(m), NEW a \in Addr, NEW n, n = Forget(m, a)
  PROVE  Forgot(m, n, a) /\ \A z : Touches(m, n, z, {a})
<1>1. n = [g_zones |-> m.g_zones, zone |-> m.zone, hdr |-> Without(m.hdr, a, 1),
           bytes |-> m.bytes, mapped |-> m.mapped]
  BY DEF MemOK, Forget
<1>2. /\ n.g_zones = m.g_zones /\ n.zone = m.zone /\ n.mapped = m.mapped
      /\ n.hdr = Without(m.hdr, a, 1) /\ n.bytes = m.bytes
      /\ n = [g_zones |-> n.g_zones, zone |-> n.zone, hdr |-> n.hdr,
              bytes |-> n.bytes, mapped |-> n.mapped]
  BY <1>1
<1>3. a .. a + 1 - 1 = {a}
  BY DEF Addr
<1>4. /\ DOMAIN n.hdr = DOMAIN m.hdr \ {a}
      /\ \A x \in DOMAIN m.hdr : x # a => n.hdr[x] = m.hdr[x]
  BY <1>2, <1>3 DEF Without
<1>5. IsFiniteSet(DOMAIN n.hdr)
  BY <1>4, FS_RemoveElement DEF MemOK
<1>6. MemOK(n)
  BY <1>2, <1>4, <1>5 DEF MemOK
<1>7. \A z : Touches(m, n, z, {a})
  BY <1>2, <1>4, <1>6 DEF Touches, SameZone
<1> QED
  BY <1>2, <1>4, <1>7 DEF Forgot

(* Counters and the statistic: nothing else changes.                       *)
HasCounted(m, n, z, d, s) ==
  /\ n.hdr = m.hdr
  /\ \A l \in Lists : n.zone[z][l] = m.zone[z][l]
  /\ n.zone[z].blocks_num = m.zone[z].blocks_num + d
  /\ n.zone[z].remaining_space = m.zone[z].remaining_space + s
  /\ n.zone[z].max_free_space_size = m.zone[z].max_free_space_size

HasStats(m, n, z) ==
  /\ n.hdr = m.hdr
  /\ \A l \in Lists : n.zone[z][l] = m.zone[z][l]
  /\ n.zone[z].blocks_num = m.zone[z].blocks_num
  /\ n.zone[z].remaining_space = m.zone[z].remaining_space
  /\ n.zone[z].max_free_space_size =
       IF m.zone[z].empty_spaces = NULL
       THEN m.zone[z].max_free_space_size
       ELSE Max({m.hdr[e].data_size : e \in ToSet(EmptySpaces(m, z))})

LEMMA CountGives ==
  ASSUME NEW m, MemOK(m), NEW z \in DOMAIN m.zone, NEW d, NEW s,
         NEW n, n = Count(m, z, d, s)
  PROVE  Touches(m, n, z, {}) /\ HasCounted(m, n, z, d, s)
<1> DEFINE h == m.zone[z]
           k == [h EXCEPT !.blocks_num = h.blocks_num + d,
                          !.remaining_space = h.remaining_space + s]
           o == [m EXCEPT !.zone[z].blocks_num = @ + d]
           i == [h EXCEPT !.blocks_num = h.blocks_num + d]
<1>0. IsZone(h)
  BY DEF MemOK
<1>1. o = [g_zones |-> m.g_zones, zone |-> [m.zone EXCEPT ![z] = i], hdr |-> m.hdr,
           bytes |-> m.bytes, mapped |-> m.mapped]
  BY DEF MemOK
<1>2. n = [o EXCEPT !.zone[z].remaining_space = @ + s]
  BY DEF Count
<1>3. n = [g_zones |-> m.g_zones,
           zone |-> [o.zone EXCEPT ![z] = [o.zone[z] EXCEPT
                       !.remaining_space = o.zone[z].remaining_space + s]],
           hdr |-> m.hdr, bytes |-> m.bytes, mapped |-> m.mapped]
  <2> HIDE DEF o
  <2> QED
    BY <1>1, <1>2
<1>4. /\ o.zone = [m.zone EXCEPT ![z] = i] /\ o.zone[z] = i
      /\ i.remaining_space = h.remaining_space
  <2>1. o.zone = [m.zone EXCEPT ![z] = i]
    <3> HIDE DEF o
    <3> QED
      BY <1>1
  <2>2. i.remaining_space = h.remaining_space
    <3> HIDE DEF h
    <3> QED
      BY <1>0 DEF IsZone
  <2> HIDE DEF o, i
  <2> QED
    BY <2>1, <2>2
<1>5. k = [i EXCEPT !.remaining_space = i.remaining_space + s]
  <2> HIDE DEF h
  <2> QED
    BY <1>0, <1>4 DEF IsZone
<1>6. /\ n.g_zones = m.g_zones /\ n.mapped = m.mapped
      /\ n.hdr = m.hdr /\ n.bytes = m.bytes
      /\ DOMAIN n.zone = DOMAIN m.zone /\ n.zone[z] = k
      /\ \A y \in DOMAIN m.zone : y # z => n.zone[y] = m.zone[y]
      /\ n = [g_zones |-> n.g_zones, zone |-> n.zone, hdr |-> n.hdr,
              bytes |-> n.bytes, mapped |-> n.mapped]
  <2> HIDE DEF o, k, i, h
  <2> QED
    BY <1>3, <1>4, <1>5
<1>7. /\ IsZone(k) /\ SameZone(h, k)
      /\ k.blocks = h.blocks /\ k.empty_spaces = h.empty_spaces
      /\ k.blocks_num = h.blocks_num + d
      /\ k.remaining_space = h.remaining_space + s
      /\ k.max_free_space_size = h.max_free_space_size
  <2> HIDE DEF h
  <2>1. k = [end |-> h.end, type |-> h.type, blocks_num |-> h.blocks_num + d,
             total_space |-> h.total_space, remaining_space |-> h.remaining_space + s,
             max_free_space_size |-> h.max_free_space_size,
             blocks |-> h.blocks, empty_spaces |-> h.empty_spaces,
             prev |-> h.prev, next |-> h.next]
    <3>1. i = [end |-> h.end, type |-> h.type, blocks_num |-> h.blocks_num + d,
               total_space |-> h.total_space, remaining_space |-> h.remaining_space,
               max_free_space_size |-> h.max_free_space_size,
               blocks |-> h.blocks, empty_spaces |-> h.empty_spaces,
               prev |-> h.prev, next |-> h.next]
      BY <1>0 DEF IsZone
    <3> HIDE DEF i, k
    <3> QED
      BY <1>4, <1>5, <3>1
  <2> HIDE DEF k
  <2>2. /\ k.end = h.end /\ k.type = h.type /\ k.total_space = h.total_space
        /\ k.prev = h.prev /\ k.next = h.next
        /\ k.blocks_num = h.blocks_num + d
        /\ k.remaining_space = h.remaining_space + s
        /\ k.max_free_space_size = h.max_free_space_size
        /\ k.blocks = h.blocks /\ k.empty_spaces = h.empty_spaces
    BY <2>1
  <2>3. IsZone(k)
    BY <2>1, <2>2 DEF IsZone
  <2> QED
    BY <2>2, <2>3 DEF SameZone
<1> HIDE DEF k, i, o
<1>8. MemOK(n)
  BY <1>6, <1>7 DEF MemOK
<1>9. Touches(m, n, z, {})
  BY <1>6, <1>7, <1>8 DEF Touches, OffHeaders
<1>10. \A l \in Lists : n.zone[z][l] = m.zone[z][l]
  BY <1>6, <1>7 DEF Lists
<1> QED
  BY <1>6, <1>7, <1>9, <1>10 DEF HasCounted

LEMMA StatsGives ==
  ASSUME NEW m, MemOK(m), NEW z \in DOMAIN m.zone,
         NEW n, n = update_empty_stats(m, z)
  PROVE  Touches(m, n, z, {}) /\ HasStats(m, n, z)
<1> DEFINE h == m.zone[z]
<1>1. CASE h.empty_spaces = NULL
  <2>1. n = m
    BY <1>1 DEF update_empty_stats
  <2> QED
    BY <1>1, <2>1, TouchesNone DEF HasStats
<1>2. CASE h.empty_spaces # NULL
  <2> DEFINE s == Max({m.hdr[e].data_size : e \in ToSet(EmptySpaces(m, z))})
             k == [h EXCEPT !.max_free_space_size = s]
  <2>1. n = [m EXCEPT !.zone[z].max_free_space_size = s]
    BY <1>2 DEF update_empty_stats
  <2> HIDE DEF s
  <2>2. n = [g_zones |-> m.g_zones, zone |-> [m.zone EXCEPT ![z] = k], hdr |-> m.hdr,
             bytes |-> m.bytes, mapped |-> m.mapped]
    BY <2>1 DEF MemOK
  <2>3. /\ n.g_zones = m.g_zones /\ n.mapped = m.mapped
        /\ n.hdr = m.hdr /\ n.bytes = m.bytes
        /\ DOMAIN n.zone = DOMAIN m.zone /\ n.zone[z] = k
        /\ \A y \in DOMAIN m.zone : y # z => n.zone[y] = m.zone[y]
        /\ n = [g_zones |-> n.g_zones, zone |-> n.zone, hdr |-> n.hdr,
                bytes |-> n.bytes, mapped |-> n.mapped]
    <3> HIDE DEF k
    <3> QED
      BY <2>2
  <2>4. IsZone(h)
    BY DEF MemOK
  <2>5. /\ IsZone(k) /\ SameZone(h, k)
        /\ k.blocks = h.blocks /\ k.empty_spaces = h.empty_spaces
        /\ k.blocks_num = h.blocks_num
        /\ k.remaining_space = h.remaining_space
        /\ k.max_free_space_size = s
    <3> HIDE DEF h
    <3> QED
      BY <2>4 DEF IsZone, SameZone
  <2> HIDE DEF k
  <2>6. MemOK(n)
    BY <2>3, <2>5 DEF MemOK
  <2>7. Touches(m, n, z, {})
    BY <2>3, <2>5, <2>6 DEF Touches, OffHeaders
  <2>8. \A l \in Lists : n.zone[z][l] = m.zone[z][l]
    BY <2>3, <2>5 DEF Lists
  <2> QED
    BY <1>2, <2>3, <2>5, <2>7, <2>8 DEF s, HasStats
<1> QED
  BY <1>1, <1>2

------------------------------------------------------------------------------
(* Removing, replacing and inserting a node.                               *)

(* n is m after the next pointer of p became b and the prev pointer of q   *)
(* became c; in either order of the two writes.                            *)
Rewired(m, n, z, list, p, b, q, c) ==
  /\ DOMAIN n.hdr = DOMAIN m.hdr
  /\ \A x \in DOMAIN m.hdr :
       /\ n.hdr[x].next = IF x = p THEN b ELSE m.hdr[x].next
       /\ n.hdr[x].prev = IF x = q THEN c ELSE m.hdr[x].prev
  /\ n.zone[z][list] = IF p = NULL THEN b ELSE m.zone[z][list]

Spliced(m, n, z, list, p, b, q, c) ==
  /\ Rewired(m, n, z, list, p, b, q, c)
  /\ SameCounts(m.zone[z], n.zone[z])
  /\ SameSizes(m, n)
  /\ \A l \in Lists : l # list => n.zone[z][l] = m.zone[z][l]

LEMMA SpliceNextPrev ==
  ASSUME NEW m, MemOK(m), NEW z \in DOMAIN m.zone, NEW list \in Lists,
         NEW p \in DOMAIN m.hdr \cup {NULL}, NEW q \in DOMAIN m.hdr \cup {NULL},
         NEW b, NEW c,
         NEW n, n = SetPrev(SetNext(m, z, list, p, b), q, c)
  PROVE  /\ Touches(m, n, z, {p, q} \ {NULL})
         /\ Spliced(m, n, z, list, p, b, q, c)
<1> DEFINE k == SetNext(m, z, list, p, b)
<1>1. Touches(m, k, z, {p} \ {NULL}) /\ LinkedNext(m, k, z, list, p, b)
  BY SetNextGives
<1>2. n = SetPrev(k, q, c)
  OBVIOUS
<1> HIDE DEF k
<1>3. MemOK(k) /\ DOMAIN k.hdr = DOMAIN m.hdr
  BY <1>1 DEF Touches, LinkedNext, SameSizes
<1>4. LinkedPrev(k, n, q, c) /\ \A y : Touches(k, n, y, {q} \ {NULL})
  BY <1>2, <1>3, SetPrevGives
<1>5. Touches(m, n, z, {p, q} \ {NULL})
  <2>1. {p} \ {NULL} \subseteq {p, q} \ {NULL} /\ {q} \ {NULL} \subseteq {p, q} \ {NULL}
    OBVIOUS
  <2>2. Touches(m, k, z, {p, q} \ {NULL})
    BY <1>1, <2>1, TouchesMore
  <2>3. Touches(k, n, z, {p, q} \ {NULL})
    BY <1>4, <2>1, TouchesMore
  <2> QED
    BY <2>2, <2>3, TouchesTwice
<1>6. Spliced(m, n, z, list, p, b, q, c)
  BY <1>1, <1>3, <1>4 DEF LinkedNext, LinkedPrev, Spliced, Rewired, SameSizes, SameCounts
<1> QED
  BY <1>5, <1>6

LEMMA SplicePrevNext ==
  ASSUME NEW m, MemOK(m), NEW z \in DOMAIN m.zone, NEW list \in Lists,
         NEW p \in DOMAIN m.hdr \cup {NULL}, NEW q \in DOMAIN m.hdr \cup {NULL},
         NEW b, NEW c,
         NEW n, n = SetNext(SetPrev(m, q, c), z, list, p, b)
  PROVE  /\ Touches(m, n, z, {p, q} \ {NULL})
         /\ Spliced(m, n, z, list, p, b, q, c)
<1> DEFINE k == SetPrev(m, q, c)
<1>1. LinkedPrev(m, k, q, c) /\ \A y : Touches(m, k, y, {q} \ {NULL})
  BY SetPrevGives
<1>2. n = SetNext(k, z, list, p, b)
  OBVIOUS
<1> HIDE DEF k
<1>3. MemOK(k) /\ DOMAIN k.hdr = DOMAIN m.hdr /\ k.zone = m.zone
  BY <1>1 DEF Touches, LinkedPrev, SameSizes
<1>4. Touches(k, n, z, {p} \ {NULL}) /\ LinkedNext(k, n, z, list, p, b)
  BY <1>2, <1>3, SetNextGives
<1>5. Touches(m, n, z, {p, q} \ {NULL})
  <2>1. {p} \ {NULL} \subseteq {p, q} \ {NULL} /\ {q} \ {NULL} \subseteq {p, q} \ {NULL}
    OBVIOUS
  <2>2. Touches(k, n, z, {p, q} \ {NULL})
    BY <1>4, <2>1, TouchesMore
  <2>3. Touches(m, k, z, {p, q} \ {NULL})
    BY <1>1, <2>1, TouchesMore
  <2> QED
    BY <2>2, <2>3, TouchesTwice
<1>6. Spliced(m, n, z, list, p, b, q, c)
  BY <1>1, <1>3, <1>4 DEF LinkedNext, LinkedPrev, Spliced, Rewired, SameSizes, SameCounts
<1> QED
  BY <1>5, <1>6

(* The list at head has the nodes S, and all links are set but the next    *)
(* pointer of p and the prev pointer of q.                                 *)
LinkedOff(nodes, head, S, p, q) ==
  /\ S \subseteq Nat \ {NULL}
  /\ p # NULL => IsNext(S, NULL, head)
  /\ \A x \in S : /\ x \in DOMAIN nodes
                  /\ x # p => IsNext(S, x, nodes[x].next)
                  /\ x # q => IsPrev(S, x, nodes[x].prev)

LEMMA LinkedIsOff ==
  ASSUME NEW nodes, NEW head, NEW S, Linked(nodes, head, S), NEW p, NEW q
  PROVE  LinkedOff(nodes, head, S, p, q)
  BY LinkedMeans DEF LinkedOff

LEMMA LinkedButOff ==
  ASSUME NEW nodes, NEW head, NEW S, NEW a \in S, LinkedBut(nodes, head, S, a),
         NEW p, NEW q, IsPrev(S, a, p), IsNext(S, a, q)
  PROVE  LinkedOff(nodes, head, S \ {a}, p, q)
<1>1. /\ S \in SUBSET (Nat \ {NULL}) /\ S \in SUBSET Nat
      /\ IsNext(S, NULL, head)
      /\ \A x \in S \ {a} : /\ x \in DOMAIN nodes
                            /\ IsNext(S, x, nodes[x].next)
                            /\ IsPrev(S, x, nodes[x].prev)
  BY DEF LinkedBut
<1>2. /\ \A x \in S \cup {NULL} : IsNext(S, x, a) => x = p
      /\ \A x \in S : IsPrev(S, x, a) => x = q
  BY <1>1, NeighboursMeet
<1>3. p # NULL => IsNext(S \ {a}, NULL, head)
  BY <1>1, <1>2, NextWithout
<1>4. ASSUME NEW x \in S \ {a}
      PROVE  /\ x # p => IsNext(S \ {a}, x, nodes[x].next)
             /\ x # q => IsPrev(S \ {a}, x, nodes[x].prev)
  <2>1. x # p => nodes[x].next # a
    BY <1>1, <1>2
  <2>2. x # q => nodes[x].prev # a
    BY <1>1, <1>2
  <2> QED
    BY <1>1, <2>1, <2>2, NextWithout, PrevWithout
<1> QED
  BY <1>1, <1>3, <1>4 DEF LinkedOff

(* The gap is closed.                                                      *)
LEMMA CloseGap ==
  ASSUME NEW m, NEW n, NEW z, NEW list, NEW S, NEW p, NEW q,
         LinkedOff(m.hdr, m.zone[z][list], S, p, q),
         p \in S \cup {NULL}, q \in S \cup {NULL},
         IsNext(S, p, q), q # NULL => IsPrev(S, q, p),
         Rewired(m, n, z, list, p, q, q, p)
  PROVE  Linked(n.hdr, n.zone[z][list], S)
<1>1. IsNext(S, NULL, n.zone[z][list])
  BY DEF Rewired, LinkedOff
<1>2. ASSUME NEW x \in S
      PROVE  /\ x \in DOMAIN n.hdr
             /\ IsNext(S, x, n.hdr[x].next)
             /\ IsPrev(S, x, n.hdr[x].prev)
  <2>1. x # NULL /\ x \in DOMAIN m.hdr
    BY DEF LinkedOff
  <2> QED
    BY <2>1 DEF Rewired, LinkedOff
<1> QED
  BY <1>1, <1>2 DEF Linked, LinkedBut, LinkedOff

(* A node is put into the gap.                                             *)
LEMMA FillGap ==
  ASSUME NEW m, NEW n, NEW z, NEW list, NEW S, NEW p, NEW q,
         LinkedOff(m.hdr, m.zone[z][list], S, p, q),
         NEW new \in Nat \ {NULL}, new \notin S, new \in DOMAIN m.hdr,
         m.hdr[new].prev = p, m.hdr[new].next = q,
         IsPrev(S, new, p), IsNext(S, new, q),
         Rewired(m, n, z, list, p, new, q, new)
  PROVE  Linked(n.hdr, n.zone[z][list], S \cup {new})
<1> DEFINE T == S \cup {new}
<1>1. /\ S \subseteq Nat \ {NULL} /\ S \subseteq Nat /\ NULL < new
      /\ p \in S \cup {NULL} /\ p < new /\ \A x \in S : x < new => x <= p
      /\ q \in S \cup {NULL} /\ (q # NULL => new < q)
      /\ \A x \in S : new < x => q # NULL /\ q <= x
  BY DEF LinkedOff, IsPrev, IsNext, NULL
<1>2. T \subseteq Nat \ {NULL} /\ T \ {NULL} = T
  BY <1>1
<1>3. IsNext(T, p, new) /\ IsPrev(T, new, p) /\ IsNext(T, new, q)
  BY <1>1 DEF IsPrev, IsNext, NULL
<1>4. q # NULL => IsPrev(T, q, new)
  <2> SUFFICES ASSUME q # NULL
               PROVE  IsPrev(T, q, new)
    OBVIOUS
  <2>1. q \in S /\ q \in Nat /\ new < q
    BY <1>1
  <2>2. \A x \in T : x < q => x <= new
    <3> TAKE x \in T
    <3>1. x \in Nat /\ new \in Nat
      BY <1>1
    <3>2. x = new \/ x < new \/ new < x
      BY <3>1
    <3>3. CASE x \in S
      BY <1>1, <2>1, <3>1, <3>2, <3>3
    <3>4. CASE x = new
      BY <3>1, <3>4
    <3> QED
      BY <3>3, <3>4
  <2> QED
    BY <2>1, <2>2 DEF IsPrev
<1>5. ASSUME NEW x \in S \cup {NULL}, x # p, NEW b, IsNext(S, x, b)
      PROVE  IsNext(T, x, b)
  <2>1. x < new => x < p
    BY <1>1, <1>5 DEF NULL
  <2>2. x < new => p \in S /\ b # NULL /\ b <= p
    BY <1>1, <1>5, <2>1 DEF IsNext, NULL
  <2>3. b \in T \cup {NULL} /\ (b # NULL => x < b)
    BY <1>5 DEF IsNext
  <2>4. \A y \in T : x < y => b # NULL /\ b <= y
    <3> TAKE y \in T
    <3>1. CASE y \in S
      BY <1>5, <3>1 DEF IsNext
    <3>2. CASE y = new
      <4>1. ASSUME x < new
            PROVE  b # NULL /\ b <= new
        <5>1. b \in Nat /\ p \in Nat
          BY <1>1, <2>2, <2>3, <4>1 DEF NULL
        <5> QED
          BY <1>1, <2>2, <4>1, <5>1
      <4> QED
        BY <3>2, <4>1
    <3> QED
      BY <3>1, <3>2
  <2> QED
    BY <2>3, <2>4 DEF IsNext
<1>6. ASSUME NEW x \in S, x # q, NEW b, IsPrev(S, x, b)
      PROVE  IsPrev(T, x, b)
  <2>1. b \in T \cup {NULL} /\ b < x
    BY <1>6 DEF IsPrev
  <2>2. new < x => q \in S /\ q <= b
    <3>0. new < x => q # NULL /\ q <= x
      BY <1>1, <1>6
    <3>1. new < x => q # NULL /\ q < x
      BY <1>1, <1>6, <3>0
    <3> QED
      BY <1>1, <1>6, <3>1 DEF IsPrev
  <2>3. \A y \in T : y < x => y <= b
    <3> TAKE y \in T
    <3>1. CASE y \in S
      BY <1>6, <3>1 DEF IsPrev
    <3>2. CASE y = new
      <4>1. ASSUME new < x
            PROVE  new <= b
        <5>1. b \in Nat /\ q \in Nat /\ q # NULL
          BY <1>1, <2>2, <2>1, <4>1 DEF NULL
        <5> QED
          BY <1>1, <2>2, <4>1, <5>1
      <4> QED
        BY <3>2, <4>1
    <3> QED
      BY <3>1, <3>2
  <2> QED
    BY <2>1, <2>3 DEF IsPrev
<1>7. new # p /\ new # q
  BY <1>1
<1> HIDE DEF T
<1>8. IsNext(T, NULL, n.zone[z][list])
  <2>1. CASE p = NULL
    BY <1>3, <2>1 DEF Rewired
  <2>2. CASE p # NULL
    BY <1>5, <2>2 DEF Rewired, LinkedOff
  <2> QED
    BY <2>1, <2>2
<1>9. ASSUME NEW x \in T
      PROVE  /\ x \in DOMAIN n.hdr
             /\ IsNext(T, x, n.hdr[x].next)
             /\ IsPrev(T, x, n.hdr[x].prev)
  <2>1. CASE x = new
    BY <1>3, <1>7, <2>1 DEF Rewired
  <2>2. CASE x # new
    <3>1. /\ x \in S /\ x # NULL /\ x \in DOMAIN m.hdr /\ x \in DOMAIN n.hdr
          /\ n.hdr[x].next = IF x = p THEN new ELSE m.hdr[x].next
          /\ n.hdr[x].prev = IF x = q THEN new ELSE m.hdr[x].prev
          /\ x # p => IsNext(S, x, m.hdr[x].next)
          /\ x # q => IsPrev(S, x, m.hdr[x].prev)
      BY <1>1, <2>2 DEF Rewired, LinkedOff, T
    <3>2. IsNext(T, x, n.hdr[x].next)
      BY <1>3, <1>5, <3>1
    <3>3. IsPrev(T, x, n.hdr[x].prev)
      BY <1>4, <1>6, <3>1
    <3> QED
      BY <3>1, <3>2, <3>3
  <2> QED
    BY <2>1, <2>2
<1>10. Linked(n.hdr, n.zone[z][list], T)
  BY <1>2, <1>8, <1>9 DEF Linked, LinkedBut
<1> QED
  BY <1>10 DEF T

(* What the three operations leave alone.                                  *)
Relinked(m, n, z, list) ==
  /\ SameCounts(m.zone[z], n.zone[z])
  /\ SameSizes(m, n)
  /\ \A l \in Lists : l # list => n.zone[z][l] = m.zone[z][l]

(* The nodes of the list are S now.                                        *)
Relists(m, n, z, list, S) ==
  /\ Linked(n.hdr, n.zone[z][list], S)
  /\ Touches(m, n, z, S)
  /\ Relinked(m, n, z, list)

LEMMA RemoveGives ==
  ASSUME NEW m, MemOK(m), NEW z \in DOMAIN m.zone, NEW list \in Lists,
         NEW S, NEW a \in S, LinkedBut(m.hdr, m.zone[z][list], S, a),
         NEW old, IsPrev(S, a, old.prev), IsNext(S, a, old.next),
         NEW n, n = remove_block(m, z, list, old)
  PROVE  /\ Linked(n.hdr, n.zone[z][list], S \ {a})
         /\ Touches(m, n, z, S \ {a})
         /\ Relinked(m, n, z, list)
<1> DEFINE p == old.prev
           q == old.next
           T == S \ {a}
<1>1. LinkedOff(m.hdr, m.zone[z][list], T, p, q)
  BY LinkedButOff
<1>2. n = SetPrev(SetNext(m, z, list, p, q), q, p)
  BY DEF remove_block
<1>3. S \in SUBSET (Nat \ {NULL})
  BY DEF LinkedBut
<1>4. IsPrev(S, a, p) /\ IsNext(S, a, q)
  OBVIOUS
<1> HIDE DEF p, q, T
<1>5. /\ p \in T \cup {NULL} /\ q \in T \cup {NULL}
      /\ IsNext(T, p, q) /\ (q # NULL => IsPrev(T, q, p))
  BY <1>3, <1>4, NeighboursMeet DEF T
<1>6. T \subseteq DOMAIN m.hdr
  BY <1>1 DEF LinkedOff
<1>7. p \in DOMAIN m.hdr \cup {NULL} /\ q \in DOMAIN m.hdr \cup {NULL}
  BY <1>5, <1>6
<1>8. /\ Touches(m, n, z, {p, q} \ {NULL})
      /\ Spliced(m, n, z, list, p, q, q, p)
  BY <1>2, <1>7, SpliceNextPrev
<1>9. Linked(n.hdr, n.zone[z][list], T)
  <2>1. Rewired(m, n, z, list, p, q, q, p)
    BY <1>8 DEF Spliced
  <2> QED
    BY <1>1, <1>5, <2>1, CloseGap
<1>10. Touches(m, n, z, T)
  BY <1>5, <1>8, TouchesMore
<1>11. Relinked(m, n, z, list)
  BY <1>8 DEF Spliced, Relinked
<1> QED
  BY <1>9, <1>10, <1>11 DEF T

(* k is the header h with other links.                                     *)
RelinkedHeader(h, k, p, q) ==
  /\ IsHeader(k) /\ k.prev = p /\ k.next = q
  /\ k.data_size = h.data_size /\ k.end = h.end

LEMMA HeaderLinked ==
  ASSUME NEW h, IsHeader(h), NEW p, NEW q,
         NEW k, k = [h EXCEPT !.prev = p, !.next = q]
  PROVE  RelinkedHeader(h, k, p, q)
<1> DEFINE i == [h EXCEPT !.prev = p]
<1>1. i = [data_size |-> h.data_size, prev |-> p, next |-> h.next, end |-> h.end]
  BY DEF IsHeader
<1>2. k = [i EXCEPT !.next = q]
  OBVIOUS
<1> HIDE DEF i
<1>3. k = [data_size |-> h.data_size, prev |-> p, next |-> q, end |-> h.end]
  BY <1>1, <1>2
<1> QED
  BY <1>3 DEF IsHeader, RelinkedHeader

(* A new node is written, with the links of the gap, and the gap filled.   *)
LEMMA PlaceGives ==
  ASSUME NEW m, MemOK(m), NEW z \in DOMAIN m.zone, NEW list \in Lists,
         NEW S, NEW p, NEW q, LinkedOff(m.hdr, m.zone[z][list], S, p, q),
         NEW new \in Addr, new \notin S, new \in DOMAIN m.hdr,
         IsPrev(S, new, p), IsNext(S, new, q),
         NEW k, k = Put(m, new, [m.hdr[new] EXCEPT !.prev = p, !.next = q]),
         NEW n, Touches(k, n, z, {p, q} \ {NULL}),
         Spliced(k, n, z, list, p, new, q, new)
  PROVE  /\ Linked(n.hdr, n.zone[z][list], S \cup {new})
         /\ Touches(m, n, z, S \cup {new})
         /\ Relinked(m, n, z, list)
<1> DEFINE h == [m.hdr[new] EXCEPT !.prev = p, !.next = q]
<1>1. IsHeader(m.hdr[new])
  BY DEF MemOK
<1>2. /\ IsHeader(h) /\ h.prev = p /\ h.next = q
      /\ h.data_size = m.hdr[new].data_size /\ h.end = m.hdr[new].end
  <2>1. h = [m.hdr[new] EXCEPT !.prev = p, !.next = q]
    OBVIOUS
  <2> HIDE DEF h
  <2> QED
    <3>1. RelinkedHeader(m.hdr[new], h, p, q)
      BY <1>1, <2>1, HeaderLinked
    <3> QED
      BY <3>1 DEF RelinkedHeader
<1> HIDE DEF h
<1>3. k = Put(m, new, h)
  BY DEF h
<1>4. Wrote(m, k, new, h) /\ Touches(m, k, z, {new})
  BY <1>2, <1>3, PutGives
<1>5. /\ k.zone = m.zone /\ DOMAIN k.hdr = DOMAIN m.hdr /\ k.hdr[new] = h
      /\ \A x \in DOMAIN m.hdr : x # new => k.hdr[x] = m.hdr[x]
  BY <1>4 DEF Wrote
<1>6. LinkedOff(k.hdr, k.zone[z][list], S, p, q)
  <2>1. \A x \in S : x # new /\ x \in DOMAIN m.hdr
    BY DEF LinkedOff
  <2> QED
    BY <1>5, <2>1 DEF LinkedOff
<1>7. Rewired(k, n, z, list, p, new, q, new)
  BY DEF Spliced
<1>8. new \in Nat \ {NULL} /\ k.hdr[new].prev = p /\ k.hdr[new].next = q
  BY <1>2, <1>5 DEF Addr
<1>9. new \in DOMAIN k.hdr
  BY <1>5
<1>10. Linked(n.hdr, n.zone[z][list], S \cup {new})
  BY <1>6, <1>7, <1>8, <1>9, FillGap
<1>11. Touches(m, n, z, S \cup {new})
  <2>1. {p, q} \ {NULL} \subseteq S \cup {new}
    BY DEF IsPrev, IsNext
  <2>2. Touches(k, n, z, S \cup {new})
    BY <2>1, TouchesMore
  <2>3. Touches(m, k, z, S \cup {new})
    BY <1>4, TouchesMore
  <2> QED
    BY <2>2, <2>3, TouchesTwice
<1>12. Relinked(m, n, z, list)
  <2>1. SameSizes(m, k)
    BY <1>2, <1>5 DEF SameSizes
  <2>2. SameSizes(m, n)
    BY <2>1 DEF SameSizes, Spliced
  <2> QED
    BY <1>5, <2>2 DEF Relinked, Spliced
<1> QED
  BY <1>10, <1>11, <1>12

LEMMA ReplaceGives ==
  ASSUME NEW m, MemOK(m), NEW z \in DOMAIN m.zone, NEW list \in Lists,
         NEW S, NEW a \in S, LinkedBut(m.hdr, m.zone[z][list], S, a),
         NEW old, IsPrev(S, a, old.prev), IsNext(S, a, old.next),
         NEW new \in Addr, new \notin S, new \in DOMAIN m.hdr,
         IsPrev(S \ {a}, new, old.prev), IsNext(S \ {a}, new, old.next),
         NEW n, n = replace_block(m, z, list, old, new)
  PROVE  Relists(m, n, z, list, (S \ {a}) \cup {new})
<1> DEFINE p == old.prev
           q == old.next
           T == S \ {a}
           k == Put(m, new, [m.hdr[new] EXCEPT !.prev = p, !.next = q])
<1>1. LinkedOff(m.hdr, m.zone[z][list], T, p, q)
  BY LinkedButOff
<1>2. n = SetPrev(SetNext(k, z, list, p, new), q, new)
  BY DEF replace_block
<1>3. IsPrev(T, new, p) /\ IsNext(T, new, q) /\ new \notin T
  OBVIOUS
<1>4. k = Put(m, new, [m.hdr[new] EXCEPT !.prev = p, !.next = q])
  OBVIOUS
<1> HIDE DEF p, q, T, k
<1>5. MemOK(k) /\ k.zone = m.zone /\ DOMAIN k.hdr = DOMAIN m.hdr
  <2> DEFINE h == [m.hdr[new] EXCEPT !.prev = p, !.next = q]
  <2>1. IsHeader(h)
    BY HeaderLinked DEF MemOK, RelinkedHeader
  <2> HIDE DEF h
  <2>2. k = Put(m, new, h)
    BY <1>4 DEF h
  <2>3. Wrote(m, k, new, h) /\ Touches(m, k, z, {new})
    BY <2>1, <2>2, PutGives
  <2> QED
    BY <2>3 DEF Wrote, Touches
<1>6. p \in DOMAIN k.hdr \cup {NULL} /\ q \in DOMAIN k.hdr \cup {NULL}
  BY <1>1, <1>3, <1>5 DEF LinkedOff, IsPrev, IsNext
<1>7. z \in DOMAIN k.zone
  BY <1>5
<1>8. /\ Touches(k, n, z, {p, q} \ {NULL})
      /\ Spliced(k, n, z, list, p, new, q, new)
  BY <1>2, <1>5, <1>6, <1>7, SpliceNextPrev
<1>9. /\ Linked(n.hdr, n.zone[z][list], T \cup {new})
      /\ Touches(m, n, z, T \cup {new})
      /\ Relinked(m, n, z, list)
  BY <1>1, <1>3, <1>4, <1>8, PlaceGives
<1> QED
  BY <1>9 DEF T, Relists

(* Where add_block_to_list puts a node: behind, of its LET.                *)
Gaps(m, head, new) ==
  FirstOf(Walk(m.hdr, head),
          LAMBDA a : m.hdr[a].next = NULL \/ m.hdr[a].next >= new)

LEMMA GapFound ==
  ASSUME NEW m, MemOK(m), NEW head, NEW S, Linked(m.hdr, head, S),
         NEW new \in Addr, new \notin S,
         ~(head = NULL \/ new < head),
         NEW behind, behind = Gaps(m, head, new)
  PROVE  /\ behind # {}
         /\ \A a \in behind : IsPrev(S, new, a) /\ IsNext(S, new, m.hdr[a].next)
<1>1. IsFiniteSet(DOMAIN m.hdr) /\ NULL \notin DOMAIN m.hdr
  BY DEF MemOK, Addr
<1>2. PICK n, s : /\ InOrder(s, n, S) /\ Chain(m.hdr, head, s, n)
                  /\ Walk(m.hdr, head) = s
  BY <1>1, LinkedWalk
<1>3. /\ S \subseteq Nat \ {NULL} /\ S \subseteq DOMAIN m.hdr
      /\ IsNext(S, NULL, head)
      /\ \A x \in S : /\ IsNext(S, x, m.hdr[x].next)
                      /\ IsPrev(S, x, m.hdr[x].prev)
  BY LinkedMeans
<1> DEFINE Test(a) == m.hdr[a].next = NULL \/ m.hdr[a].next >= new
<1>4. /\ n \in Nat /\ DOMAIN s = 1 .. n
      /\ \A k \in 1 .. n : s[k] \in S /\ s[k] \in Nat /\ s[k] # NULL
      /\ \A k \in 1 .. n : m.hdr[s[k]].next = At(s, n, k + 1)
      /\ head = At(s, n, 1)
  BY <1>2, <1>3 DEF InOrder, Chain
<1>5. behind = {s[i] : i \in {i \in 1 .. n :
                  Test(s[i]) /\ \A j \in 1 .. i - 1 : ~Test(s[j])}}
  BY <1>2, <1>4 DEF Gaps, FirstOf
<1>6. n > 0 /\ head \in S /\ head \in Nat /\ head = s[1] /\ head < new
  <2>1. head # NULL /\ ~(new < head)
    OBVIOUS
  <2>2. 1 \in 1 .. n /\ head = s[1]
    BY <1>4, <2>1 DEF At
  <2>3. head \in S /\ head \in Nat /\ head # new /\ new \in Nat
    BY <1>4, <2>2 DEF Addr
  <2> QED
    BY <1>4, <2>1, <2>2, <2>3
<1>7. Test(s[n])
  <2>1. n \in 1 .. n /\ n + 1 \notin 1 .. n
    BY <1>4, <1>6
  <2> QED
    BY <1>4, <2>1 DEF At
<1> HIDE DEF Test
<1>8. behind # {}
  <2> DEFINE I == {i \in 1 .. n : Test(s[i])}
  <2>1. n \in I
    BY <1>4, <1>6, <1>7
  <2>2. I \in SUBSET Nat /\ I # {}
    BY <1>4, <2>1
  <2> HIDE DEF I
  <2>3. PICK i \in I : \A j \in I : i <= j
    BY <2>2, LeastOf
  <2>4. i \in 1 .. n /\ Test(s[i])
    BY <2>3 DEF I
  <2>5. \A j \in 1 .. i - 1 : ~Test(s[j])
    <3> TAKE j \in 1 .. i - 1
    <3>1. j \in 1 .. n /\ ~(i <= j)
      BY <1>4, <2>4
    <3> QED
      BY <2>3, <3>1 DEF I
  <2> QED
    BY <1>5, <2>4, <2>5
<1>9. ASSUME NEW a \in behind
      PROVE  IsPrev(S, new, a) /\ IsNext(S, new, m.hdr[a].next)
  <2>1. PICK i \in 1 .. n : /\ a = s[i] /\ Test(s[i])
                            /\ \A j \in 1 .. i - 1 : ~Test(s[j])
    BY <1>5
  <2> DEFINE b == m.hdr[a].next
  <2>2. a \in S /\ a \in Nat /\ IsNext(S, a, b) /\ (b = NULL \/ b >= new)
    BY <1>3, <1>4, <2>1 DEF Test
  <2> HIDE DEF b
  <2>3. new \in Nat /\ new # NULL /\ b \in S \cup {NULL}
    BY <2>2 DEF Addr, IsNext
  <2>4. a < new
    <3>1. CASE i = 1
      BY <1>6, <2>1, <3>1
    <3>2. CASE i # 1
      <4>1. i - 1 \in 1 .. n /\ i - 1 \in 1 .. i - 1 /\ (i - 1) + 1 = i
        BY <1>4, <3>2
      <4>2. ~Test(s[i - 1])
        BY <2>1, <4>1
      <4>3. m.hdr[s[i - 1]].next = s[i]
        BY <1>4, <2>1, <4>1 DEF At
      <4> QED
        BY <2>1, <2>2, <2>3, <4>2, <4>3 DEF Test
    <3> QED
      BY <3>1, <3>2
  <2>5. \A x \in S : x \in Nat
    BY <1>3
  <2>6. IsPrev(S, new, a)
    <3>1. \A x \in S : x < new => x <= a
      <4> TAKE x \in S
      <4> HAVE x < new
      <4>1. CASE a < x
        <5>1. b # NULL /\ b <= x
          BY <2>2, <4>1 DEF IsNext
        <5> QED
          BY <2>2, <2>3, <2>5, <5>1
      <4> QED
        BY <2>2, <2>5, <4>1
    <3> QED
      BY <2>2, <2>4, <3>1 DEF IsPrev
  <2>7. IsNext(S, new, b)
    <3>1. b # NULL => new < b
      BY <2>2, <2>3, <2>5
    <3>2. \A x \in S : new < x => b # NULL /\ b <= x
      <4> TAKE x \in S
      <4> HAVE new < x
      <4>1. a < x
        BY <2>2, <2>3, <2>4, <2>5
      <4> QED
        BY <2>2, <4>1 DEF IsNext
    <3> QED
      BY <2>3, <3>1, <3>2 DEF IsNext
  <2> QED
    BY <2>6, <2>7 DEF b
<1> QED
  BY <1>8, <1>9

LEMMA InsertGives ==
  ASSUME NEW m, MemOK(m), NEW z \in DOMAIN m.zone, NEW list \in Lists,
         NEW S, Linked(m.hdr, m.zone[z][list], S),
         NEW new \in Addr, new \notin S, new \in DOMAIN m.hdr,
         NEW n, n = add_block_to_list(m, z, list, new)
  PROVE  /\ Linked(n.hdr, n.zone[z][list], S \cup {new})
         /\ Touches(m, n, z, S \cup {new})
         /\ Relinked(m, n, z, list)
<1> DEFINE first  == m.zone[z][list]
           front  == first = NULL \/ new < first
           behind == Gaps(m, first, new)
           p == IF front THEN NULL ELSE CHOOSE a \in behind : TRUE
           q == IF front THEN first ELSE m.hdr[p].next
           k == Put(m, new, [m.hdr[new] EXCEPT !.prev = p, !.next = q])
<1>1. n = SetNext(SetPrev(k, q, new), z, list, p, new)
  BY DEF add_block_to_list, Gaps
<1>2. k = Put(m, new, [m.hdr[new] EXCEPT !.prev = p, !.next = q])
  OBVIOUS
<1>3. IsPrev(S, new, p) /\ IsNext(S, new, q)
  <2>1. CASE front
    <3>1. p = NULL /\ q = first
      BY <2>1
    <3>2. /\ S \subseteq Nat \ {NULL}
          /\ IsNext(S, NULL, first)
      BY LinkedMeans
    <3> HIDE DEF first, p, q
    <3>3. new \in Nat /\ NULL < new
      BY DEF Addr, NULL
    <3>4. IsPrev(S, new, NULL)
      <4>1. \A x \in S : ~(x < new)
        <5> TAKE x \in S
        <5>1. x \in Nat /\ NULL < x
          BY <3>2 DEF NULL
        <5>2. first # NULL /\ first \in S /\ first <= x
          BY <3>2, <5>1 DEF IsNext
        <5>3. first \in Nat /\ new < first
          BY <2>1, <3>2, <5>2
        <5> QED
          BY <3>3, <5>1, <5>2, <5>3
      <4> QED
        BY <3>3, <4>1 DEF IsPrev
    <3>5. IsNext(S, new, first)
      <4>1. \A x \in S : NULL < x
        BY <3>2 DEF NULL
      <4> QED
        BY <2>1, <3>2, <4>1 DEF IsNext
    <3> QED
      BY <3>1, <3>4, <3>5
  <2>2. CASE ~front
    <3>1. p = (CHOOSE a \in behind : TRUE) /\ q = m.hdr[p].next
      BY <2>2
    <3>2. behind = Gaps(m, first, new)
      OBVIOUS
    <3>3. ~(first = NULL \/ new < first) /\ Linked(m.hdr, first, S)
      BY <2>2
    <3> HIDE DEF first, behind, p, q
    <3>4. /\ behind # {}
          /\ \A a \in behind : IsPrev(S, new, a) /\ IsNext(S, new, m.hdr[a].next)
      BY <3>2, <3>3, GapFound
    <3>5. p \in behind
      BY <3>1, <3>4
    <3> QED
      BY <3>1, <3>4, <3>5
  <2> QED
    BY <2>1, <2>2
<1> HIDE DEF k, p, q
<1>4. LinkedOff(m.hdr, m.zone[z][list], S, p, q)
  BY LinkedIsOff
<1>5. MemOK(k) /\ k.zone = m.zone /\ DOMAIN k.hdr = DOMAIN m.hdr
  <2> DEFINE h == [m.hdr[new] EXCEPT !.prev = p, !.next = q]
  <2>1. IsHeader(h)
    BY HeaderLinked DEF MemOK, RelinkedHeader
  <2> HIDE DEF h
  <2>2. k = Put(m, new, h)
    BY <1>2 DEF h
  <2>3. Wrote(m, k, new, h) /\ Touches(m, k, z, {new})
    BY <2>1, <2>2, PutGives
  <2> QED
    BY <2>3 DEF Wrote, Touches
<1>6. p \in DOMAIN k.hdr \cup {NULL} /\ q \in DOMAIN k.hdr \cup {NULL}
  BY <1>3, <1>4, <1>5 DEF LinkedOff, IsPrev, IsNext
<1>7. z \in DOMAIN k.zone
  BY <1>5
<1>8. /\ Touches(k, n, z, {p, q} \ {NULL})
      /\ Spliced(k, n, z, list, p, new, q, new)
  BY <1>1, <1>5, <1>6, <1>7, SplicePrevNext
<1> QED
  BY <1>2, <1>3, <1>4, <1>8, PlaceGives

------------------------------------------------------------------------------
(* The chunks of a zone: where they are, and that they are apart.          *)

LEMMA Sizeful ==
  /\ ALIGNMENT \in Nat /\ ALIGNMENT > 0
  /\ HEADER_SIZE \in Nat /\ HEADER_SIZE > 0
  /\ ZONE_HEADER_SIZE \in Nat /\ ZONE_HEADER_SIZE > 0
  BY SizesAssumption

HasSpan(m, a, d) == /\ a \in DOMAIN m.hdr
                    /\ m.hdr[a].data_size = d
                    /\ m.hdr[a].end = a + HEADER_SIZE + d

SameSpan(m, n, a) == /\ a \in DOMAIN n.hdr
                     /\ n.hdr[a].data_size = m.hdr[a].data_size
                     /\ n.hdr[a].end = m.hdr[a].end

Fits(m, z, a) == /\ HasSpan(m, a, m.hdr[a].data_size)
                 /\ m.hdr[a].data_size \in Nat /\ m.hdr[a].data_size >= ALIGNMENT
                 /\ z + ZONE_HEADER_SIZE <= a
                 /\ m.hdr[a].end <= m.zone[z].end

Layout(m, z, C) ==
  /\ z \in Addr /\ C \subseteq Addr /\ m.zone[z].end \in Nat
  /\ \A a \in C : Fits(m, z, a)
  /\ \A a \in C : \A b \in C : a < b => m.hdr[a].end <= b

LEMMA LayoutSame ==
  ASSUME NEW m, NEW z, NEW C, Layout(m, z, C),
         NEW n, n.zone[z].end = m.zone[z].end, \A x \in C : SameSpan(m, n, x)
  PROVE  Layout(n, z, C)
  BY DEF Layout, Fits, HasSpan, SameSpan

LEMMA LayoutLess ==
  ASSUME NEW m, NEW z, NEW C, Layout(m, z, C), NEW D \in SUBSET C
  PROVE  Layout(m, z, D)
  BY DEF Layout

(* What Fits says, with the numbers.                                       *)
LEMMA Spans ==
  ASSUME NEW m, NEW z, NEW C, Layout(m, z, C), NEW a \in C
  PROVE  /\ z \in Nat /\ z > 0 /\ m.zone[z].end \in Nat
         /\ a \in Nat /\ a > 0 /\ a \in DOMAIN m.hdr
         /\ m.hdr[a].data_size \in Nat /\ m.hdr[a].data_size >= ALIGNMENT
         /\ m.hdr[a].end \in Nat
         /\ m.hdr[a].end = a + HEADER_SIZE + m.hdr[a].data_size
         /\ z + ZONE_HEADER_SIZE <= a
         /\ m.hdr[a].end <= m.zone[z].end
<1>1. Fits(m, z, a) /\ a \in Addr /\ z \in Addr /\ m.zone[z].end \in Nat
  BY DEF Layout
<1>2. /\ a \in Nat /\ a > 0 /\ z \in Nat /\ z > 0
  BY <1>1 DEF Addr, NULL
<1>3. /\ a \in DOMAIN m.hdr
      /\ m.hdr[a].data_size \in Nat /\ m.hdr[a].data_size >= ALIGNMENT
      /\ m.hdr[a].end = a + HEADER_SIZE + m.hdr[a].data_size
      /\ z + ZONE_HEADER_SIZE <= a
      /\ m.hdr[a].end <= m.zone[z].end
  BY <1>1 DEF Fits, HasSpan
<1>4. m.hdr[a].end \in Nat
  BY <1>2, <1>3, Sizeful
<1> QED
  BY <1>1, <1>2, <1>3, <1>4

(* A chunk becomes two.                                                    *)
LEMMA SplitLayout ==
  ASSUME NEW m, NEW z, NEW C, Layout(m, z, C), NEW a \in C,
         NEW size \in Nat, ALIGNMENT <= size,
         size + HEADER_SIZE + ALIGNMENT <= m.hdr[a].data_size,
         NEW new, new = a + HEADER_SIZE + size,
         NEW n, n.zone[z].end = m.zone[z].end,
         \A x \in C : x # a => SameSpan(m, n, x),
         HasSpan(n, a, size),
         HasSpan(n, new, m.hdr[a].data_size - size - HEADER_SIZE)
  PROVE  /\ Layout(n, z, C \cup {new})
         /\ new \in Addr /\ new \notin C /\ a < new
         /\ new + HEADER_SIZE + ALIGNMENT <= m.hdr[a].end
         /\ \A x \in C : a < x => new < x
<1> DEFINE d == m.hdr[a].data_size
           e == m.hdr[a].end
<1>1. /\ z \in Nat /\ z > 0 /\ m.zone[z].end \in Nat
      /\ a \in Nat /\ a > 0
      /\ d \in Nat /\ e \in Nat /\ e = a + HEADER_SIZE + d
      /\ z + ZONE_HEADER_SIZE <= a /\ e <= m.zone[z].end
  BY Spans
<1>2. /\ new \in Nat /\ new > 0 /\ a < new /\ z + ZONE_HEADER_SIZE <= new
      /\ d - size - HEADER_SIZE \in Nat /\ d - size - HEADER_SIZE >= ALIGNMENT
      /\ new + HEADER_SIZE + (d - size - HEADER_SIZE) = e
      /\ new + HEADER_SIZE + ALIGNMENT <= e /\ new < e
  BY <1>1, Sizeful
<1>3. /\ n.hdr[a].data_size = size /\ n.hdr[a].end = new
      /\ n.hdr[new].data_size = d - size - HEADER_SIZE /\ n.hdr[new].end = e
      /\ a \in DOMAIN n.hdr /\ new \in DOMAIN n.hdr
  BY <1>2 DEF HasSpan
<1>4. \A x \in C : /\ x \in Nat /\ x > 0
                   /\ m.hdr[x].end \in Nat /\ x < m.hdr[x].end
                   /\ a < x => e <= x
                   /\ x < a => m.hdr[x].end <= a
  <2> TAKE x \in C
  <2>1. /\ x \in Nat /\ x > 0 /\ m.hdr[x].end \in Nat
        /\ m.hdr[x].end = x + HEADER_SIZE + m.hdr[x].data_size
        /\ m.hdr[x].data_size \in Nat
    BY Spans
  <2>2. a < x => e <= x
    BY DEF Layout
  <2>3. x < a => m.hdr[x].end <= a
    BY DEF Layout
  <2> HIDE DEF e
  <2> QED
    BY <2>1, <2>2, <2>3, Sizeful
<1> HIDE DEF d, e
<1>5. new \notin C /\ \A x \in C : a < x => new < x
  BY <1>1, <1>2, <1>4
<1>6. /\ Fits(n, z, a) /\ Fits(n, z, new)
      /\ \A x \in C : x # a => Fits(n, z, x)
  <2>1. \A x \in C : x # a => Fits(n, z, x)
    BY DEF Layout, Fits, HasSpan, SameSpan
  <2>2. Fits(n, z, a)
    BY <1>1, <1>2, <1>3 DEF Fits, HasSpan
  <2>3. Fits(n, z, new)
    BY <1>1, <1>2, <1>3 DEF Fits, HasSpan
  <2> QED
    BY <2>1, <2>2, <2>3
<1>7. \A x \in C \cup {new} : \A y \in C \cup {new} : x < y => n.hdr[x].end <= y
  <2> TAKE x \in C \cup {new}
  <2> TAKE y \in C \cup {new}
  <2> HAVE x < y
  <2>1. \A b \in C : b # a => n.hdr[b].end = m.hdr[b].end
    BY DEF SameSpan
  <2>2. CASE x = new
    <3>1. y \in C /\ a < y
      BY <1>1, <1>2, <1>4, <2>2
    <3> QED
      BY <1>3, <1>4, <2>2, <3>1
  <2>3. CASE x = a
    BY <1>1, <1>2, <1>3, <1>4, <1>5, <2>3
  <2>4. CASE x \in C /\ x # a /\ y \in C
    BY <2>1, <2>4 DEF Layout
  <2>5. CASE x \in C /\ x # a /\ y = new
    <3>1. x < a
      BY <1>1, <1>2, <1>4, <1>5, <2>5
    <3> QED
      BY <1>1, <1>2, <1>4, <2>1, <2>5, <3>1
  <2> QED
    BY <2>2, <2>3, <2>4, <2>5
<1>8. new \in Addr
  BY <1>2 DEF Addr, NULL
<1>9. Layout(n, z, C \cup {new})
  BY <1>6, <1>7, <1>8 DEF Layout
<1> QED
  BY <1>2, <1>5, <1>8, <1>9 DEF e

(* Two chunks, and what is between them, become one.                       *)
LEMMA JoinLayout ==
  ASSUME NEW m, NEW z, NEW C, Layout(m, z, C), NEW a \in C, NEW b \in C, a < b,
         \A x \in C : a < x => b <= x,
         NEW n, n.zone[z].end = m.zone[z].end,
         \A x \in C \ {b} : x # a => SameSpan(m, n, x),
         HasSpan(n, a, m.hdr[b].end - a - HEADER_SIZE)
  PROVE  Layout(n, z, C \ {b})
<1> DEFINE d == m.hdr[b].end - a - HEADER_SIZE
           e == m.hdr[b].end
<1>1. /\ z \in Nat /\ m.zone[z].end \in Nat
      /\ a \in Nat /\ m.hdr[a].data_size \in Nat
      /\ m.hdr[a].data_size >= ALIGNMENT /\ m.hdr[a].end \in Nat
      /\ m.hdr[a].end = a + HEADER_SIZE + m.hdr[a].data_size
      /\ z + ZONE_HEADER_SIZE <= a
  BY Spans
<1>2. /\ b \in Nat /\ e \in Nat /\ e = b + HEADER_SIZE + m.hdr[b].data_size
      /\ m.hdr[b].data_size \in Nat /\ e <= m.zone[z].end
  BY Spans
<1>3. m.hdr[a].end <= b
  BY DEF Layout
<1>4. /\ d \in Nat /\ d >= ALIGNMENT /\ a + HEADER_SIZE + d = e
  BY <1>1, <1>2, <1>3, Sizeful
<1>5. /\ a \in DOMAIN n.hdr /\ n.hdr[a].data_size = d /\ n.hdr[a].end = e
  BY <1>4 DEF HasSpan
<1>6. \A x \in C : b < x => e <= x
  BY DEF Layout
<1> HIDE DEF d, e
<1>7. Fits(n, z, a)
  BY <1>1, <1>2, <1>4, <1>5 DEF Fits, HasSpan
<1>8. \A x \in C \ {b} : Fits(n, z, x)
  BY <1>7 DEF Layout, Fits, HasSpan, SameSpan
<1>9. \A x \in C \ {b} : \A y \in C \ {b} : x < y => n.hdr[x].end <= y
  <2> TAKE x \in C \ {b}
  <2> TAKE y \in C \ {b}
  <2> HAVE x < y
  <2>1. CASE x = a
    <3>1. b <= y /\ y # b /\ y \in Nat
      BY <2>1, Spans
    <3>2. b < y
      BY <1>2, <3>1
    <3> QED
      BY <1>5, <1>6, <2>1, <3>2
  <2>2. CASE x # a
    BY <2>2 DEF Layout, SameSpan
  <2> QED
    BY <2>1, <2>2
<1> QED
  BY <1>8, <1>9 DEF Layout

------------------------------------------------------------------------------
(* A zone with its blocks B and its empty spaces E, and work on it.        *)

Shape(m, z, B, E) ==
  /\ z \in DOMAIN m.zone
  /\ Linked(m.hdr, m.zone[z].blocks, B)
  /\ Linked(m.hdr, m.zone[z].empty_spaces, E)
  /\ B \cap E = {}
  /\ Layout(m, z, B \cup E)

(* What work on zone z leaves alone outside it.                            *)
Outside(m, n, z) ==
  /\ n.g_zones = m.g_zones /\ n.mapped = m.mapped
  /\ DOMAIN n.zone = DOMAIN m.zone
  /\ SameZone(m.zone[z], n.zone[z])
  /\ \A y \in DOMAIN m.zone : y # z => n.zone[y] = m.zone[y]
  /\ \A a \in DOMAIN m.hdr :
       a < z \/ m.zone[z].end <= a => a \in DOMAIN n.hdr /\ n.hdr[a] = m.hdr[a]
  /\ \A x \in DOMAIN m.bytes :
       x < z \/ m.zone[z].end <= x => x \in DOMAIN n.bytes /\ n.bytes[x] = m.bytes[x]

(* The bytes of a block, as far as it had them and still has.              *)
PayloadKept(m, n, a) ==
  \A x \in DOMAIN m.bytes :
    a + HEADER_SIZE <= x /\ x < m.hdr[a].end /\ x < n.hdr[a].end
      => x \in DOMAIN n.bytes /\ n.bytes[x] = m.bytes[x]

(* n is m after work on zone z which had the blocks B and has the blocks C *)
(* now.  Of those it had before none but x has another size, and all have  *)
(* the bytes they had.                                                     *)
Worked(m, n, z, B, C, x) ==
  /\ MemOK(n) /\ Outside(m, n, z)
  /\ \E E : Shape(n, z, C, E)
  /\ \A a \in B \cap C : PayloadKept(m, n, a)
  /\ \A a \in B \cap C : a # x => n.hdr[a].data_size = m.hdr[a].data_size

(* A header at w is in the zone and in no payload of a block in B that is  *)
(* there before and after.                                                 *)
Clear(m, n, z, w, B) ==
  /\ w \in Nat /\ z <= w /\ w + HEADER_SIZE <= m.zone[z].end
  /\ \A a \in B : w <= a \/ m.hdr[a].end <= w \/ n.hdr[a].end <= w

LEMMA ClearBefore ==
  ASSUME NEW m, NEW n, NEW z, NEW C, Layout(m, z, C), NEW w \in C,
         NEW B \in SUBSET C
  PROVE  Clear(m, n, z, w, B)
<1>1. /\ z \in Nat /\ w \in Nat /\ m.zone[z].end \in Nat
      /\ m.hdr[w].data_size \in Nat
      /\ m.hdr[w].end = w + HEADER_SIZE + m.hdr[w].data_size
      /\ z + ZONE_HEADER_SIZE <= w /\ m.hdr[w].end <= m.zone[z].end
  BY Spans
<1>2. z <= w /\ w + HEADER_SIZE <= m.zone[z].end
  BY <1>1, Sizeful
<1>3. \A a \in B : w <= a \/ m.hdr[a].end <= w
  <2> TAKE a \in B
  <2>1. a \in Nat /\ (a < w => m.hdr[a].end <= w)
    BY Spans DEF Layout
  <2> QED
    BY <1>1, <2>1
<1> QED
  BY <1>1, <1>2, <1>3 DEF Clear

LEMMA ClearAfter ==
  ASSUME NEW m, NEW n, NEW z, NEW C, Layout(n, z, C), NEW w \in C,
         n.zone[z].end = m.zone[z].end, NEW B \in SUBSET C
  PROVE  Clear(m, n, z, w, B)
<1>1. Clear(n, n, z, w, B)
  BY ClearBefore
<1> QED
  BY <1>1 DEF Clear

LEMMA WorkedBy ==
  ASSUME NEW m, MemOK(m), NEW z \in DOMAIN m.zone, NEW n, NEW W, Touches(m, n, z, W),
         NEW B, NEW C, NEW E, Shape(n, z, C, E),
         \A a \in B \cap C : m.hdr[a].end \in Nat,
         \A w \in W : Clear(m, n, z, w, B \cap C),
         NEW x, \A a \in B \cap C : a # x => n.hdr[a].data_size = m.hdr[a].data_size
  PROVE  Worked(m, n, z, B, C, x)
<1>1. Outside(m, n, z)
  <2>1. DOMAIN m.hdr \subseteq Nat
    BY DEF MemOK, Addr
  <2>2. \A a \in DOMAIN m.hdr : a < z \/ m.zone[z].end <= a => a \notin W
    <3> TAKE a \in DOMAIN m.hdr
    <3> SUFFICES ASSUME a < z \/ m.zone[z].end <= a, a \in W
                 PROVE  FALSE
      OBVIOUS
    <3>1. /\ a \in Nat /\ z <= a /\ a + HEADER_SIZE <= m.zone[z].end
      BY DEF Clear
    <3>2. z \in Nat /\ m.zone[z].end \in Nat
      BY DEF MemOK, Addr, Shape, Layout, Touches, SameZone
    <3> QED
      BY <3>1, <3>2, Sizeful
  <2>3. \A y \in Nat : y < z \/ m.zone[z].end <= y => OffHeaders(W, y)
    <3> SUFFICES ASSUME NEW y \in Nat, y < z \/ m.zone[z].end <= y, NEW w \in W
                 PROVE  y < w \/ w + HEADER_SIZE <= y
      BY DEF OffHeaders
    <3>1. w \in Nat /\ z <= w /\ w + HEADER_SIZE <= m.zone[z].end
      BY DEF Clear
    <3>2. z \in Nat /\ m.zone[z].end \in Nat
      BY DEF MemOK, Addr, Shape, Layout, Touches, SameZone
    <3> QED
      BY <3>1, <3>2, Sizeful
  <2>4. DOMAIN m.bytes \subseteq Nat
    BY DEF MemOK
  <2> QED
    BY <2>2, <2>3, <2>4 DEF Touches, Outside
<1>2. ASSUME NEW a \in B \cap C
      PROVE  PayloadKept(m, n, a)
  <2> SUFFICES ASSUME NEW y \in DOMAIN m.bytes, a + HEADER_SIZE <= y,
                      y < m.hdr[a].end, y < n.hdr[a].end
               PROVE  y \in DOMAIN n.bytes /\ n.bytes[y] = m.bytes[y]
    BY DEF PayloadKept
  <2>1. y \in Nat /\ a \in Nat
    BY DEF MemOK, Shape, Layout, Addr
  <2>3. m.hdr[a].end \in Nat /\ n.hdr[a].end \in Nat
    BY Spans DEF Shape
  <2>2. OffHeaders(W, y)
    <3> SUFFICES ASSUME NEW w \in W
                 PROVE  y < w \/ w + HEADER_SIZE <= y
      BY DEF OffHeaders
    <3>1. w \in Nat /\ (w <= a \/ m.hdr[a].end <= w \/ n.hdr[a].end <= w)
      BY DEF Clear
    <3>2. CASE w <= a
      BY <2>1, <3>1, <3>2, Sizeful
    <3>3. CASE m.hdr[a].end <= w
      BY <2>1, <2>3, <3>1, <3>3
    <3>4. CASE n.hdr[a].end <= w
      BY <2>1, <2>3, <3>1, <3>4
    <3> QED
      BY <3>1, <3>2, <3>3, <3>4
  <2> QED
    BY <2>2 DEF Touches
<1>3. MemOK(n)
  BY DEF Touches
<1> QED
  BY <1>1, <1>2, <1>3 DEF Worked

LEMMA TouchesLinked ==
  ASSUME NEW m, NEW n, NEW z, NEW W, Touches(m, n, z, W),
         NEW head, NEW S, Linked(m.hdr, head, S), S \cap W = {}
  PROVE  Linked(n.hdr, head, S)
<1>1. /\ S \subseteq Nat \ {NULL} /\ S \subseteq DOMAIN m.hdr
      /\ IsNext(S, NULL, head)
      /\ \A x \in S : /\ IsNext(S, x, m.hdr[x].next)
                      /\ IsPrev(S, x, m.hdr[x].prev)
  BY LinkedMeans
<1>2. \A x \in S : x \in DOMAIN n.hdr /\ n.hdr[x] = m.hdr[x]
  BY <1>1 DEF Touches
<1> QED
  BY <1>1, <1>2 DEF Linked, LinkedBut

LEMMA TouchesSpan ==
  ASSUME NEW m, NEW n, NEW z, NEW W, Touches(m, n, z, W),
         NEW x \in DOMAIN m.hdr, x \notin W
  PROVE  SameSpan(m, n, x)
  BY DEF Touches, SameSpan

LEMMA RelinkedSpan ==
  ASSUME NEW m, NEW n, NEW z, NEW list, Relinked(m, n, z, list),
         NEW x \in DOMAIN m.hdr
  PROVE  SameSpan(m, n, x)
  BY DEF Relinked, SameSizes, SameSpan

(* Counters and the statistic change no list and no chunk.                 *)
LEMMA ShapeSame ==
  ASSUME NEW m, NEW n, NEW z, NEW B, NEW E, Shape(m, z, B, E),
         Touches(m, n, z, {}), n.hdr = m.hdr,
         \A l \in Lists : n.zone[z][l] = m.zone[z][l]
  PROVE  Shape(n, z, B, E)
<1>1. n.zone[z].blocks = m.zone[z].blocks
  BY DEF Lists
<1>2. n.zone[z].empty_spaces = m.zone[z].empty_spaces
  BY DEF Lists
<1>3. DOMAIN n.zone = DOMAIN m.zone /\ n.zone[z].end = m.zone[z].end
  BY DEF Touches, SameZone
<1>4. \A x \in B \cup E : SameSpan(m, n, x)
  BY DEF Shape, Layout, Fits, HasSpan, SameSpan
<1>5. Layout(n, z, B \cup E)
  BY <1>3, <1>4, LayoutSame DEF Shape
<1> QED
  BY <1>1, <1>2, <1>3, <1>5 DEF Shape

LEMMA CountShape ==
  ASSUME NEW m, MemOK(m), NEW z, NEW B, NEW E, Shape(m, z, B, E), NEW d, NEW s,
         NEW n, n = Count(m, z, d, s)
  PROVE  Touches(m, n, z, {}) /\ n.hdr = m.hdr /\ Shape(n, z, B, E)
<1>1. z \in DOMAIN m.zone
  BY DEF Shape
<1>2. Touches(m, n, z, {}) /\ HasCounted(m, n, z, d, s)
  BY <1>1, CountGives
<1>3. n.hdr = m.hdr /\ \A l \in Lists : n.zone[z][l] = m.zone[z][l]
  BY <1>2 DEF HasCounted
<1> QED
  BY <1>2, <1>3, ShapeSame

LEMMA StatsShape ==
  ASSUME NEW m, MemOK(m), NEW z, NEW B, NEW E, Shape(m, z, B, E),
         NEW n, n = update_empty_stats(m, z)
  PROVE  Touches(m, n, z, {}) /\ n.hdr = m.hdr /\ Shape(n, z, B, E)
<1>1. z \in DOMAIN m.zone
  BY DEF Shape
<1>2. Touches(m, n, z, {}) /\ HasStats(m, n, z)
  BY <1>1, StatsGives
<1>3. n.hdr = m.hdr /\ \A l \in Lists : n.zone[z][l] = m.zone[z][l]
  BY <1>2 DEF HasStats
<1> QED
  BY <1>2, <1>3, ShapeSame

(* The list of blocks when a chunk that is in no list is added to it.      *)
LEMMA ListBlock ==
  ASSUME NEW m, MemOK(m), NEW z \in DOMAIN m.zone, NEW B, NEW E, NEW a,
         Linked(m.hdr, m.zone[z].blocks, B),
         Linked(m.hdr, m.zone[z].empty_spaces, E),
         Layout(m, z, (B \cup {a}) \cup E), a \notin B, E \cap (B \cup {a}) = {},
         NEW n, n = add_block_to_list(m, z, "blocks", a)
  PROVE  /\ Shape(n, z, B \cup {a}, E)
         /\ Touches(m, n, z, B \cup {a})
         /\ Relinked(m, n, z, "blocks")
<1>1. "blocks" \in Lists /\ "empty_spaces" \in Lists /\ "blocks" # "empty_spaces"
  BY DEF Lists
<1>2. a \in Addr /\ a \in DOMAIN m.hdr
  BY Spans DEF Layout
<1>3. /\ Linked(n.hdr, n.zone[z].blocks, B \cup {a})
      /\ Touches(m, n, z, B \cup {a})
      /\ Relinked(m, n, z, "blocks")
  BY <1>1, <1>2, InsertGives
<1>4. n.zone[z].empty_spaces = m.zone[z].empty_spaces
  BY <1>1, <1>3 DEF Relinked
<1>5. Linked(n.hdr, n.zone[z].empty_spaces, E)
  BY <1>3, <1>4, TouchesLinked
<1>6. \A x \in (B \cup {a}) \cup E : SameSpan(m, n, x)
  BY <1>3, Spans, RelinkedSpan
<1>7. DOMAIN n.zone = DOMAIN m.zone /\ n.zone[z].end = m.zone[z].end
  BY <1>3 DEF Touches, SameZone
<1>8. Layout(n, z, (B \cup {a}) \cup E)
  BY <1>6, <1>7, LayoutSame
<1> QED
  BY <1>3, <1>5, <1>7, <1>8 DEF Shape

(* And the list of empty spaces.                                           *)
LEMMA ListEmpty ==
  ASSUME NEW m, MemOK(m), NEW z \in DOMAIN m.zone, NEW B, NEW E, NEW a,
         Linked(m.hdr, m.zone[z].blocks, B),
         Linked(m.hdr, m.zone[z].empty_spaces, E),
         Layout(m, z, B \cup (E \cup {a})), a \notin E, B \cap (E \cup {a}) = {},
         NEW n, n = add_block_to_list(m, z, "empty_spaces", a)
  PROVE  /\ Shape(n, z, B, E \cup {a})
         /\ Touches(m, n, z, E \cup {a})
         /\ Relinked(m, n, z, "empty_spaces")
<1>1. "blocks" \in Lists /\ "empty_spaces" \in Lists /\ "blocks" # "empty_spaces"
  BY DEF Lists
<1>2. a \in Addr /\ a \in DOMAIN m.hdr
  BY Spans DEF Layout
<1>3. /\ Linked(n.hdr, n.zone[z].empty_spaces, E \cup {a})
      /\ Touches(m, n, z, E \cup {a})
      /\ Relinked(m, n, z, "empty_spaces")
  BY <1>1, <1>2, InsertGives
<1>4. n.zone[z].blocks = m.zone[z].blocks
  BY <1>1, <1>3 DEF Relinked
<1>5. Linked(n.hdr, n.zone[z].blocks, B)
  BY <1>3, <1>4, TouchesLinked
<1>6. \A x \in B \cup (E \cup {a}) : SameSpan(m, n, x)
  BY <1>3, Spans, RelinkedSpan
<1>7. DOMAIN n.zone = DOMAIN m.zone /\ n.zone[z].end = m.zone[z].end
  BY <1>3 DEF Touches, SameZone
<1>8. Layout(n, z, B \cup (E \cup {a}))
  BY <1>6, <1>7, LayoutSame
<1> QED
  BY <1>3, <1>5, <1>7, <1>8 DEF Shape

(* Two addresses with nothing of S between them have the same neighbours.  *)
LEMMA SameGap ==
  ASSUME NEW S \in SUBSET Nat, NEW a \in S, NEW new \in Nat, NULL < new,
         \A x \in S \ {a} : x # new /\ (x < a <=> x < new),
         NEW p, NEW q, IsPrev(S, a, p), IsNext(S, a, q)
  PROVE  IsPrev(S \ {a}, new, p) /\ IsNext(S \ {a}, new, q)
<1> DEFINE T == S \ {a}
<1>1. /\ p \in S \cup {NULL} /\ p < a /\ \A x \in S : x < a => x <= p
      /\ q \in S \cup {NULL} /\ (q # NULL => a < q)
      /\ \A x \in S : a < x => q # NULL /\ q <= x
  BY DEF IsPrev, IsNext
<1>2. \A x \in T : x \in Nat /\ x \in S /\ x # a /\ x # new /\ (x < a <=> x < new)
  OBVIOUS
<1>3. p \in T \cup {NULL} /\ q \in T \cup {NULL}
  BY <1>1 DEF NULL
<1> HIDE DEF T
<1>4. IsPrev(T, new, p)
  <2>1. p < new
    BY <1>1, <1>2, <1>3
  <2> QED
    BY <1>1, <1>2, <1>3, <2>1 DEF IsPrev
<1>5. IsNext(T, new, q)
  <2>1. q # NULL => new < q
    BY <1>1, <1>2, <1>3
  <2>2. \A x \in T : new < x => q # NULL /\ q <= x
    <3> TAKE x \in T
    <3> HAVE new < x
    <3>1. a < x
      BY <1>2
    <3> QED
      BY <1>1, <1>2, <3>1
  <2> QED
    BY <1>3, <2>1, <2>2 DEF IsNext
<1> QED
  BY <1>4, <1>5 DEF T

(* u is m when the chunk a, taken from the empty spaces E, is in no list:  *)
(* D are the empty spaces now.                                             *)
Taken(m, u, z, B, E, a, D) ==
  /\ Touches(m, u, z, {a} \cup D)
  /\ Linked(u.hdr, u.zone[z].blocks, B)
  /\ Linked(u.hdr, u.zone[z].empty_spaces, D)
  /\ Layout(u, z, (B \cup {a}) \cup D)
  /\ D \cap (B \cup {a}) = {}

LEMMA TakePart ==
  ASSUME NEW m, MemOK(m), NEW z, NEW B, NEW E, Shape(m, z, B, E), NEW a \in E,
         NEW size \in Nat, ALIGNMENT <= size,
         size + HEADER_SIZE + ALIGNMENT <= m.hdr[a].data_size,
         NEW new, new = a + HEADER_SIZE + size,
         NEW t, t = Put(m, a, Header(a, size)),
         NEW r, r = Put(t, new, Header(new, m.hdr[a].data_size - size - HEADER_SIZE)),
         NEW u, u = replace_block(r, z, "empty_spaces", m.hdr[a], new)
  PROVE  Taken(m, u, z, B, E, a, (E \ {a}) \cup {new}) /\ u.hdr[a].data_size = size
<1> DEFINE old == m.hdr[a]
           D == (E \ {a}) \cup {new}
           h == Header(a, size)
           i == Header(new, old.data_size - size - HEADER_SIZE)
<1>1. /\ z \in DOMAIN m.zone /\ B \cap E = {} /\ Layout(m, z, B \cup E)
      /\ Linked(m.hdr, m.zone[z].blocks, B)
      /\ Linked(m.hdr, m.zone[z].empty_spaces, E)
  BY DEF Shape
<1>2. a \in B \cup E /\ a \in Nat /\ a \in Addr /\ a \in DOMAIN m.hdr
  BY <1>1, Spans DEF Layout
<1>3. new \in Addr
  BY <1>2, Sizeful DEF Addr, NULL
<1>4. /\ IsHeader(h) /\ h.data_size = size /\ h.end = a + HEADER_SIZE + size
      /\ IsHeader(i) /\ i.data_size = old.data_size - size - HEADER_SIZE
      /\ i.end = new + HEADER_SIZE + (old.data_size - size - HEADER_SIZE)
  BY HeaderIs
<1>5. t = Put(m, a, h) /\ r = Put(t, new, i)
  OBVIOUS
<1> HIDE DEF h, i
<1>6. Wrote(m, t, a, h) /\ Touches(m, t, z, {a})
  BY <1>2, <1>4, <1>5, PutGives
<1>7. MemOK(t)
  BY <1>6 DEF Touches
<1>8. Wrote(t, r, new, i) /\ Touches(t, r, z, {new})
  BY <1>3, <1>4, <1>5, <1>7, PutGives
<1>9. a # new
  BY <1>2, Sizeful
<1>10. /\ r.zone = m.zone /\ DOMAIN r.hdr = DOMAIN m.hdr \cup {new}
       /\ r.hdr[a] = h /\ r.hdr[new] = i
       /\ \A x \in DOMAIN m.hdr : x # a /\ x # new => r.hdr[x] = m.hdr[x]
  BY <1>2, <1>6, <1>8, <1>9 DEF Wrote
<1>11. HasSpan(r, a, size) /\ HasSpan(r, new, old.data_size - size - HEADER_SIZE)
  BY <1>2, <1>4, <1>10 DEF HasSpan
<1> DEFINE C == B \cup E
<1>12. new \notin C
  <2>1. /\ old.end = a + HEADER_SIZE + old.data_size /\ old.data_size \in Nat
    BY <1>1, <1>2, Spans
  <2>2. new < old.end /\ a < new
    BY <1>2, <2>1, Sizeful
  <2>3. ASSUME new \in C
        PROVE  old.end <= new
    BY <1>1, <1>2, <2>2, <2>3 DEF Layout
  <2>4. old.end \in Nat /\ new \in Nat
    BY <1>2, <2>1, Sizeful
  <2> QED
    BY <2>2, <2>3, <2>4
<1>13. \A x \in C : x # a => SameSpan(m, r, x)
  <2> TAKE x \in C
  <2> HAVE x # a
  <2>1. x \in DOMAIN m.hdr /\ x # new
    BY <1>1, <1>12, Spans
  <2> QED
    BY <1>10, <2>1 DEF SameSpan
<1>14. r.zone[z].end = m.zone[z].end
  BY <1>10
<1> HIDE DEF C
<1>15. Layout(m, z, C) /\ a \in C
  BY <1>1, <1>2 DEF C
<1>16. /\ Layout(r, z, C \cup {new})
       /\ a < new /\ \A x \in C : a < x => new < x
  BY <1>11, <1>13, <1>14, <1>15, SplitLayout
<1>17. /\ E \subseteq Nat \ {NULL} /\ E \in SUBSET Nat /\ E \subseteq DOMAIN m.hdr
       /\ IsNext(E, NULL, m.zone[z].empty_spaces)
       /\ \A x \in E : /\ IsNext(E, x, m.hdr[x].next)
                       /\ IsPrev(E, x, m.hdr[x].prev)
  BY <1>1, LinkedMeans
<1>18. LinkedBut(r.hdr, r.zone[z].empty_spaces, E, a)
  <2>1. \A x \in E \ {a} : x # new
    BY <1>12 DEF C
  <2> QED
    BY <1>10, <1>17, <2>1 DEF LinkedBut
<1>19. IsPrev(E \ {a}, new, old.prev) /\ IsNext(E \ {a}, new, old.next)
  <2>1. NULL < new /\ new \in Nat
    BY <1>3 DEF Addr, NULL
  <2>2. \A x \in E \ {a} : x # new /\ (x < a <=> x < new)
    <3> TAKE x \in E \ {a}
    <3>1. x \in C /\ x \in Nat /\ x # a
      BY <1>17 DEF C
    <3> QED
      BY <1>2, <1>12, <1>16, <2>1, <3>1
  <2>3. IsPrev(E, a, old.prev) /\ IsNext(E, a, old.next)
    BY <1>17
  <2> HIDE DEF old
  <2> QED
    BY <1>17, <2>1, <2>2, <2>3, SameGap
<1>20. /\ "empty_spaces" \in Lists /\ z \in DOMAIN r.zone /\ MemOK(r)
       /\ new \notin E /\ new \in DOMAIN r.hdr
       /\ IsPrev(E, a, old.prev) /\ IsNext(E, a, old.next)
  BY <1>1, <1>8, <1>10, <1>12, <1>17 DEF Lists, Touches, C
<1>21. u = replace_block(r, z, "empty_spaces", old, new)
  OBVIOUS
<1> HIDE DEF old, D
<1>22. /\ Linked(u.hdr, u.zone[z].empty_spaces, (E \ {a}) \cup {new})
       /\ Touches(r, u, z, (E \ {a}) \cup {new})
       /\ Relinked(r, u, z, "empty_spaces")
  <2>1. LinkedBut(r.hdr, r.zone[z]["empty_spaces"], E, a)
    BY <1>18
  <2> QED
    <3>1. Relists(r, u, z, "empty_spaces", (E \ {a}) \cup {new})
      BY <1>3, <1>19, <1>20, <1>21, <2>1, ReplaceGives
    <3> QED
      BY <3>1 DEF Relists
<1>23. /\ Linked(u.hdr, u.zone[z].empty_spaces, D)
       /\ Touches(r, u, z, D)
  BY <1>22 DEF D
<1>24. Touches(m, u, z, {a} \cup D)
  <2>1. new \in D
    BY DEF D
  <2>2. Touches(m, t, z, {a} \cup D) /\ Touches(t, r, z, {a} \cup D)
        /\ Touches(r, u, z, {a} \cup D)
    BY <1>6, <1>8, <1>23, <2>1, TouchesMore
  <2> QED
    BY <2>2, TouchesTwice
<1>25. D \cap (B \cup {a}) = {} /\ (B \cup {a}) \cup D = C \cup {new}
  BY <1>1, <1>2, <1>9, <1>12 DEF C, D
<1>26. Linked(u.hdr, u.zone[z].blocks, B)
  <2>1. u.zone[z].blocks = m.zone[z].blocks
    BY <1>10, <1>22 DEF Relinked, Lists
  <2>2. B \cap ({a} \cup D) = {}
    BY <1>1, <1>25
  <2> QED
    BY <1>1, <1>24, <2>1, <2>2, TouchesLinked
<1>27. Layout(u, z, (B \cup {a}) \cup D)
  <2>1. \A x \in C \cup {new} : SameSpan(r, u, x)
    BY <1>16, <1>22, Spans, RelinkedSpan
  <2>2. u.zone[z].end = r.zone[z].end
    BY <1>23 DEF Touches, SameZone
  <2>3. Layout(u, z, C \cup {new})
    BY <1>16, <2>1, <2>2, LayoutSame
  <2> QED
    BY <1>25, <2>3
<1>28. u.hdr[a].data_size = size
  <2>1. a \in DOMAIN r.hdr /\ r.hdr[a].data_size = size
    BY <1>11 DEF HasSpan
  <2> QED
    BY <1>22, <2>1 DEF Relinked, SameSizes
<1>29. Taken(m, u, z, B, E, a, D)
  BY <1>23, <1>24, <1>25, <1>26, <1>27 DEF Taken
<1> QED
  BY <1>28, <1>29 DEF D

LEMMA TakeWhole ==
  ASSUME NEW m, MemOK(m), NEW z, NEW B, NEW E, Shape(m, z, B, E), NEW a \in E,
         NEW t, t = Put(m, a, Header(a, m.hdr[a].data_size)),
         NEW u, u = remove_block(t, z, "empty_spaces", m.hdr[a])
  PROVE  Taken(m, u, z, B, E, a, E \ {a}) /\ u.hdr[a].data_size = m.hdr[a].data_size
<1> DEFINE old == m.hdr[a]
           D == E \ {a}
           h == Header(a, old.data_size)
<1>1. /\ z \in DOMAIN m.zone /\ B \cap E = {} /\ Layout(m, z, B \cup E)
      /\ Linked(m.hdr, m.zone[z].blocks, B)
      /\ Linked(m.hdr, m.zone[z].empty_spaces, E)
  BY DEF Shape
<1>2. /\ a \in B \cup E /\ a \in Addr /\ a \in DOMAIN m.hdr
      /\ old.end = a + HEADER_SIZE + old.data_size
  <2>1. a \in B \cup E
    OBVIOUS
  <2>2. a \in Addr
    BY <1>1, <2>1 DEF Layout
  <2> QED
    BY <1>1, <2>1, <2>2, Spans
<1>3. /\ IsHeader(h) /\ h.data_size = old.data_size
      /\ h.end = a + HEADER_SIZE + old.data_size
  BY HeaderIs
<1>4. t = Put(m, a, h)
  OBVIOUS
<1> HIDE DEF h
<1>5. Wrote(m, t, a, h) /\ Touches(m, t, z, {a})
  BY <1>2, <1>3, <1>4, PutGives
<1>6. /\ t.zone = m.zone /\ DOMAIN t.hdr = DOMAIN m.hdr /\ t.hdr[a] = h /\ MemOK(t)
      /\ \A x \in DOMAIN m.hdr : x # a => t.hdr[x] = m.hdr[x]
  BY <1>2, <1>5 DEF Wrote, Touches
<1>7. \A x \in DOMAIN m.hdr : SameSpan(m, t, x)
  BY <1>2, <1>3, <1>6 DEF SameSpan
<1>8. /\ E \subseteq Nat \ {NULL} /\ E \subseteq DOMAIN m.hdr
      /\ IsNext(E, NULL, m.zone[z].empty_spaces)
      /\ \A x \in E : /\ IsNext(E, x, m.hdr[x].next)
                      /\ IsPrev(E, x, m.hdr[x].prev)
  BY <1>1, LinkedMeans
<1>9. LinkedBut(t.hdr, t.zone[z].empty_spaces, E, a)
  BY <1>6, <1>8 DEF LinkedBut
<1>10. IsPrev(E, a, old.prev) /\ IsNext(E, a, old.next)
  BY <1>8
<1>11. u = remove_block(t, z, "empty_spaces", old)
  OBVIOUS
<1>12. "empty_spaces" \in Lists /\ z \in DOMAIN t.zone
  BY <1>1, <1>6 DEF Lists
<1> HIDE DEF old, D
<1>13. /\ Linked(u.hdr, u.zone[z].empty_spaces, E \ {a})
       /\ Touches(t, u, z, E \ {a})
       /\ Relinked(t, u, z, "empty_spaces")
  BY <1>6, <1>9, <1>10, <1>11, <1>12, RemoveGives
<1>14. Linked(u.hdr, u.zone[z].empty_spaces, D) /\ Touches(t, u, z, D)
  BY <1>13 DEF D
<1>15. Touches(m, u, z, {a} \cup D)
  <2>1. Touches(m, t, z, {a} \cup D) /\ Touches(t, u, z, {a} \cup D)
    BY <1>5, <1>14, TouchesMore
  <2> QED
    BY <2>1, TouchesTwice
<1>16. D \cap (B \cup {a}) = {} /\ (B \cup {a}) \cup D = B \cup E
  BY <1>1, <1>2 DEF D
<1>17. Linked(u.hdr, u.zone[z].blocks, B)
  <2>1. u.zone[z].blocks = m.zone[z].blocks
    BY <1>6, <1>13 DEF Relinked, Lists
  <2>2. B \cap ({a} \cup D) = {}
    BY <1>1, <1>16
  <2> QED
    BY <1>1, <1>15, <2>1, <2>2, TouchesLinked
<1>18. Layout(u, z, (B \cup {a}) \cup D)
  <2>1. \A x \in DOMAIN m.hdr : SameSpan(m, u, x)
    BY <1>6, <1>7, <1>13 DEF Relinked, SameSizes, SameSpan
  <2>2. u.zone[z].end = m.zone[z].end
    BY <1>6, <1>14 DEF Touches, SameZone
  <2>3. \A x \in B \cup E : SameSpan(m, u, x)
    BY <1>1, <2>1, Spans
  <2> QED
    BY <1>1, <1>16, <2>2, <2>3, LayoutSame
<1>19. u.hdr[a].data_size = old.data_size
  BY <1>2, <1>3, <1>6, <1>13 DEF Relinked, SameSizes
<1>20. Taken(m, u, z, B, E, a, D)
  BY <1>14, <1>15, <1>16, <1>17, <1>18 DEF Taken
<1> QED
  BY <1>19, <1>20 DEF D, old

(* allocate_from_empty makes the empty space a a block of size bytes.      *)
LEMMA AllocateGives ==
  ASSUME NEW m, MemOK(m), NEW z, NEW B, NEW E, Shape(m, z, B, E), NEW a \in E,
         NEW size \in Nat, ALIGNMENT <= size, size <= m.hdr[a].data_size,
         NEW n, n = allocate_from_empty(m, z, a, size)
  PROVE  Worked(m, n, z, B, B \cup {a}, NULL) /\ n.hdr[a].data_size >= size
<1> DEFINE old      == m.hdr[a]
           leftover == old.data_size - size
           splits   == leftover >= MIN_SPLIT_SIZE
           block    == Header(a, IF splits THEN size ELSE old.data_size)
           taken    == Put(m, a, block)
           rest     == Put(taken, block.end, Header(block.end, leftover - HEADER_SIZE))
           u        == IF splits
                       THEN replace_block(rest, z, "empty_spaces", old, block.end)
                       ELSE remove_block(taken, z, "empty_spaces", old)
           listed   == add_block_to_list(u, z, "blocks", a)
           counted  == Count(listed, z, 1, -(block.data_size + HEADER_SIZE))
<1>1. n = update_empty_stats(counted, z)
  BY DEF allocate_from_empty
<1>2. /\ z \in DOMAIN m.zone /\ B \cap E = {} /\ Layout(m, z, B \cup E)
      /\ a \in B \cup E
  BY DEF Shape
<1>3. a \in Nat /\ old.data_size \in Nat
  BY <1>2, Spans
<1>4. PICK D : Taken(m, u, z, B, E, a, D) /\ u.hdr[a].data_size >= size
  <2>1. CASE splits
    <3> DEFINE new == a + HEADER_SIZE + size
    <3>1. block = Header(a, size)
      BY <2>1
    <3>2. block.end = new
      BY <3>1, HeaderIs
    <3>3. taken = Put(m, a, Header(a, size))
      BY <3>1
    <3>4. leftover - HEADER_SIZE = old.data_size - size - HEADER_SIZE
      BY <1>3, Sizeful
    <3>5. rest = Put(taken, new, Header(new, m.hdr[a].data_size - size - HEADER_SIZE))
      BY <3>2, <3>4
    <3>6. u = replace_block(rest, z, "empty_spaces", m.hdr[a], new)
      BY <2>1, <3>2
    <3>7. size + HEADER_SIZE + ALIGNMENT <= m.hdr[a].data_size
      BY <1>3, <2>1, Sizeful DEF MIN_SPLIT_SIZE
    <3>8. new = a + HEADER_SIZE + size
      OBVIOUS
    <3> HIDE DEF u, rest, taken, new, block
    <3>9. /\ Taken(m, u, z, B, E, a, (E \ {a}) \cup {new})
          /\ u.hdr[a].data_size = size
      BY <3>3, <3>5, <3>6, <3>7, <3>8, TakePart
    <3> QED
      BY <3>9
  <2>2. CASE ~splits
    <3>1. taken = Put(m, a, Header(a, m.hdr[a].data_size))
      BY <2>2
    <3>2. u = remove_block(taken, z, "empty_spaces", m.hdr[a])
      BY <2>2
    <3> HIDE DEF u, taken
    <3>3. /\ Taken(m, u, z, B, E, a, E \ {a})
          /\ u.hdr[a].data_size = m.hdr[a].data_size
      BY <3>1, <3>2, TakeWhole
    <3> QED
      BY <3>3
  <2> QED
    BY <2>1, <2>2
<1>5. listed = add_block_to_list(u, z, "blocks", a)
  OBVIOUS
<1>6. counted = Count(listed, z, 1, -(block.data_size + HEADER_SIZE))
  OBVIOUS
<1> HIDE DEF u, listed, counted, block, old
<1>7. /\ MemOK(u) /\ z \in DOMAIN u.zone /\ a \notin B
      /\ Linked(u.hdr, u.zone[z].blocks, B)
      /\ Linked(u.hdr, u.zone[z].empty_spaces, D)
      /\ Layout(u, z, (B \cup {a}) \cup D) /\ D \cap (B \cup {a}) = {}
      /\ Touches(m, u, z, {a} \cup D)
  BY <1>2, <1>4 DEF Taken, Touches
<1>8. /\ Shape(listed, z, B \cup {a}, D)
      /\ Touches(u, listed, z, B \cup {a})
      /\ Relinked(u, listed, z, "blocks")
  BY <1>5, <1>7, ListBlock
<1>9. MemOK(listed)
  BY <1>8 DEF Touches
<1>10. /\ Touches(listed, counted, z, {}) /\ counted.hdr = listed.hdr
       /\ Shape(counted, z, B \cup {a}, D)
  BY <1>6, <1>8, <1>9, CountShape
<1>11. MemOK(counted)
  BY <1>10 DEF Touches
<1>12. /\ Touches(counted, n, z, {}) /\ n.hdr = counted.hdr
       /\ Shape(n, z, B \cup {a}, D)
  BY <1>1, <1>10, <1>11, StatsShape
<1> DEFINE W == (B \cup {a}) \cup D
<1>13. Touches(m, n, z, W)
  <2>1. Touches(m, u, z, W)
    BY <1>7, TouchesMore
  <2>2. Touches(u, listed, z, W)
    BY <1>8, TouchesMore
  <2>3. Touches(listed, counted, z, W) /\ Touches(counted, n, z, W)
    BY <1>10, <1>12, TouchesMore
  <2> HIDE DEF W
  <2> QED
    BY <2>1, <2>2, <2>3, TouchesTwice
<1>14. \A x \in DOMAIN u.hdr : n.hdr[x].data_size = u.hdr[x].data_size
  BY <1>8, <1>10, <1>12 DEF Relinked, SameSizes
<1>15. \A x \in B : n.hdr[x].data_size = m.hdr[x].data_size
  <2> TAKE x \in B
  <2>1. x \in DOMAIN m.hdr /\ x \in DOMAIN u.hdr /\ x \notin {a} \cup D
    BY <1>2, <1>7, Spans
  <2>2. u.hdr[x] = m.hdr[x]
    BY <1>7, <2>1 DEF Touches
  <2> QED
    BY <1>14, <2>1, <2>2
<1>16. n.hdr[a].data_size >= size
  <2>1. a \in DOMAIN u.hdr
    BY <1>7, Spans
  <2> QED
    BY <1>4, <1>14, <2>1
<1>17. B \cap (B \cup {a}) = B
  OBVIOUS
<1>18. \A w \in W : Clear(m, n, z, w, B)
  <2>1. Layout(n, z, W) /\ B \in SUBSET W
    BY <1>12 DEF Shape
  <2>2. n.zone[z].end = m.zone[z].end
    BY <1>13 DEF Touches, SameZone
  <2> HIDE DEF W
  <2> QED
    BY <2>1, <2>2, ClearAfter
<1>19. \A x \in B : m.hdr[x].end \in Nat
  BY <1>2, Spans
<1> HIDE DEF W
<1>20. Worked(m, n, z, B, B \cup {a}, NULL)
  BY <1>2, <1>12, <1>13, <1>15, <1>17, <1>18, <1>19, WorkedBy
<1> QED
  BY <1>16, <1>20

------------------------------------------------------------------------------
(* Merging empty spaces.                                                   *)

ResizedHeader(h, k, d, e, q) ==
  /\ IsHeader(k) /\ k.data_size = d /\ k.end = e /\ k.next = q /\ k.prev = h.prev

LEMMA HeaderResized ==
  ASSUME NEW h, IsHeader(h), NEW d, NEW e, NEW q,
         NEW k, k = [h EXCEPT !.data_size = d, !.end = e, !.next = q]
  PROVE  ResizedHeader(h, k, d, e, q)
<1> DEFINE i == [h EXCEPT !.data_size = d]
           j == [i EXCEPT !.end = e]
<1>1. i = [data_size |-> d, prev |-> h.prev, next |-> h.next, end |-> h.end]
  BY DEF IsHeader
<1>2. k = [j EXCEPT !.next = q]
  OBVIOUS
<1> HIDE DEF i
<1>3. j = [data_size |-> d, prev |-> h.prev, next |-> h.next, end |-> e]
  BY <1>1
<1> HIDE DEF j
<1>4. k = [data_size |-> d, prev |-> h.prev, next |-> q, end |-> e]
  BY <1>2, <1>3
<1> QED
  BY <1>4 DEF IsHeader, ResizedHeader

(* Between an empty space and the next one is no chunk when the gap is too *)
(* small for one.                                                          *)
LEMMA NothingBetween ==
  ASSUME NEW m, NEW z, NEW B, NEW E, Shape(m, z, B, E), NEW e \in E, NEW f,
         f = m.hdr[e].next, f # NULL, f - m.hdr[e].end < MIN_SPLIT_SIZE
  PROVE  /\ f \in E /\ e < f
         /\ \A x \in B \cup E : e < x => f <= x
<1>1. Layout(m, z, B \cup E) /\ Linked(m.hdr, m.zone[z].empty_spaces, E)
  BY DEF Shape
<1>2. IsNext(E, e, f)
  BY <1>1, LinkedMeans
<1>3. f \in E /\ e < f /\ \A x \in E : e < x => f <= x
  BY <1>2 DEF IsNext
<1>4. /\ f \in Nat /\ e \in Nat /\ m.hdr[e].end \in Nat
  <2>1. e \in B \cup E /\ f \in B \cup E
    BY <1>3
  <2> QED
    BY <1>1, <2>1, Spans
<1>5. ASSUME NEW x \in B, e < x, ~(f <= x)
      PROVE  FALSE
  <2>1. /\ x \in Nat /\ m.hdr[x].end \in Nat
        /\ m.hdr[x].end = x + HEADER_SIZE + m.hdr[x].data_size
        /\ m.hdr[x].data_size \in Nat /\ m.hdr[x].data_size >= ALIGNMENT
    BY <1>1, Spans
  <2>2. x < f
    BY <1>4, <1>5, <2>1
  <2>3. m.hdr[e].end <= x /\ m.hdr[x].end <= f
    BY <1>1, <1>3, <1>5, <2>2 DEF Layout
  <2> QED
    BY <1>4, <2>1, <2>3, Sizeful DEF MIN_SPLIT_SIZE
<1> QED
  BY <1>3, <1>5

LEMMA JoinedSize ==
  ASSUME NEW e \in Nat, NEW f \in Nat, NEW d \in Nat, NEW c \in Nat, NEW g \in Nat,
         NEW i \in Nat, NEW j \in Nat, i = e + g + d, j = f + g + c
  PROVE  /\ d + (f - i) + c + g = j - e - g
         /\ e + g + (d + (f - i) + c + g) = j
  OBVIOUS

Adjacent(S, p, q) ==
  /\ p \in S \cup {NULL} /\ q \in S \cup {NULL}
  /\ IsNext(S, p, q)
  /\ q # NULL => IsPrev(S, q, p)

LEMMA NeighboursAdjacent ==
  ASSUME NEW S \in SUBSET (Nat \ {NULL}), NEW a \in S, NEW p, NEW q,
         IsPrev(S, a, p), IsNext(S, a, q)
  PROVE  Adjacent(S \ {a}, p, q)
  BY NeighboursMeet DEF Adjacent

LEMMA JoinGives ==
  ASSUME NEW m, MemOK(m), NEW z, NEW B, NEW E, Shape(m, z, B, E), NEW e \in E, NEW f,
         f = m.hdr[e].next, f # NULL, f - m.hdr[e].end < MIN_SPLIT_SIZE,
         NEW n, n = JoinNext(m, e)
  PROVE  /\ f \in E
         /\ Shape(n, z, B, E \ {f})
         /\ Touches(m, n, z, E)
<1> DEFINE q   == m.hdr[f].next
           d   == m.hdr[e].data_size + (f - m.hdr[e].end) + m.hdr[f].data_size
                    + HEADER_SIZE
           h   == [m.hdr[e] EXCEPT !.data_size = d, !.end = m.hdr[f].end, !.next = q]
           j   == Put(m, e, h)
           k   == SetPrev(j, q, e)
<1>1. n = Forget(k, f)
  BY DEF JoinNext
<1>2. /\ f \in E /\ e < f
      /\ \A x \in B \cup E : e < x => f <= x
  BY NothingBetween
<1>3. /\ z \in DOMAIN m.zone /\ Layout(m, z, B \cup E) /\ B \cap E = {}
      /\ Linked(m.hdr, m.zone[z].blocks, B)
      /\ Linked(m.hdr, m.zone[z].empty_spaces, E)
  BY DEF Shape
<1>4. /\ e \in Nat /\ e > 0 /\ e \in DOMAIN m.hdr /\ e \in Addr
      /\ m.hdr[e].end \in Nat /\ m.hdr[e].data_size \in Nat
      /\ m.hdr[e].end = e + HEADER_SIZE + m.hdr[e].data_size
      /\ e \in B \cup E
  BY <1>3, Spans DEF Layout
<1>5. /\ f \in Nat /\ f > 0 /\ f \in DOMAIN m.hdr /\ f \in Addr
      /\ m.hdr[f].end \in Nat /\ m.hdr[f].data_size \in Nat
      /\ m.hdr[f].end = f + HEADER_SIZE + m.hdr[f].data_size
      /\ f \in B \cup E
  <2>1. f \in B \cup E
    BY <1>2
  <2>2. f \in Addr
    BY <1>3, <2>1 DEF Layout
  <2> QED
    BY <1>3, <2>1, <2>2, Spans
<1>6. d = m.hdr[f].end - e - HEADER_SIZE /\ e + HEADER_SIZE + d = m.hdr[f].end
  BY <1>4, <1>5, Sizeful, JoinedSize
<1>7. h = [m.hdr[e] EXCEPT !.data_size = d, !.end = m.hdr[f].end, !.next = q]
  OBVIOUS
<1>8. j = Put(m, e, h) /\ k = SetPrev(j, q, e)
  OBVIOUS
<1>9. IsHeader(m.hdr[e])
  BY <1>4 DEF MemOK
<1>10. /\ E \subseteq Nat \ {NULL} /\ E \subseteq DOMAIN m.hdr
       /\ IsNext(E, NULL, m.zone[z].empty_spaces)
       /\ \A x \in E : /\ IsNext(E, x, m.hdr[x].next)
                       /\ IsPrev(E, x, m.hdr[x].prev)
  BY <1>3, LinkedMeans
<1>11. IsNext(E, f, q)
  BY <1>2, <1>10
<1> HIDE DEF k, j, h, q, d
<1>12. ResizedHeader(m.hdr[e], h, d, m.hdr[f].end, q)
  BY <1>7, <1>9, HeaderResized
<1>13. /\ IsHeader(h) /\ h.data_size = d /\ h.end = m.hdr[f].end
       /\ h.next = q /\ h.prev = m.hdr[e].prev
  BY <1>12 DEF ResizedHeader
<1>14. Wrote(m, j, e, h) /\ Touches(m, j, z, {e})
  BY <1>4, <1>8, <1>13, PutGives
<1>15. /\ j.zone = m.zone /\ DOMAIN j.hdr = DOMAIN m.hdr /\ j.hdr[e] = h /\ MemOK(j)
       /\ \A x \in DOMAIN m.hdr : x # e => j.hdr[x] = m.hdr[x]
  BY <1>4, <1>14 DEF Wrote, Touches
<1>16. q \in E \cup {NULL} /\ q \in DOMAIN j.hdr \cup {NULL} /\ (q # NULL => f < q)
  BY <1>10, <1>11, <1>15 DEF IsNext
<1>17. LinkedPrev(j, k, q, e) /\ Touches(j, k, z, {q} \ {NULL})
  BY <1>8, <1>15, <1>16, SetPrevGives
<1>18. q # e
  BY <1>2, <1>4, <1>5, <1>10, <1>16 DEF NULL
<1>19. Rewired(m, k, z, "empty_spaces", e, q, q, e)
  <2>1. e # NULL
    BY <1>4 DEF NULL
  <2>2. \A x \in DOMAIN m.hdr :
          /\ k.hdr[x].next = IF x = e THEN q ELSE m.hdr[x].next
          /\ k.hdr[x].prev = IF x = q THEN e ELSE m.hdr[x].prev
    BY <1>13, <1>15, <1>17, <1>18 DEF LinkedPrev
  <2> QED
    BY <1>15, <1>17, <2>1, <2>2 DEF LinkedPrev, Rewired, SameSizes
<1>20. IsPrev(E, f, e)
  <2>1. \A x \in E : x < f => x <= e
    BY <1>2, <1>4, <1>5, <1>10
  <2> QED
    BY <1>2, <2>1 DEF IsPrev
<1> DEFINE D == E \ {f}
<1>21. LinkedOff(m.hdr, m.zone[z].empty_spaces, D, e, q)
  <2>1. LinkedBut(m.hdr, m.zone[z].empty_spaces, E, f)
    BY <1>10 DEF LinkedBut
  <2> QED
    BY <1>2, <1>11, <1>20, <2>1, LinkedButOff
<1>22. Adjacent(D, e, q)
  <2>1. E \in SUBSET (Nat \ {NULL}) /\ f \in E
    BY <1>2, <1>10
  <2> QED
    BY <1>11, <1>20, <2>1, NeighboursAdjacent
<1> HIDE DEF D
<1>23. Linked(k.hdr, k.zone[z].empty_spaces, D)
  <2>1. LinkedOff(m.hdr, m.zone[z]["empty_spaces"], D, e, q)
    BY <1>21
  <2>2. Linked(k.hdr, k.zone[z]["empty_spaces"], D)
    BY <1>19, <1>22, <2>1, CloseGap DEF Adjacent
  <2> QED
    BY <2>2
<1>24. MemOK(k)
  BY <1>17 DEF Touches
<1>25. Forgot(k, n, f) /\ Touches(k, n, z, {f})
  BY <1>1, <1>5, <1>24, ForgetGives
<1>26. Linked(n.hdr, n.zone[z].empty_spaces, D)
  <2>1. D \cap {f} = {}
    BY DEF D
  <2> QED
    BY <1>23, <1>25, <2>1, TouchesLinked DEF Forgot
<1>27. Touches(m, n, z, E)
  <2>1. {e} \subseteq E /\ {f} \subseteq E /\ {q} \ {NULL} \subseteq E
    BY <1>2, <1>16
  <2>2. Touches(m, j, z, E) /\ Touches(j, k, z, E) /\ Touches(k, n, z, E)
    BY <1>14, <1>17, <1>25, <2>1, TouchesMore
  <2> QED
    BY <2>2, TouchesTwice
<1>28. n.zone = m.zone
  BY <1>15, <1>17, <1>25 DEF LinkedPrev, Forgot
<1>29. Linked(n.hdr, n.zone[z].blocks, B)
  BY <1>3, <1>27, <1>28, TouchesLinked
<1>30. Layout(n, z, B \cup D)
  <2> DEFINE C == B \cup E
  <2>1. /\ Layout(m, z, C) /\ e \in C /\ f \in C
        /\ \A x \in C : e < x => f <= x
    BY <1>2, <1>3, <1>4, <1>5
  <2>2. \A x \in DOMAIN m.hdr : x # f => x \in DOMAIN n.hdr /\ n.hdr[x] = k.hdr[x]
    BY <1>15, <1>17, <1>25 DEF Forgot, LinkedPrev, SameSizes
  <2>3. \A x \in C \ {f} : x # e => SameSpan(m, n, x)
    <3> TAKE x \in C \ {f}
    <3> HAVE x # e
    <3>1. x \in DOMAIN m.hdr /\ x # f
      BY <2>1, Spans
    <3> QED
      BY <1>15, <1>17, <2>2, <3>1 DEF LinkedPrev, SameSizes, SameSpan
  <2>4. HasSpan(n, e, m.hdr[f].end - e - HEADER_SIZE)
    <3>1. e # f
      BY <1>2, <1>4
    <3>2. /\ e \in DOMAIN n.hdr /\ n.hdr[e].data_size = d
          /\ n.hdr[e].end = m.hdr[f].end
      BY <1>4, <1>13, <1>15, <1>17, <2>2, <3>1 DEF LinkedPrev, SameSizes
    <3> QED
      BY <1>6, <3>2 DEF HasSpan
  <2>5. C \ {f} = B \cup D
    BY <1>2, <1>3 DEF D
  <2>6. n.zone[z].end = m.zone[z].end
    BY <1>28
  <2> HIDE DEF C
  <2>7. Layout(n, z, C \ {f})
    BY <1>2, <2>1, <2>3, <2>4, <2>6, JoinLayout
  <2> QED
    BY <2>5, <2>7
<1>31. Shape(n, z, B, D)
  BY <1>3, <1>26, <1>28, <1>29, <1>30 DEF Shape, D
<1> QED
  BY <1>2, <1>27, <1>31 DEF D

(* A state of the loop over the empty spaces, which were E before it.      *)
Turned(m, z, B, E, s) ==
  /\ s = [mem |-> s.mem, at |-> s.at]
  /\ Touches(m, s.mem, z, E)
  /\ \E F \in SUBSET E : Shape(s.mem, z, B, F) /\ s.at \in F \cup {NULL}

LEMMA TurnGives ==
  ASSUME NEW m, NEW z, NEW B, NEW E, NEW s, Turned(m, z, B, E, s)
  PROVE  Turned(m, z, B, E, MergeTurn(s))
<1> DEFINE f == s.mem.hdr[s.at].next
           t == MergeTurn(s)
<1>1. PICK F \in SUBSET E : Shape(s.mem, z, B, F) /\ s.at \in F \cup {NULL}
  BY DEF Turned
<1>2. Touches(m, s.mem, z, E) /\ s = [mem |-> s.mem, at |-> s.at] /\ MemOK(s.mem)
  BY DEF Turned, Touches
<1>3. CASE s.at = NULL \/ f = NULL
  <2>1. t = s
    BY <1>3 DEF MergeTurn
  <2> QED
    BY <2>1
<1>4. CASE ~(s.at = NULL \/ f = NULL)
  <2>1. s.at \in F /\ f # NULL
    BY <1>1, <1>4
  <2>2. t = IF f - s.mem.hdr[s.at].end < MIN_SPLIT_SIZE
            THEN [s EXCEPT !.mem = JoinNext(s.mem, s.at)]
            ELSE [s EXCEPT !.at = f]
    BY <1>4 DEF MergeTurn
  <2> DEFINE k == JoinNext(s.mem, s.at)
             e == s.at
             o == s.mem
  <2>3. k = JoinNext(o, e) /\ f = o.hdr[e].next /\ e \in F
    BY <2>1
  <2>4. Shape(o, z, B, F) /\ MemOK(o) /\ Touches(m, o, z, E) /\ s = [mem |-> o, at |-> e]
    BY <1>1, <1>2
  <2> HIDE DEF t, k, f, o, e
  <2>5. CASE f - o.hdr[e].end < MIN_SPLIT_SIZE
    <3>1. f \in F /\ Shape(k, z, B, F \ {f}) /\ Touches(o, k, z, F)
      BY <2>1, <2>3, <2>4, <2>5, JoinGives
    <3>2. t = [mem |-> k, at |-> e]
      BY <2>2, <2>4, <2>5 DEF o, e, k
    <3>3. e # f
      <4>1. F \in SUBSET Nat /\ IsNext(F, e, f)
        <5>1. Linked(o.hdr, o.zone[z].empty_spaces, F)
          BY <2>4 DEF Shape
        <5> QED
          BY <2>3, <5>1, LinkedMeans
      <4> QED
        BY <2>1, <2>3, <4>1 DEF IsNext
    <3>4. Touches(m, k, z, E)
      <4>1. Touches(o, k, z, E)
        BY <1>1, <3>1, TouchesMore
      <4> QED
        BY <2>4, <4>1, TouchesTwice
    <3>5. F \ {f} \in SUBSET E /\ e \in (F \ {f}) \cup {NULL}
      BY <1>1, <2>3, <3>3
    <3>6. Turned(m, z, B, E, t)
      <4>1. t.mem = k /\ t.at = e /\ t = [mem |-> t.mem, at |-> t.at]
        BY <3>2
      <4> QED
        BY <3>1, <3>4, <3>5, <4>1 DEF Turned
    <3> QED
      BY <3>6 DEF t
  <2>6. CASE ~(f - o.hdr[e].end < MIN_SPLIT_SIZE)
    <3>1. t = [mem |-> o, at |-> f]
      BY <2>2, <2>4, <2>6 DEF o, e
    <3>2. f \in F
      <4>1. IsNext(F, e, f)
        <5>1. Linked(o.hdr, o.zone[z].empty_spaces, F)
          BY <2>4 DEF Shape
        <5> QED
          BY <2>3, <5>1, LinkedMeans
      <4> QED
        BY <2>1, <4>1 DEF IsNext
    <3>3. Turned(m, z, B, E, t)
      <4>1. t.mem = o /\ t.at = f /\ t = [mem |-> t.mem, at |-> t.at]
        BY <3>1
      <4> QED
        BY <1>1, <2>4, <3>2, <4>1 DEF Turned
    <3> QED
      BY <3>3 DEF t
  <2> QED
    BY <2>5, <2>6
<1> QED
  BY <1>3, <1>4

(* The states of the loop for n turns: after, of merge_from.               *)
Turns(m, e, after, n) ==
  after = [k \in 0 .. n |->
             IF k = 0 THEN [mem |-> m, at |-> e] ELSE MergeTurn(after[k - 1])]

LEMMA TurnsMean ==
  ASSUME NEW m, NEW e, NEW n, NEW after, Turns(m, e, after, n)
  PROVE  \A k \in 0 .. n :
           after[k] = IF k = 0 THEN [mem |-> m, at |-> e] ELSE MergeTurn(after[k - 1])
<1> DEFINE G(k) == IF k = 0 THEN [mem |-> m, at |-> e] ELSE MergeTurn(after[k - 1])
<1>1. after = [k \in 0 .. n |-> G(k)]
  BY DEF Turns
<1> HIDE DEF G
<1>2. \A k \in 0 .. n : after[k] = G(k)
  BY <1>1
<1> QED
  BY <1>2 DEF G

LEMMA TurnsAre ==
  ASSUME NEW m, NEW e, NEW n, NEW after, after = [k \in 0 .. n |-> after[k]],
         \A k \in 0 .. n :
           after[k] = IF k = 0 THEN [mem |-> m, at |-> e] ELSE MergeTurn(after[k - 1])
  PROVE  Turns(m, e, after, n)
  BY DEF Turns

LEMMA TurnsExist ==
  ASSUME NEW m, NEW e, NEW n \in Nat
  PROVE  \E after : Turns(m, e, after, n)
<1> DEFINE Bad == {j \in Nat : ~ \E after : Turns(m, e, after, j)}
<1> SUFFICES ASSUME Bad # {}
             PROVE  FALSE
  OBVIOUS
<1>1. PICK j \in Bad : \A i \in Bad : j <= i
  <2>1. Bad \in SUBSET Nat
    OBVIOUS
  <2> HIDE DEF Bad
  <2> QED
    BY <2>1, LeastOf
<1>2. j \in Nat /\ ~ \E after : Turns(m, e, after, j)
  OBVIOUS
<1>3. CASE j = 0
  <2> DEFINE a == [k \in 0 .. 0 |-> [mem |-> m, at |-> e]]
  <2>1. a = [k \in 0 .. 0 |-> a[k]] /\ \A k \in 0 .. 0 : a[k] = [mem |-> m, at |-> e]
    OBVIOUS
  <2> HIDE DEF a
  <2>2. \A k \in 0 .. 0 :
          a[k] = IF k = 0 THEN [mem |-> m, at |-> e] ELSE MergeTurn(a[k - 1])
    BY <2>1
  <2>3. Turns(m, e, a, 0)
    BY <2>1, <2>2, TurnsAre
  <2> QED
    BY <1>2, <1>3, <2>3
<1>4. CASE j # 0
  <2>1. j - 1 \in Nat /\ j - 1 \notin Bad
    BY <1>1, <1>2, <1>4
  <2>2. PICK b : Turns(m, e, b, j - 1)
    BY <2>1
  <2>3. \A k \in 0 .. j - 1 :
          b[k] = IF k = 0 THEN [mem |-> m, at |-> e] ELSE MergeTurn(b[k - 1])
    BY <2>2, TurnsMean
  <2> DEFINE last == MergeTurn(b[j - 1])
             a == [k \in 0 .. j |-> IF k = j THEN last ELSE b[k]]
  <2>4. /\ a = [k \in 0 .. j |-> a[k]]
        /\ \A k \in 0 .. j : a[k] = IF k = j THEN last ELSE b[k]
    OBVIOUS
  <2> HIDE DEF a
  <2>5. \A k \in 0 .. j :
          a[k] = IF k = 0 THEN [mem |-> m, at |-> e] ELSE MergeTurn(a[k - 1])
    <3> TAKE k \in 0 .. j
    <3>1. k # 0 => k - 1 \in 0 .. j /\ k - 1 # j
      BY <1>2
    <3>2. k # 0 => a[k - 1] = b[k - 1]
      BY <2>4, <3>1
    <3>3. CASE k = j
      BY <1>4, <2>4, <3>2, <3>3
    <3>4. CASE k # j
      <4>1. k \in 0 .. j - 1
        BY <1>2, <3>4
      <4>2. a[k] = b[k]
        BY <2>4, <3>4
      <4> QED
        BY <2>3, <3>2, <4>1, <4>2
    <3> QED
      BY <3>3, <3>4
  <2>6. Turns(m, e, a, j)
    BY <2>4, <2>5, TurnsAre
  <2> QED
    BY <1>2, <2>6
<1> QED
  BY <1>3, <1>4

LEMMA MergeFromIs ==
  ASSUME NEW m, NEW e, NEW n, n = Cardinality(DOMAIN m.hdr)
  PROVE  merge_from(m, e) = (CHOOSE after : Turns(m, e, after, n))[n].mem
  BY DEF merge_from, Turns

(* n is m with some of the empty spaces E merged into others.              *)
Merged(m, n, z, B, E) ==
  /\ Touches(m, n, z, E)
  /\ \E F \in SUBSET E : Shape(n, z, B, F)

LEMMA MergeFromGives ==
  ASSUME NEW m, MemOK(m), NEW z, NEW B, NEW E, Shape(m, z, B, E),
         NEW n, n = merge_from(m, m.zone[z].empty_spaces)
  PROVE  Merged(m, n, z, B, E)
<1> DEFINE e     == m.zone[z].empty_spaces
           t     == Cardinality(DOMAIN m.hdr)
           after == CHOOSE after : Turns(m, e, after, t)
<1>1. t \in Nat
  BY FS_CardinalityType DEF MemOK
<1>2. n = after[t].mem
  BY MergeFromIs
<1> HIDE DEF t
<1>3. Turns(m, e, after, t)
  BY <1>1, TurnsExist
<1> HIDE DEF after
<1>4. \A k \in 0 .. t :
        after[k] = IF k = 0 THEN [mem |-> m, at |-> e] ELSE MergeTurn(after[k - 1])
  BY <1>3, TurnsMean
<1>5. e \in E \cup {NULL}
  <2>1. Linked(m.hdr, e, E)
    BY DEF Shape
  <2> QED
    BY <2>1, LinkedMeans DEF IsNext
<1> DEFINE Bad == {k \in 0 .. t : ~Turned(m, z, B, E, after[k])}
<1>6. Bad = {}
  <2> SUFFICES ASSUME Bad # {}
               PROVE  FALSE
    OBVIOUS
  <2>1. PICK k \in Bad : \A j \in Bad : k <= j
    <3>1. Bad \in SUBSET Nat
      OBVIOUS
    <3> HIDE DEF Bad
    <3> QED
      BY <3>1, LeastOf
  <2>2. k \in 0 .. t /\ ~Turned(m, z, B, E, after[k])
    OBVIOUS
  <2>3. CASE k = 0
    <3>1. after[k] = [mem |-> m, at |-> e]
      BY <1>4, <2>2, <2>3
    <3>2. /\ after[k].mem = m /\ after[k].at = e
          /\ after[k] = [mem |-> after[k].mem, at |-> after[k].at]
      BY <3>1
    <3>3. Touches(m, m, z, E)
      <4>1. Touches(m, m, z, {})
        BY TouchesNone
      <4> QED
        BY <4>1, TouchesMore
    <3> QED
      BY <1>5, <2>2, <3>2, <3>3 DEF Turned
  <2>4. CASE k # 0
    <3>1. k - 1 \in 0 .. t /\ ~(k <= k - 1)
      BY <1>1, <2>2, <2>4
    <3>2. Turned(m, z, B, E, after[k - 1])
      BY <2>1, <3>1
    <3>3. after[k] = MergeTurn(after[k - 1])
      BY <1>4, <2>2, <2>4
    <3> QED
      BY <2>2, <3>2, <3>3, TurnGives
  <2> QED
    BY <2>3, <2>4
<1>7. Turned(m, z, B, E, after[t])
  BY <1>1, <1>6
<1> QED
  BY <1>2, <1>7 DEF Turned, Merged

LEMMA MergeGives ==
  ASSUME NEW m, MemOK(m), NEW z, NEW B, NEW E, Shape(m, z, B, E),
         NEW n, n = merge_empty_spaces(m, z)
  PROVE  Merged(m, n, z, B, E)
<1> DEFINE k == merge_from(m, m.zone[z].empty_spaces)
<1>1. Merged(m, k, z, B, E)
  BY MergeFromGives
<1>2. n = update_empty_stats(k, z)
  BY DEF merge_empty_spaces
<1> HIDE DEF k
<1>3. PICK F \in SUBSET E : Shape(k, z, B, F)
  BY <1>1 DEF Merged
<1>4. Touches(m, k, z, E) /\ MemOK(k)
  BY <1>1 DEF Merged, Touches
<1>5. Touches(k, n, z, {}) /\ Shape(n, z, B, F)
  BY <1>2, <1>3, <1>4, StatsShape
<1>6. Touches(m, n, z, E)
  <2>1. Touches(k, n, z, E)
    BY <1>5, TouchesMore
  <2> QED
    BY <1>4, <2>1, TouchesTwice
<1> QED
  BY <1>5, <1>6 DEF Merged

------------------------------------------------------------------------------
(* Giving a block back, and cutting one.                                   *)

(* Work after work.                                                        *)
LEMMA WorkedTwice ==
  ASSUME NEW m, MemOK(m), NEW n, NEW o, NEW z \in DOMAIN m.zone, NEW B, NEW C, NEW D,
         NEW x, Worked(m, n, z, B, C, x), Worked(n, o, z, C, D, x),
         B \cap D \subseteq C,
         \A a \in B \cap D : /\ m.hdr[a].end \in Nat /\ n.hdr[a].end \in Nat
                             /\ o.hdr[a].end \in Nat
                             /\ m.hdr[a].end <= n.hdr[a].end \/ o.hdr[a].end <= n.hdr[a].end
  PROVE  Worked(m, o, z, B, D, x)
<1>1. MemOK(o) /\ \E E : Shape(o, z, D, E)
  BY DEF Worked
<1>2. Outside(m, n, z) /\ Outside(n, o, z) /\ n.zone[z].end = m.zone[z].end
  BY DEF Worked, Outside, SameZone
<1>3. Outside(m, o, z)
  <2>1. /\ o.g_zones = m.g_zones /\ o.mapped = m.mapped
        /\ DOMAIN o.zone = DOMAIN m.zone
        /\ SameZone(m.zone[z], o.zone[z])
    BY <1>2 DEF Outside, SameZone
  <2>2. \A y \in DOMAIN m.zone : y # z => o.zone[y] = m.zone[y]
    BY <1>2 DEF Outside
  <2>3. \A a \in DOMAIN m.hdr :
          a < z \/ m.zone[z].end <= a => a \in DOMAIN o.hdr /\ o.hdr[a] = m.hdr[a]
    BY <1>2 DEF Outside
  <2>4. \A y \in DOMAIN m.bytes :
          y < z \/ m.zone[z].end <= y => y \in DOMAIN o.bytes /\ o.bytes[y] = m.bytes[y]
    BY <1>2 DEF Outside
  <2> QED
    BY <2>1, <2>2, <2>3, <2>4 DEF Outside
<1>4. ASSUME NEW a \in B \cap D
      PROVE  PayloadKept(m, o, a)
  <2>1. a \in B \cap C /\ a \in C \cap D
    BY <1>4
  <2>2. PayloadKept(m, n, a) /\ PayloadKept(n, o, a)
    BY <2>1 DEF Worked
  <2>3. /\ m.hdr[a].end \in Nat /\ n.hdr[a].end \in Nat /\ o.hdr[a].end \in Nat
        /\ m.hdr[a].end <= n.hdr[a].end \/ o.hdr[a].end <= n.hdr[a].end
    OBVIOUS
  <2>4. DOMAIN m.bytes \subseteq Nat
    BY DEF MemOK
  <2>5. \A y \in DOMAIN m.bytes :
          y < m.hdr[a].end /\ y < o.hdr[a].end => y < n.hdr[a].end
    BY <2>3, <2>4
  <2> QED
    BY <2>2, <2>5 DEF PayloadKept
<1>5. \A a \in B \cap D : a # x => o.hdr[a].data_size = m.hdr[a].data_size
  BY DEF Worked
<1> QED
  BY <1>1, <1>3, <1>4, <1>5 DEF Worked

LEMMA LinkedResized ==
  ASSUME NEW m, NEW n, NEW head, NEW S, Linked(m.hdr, head, S),
         \A x \in S : /\ x \in DOMAIN n.hdr /\ n.hdr[x].next = m.hdr[x].next
                      /\ n.hdr[x].prev = m.hdr[x].prev
  PROVE  Linked(n.hdr, head, S)
<1>1. /\ S \subseteq Nat \ {NULL}
      /\ IsNext(S, NULL, head)
      /\ \A x \in S : /\ IsNext(S, x, m.hdr[x].next)
                      /\ IsPrev(S, x, m.hdr[x].prev)
  BY LinkedMeans
<1> QED
  BY <1>1 DEF Linked, LinkedBut

LEMMA HeaderCut ==
  ASSUME NEW h, IsHeader(h), NEW d, NEW e,
         NEW k, k = [h EXCEPT !.data_size = d, !.end = e]
  PROVE  ResizedHeader(h, k, d, e, h.next)
<1> DEFINE i == [h EXCEPT !.data_size = d]
<1>1. i = [data_size |-> d, prev |-> h.prev, next |-> h.next, end |-> h.end]
  BY DEF IsHeader
<1>2. k = [i EXCEPT !.end = e]
  OBVIOUS
<1> HIDE DEF i
<1>3. k = [data_size |-> d, prev |-> h.prev, next |-> h.next, end |-> e]
  BY <1>1, <1>2
<1> QED
  BY <1>3 DEF IsHeader, ResizedHeader

LEMMA ConvertGives ==
  ASSUME NEW m, MemOK(m), NEW z, NEW B, NEW E, Shape(m, z, B, E), NEW a \in B,
         NEW n, n = convert_block_to_empty(m, z, a)
  PROVE  Worked(m, n, z, B, B \ {a}, NULL)
<1> DEFINE C == B \ {a}
           D == E \cup {a}
           W == B \cup E
           u == remove_block(m, z, "blocks", m.hdr[a])
           c == Count(u, z, -1, m.hdr[a].data_size + HEADER_SIZE)
           l == add_block_to_list(c, z, "empty_spaces", a)
<1>1. n = merge_empty_spaces(l, z)
  BY DEF convert_block_to_empty
<1>2. /\ z \in DOMAIN m.zone /\ B \cap E = {} /\ Layout(m, z, W) /\ a \in W
      /\ Linked(m.hdr, m.zone[z].blocks, B)
      /\ Linked(m.hdr, m.zone[z].empty_spaces, E)
  BY DEF Shape
<1>3. /\ "blocks" \in Lists /\ "empty_spaces" \in Lists /\ "blocks" # "empty_spaces"
  BY DEF Lists
<1>4. u = remove_block(m, z, "blocks", m.hdr[a])
  OBVIOUS
<1>5. c = Count(u, z, -1, m.hdr[a].data_size + HEADER_SIZE)
  OBVIOUS
<1>6. l = add_block_to_list(c, z, "empty_spaces", a)
  OBVIOUS
<1> HIDE DEF u, c, l
<1>7. /\ B \subseteq Nat \ {NULL}
      /\ IsPrev(B, a, m.hdr[a].prev) /\ IsNext(B, a, m.hdr[a].next)
      /\ LinkedBut(m.hdr, m.zone[z].blocks, B, a)
  BY <1>2, LinkedMeans DEF LinkedBut
<1>8. /\ Linked(u.hdr, u.zone[z].blocks, B \ {a})
      /\ Touches(m, u, z, B \ {a})
      /\ Relinked(m, u, z, "blocks")
  <2>1. LinkedBut(m.hdr, m.zone[z]["blocks"], B, a)
    BY <1>7
  <2> QED
    BY <1>2, <1>3, <1>4, <1>7, <2>1, RemoveGives
<1>9. /\ Linked(u.hdr, u.zone[z].blocks, C) /\ Touches(m, u, z, C)
      /\ MemOK(u) /\ z \in DOMAIN u.zone /\ u.zone[z].end = m.zone[z].end
      /\ u.zone[z].empty_spaces = m.zone[z].empty_spaces
  BY <1>2, <1>3, <1>8 DEF Touches, SameZone, Relinked
<1>10. Touches(u, c, z, {}) /\ HasCounted(u, c, z, -1, m.hdr[a].data_size + HEADER_SIZE)
  BY <1>5, <1>9, CountGives
<1>11. /\ c.hdr = u.hdr /\ c.zone[z].blocks = u.zone[z].blocks
       /\ c.zone[z].empty_spaces = u.zone[z].empty_spaces
       /\ MemOK(c) /\ z \in DOMAIN c.zone /\ c.zone[z].end = u.zone[z].end
  BY <1>3, <1>9, <1>10 DEF HasCounted, Touches, SameZone
<1>12. C \cap E = {} /\ a \notin E /\ C \cap D = {} /\ C \cup D = W
  BY <1>2
<1>13. Linked(c.hdr, c.zone[z].empty_spaces, E)
  <2>1. Linked(u.hdr, u.zone[z].empty_spaces, E)
    BY <1>2, <1>9, <1>12, TouchesLinked
  <2> QED
    BY <1>11, <2>1
<1>14. Layout(c, z, W)
  <2>1. \A x \in W : SameSpan(m, c, x)
    <3> TAKE x \in W
    <3>1. SameSpan(m, u, x)
      BY <1>2, <1>8, Spans, RelinkedSpan
    <3> QED
      BY <1>11, <3>1 DEF SameSpan
  <2> HIDE DEF W
  <2> QED
    BY <1>2, <1>9, <1>11, <2>1, LayoutSame
<1>15. Linked(c.hdr, c.zone[z].blocks, C)
  BY <1>9, <1>11
<1> HIDE DEF C, W
<1>16. Layout(c, z, C \cup (E \cup {a})) /\ C \cap (E \cup {a}) = {}
  BY <1>12, <1>14 DEF D
<1>17. /\ Shape(l, z, C, E \cup {a})
       /\ Touches(c, l, z, E \cup {a})
  BY <1>6, <1>11, <1>12, <1>13, <1>15, <1>16, ListEmpty
<1>18. Shape(l, z, C, D) /\ Touches(c, l, z, D) /\ MemOK(l)
  BY <1>17 DEF D, Touches
<1> HIDE DEF D
<1>19. Merged(l, n, z, C, D)
  BY <1>1, <1>18, MergeGives
<1>20. PICK F : Shape(n, z, C, F)
  BY <1>19 DEF Merged
<1>21. C \subseteq W /\ D \subseteq W /\ {} \subseteq W
  BY <1>12
<1>22. Touches(m, n, z, W)
  <2>1. Touches(m, u, z, W) /\ Touches(u, c, z, W) /\ Touches(c, l, z, W)
        /\ Touches(l, n, z, W)
    BY <1>9, <1>10, <1>18, <1>19, <1>21, TouchesMore DEF Merged
  <2> QED
    BY <2>1, TouchesTwice
<1>23. \A x \in C : n.hdr[x].data_size = m.hdr[x].data_size
  <2> TAKE x \in C
  <2>1. x \in DOMAIN m.hdr /\ x \in DOMAIN u.hdr
    <3>1. x \in W
      BY <1>21
    <3>2. x \in DOMAIN m.hdr
      BY <1>2, <3>1, Spans
    <3> QED
      BY <1>8, <3>2 DEF Relinked, SameSizes
  <2>2. u.hdr[x].data_size = m.hdr[x].data_size
    BY <1>8, <2>1 DEF Relinked, SameSizes
  <2>3. x \notin D
    BY <1>12
  <2>4. x \in DOMAIN l.hdr /\ l.hdr[x] = u.hdr[x]
    BY <1>11, <1>18, <2>1, <2>3 DEF Touches
  <2>5. n.hdr[x] = l.hdr[x]
    BY <1>19, <2>3, <2>4 DEF Merged, Touches
  <2> QED
    BY <2>2, <2>4, <2>5
<1>24. B \cap C = C
  BY DEF C
<1>25. \A w \in W : Clear(m, n, z, w, C)
  BY <1>2, <1>21, ClearBefore
<1>26. \A x \in C : m.hdr[x].end \in Nat
  BY <1>2, <1>21, Spans
<1>27. Worked(m, n, z, B, C, NULL)
  BY <1>2, <1>20, <1>22, <1>23, <1>24, <1>25, <1>26, WorkedBy
<1> QED
  BY <1>27 DEF C

(* split_block cuts a block down to size bytes, if the rest can be a chunk. *)
LEMMA SplitGives ==
  ASSUME NEW m, MemOK(m), NEW z, NEW B, NEW E, Shape(m, z, B, E), NEW a \in B,
         NEW size \in Nat, ALIGNMENT <= size, size <= m.hdr[a].data_size,
         NEW n, n = split_block(m, z, a, size)
  PROVE  /\ Worked(m, n, z, B, B, a)
         /\ size <= n.hdr[a].data_size /\ n.hdr[a].data_size <= m.hdr[a].data_size
<1> DEFINE old      == m.hdr[a]
           leftover == old.data_size - size
           new      == a + HEADER_SIZE + size
           h        == [old EXCEPT !.data_size = size, !.end = new]
           i        == Header(new, leftover - HEADER_SIZE)
           t        == Put(m, a, h)
           c        == Count(t, z, 0, leftover)
           s        == Put(c, new, i)
           l        == add_block_to_list(s, z, "empty_spaces", new)
           C        == B \cup E
<1>1. /\ z \in DOMAIN m.zone /\ B \cap E = {} /\ Layout(m, z, C) /\ a \in C
      /\ Linked(m.hdr, m.zone[z].blocks, B)
      /\ Linked(m.hdr, m.zone[z].empty_spaces, E)
  BY DEF Shape
<1>2. /\ a \in Nat /\ a > 0 /\ a \in DOMAIN m.hdr /\ a \in Addr
      /\ old.data_size \in Nat /\ old.end \in Nat
      /\ old.end = a + HEADER_SIZE + old.data_size
  <2>1. a \in Addr
    BY <1>1 DEF Layout
  <2> HIDE DEF C
  <2> QED
    BY <1>1, <2>1, Spans
<1>3. CASE leftover < MIN_SPLIT_SIZE
  <2>1. n = m
    BY <1>3 DEF split_block
  <2>2. Touches(m, m, z, {})
    BY TouchesNone
  <2>3. \A x \in B \cap B : m.hdr[x].end \in Nat
    BY <1>1, Spans
  <2>4. \A w \in {} : Clear(m, m, z, w, B \cap B)
    OBVIOUS
  <2>5. \A x \in B \cap B : a # x => m.hdr[x].data_size = m.hdr[x].data_size
    OBVIOUS
  <2>6. Worked(m, m, z, B, B, a)
    BY <1>1, <2>2, <2>3, <2>4, <2>5, WorkedBy
  <2> QED
    BY <1>2, <2>1, <2>6
<1>4. CASE ~(leftover < MIN_SPLIT_SIZE)
  <2>1. n = merge_empty_spaces(l, z)
    BY <1>4 DEF split_block
  <2>2. /\ size + HEADER_SIZE + ALIGNMENT <= old.data_size
        /\ leftover - HEADER_SIZE = old.data_size - size - HEADER_SIZE
        /\ new \in Nat /\ new > 0 /\ new \in Addr /\ a # new
    <3>1. new \in Nat /\ new > 0 /\ a # new
      BY <1>2, Sizeful
    <3>2. new \in Addr
      BY <3>1 DEF Addr, NULL
    <3> QED
      BY <1>2, <1>4, <3>1, <3>2, Sizeful DEF MIN_SPLIT_SIZE
  <2>3. IsHeader(old)
    BY <1>2 DEF MemOK
  <2>4. /\ h = [old EXCEPT !.data_size = size, !.end = new]
        /\ t = Put(m, a, h) /\ c = Count(t, z, 0, leftover) /\ s = Put(c, new, i)
        /\ l = add_block_to_list(s, z, "empty_spaces", new)
    OBVIOUS
  <2>5. /\ IsHeader(i) /\ i.data_size = leftover - HEADER_SIZE
        /\ i.end = new + HEADER_SIZE + (leftover - HEADER_SIZE)
    BY HeaderIs
  <2>6. new = a + HEADER_SIZE + size
    OBVIOUS
  <2> HIDE DEF h, i, t, c, s, l, new, C
  <2>7. ResizedHeader(old, h, size, new, old.next)
    BY <2>3, <2>4, HeaderCut
  <2>8. /\ IsHeader(h) /\ h.data_size = size /\ h.end = new
        /\ h.next = old.next /\ h.prev = old.prev
    BY <2>7 DEF ResizedHeader
  <2>9. Wrote(m, t, a, h) /\ Touches(m, t, z, {a})
    BY <1>2, <2>4, <2>8, PutGives
  <2>10. MemOK(t) /\ z \in DOMAIN t.zone
    BY <1>1, <2>9 DEF Touches
  <2>11. Touches(t, c, z, {}) /\ HasCounted(t, c, z, 0, leftover)
    BY <2>4, <2>10, CountGives
  <2>12. MemOK(c) /\ z \in DOMAIN c.zone
    BY <2>10, <2>11 DEF Touches
  <2>13. Wrote(c, s, new, i) /\ Touches(c, s, z, {new})
    BY <2>2, <2>4, <2>5, <2>12, PutGives
  <2>14. /\ MemOK(s) /\ z \in DOMAIN s.zone
         /\ s.zone[z].blocks = m.zone[z].blocks
         /\ s.zone[z].empty_spaces = m.zone[z].empty_spaces
         /\ s.zone[z].end = m.zone[z].end
         /\ DOMAIN s.hdr = DOMAIN m.hdr \cup {new}
         /\ s.hdr[a] = h /\ s.hdr[new] = i
         /\ \A x \in DOMAIN m.hdr : x # a /\ x # new => s.hdr[x] = m.hdr[x]
    <3>1. c.zone[z].blocks = t.zone[z].blocks
      BY <2>11 DEF HasCounted, Lists
    <3>2. c.zone[z].empty_spaces = t.zone[z].empty_spaces
      BY <2>11 DEF HasCounted, Lists
    <3>3. t.zone = m.zone /\ s.zone = c.zone /\ c.zone[z].end = t.zone[z].end
      BY <2>9, <2>11, <2>13 DEF Wrote, Touches, SameZone
    <3>4. /\ DOMAIN s.hdr = DOMAIN m.hdr \cup {new}
          /\ s.hdr[a] = h /\ s.hdr[new] = i
          /\ \A x \in DOMAIN m.hdr : x # a /\ x # new => s.hdr[x] = m.hdr[x]
      BY <1>2, <2>2, <2>9, <2>11, <2>13 DEF Wrote, HasCounted
    <3> QED
      BY <1>1, <2>12, <2>13, <3>1, <3>2, <3>3, <3>4 DEF Touches
  <2>15. HasSpan(s, a, size) /\ HasSpan(s, new, old.data_size - size - HEADER_SIZE)
    BY <1>2, <2>2, <2>5, <2>6, <2>8, <2>14 DEF HasSpan
  <2>16. new \notin C
    <3>1. new < old.end /\ a < new
      BY <1>2, <2>2, <2>6, Sizeful
    <3>2. ASSUME new \in C
          PROVE  old.end <= new
      BY <1>1, <3>1, <3>2 DEF Layout
    <3> QED
      BY <1>2, <2>2, <3>1, <3>2
  <2>17. \A x \in C : x # a => SameSpan(m, s, x)
    <3> TAKE x \in C
    <3> HAVE x # a
    <3>1. x \in DOMAIN m.hdr /\ x # new
      BY <1>1, <2>16, Spans
    <3> QED
      BY <2>14, <3>1 DEF SameSpan
  <2>18. /\ Layout(s, z, C \cup {new}) /\ a < new
         /\ \A x \in C : a < x => new < x
    BY <1>1, <2>2, <2>6, <2>14, <2>15, <2>17, SplitLayout, SMTT(60)
  <2>19. Linked(s.hdr, s.zone[z].blocks, B)
    <3>1. \A x \in B : /\ x \in DOMAIN s.hdr /\ s.hdr[x].next = m.hdr[x].next
                       /\ s.hdr[x].prev = m.hdr[x].prev
      <4> TAKE x \in B
      <4>1. x \in DOMAIN m.hdr /\ x # new
        BY <1>1, <2>16, Spans DEF C
      <4> QED
        BY <2>8, <2>14, <4>1
    <3> QED
      BY <1>1, <2>14, <3>1, LinkedResized
  <2>20. Linked(s.hdr, s.zone[z].empty_spaces, E)
    <3>1. \A x \in E : /\ x \in DOMAIN s.hdr /\ s.hdr[x].next = m.hdr[x].next
                       /\ s.hdr[x].prev = m.hdr[x].prev
      <4> TAKE x \in E
      <4>1. x \in DOMAIN m.hdr /\ x # new /\ x # a
        BY <1>1, <2>16, Spans DEF C
      <4> QED
        BY <2>14, <4>1
    <3> QED
      BY <1>1, <2>14, <3>1, LinkedResized
  <2>21. /\ Layout(s, z, B \cup (E \cup {new})) /\ new \notin E
         /\ B \cap (E \cup {new}) = {}
    <3>1. B \cup (E \cup {new}) = C \cup {new}
      BY DEF C
    <3> QED
      BY <1>1, <2>16, <2>18, <3>1 DEF C
  <2>22. Shape(l, z, B, E \cup {new}) /\ Touches(s, l, z, E \cup {new})
    BY <2>4, <2>14, <2>19, <2>20, <2>21, ListEmpty
  <2> DEFINE D == E \cup {new}
             W == {a} \cup D
  <2>23. Shape(l, z, B, D) /\ Touches(s, l, z, D) /\ MemOK(l)
    BY <2>22 DEF Touches
  <2>24. {a} \subseteq W /\ {new} \subseteq W /\ D \subseteq W /\ {} \subseteq W
         /\ B \cap D = {}
    BY <2>21
  <2>25. \A w \in W : w \in C \cup {new}
    BY <1>1 DEF C
  <2> HIDE DEF D, W
  <2>26. Merged(l, n, z, B, D)
    BY <2>1, <2>23, MergeGives
  <2>27. PICK F : Shape(n, z, B, F)
    BY <2>26 DEF Merged
  <2>28. Touches(m, n, z, W)
    <3>1. Touches(m, t, z, W) /\ Touches(t, c, z, W) /\ Touches(c, s, z, W)
      BY <2>9, <2>11, <2>13, <2>24, TouchesMore
    <3>2. Touches(s, l, z, W) /\ Touches(l, n, z, W)
      BY <2>23, <2>24, <2>26, TouchesMore DEF Merged
    <3> QED
      BY <3>1, <3>2, TouchesTwice
  <2>29. \A x \in B : n.hdr[x] = s.hdr[x]
    <3> TAKE x \in B
    <3>1. x \notin D /\ x \in DOMAIN s.hdr
      BY <2>19, <2>24, LinkedMeans
    <3>2. x \in DOMAIN l.hdr /\ l.hdr[x] = s.hdr[x]
      BY <2>23, <3>1 DEF Touches
    <3> QED
      BY <2>26, <3>1, <3>2 DEF Merged, Touches
  <2>30. n.hdr[a].data_size = size
    BY <2>8, <2>14, <2>29
  <2>31. \A x \in B : a # x => n.hdr[x].data_size = m.hdr[x].data_size
    BY <2>17, <2>29 DEF SameSpan, C
  <2>32. \A w \in W : Clear(m, n, z, w, B)
    <3> TAKE w \in W
    <3>1. w \in C \cup {new} /\ B \in SUBSET (C \cup {new})
      BY <2>25 DEF C
    <3>2. Clear(m, s, z, w, B)
      BY <2>14, <2>18, <3>1, ClearAfter
    <3> QED
      BY <2>29, <3>2 DEF Clear
  <2>33. \A x \in B : m.hdr[x].end \in Nat
    BY <1>1, Spans DEF C
  <2>34. B \cap B = B
    OBVIOUS
  <2>35. Worked(m, n, z, B, B, a)
    BY <1>1, <2>27, <2>28, <2>31, <2>32, <2>33, <2>34, WorkedBy
  <2> QED
    BY <1>2, <2>30, <2>35
<1> QED
  BY <1>3, <1>4

(* What follows growing a block: it is cut back, or the statistic is       *)
(* refreshed.                                                              *)
LEMMA CutGives ==
  ASSUME NEW m, MemOK(m), NEW z, NEW B, NEW E, Shape(m, z, B, E), NEW a \in B,
         NEW size \in Nat, ALIGNMENT <= size, size <= m.hdr[a].data_size,
         NEW n, n = CutBack(m, z, a, size)
  PROVE  /\ Worked(m, n, z, B, B, a)
         /\ size <= n.hdr[a].data_size /\ n.hdr[a].data_size <= m.hdr[a].data_size
<1>1. CASE m.hdr[a].data_size - size >= MIN_SPLIT_SIZE
  <2>1. n = split_block(m, z, a, size)
    BY <1>1 DEF CutBack
  <2> QED
    BY <2>1, SplitGives
<1>2. CASE ~(m.hdr[a].data_size - size >= MIN_SPLIT_SIZE)
  <2>1. n = update_empty_stats(m, z)
    BY <1>2 DEF CutBack
  <2>2. Touches(m, n, z, {}) /\ n.hdr = m.hdr /\ Shape(n, z, B, E)
    BY <2>1, StatsShape
  <2>3. z \in DOMAIN m.zone /\ Layout(m, z, B \cup E)
    BY DEF Shape
  <2>4. \A x \in B : m.hdr[x].end \in Nat /\ m.hdr[x].data_size \in Nat
    BY <2>3, Spans
  <2> DEFINE W == {}
  <2>5. /\ \A x \in B \cap B : m.hdr[x].end \in Nat
        /\ \A w \in W : Clear(m, n, z, w, B \cap B)
        /\ \A x \in B \cap B : x # a => n.hdr[x].data_size = m.hdr[x].data_size
    BY <2>2, <2>4
  <2>7. Touches(m, n, z, W)
    BY <2>2
  <2> HIDE DEF W
  <2>6. Worked(m, n, z, B, B, a)
    BY <2>2, <2>3, <2>5, <2>7, WorkedBy
  <2> QED
    BY <2>2, <2>4, <2>6
<1> QED
  BY <1>1, <1>2

------------------------------------------------------------------------------
(* Growing a block into an empty space next to it.                         *)

(* t is m when the empty space e, of E, is in no list.                     *)
Released(m, t, z, B, E, e) ==
  /\ Touches(m, t, z, E \ {e})
  /\ SameSizes(m, t)
  /\ Linked(t.hdr, t.zone[z].blocks, B)
  /\ Linked(t.hdr, t.zone[z].empty_spaces, E \ {e})

LEMMA TakeEmptyGives ==
  ASSUME NEW m, MemOK(m), NEW z, NEW B, NEW E, Shape(m, z, B, E), NEW e \in E,
         NEW t, t = TakeEmpty(m, z, e)
  PROVE  Released(m, t, z, B, E, e)
<1> DEFINE D == E \ {e}
           u == remove_block(m, z, "empty_spaces", m.hdr[e])
           d == -(HEADER_SIZE + m.hdr[e].data_size)
<1>1. t = Count(u, z, 0, d)
  BY DEF TakeEmpty
<1>2. /\ z \in DOMAIN m.zone /\ B \cap E = {} /\ Layout(m, z, B \cup E)
      /\ Linked(m.hdr, m.zone[z].blocks, B)
      /\ Linked(m.hdr, m.zone[z].empty_spaces, E)
  BY DEF Shape
<1>3. "blocks" \in Lists /\ "empty_spaces" \in Lists /\ "blocks" # "empty_spaces"
  BY DEF Lists
<1>4. u = remove_block(m, z, "empty_spaces", m.hdr[e])
  OBVIOUS
<1> HIDE DEF u, d
<1>5. /\ IsPrev(E, e, m.hdr[e].prev) /\ IsNext(E, e, m.hdr[e].next)
      /\ LinkedBut(m.hdr, m.zone[z]["empty_spaces"], E, e)
  BY <1>2, LinkedMeans DEF LinkedBut
<1>6. /\ Linked(u.hdr, u.zone[z].empty_spaces, E \ {e})
      /\ Touches(m, u, z, E \ {e})
      /\ Relinked(m, u, z, "empty_spaces")
  BY <1>2, <1>3, <1>4, <1>5, RemoveGives
<1>7. /\ Linked(u.hdr, u.zone[z].empty_spaces, D) /\ Touches(m, u, z, D)
      /\ MemOK(u) /\ z \in DOMAIN u.zone
      /\ u.zone[z].blocks = m.zone[z].blocks
  BY <1>2, <1>3, <1>6 DEF Touches, Relinked
<1>8. Touches(u, t, z, {}) /\ HasCounted(u, t, z, 0, d)
  BY <1>1, <1>7, CountGives
<1>9. /\ t.hdr = u.hdr /\ t.zone[z].blocks = u.zone[z].blocks
      /\ t.zone[z].empty_spaces = u.zone[z].empty_spaces
  BY <1>3, <1>8 DEF HasCounted
<1>10. B \cap D = {} /\ {} \subseteq D
  BY <1>2
<1> HIDE DEF D
<1>11. Linked(u.hdr, u.zone[z].blocks, B)
  BY <1>2, <1>7, <1>10, TouchesLinked
<1>12. Touches(m, t, z, D)
  <2>1. Touches(u, t, z, D)
    BY <1>8, <1>10, TouchesMore
  <2> QED
    BY <1>7, <2>1, TouchesTwice
<1>13. SameSizes(m, t)
  BY <1>6, <1>9 DEF Relinked, SameSizes
<1>14. Linked(t.hdr, t.zone[z].blocks, B) /\ Linked(t.hdr, t.zone[z].empty_spaces, D)
  BY <1>7, <1>9, <1>11
<1> QED
  BY <1>12, <1>13, <1>14 DEF Released, D

(* n is m after the block a grew to size bytes.                            *)
Grown(m, n, z, B, a, size) ==
  /\ Worked(m, n, z, B, B, a)
  /\ n.hdr[a].data_size = size /\ m.hdr[a].data_size <= size

LEMMA GrowForwardGives ==
  ASSUME NEW m, MemOK(m), NEW z, NEW B, NEW E, Shape(m, z, B, E), NEW a \in B,
         NEW e \in E, m.hdr[a].end = e,
         NEW n, n = GrowForward(m, z, a, e)
  PROVE  Grown(m, n, z, B, a, available_space(m, a, e))
<1> DEFINE D    == E \ {e}
           W    == E \cup {a}
           C    == B \cup E
           size == available_space(m, a, e)
           h    == [m.hdr[a] EXCEPT !.data_size = size,
                                    !.end       = a + HEADER_SIZE + size]
           t    == TakeEmpty(m, z, e)
           p    == Put(t, a, h)
<1>1. n = Forget(p, e)
  BY DEF GrowForward
<1>2. /\ z \in DOMAIN m.zone /\ B \cap E = {} /\ Layout(m, z, C)
      /\ Linked(m.hdr, m.zone[z].blocks, B)
      /\ Linked(m.hdr, m.zone[z].empty_spaces, E)
  BY DEF Shape
<1>3. a \in C /\ e \in C /\ a # e /\ a \notin E /\ e \notin B
  BY <1>2
<1> HIDE DEF C
<1>4. /\ a \in Nat /\ a > 0 /\ a \in DOMAIN m.hdr /\ a \in Addr
      /\ m.hdr[a].end \in Nat /\ m.hdr[a].data_size \in Nat
      /\ m.hdr[a].end = a + HEADER_SIZE + m.hdr[a].data_size
  BY <1>2, <1>3, Spans DEF Layout
<1>5. /\ e \in Nat /\ e > 0 /\ e \in DOMAIN m.hdr /\ e \in Addr
      /\ m.hdr[e].end \in Nat /\ m.hdr[e].data_size \in Nat
      /\ m.hdr[e].end = e + HEADER_SIZE + m.hdr[e].data_size
  <2>1. e \in Addr
    BY <1>2, <1>3 DEF Layout
  <2> QED
    BY <1>2, <1>3, <2>1, Spans
<1>6. size = m.hdr[a].data_size + HEADER_SIZE + m.hdr[e].data_size
  BY DEF available_space
<1>7. /\ size \in Nat /\ m.hdr[a].data_size <= size
      /\ size = m.hdr[e].end - a - HEADER_SIZE
      /\ a + HEADER_SIZE + size = m.hdr[e].end /\ a < e
  BY <1>4, <1>5, <1>6, Sizeful
<1>8. IsHeader(m.hdr[a])
  BY <1>4 DEF MemOK
<1>9. /\ h = [m.hdr[a] EXCEPT !.data_size = size, !.end = a + HEADER_SIZE + size]
      /\ t = TakeEmpty(m, z, e) /\ p = Put(t, a, h)
  OBVIOUS
<1> HIDE DEF h, t, p, size
<1>10. ResizedHeader(m.hdr[a], h, size, a + HEADER_SIZE + size, m.hdr[a].next)
  BY <1>8, <1>9, HeaderCut
<1>11. /\ IsHeader(h) /\ h.data_size = size /\ h.end = a + HEADER_SIZE + size
       /\ h.next = m.hdr[a].next /\ h.prev = m.hdr[a].prev
  BY <1>10 DEF ResizedHeader
<1>12. Released(m, t, z, B, E, e)
  BY <1>9, TakeEmptyGives
<1>13. /\ Touches(m, t, z, D) /\ SameSizes(m, t) /\ MemOK(t)
       /\ Linked(t.hdr, t.zone[z].blocks, B) /\ Linked(t.hdr, t.zone[z].empty_spaces, D)
       /\ t.zone[z].end = m.zone[z].end
  BY <1>12 DEF Released, Touches, SameZone
<1>14. B \cap D = {} /\ e \notin D /\ a \notin D /\ D \subseteq W /\ {a} \subseteq W
       /\ {e} \subseteq W
  BY <1>2, <1>3
<1> HIDE DEF D
<1>15. \A x \in B : x \in DOMAIN t.hdr /\ t.hdr[x] = m.hdr[x]
  <2> TAKE x \in B
  <2>1. x \in DOMAIN m.hdr /\ x \notin D
    BY <1>2, <1>14, LinkedMeans
  <2> QED
    BY <1>13, <2>1 DEF Touches
<1>16. Wrote(t, p, a, h) /\ Touches(t, p, z, {a})
  BY <1>4, <1>9, <1>11, <1>13, PutGives
<1>17. MemOK(p) /\ p.zone = t.zone /\ p.hdr[a] = h
       /\ \A x \in DOMAIN t.hdr : x # a => x \in DOMAIN p.hdr /\ p.hdr[x] = t.hdr[x]
  BY <1>16 DEF Wrote, Touches
<1>18. Forgot(p, n, e) /\ Touches(p, n, z, {e})
  BY <1>1, <1>5, <1>17, ForgetGives
<1>19. Touches(m, n, z, W)
  <2>1. Touches(m, t, z, W) /\ Touches(t, p, z, W) /\ Touches(p, n, z, W)
    BY <1>13, <1>14, <1>16, <1>18, TouchesMore
  <2> QED
    BY <2>1, TouchesTwice
<1>20. n.zone = t.zone
  BY <1>17, <1>18 DEF Forgot
<1>21. a \in DOMAIN n.hdr /\ n.hdr[a] = h
  BY <1>3, <1>16, <1>17, <1>18 DEF Wrote, Forgot
<1>22. \A x \in DOMAIN t.hdr : x # a /\ x # e => x \in DOMAIN n.hdr /\ n.hdr[x] = t.hdr[x]
  BY <1>17, <1>18 DEF Forgot
<1>23. Linked(n.hdr, n.zone[z].blocks, B)
  <2>1. \A x \in B : /\ x \in DOMAIN n.hdr /\ n.hdr[x].next = t.hdr[x].next
                     /\ n.hdr[x].prev = t.hdr[x].prev
    <3> TAKE x \in B
    <3>1. CASE x = a
      BY <1>11, <1>15, <1>21, <3>1
    <3>2. CASE x # a
      <4>1. x # e
        BY <1>3
      <4> QED
        BY <1>15, <1>22, <3>2, <4>1
    <3> QED
      BY <3>1, <3>2
  <2> QED
    BY <1>13, <1>20, <2>1, LinkedResized
<1>24. Linked(n.hdr, n.zone[z].empty_spaces, D)
  <2>1. \A x \in D : /\ x \in DOMAIN n.hdr /\ n.hdr[x].next = t.hdr[x].next
                     /\ n.hdr[x].prev = t.hdr[x].prev
    <3> TAKE x \in D
    <3>1. x \in DOMAIN t.hdr
      BY <1>13, LinkedMeans
    <3>2. x # a /\ x # e
      BY <1>14
    <3> QED
      BY <1>22, <3>1, <3>2
  <2> QED
    BY <1>13, <1>20, <2>1, LinkedResized
<1>25. Layout(n, z, C \ {e})
  <2>1. \A x \in C : a < x => e <= x
    BY <1>2, <1>3 DEF Layout
  <2>2. \A x \in C \ {e} : x # a => SameSpan(m, n, x)
    <3> TAKE x \in C \ {e}
    <3> HAVE x # a
    <3>1. x \in DOMAIN m.hdr
      BY <1>2, Spans
    <3>2. x \in DOMAIN t.hdr /\ SameSpan(m, t, x)
      BY <1>13, <3>1 DEF SameSizes, SameSpan
    <3> QED
      BY <1>22, <3>2 DEF SameSpan
  <2>3. HasSpan(n, a, m.hdr[e].end - a - HEADER_SIZE)
    <3>1. n.hdr[a].data_size = size /\ n.hdr[a].end = a + HEADER_SIZE + size
      BY <1>11, <1>21
    <3> QED
      BY <1>7, <1>21, <3>1 DEF HasSpan
  <2>4. n.zone[z].end = m.zone[z].end
    BY <1>13, <1>20
  <2> QED
    BY <1>2, <1>3, <1>7, <2>1, <2>2, <2>3, <2>4, JoinLayout
<1>26. Shape(n, z, B, D)
  <2>1. C \ {e} = B \cup D
    BY <1>3 DEF C, D
  <2>2. z \in DOMAIN n.zone
    BY <1>2, <1>19 DEF Touches
  <2> QED
    BY <1>14, <1>23, <1>24, <1>25, <2>1, <2>2 DEF Shape
<1>27. \A w \in W : Clear(m, n, z, w, B)
  <2> TAKE w \in W
  <2>1. w \in C /\ B \in SUBSET C
    BY DEF C
  <2> QED
    BY <1>2, <2>1, ClearBefore
<1>28. \A x \in B : a # x => n.hdr[x].data_size = m.hdr[x].data_size
  <2> TAKE x \in B
  <2> HAVE a # x
  <2>1. x # e
    BY <1>3
  <2> QED
    BY <1>15, <1>22, <2>1
<1>29. \A x \in B : m.hdr[x].end \in Nat
  <2> TAKE x \in B
  <2>1. x \in C
    BY DEF C
  <2> QED
    BY <1>2, <2>1, Spans
<1> HIDE DEF W
<1>30. /\ \A x \in B \cap B : m.hdr[x].end \in Nat
       /\ \A w \in W : Clear(m, n, z, w, B \cap B)
       /\ \A x \in B \cap B : x # a => n.hdr[x].data_size = m.hdr[x].data_size
  BY <1>27, <1>28, <1>29
<1>31. Worked(m, n, z, B, B, a)
  BY <1>2, <1>19, <1>26, <1>30, WorkedBy
<1> QED
  BY <1>7, <1>11, <1>21, <1>31 DEF Grown, size

(* The growing and the cutting together.                                   *)
LEMMA WorkedCut ==
  ASSUME NEW m, MemOK(m), NEW z, NEW B, NEW E, Shape(m, z, B, E),
         NEW n, NEW C, NEW e \in C, Worked(m, n, z, B, C, e),
         e \in B => m.hdr[e].data_size <= n.hdr[e].data_size,
         NEW size \in Nat, ALIGNMENT <= size, size <= n.hdr[e].data_size,
         NEW o, o = CutBack(n, z, e, size)
  PROVE  /\ Worked(m, o, z, B, C, e) /\ Worked(n, o, z, C, C, e)
         /\ size <= o.hdr[e].data_size
<1>1. PICK F : Shape(n, z, C, F)
  BY DEF Worked
<1>2. MemOK(n)
  BY DEF Worked
<1>3. Worked(n, o, z, C, C, e) /\ size <= o.hdr[e].data_size
  BY <1>1, <1>2, CutGives
<1>4. PICK G : Shape(o, z, C, G)
  BY <1>3 DEF Worked
<1>5. z \in DOMAIN m.zone /\ Layout(m, z, B \cup E)
  BY DEF Shape
<1>6. Layout(n, z, C \cup F) /\ Layout(o, z, C \cup G)
  BY <1>1, <1>4 DEF Shape
<1>7. \A x \in B \cap C : /\ m.hdr[x].end \in Nat /\ n.hdr[x].end \in Nat
                          /\ o.hdr[x].end \in Nat
                          /\ m.hdr[x].end <= n.hdr[x].end \/ o.hdr[x].end <= n.hdr[x].end
  <2> TAKE x \in B \cap C
  <2>1. x \in B \cup E /\ x \in C \cup F /\ x \in C \cup G
    OBVIOUS
  <2>2. /\ x \in Nat /\ m.hdr[x].end \in Nat /\ m.hdr[x].data_size \in Nat
        /\ m.hdr[x].end = x + HEADER_SIZE + m.hdr[x].data_size
    BY <1>5, <2>1, Spans
  <2>3. /\ n.hdr[x].end \in Nat /\ n.hdr[x].data_size \in Nat
        /\ n.hdr[x].end = x + HEADER_SIZE + n.hdr[x].data_size
    BY <1>6, <2>1, Spans
  <2>4. o.hdr[x].end \in Nat
    BY <1>6, <2>1, Spans
  <2>5. m.hdr[x].data_size <= n.hdr[x].data_size
    <3>1. CASE x = e
      BY <3>1
    <3>2. CASE x # e
      <4>1. n.hdr[x].data_size = m.hdr[x].data_size
        BY <3>2 DEF Worked
      <4> QED
        BY <2>2, <4>1
    <3> QED
      BY <3>1, <3>2
  <2> QED
    BY <2>2, <2>3, <2>4, <2>5, Sizeful
<1>8. B \cap C \subseteq C
  OBVIOUS
<1>9. Worked(m, o, z, B, C, e)
  BY <1>3, <1>5, <1>7, <1>8, WorkedTwice
<1> QED
  BY <1>3, <1>9

(* What the walks over the empty spaces and the blocks meet.               *)
LEMMA WalkMeets ==
  ASSUME NEW m, MemOK(m), NEW head, NEW S, Linked(m.hdr, head, S)
  PROVE  /\ \A i \in DOMAIN Walk(m.hdr, head) : Walk(m.hdr, head)[i] \in S
         /\ \A a \in S : \E i \in DOMAIN Walk(m.hdr, head) : Walk(m.hdr, head)[i] = a
         /\ ToSet(Walk(m.hdr, head)) = S
<1>1. IsFiniteSet(DOMAIN m.hdr) /\ NULL \notin DOMAIN m.hdr
  BY DEF MemOK, Addr
<1>2. PICK n, s : InOrder(s, n, S) /\ Walk(m.hdr, head) = s
  BY <1>1, LinkedWalk
<1>3. /\ \A i \in DOMAIN s : s[i] \in S
      /\ \A a \in S : \E i \in DOMAIN s : s[i] = a
  <2>1. DOMAIN s = 1 .. n
    BY <1>2 DEF InOrder
  <2> QED
    BY <1>2, <2>1 DEF InOrder
<1>4. ToSet(s) = S
  BY <1>3 DEF ToSet
<1> QED
  BY <1>2, <1>3, <1>4

LEMMA FoundAfter ==
  ASSUME NEW m, MemOK(m), NEW z, NEW B, NEW E, Shape(m, z, B, E), NEW a,
         NEW e \in find_empty_after(m, z, a)
  PROVE  e \in E /\ m.hdr[a].end = e
<1>1. Linked(m.hdr, m.zone[z].empty_spaces, E)
  BY DEF Shape
<1>2. \A i \in DOMAIN EmptySpaces(m, z) : EmptySpaces(m, z)[i] \in E
  BY <1>1, WalkMeets DEF EmptySpaces
<1> QED
  BY <1>2 DEF find_empty_after, FirstOf

LEMMA FoundBefore ==
  ASSUME NEW m, MemOK(m), NEW z, NEW B, NEW E, Shape(m, z, B, E), NEW a,
         NEW e \in find_empty_before(m, z, a)
  PROVE  e \in E /\ m.hdr[e].end = a
<1>1. Linked(m.hdr, m.zone[z].empty_spaces, E)
  BY DEF Shape
<1>2. \A i \in DOMAIN EmptySpaces(m, z) : EmptySpaces(m, z)[i] \in E
  BY <1>1, WalkMeets DEF EmptySpaces
<1> QED
  BY <1>2 DEF find_empty_before, FirstOf

(* The bytes of the block a of m, as far as they fit, are those of the     *)
(* block e of n.                                                           *)
PayloadMoved(m, n, a, e) ==
  \A i \in Nat :
    a + HEADER_SIZE + i \in DOMAIN m.bytes /\ a + HEADER_SIZE + i < m.hdr[a].end
      /\ e + HEADER_SIZE + i < n.hdr[e].end
      => /\ e + HEADER_SIZE + i \in DOMAIN n.bytes
         /\ n.bytes[e + HEADER_SIZE + i] = m.bytes[a + HEADER_SIZE + i]

(* n is m after the block a became the block e, of at least size bytes.    *)
Resized(m, n, z, B, a, e, size) ==
  /\ Worked(m, n, z, B, (B \ {a}) \cup {e}, e)
  /\ size <= n.hdr[e].data_size
  /\ PayloadMoved(m, n, a, e)

LEMMA KeptIsMoved ==
  ASSUME NEW m, NEW n, NEW a, PayloadKept(m, n, a), a \in Nat
  PROVE  PayloadMoved(m, n, a, a)
<1> SUFFICES ASSUME NEW i \in Nat,
                    a + HEADER_SIZE + i \in DOMAIN m.bytes,
                    a + HEADER_SIZE + i < m.hdr[a].end,
                    a + HEADER_SIZE + i < n.hdr[a].end
             PROVE  /\ a + HEADER_SIZE + i \in DOMAIN n.bytes
                    /\ n.bytes[a + HEADER_SIZE + i] = m.bytes[a + HEADER_SIZE + i]
  BY DEF PayloadMoved
<1>1. a + HEADER_SIZE <= a + HEADER_SIZE + i
  BY Sizeful
<1> QED
  BY <1>1 DEF PayloadKept

LEMMA ExtendGives ==
  ASSUME NEW m, MemOK(m), NEW z, NEW B, NEW E, Shape(m, z, B, E), NEW a \in B,
         NEW size \in Nat, ALIGNMENT <= size,
         NEW r \in extend_block(m, z, a, size)
  PROVE  r.ptr = a + HEADER_SIZE /\ Resized(m, r.mem, z, B, a, a, size)
<1>1. PICK e \in find_empty_after(m, z, a) :
        /\ available_space(m, a, e) >= size
        /\ r = [mem |-> CutBack(GrowForward(m, z, a, e), z, a, size),
                ptr |-> a + HEADER_SIZE]
  BY DEF extend_block
<1> DEFINE n == GrowForward(m, z, a, e)
           o == CutBack(n, z, a, size)
<1>2. r.ptr = a + HEADER_SIZE /\ r.mem = o
  BY <1>1
<1>3. e \in E /\ m.hdr[a].end = e
  BY FoundAfter
<1>4. n = GrowForward(m, z, a, e) /\ o = CutBack(n, z, a, size)
  OBVIOUS
<1> HIDE DEF n, o
<1>5. Grown(m, n, z, B, a, available_space(m, a, e))
  BY <1>3, <1>4, GrowForwardGives
<1>6. /\ Worked(m, n, z, B, B, a) /\ m.hdr[a].data_size <= n.hdr[a].data_size
      /\ size <= n.hdr[a].data_size
  <2>1. n.hdr[a].data_size = available_space(m, a, e)
    BY <1>5 DEF Grown
  <2>2. Layout(m, z, B \cup E) /\ a \in B \cup E /\ e \in B \cup E
    BY <1>3 DEF Shape
  <2>3. m.hdr[a].data_size \in Nat /\ m.hdr[e].data_size \in Nat
    BY <2>2, Spans
  <2>4. size <= available_space(m, a, e)
    BY <1>1, <2>3, Sizeful DEF available_space
  <2> QED
    BY <1>5, <2>1, <2>4 DEF Grown
<1>7. Worked(m, o, z, B, B, a) /\ size <= o.hdr[a].data_size
  BY <1>4, <1>6, WorkedCut
<1>8. (B \ {a}) \cup {a} = B
  OBVIOUS
<1>9. a \in Nat
  <2>1. Layout(m, z, B \cup E) /\ a \in B \cup E
    BY DEF Shape
  <2> QED
    BY <2>1, Spans
<1>10. PayloadMoved(m, o, a, a)
  BY <1>7, <1>9, KeptIsMoved DEF Worked
<1> QED
  BY <1>2, <1>7, <1>8, <1>10 DEF Resized

------------------------------------------------------------------------------
(* Copying bytes.                                                          *)

(* The places where a byte comes from one at src, the indices of those     *)
(* copied being I, and b after the copies when each reads what b had.      *)
Onto(dest, I) == {dest + i : i \in I}

Copied(b, dest, src, I) ==
  [x \in (DOMAIN b \ Onto(dest, I))
           \cup Onto(dest, {i \in I : src + i \in DOMAIN b})
     |-> IF x \in Onto(dest, I) THEN b[src + (x - dest)] ELSE b[x]]

(* A turn of the loop.                                                     *)
CopyTurn(m, dest, src, i) == CopyByte(m, dest + i, src + i)

LEMMA CopyFirst ==
  ASSUME NEW b, NEW dest \in Nat, NEW src \in Nat, NEW i \in Nat
  PROVE  CopyTurn(b, dest, src, i) = Copied(b, dest, src, {i})
<1>1. Onto(dest, {i}) = {dest + i}
  BY DEF Onto
<1>2. src + ((dest + i) - dest) = src + i
  OBVIOUS
<1>3. CASE src + i \in DOMAIN b
  <2>1. {j \in {i} : src + j \in DOMAIN b} = {i}
    BY <1>3
  <2>2. (DOMAIN b \ {dest + i}) \cup {dest + i} = DOMAIN b \cup {dest + i}
    OBVIOUS
  <2> QED
    BY <1>1, <1>2, <1>3, <2>1, <2>2 DEF CopyTurn, CopyByte, Store, Copied
<1>4. CASE src + i \notin DOMAIN b
  <2>1. {j \in {i} : src + j \in DOMAIN b} = {}
    BY <1>4
  <2>2. Onto(dest, {}) = {}
    BY DEF Onto
  <2> QED
    BY <1>1, <1>4, <2>1, <2>2 DEF CopyTurn, CopyByte, Copied
<1> QED
  BY <1>3, <1>4

Unwritten(dest, I, from) == \A j \in I : dest + j # from

LEMMA CopyOneMore ==
  ASSUME NEW b, NEW dest \in Nat, NEW src \in Nat, NEW I \in SUBSET Nat,
         NEW i \in Nat, i \notin I, Unwritten(dest, I, src + i),
         NEW c, c = Copied(b, dest, src, I)
  PROVE  CopyTurn(c, dest, src, i) = Copied(b, dest, src, I \cup {i})
<1> DEFINE J == I \cup {i}
           P(K) == Onto(dest, K)
           R(K) == {k \in K : src + k \in DOMAIN b}
           g == Copied(b, dest, src, J)
<1>1. P(J) = P(I) \cup {dest + i} /\ P(R(I)) \subseteq P(I)
  BY DEF Onto
<1>2. dest + i \notin P(I) /\ src + i \notin P(I)
  BY DEF Onto, Unwritten
<1>3. /\ DOMAIN c = (DOMAIN b \ P(I)) \cup P(R(I))
      /\ \A x \in DOMAIN c : c[x] = IF x \in P(I) THEN b[src + (x - dest)] ELSE b[x]
  BY DEF Copied
<1>4. src + i \in DOMAIN c <=> src + i \in DOMAIN b
  BY <1>1, <1>2, <1>3
<1>5. src + ((dest + i) - dest) = src + i
  OBVIOUS
<1>6. CASE src + i \in DOMAIN b
  <2>1. P(R(J)) = P(R(I)) \cup {dest + i}
    <3>1. R(J) = R(I) \cup {i}
      BY <1>6
    <3> QED
      BY <3>1 DEF Onto
  <2>2. c[src + i] = b[src + i]
    BY <1>2, <1>3, <1>4, <1>6
  <2>3. CopyTurn(c, dest, src, i)
          = [x \in DOMAIN c \cup {dest + i} |->
               IF x = dest + i THEN b[src + i] ELSE c[x]]
    BY <1>4, <1>6, <2>2 DEF CopyTurn, CopyByte, Store
  <2>4. DOMAIN c \cup {dest + i} = (DOMAIN b \ P(J)) \cup P(R(J))
    BY <1>1, <1>3, <2>1
  <2>5. \A x \in DOMAIN c \cup {dest + i} :
          (IF x = dest + i THEN b[src + i] ELSE c[x])
            = IF x \in P(J) THEN b[src + (x - dest)] ELSE b[x]
    <3> HIDE DEF P, R, J
    <3> QED
      BY <1>1, <1>3, <1>5
  <2>6. g = [x \in (DOMAIN b \ P(J)) \cup P(R(J)) |->
               IF x \in P(J) THEN b[src + (x - dest)] ELSE b[x]]
    BY DEF Copied
  <2> HIDE DEF P, R, g, J
  <2>7. CopyTurn(c, dest, src, i) = g
    BY <2>3, <2>4, <2>5, <2>6
  <2> QED
    BY <2>7 DEF g, J
<1>7. CASE src + i \notin DOMAIN b
  <2>1. P(R(J)) = P(R(I))
    <3>1. R(J) = R(I)
      BY <1>7
    <3> QED
      BY <3>1
  <2>3. CopyTurn(c, dest, src, i) = [x \in DOMAIN c \ {dest + i} |-> c[x]]
    BY <1>4, <1>7 DEF CopyTurn, CopyByte
  <2>4. DOMAIN c \ {dest + i} = (DOMAIN b \ P(J)) \cup P(R(J))
    BY <1>1, <1>2, <1>3, <2>1
  <2>5. \A x \in DOMAIN c \ {dest + i} :
          c[x] = IF x \in P(J) THEN b[src + (x - dest)] ELSE b[x]
    <3> HIDE DEF P, R, J
    <3> QED
      BY <1>1, <1>3
  <2>6. g = [x \in (DOMAIN b \ P(J)) \cup P(R(J)) |->
               IF x \in P(J) THEN b[src + (x - dest)] ELSE b[x]]
    BY DEF Copied
  <2> HIDE DEF P, R, g, J
  <2>7. CopyTurn(c, dest, src, i) = g
    BY <2>3, <2>4, <2>5, <2>6
  <2> QED
    BY <2>7 DEF g, J
<1> QED
  BY <1>6, <1>7

LEMMA MaxIs ==
  ASSUME NEW n \in Nat, NEW S \in SUBSET (1 .. n), S # {}
  PROVE  Max(S) \in S /\ \A x \in S : x <= Max(S)
<1>1. IsFiniteSet(S)
  <2>1. IsFiniteSet(1 .. n)
    BY FS_Interval
  <2> QED
    BY <2>1, FS_Subset
<1>2. PICK a \in S : \A x \in S : x <= a
  BY <1>1, GreatestOf
<1>3. \A x \in S : a >= x
  BY <1>2
<1> QED
  BY <1>3 DEF Max

(* s goes through the n indices in I, and no turn of a loop that copies    *)
(* them in this order overwrites what a later one reads.                   *)
SafeOrder(dest, src, s, n, I) ==
  /\ DOMAIN s = 1 .. n
  /\ I = {s[k] : k \in 1 .. n}
  /\ \A k \in 1 .. n : s[k] \in Nat
  /\ \A j, k \in 1 .. n : s[j] = s[k] => j = k
  /\ \A j, k \in 1 .. n : j < k => dest + s[j] # src + s[k]

CopiedAll(b, g, dest, src, n, I) ==
  g = IF n = 0 THEN b ELSE Copied(b, dest, src, I)

LEMMA CopyGives ==
  ASSUME NEW b, NEW dest \in Nat, NEW src \in Nat, NEW n \in Nat,
         NEW s, NEW J, SafeOrder(dest, src, s, n, J)
  PROVE  CopiedAll(b, CopyBytes(b, dest, src, s), dest, src, n, J)
<1>0. /\ DOMAIN s = 1 .. n /\ J = {s[k] : k \in 1 .. n}
      /\ \A k \in 1 .. n : s[k] \in Nat
      /\ \A j, k \in 1 .. n : s[j] = s[k] => j = k
      /\ \A j, k \in 1 .. n : j < k => dest + s[j] # src + s[k]
  BY DEF SafeOrder
<1> DEFINE D == 1 .. n
           I(t) == {s[k] : k \in t}
           V(t) == IF t = {} THEN b ELSE Copied(b, dest, src, I(t))
           Is(g) == g = [t \in SUBSET D |->
                           IF t = {} THEN b
                           ELSE LET x == Max(t)
                                IN CopyTurn(g[t \ {x}], dest, src, s[x])]
           Vs == [t \in SUBSET D |-> V(t)]
<1>1. IsFiniteSet(D)
  BY FS_Interval
<1>2. ASSUME NEW t \in SUBSET D, t # {}
      PROVE  /\ Max(t) \in t /\ t \ {Max(t)} \in SUBSET D
             /\ V(t) = CopyTurn(V(t \ {Max(t)}), dest, src, s[Max(t)])
  <2> DEFINE x == Max(t)
             u == t \ {x}
  <2>1. x \in t /\ \A y \in t : y <= x
    BY <1>2, MaxIs
  <2> HIDE DEF x
  <2>2. I(t) = I(u) \cup {s[x]} /\ s[x] \in Nat /\ I(u) \in SUBSET Nat
    BY <1>0, <2>1
  <2>3. \A y \in u : y \in D /\ y < x
    BY <2>1
  <2>4. s[x] \notin I(u) /\ \A j \in I(u) : dest + j # src + s[x]
    BY <1>0, <2>1, <2>3
  <2>5. V(t) = CopyTurn(V(u), dest, src, s[x])
    <3>1. CASE u = {}
      <4>1. I(t) = {s[x]}
        BY <2>2, <3>1
      <4>2. V(t) = Copied(b, dest, src, I(t)) /\ V(u) = b
        BY <1>2, <3>1
      <4> HIDE DEF I, u, V
      <4>3. CopyTurn(b, dest, src, s[x]) = Copied(b, dest, src, {s[x]})
        BY <2>2, CopyFirst
      <4> QED
        BY <4>1, <4>2, <4>3
    <3>2. CASE u # {}
      <4>1. V(t) = Copied(b, dest, src, I(t)) /\ V(u) = Copied(b, dest, src, I(u))
        BY <1>2, <3>2
      <4> HIDE DEF I, u, V
      <4> DEFINE K == I(u)
                 i == s[x]
                 c == Copied(b, dest, src, K)
      <4>2. /\ K \in SUBSET Nat /\ i \in Nat /\ i \notin K
            /\ c = Copied(b, dest, src, K) /\ Unwritten(dest, K, src + i)
        BY <2>2, <2>4 DEF Unwritten
      <4> HIDE DEF K, i, c
      <4>3. CopyTurn(c, dest, src, i) = Copied(b, dest, src, K \cup {i})
        BY <4>2, CopyOneMore
      <4> QED
        BY <2>2, <4>1, <4>3 DEF K, i, c
    <3> QED
      BY <3>1, <3>2
  <2> HIDE DEF V
  <2> QED
    BY <2>1, <2>5 DEF x
<1>4. Is(Vs)
  <2>1. \A t \in SUBSET D :
          V(t) = IF t = {} THEN b
                 ELSE LET x == Max(t)
                      IN CopyTurn(Vs[t \ {x}], dest, src, s[x])
    <3> TAKE t \in SUBSET D
    <3>1. CASE t = {}
      BY <3>1
    <3>2. CASE t # {}
      <4>1. t \ {Max(t)} \in SUBSET D
        OBVIOUS
      <4>2. Vs[t \ {Max(t)}] = V(t \ {Max(t)})
        BY <4>1
      <4> QED
        BY <1>2, <3>2, <4>2
    <3> QED
      BY <3>1, <3>2
  <2> HIDE DEF V
  <2> QED
    BY <2>1
<1>5. ASSUME NEW g, Is(g)
      PROVE  g[D] = V(D)
  <2> DEFINE Bad == {t \in SUBSET D : g[t] # V(t)}
  <2> SUFFICES ASSUME Bad # {}
               PROVE  FALSE
    OBVIOUS
  <2>1. PICK t \in Bad : \A u \in SUBSET t : u # t => u \notin Bad
    <3> HIDE DEF Bad
    <3>1. Bad \in SUBSET (SUBSET D)
      BY DEF Bad
    <3> QED
      BY <1>1, <3>1, SmallestSet
  <2>2. t \in SUBSET D /\ g[t] # V(t)
    OBVIOUS
  <2>3. g[t] = IF t = {} THEN b
               ELSE LET x == Max(t)
                    IN CopyTurn(g[t \ {x}], dest, src, s[x])
    BY <1>5, <2>2
  <2>4. t # {}
    BY <2>2, <2>3
  <2>5. Max(t) \in t /\ t \ {Max(t)} \in SUBSET D
    BY <1>2, <2>2, <2>4
  <2>6. g[t \ {Max(t)}] = V(t \ {Max(t)})
    BY <2>1, <2>5
  <2> HIDE DEF V
  <2> QED
    BY <1>2, <2>2, <2>3, <2>4, <2>6
<1>6. CopyBytes(b, dest, src, s) = (CHOOSE g : Is(g))[D]
  BY <1>0 DEF CopyTurn, CopyBytes, FoldLeft, MapThenFoldSet
<1>7. CopiedAll(b, V(D), dest, src, n, J)
  BY <1>0 DEF CopiedAll
<1> HIDE DEF Is, Vs, V
<1>8. Is(CHOOSE g : Is(g))
  BY <1>4
<1> QED
  BY <1>5, <1>6, <1>7, <1>8

(* g is b after n bytes at src were copied to dest.                        *)
MovedTo(b, g, dest, src, n) ==
  /\ DOMAIN g \subseteq Nat
  /\ \A x \in DOMAIN b : x < dest \/ dest + n <= x => x \in DOMAIN g /\ g[x] = b[x]
  /\ \A i \in 0 .. n - 1 :
       src + i \in DOMAIN b => dest + i \in DOMAIN g /\ g[dest + i] = b[src + i]

LEMMA CopiedMeans ==
  ASSUME NEW b, DOMAIN b \subseteq Nat, NEW dest \in Nat, NEW src \in Nat, NEW n \in Nat,
         NEW g, g = IF n = 0 THEN b ELSE Copied(b, dest, src, 0 .. n - 1)
  PROVE  MovedTo(b, g, dest, src, n)
<1>1. CASE n = 0
  <2>1. g = b /\ 0 .. n - 1 = {}
    BY <1>1
  <2> QED
    BY <2>1 DEF MovedTo
<1>2. CASE n # 0
  <2> DEFINE I == 0 .. n - 1
             P == Onto(dest, I)
             R == Onto(dest, {i \in I : src + i \in DOMAIN b})
  <2>1. /\ DOMAIN g = (DOMAIN b \ P) \cup R
        /\ \A x \in DOMAIN g : g[x] = IF x \in P THEN b[src + (x - dest)] ELSE b[x]
    BY <1>2 DEF Copied
  <2>2. /\ R \subseteq P /\ P \subseteq Nat
        /\ \A x \in Nat : x < dest \/ dest + n <= x => x \notin P
        /\ \A i \in I : dest + i \in P
        /\ \A i \in I : src + i \in DOMAIN b => dest + i \in R
    BY DEF Onto
  <2>3. \A i \in I : src + ((dest + i) - dest) = src + i
    OBVIOUS
  <2> HIDE DEF P, R
  <2>4. DOMAIN g \subseteq Nat
    BY <2>1, <2>2
  <2>5. \A x \in DOMAIN b : x < dest \/ dest + n <= x => x \in DOMAIN g /\ g[x] = b[x]
    BY <2>1, <2>2
  <2>6. ASSUME NEW i \in I, src + i \in DOMAIN b
        PROVE  dest + i \in DOMAIN g /\ g[dest + i] = b[src + i]
    <3>1. dest + i \in R /\ dest + i \in P
      BY <2>2, <2>6
    <3>2. dest + i \in DOMAIN g
      BY <2>1, <3>1
    <3>3. g[dest + i] = b[src + ((dest + i) - dest)]
      BY <2>1, <3>1, <3>2
    <3> QED
      BY <2>3, <3>2, <3>3
  <2> QED
    BY <2>4, <2>5, <2>6 DEF MovedTo
<1> QED
  BY <1>1, <1>2

(* ft_memmove copies what was at the source, also when the two overlap.    *)
LEMMA MemmoveGives ==
  ASSUME NEW b, DOMAIN b \subseteq Nat, NEW dest \in Nat, dest # NULL, NEW src \in Nat,
         NEW n \in Nat, NEW g, g = ft_memmove(b, dest, src, n)
  PROVE  MovedTo(b, g, dest, src, n)
<1>1. CASE dest < src
  <2> DEFINE s == Upwards(n)
  <2>1. g = CopyBytes(b, dest, src, s)
    BY <1>1 DEF ft_memmove, ft_memcpy
  <2>2. DOMAIN s = 1 .. n /\ \A k \in 1 .. n : s[k] = k - 1
    BY DEF Upwards
  <2> HIDE DEF s
  <2>3. /\ \A k \in 1 .. n : s[k] \in Nat
        /\ \A j, k \in 1 .. n : s[j] = s[k] => j = k
        /\ \A j, k \in 1 .. n : j < k => dest + s[j] # src + s[k]
    BY <1>1, <2>2
  <2>4. {s[k] : k \in 1 .. n} = 0 .. n - 1
    <3>1. ASSUME NEW i \in 0 .. n - 1
          PROVE  \E k \in 1 .. n : s[k] = i
      <4>1. i + 1 \in 1 .. n /\ s[i + 1] = i
        BY <2>2
      <4> QED
        BY <4>1
    <3>2. \A k \in 1 .. n : s[k] \in 0 .. n - 1
      BY <2>2
    <3> QED
      BY <3>1, <3>2
  <2>5. SafeOrder(dest, src, s, n, 0 .. n - 1)
    BY <2>2, <2>3, <2>4 DEF SafeOrder
  <2>6. g = IF n = 0 THEN b ELSE Copied(b, dest, src, 0 .. n - 1)
    BY <2>1, <2>5, CopyGives DEF CopiedAll
  <2> QED
    BY <2>6, CopiedMeans
<1>2. CASE ~(dest < src)
  <2> DEFINE s == Downwards(n)
  <2>1. g = CopyBytes(b, dest, src, s)
    BY <1>2 DEF ft_memmove
  <2>2. DOMAIN s = 1 .. n /\ \A k \in 1 .. n : s[k] = n - k
    BY DEF Downwards
  <2> HIDE DEF s
  <2>3. /\ \A k \in 1 .. n : s[k] \in Nat
        /\ \A j, k \in 1 .. n : s[j] = s[k] => j = k
        /\ \A j, k \in 1 .. n : j < k => dest + s[j] # src + s[k]
    BY <1>2, <2>2
  <2>4. {s[k] : k \in 1 .. n} = 0 .. n - 1
    <3>1. ASSUME NEW i \in 0 .. n - 1
          PROVE  \E k \in 1 .. n : s[k] = i
      <4>1. n - i \in 1 .. n /\ s[n - i] = i
        BY <2>2
      <4> QED
        BY <4>1
    <3>2. \A k \in 1 .. n : s[k] \in 0 .. n - 1
      BY <2>2
    <3> QED
      BY <3>1, <3>2
  <2>5. SafeOrder(dest, src, s, n, 0 .. n - 1)
    BY <2>2, <2>3, <2>4 DEF SafeOrder
  <2>6. g = IF n = 0 THEN b ELSE Copied(b, dest, src, 0 .. n - 1)
    BY <2>1, <2>5, CopyGives DEF CopiedAll
  <2> QED
    BY <2>6, CopiedMeans
<1> QED
  BY <1>1, <1>2

(* n is m after the bytes from lo up to hi were written: headers there are *)
(* gone, all other headers as they were.                                   *)
Wiped(m, n, lo, hi) ==
  /\ MemOK(n)
  /\ n.g_zones = m.g_zones /\ n.zone = m.zone /\ n.mapped = m.mapped
  /\ \A h \in DOMAIN m.hdr :
       h + HEADER_SIZE <= lo \/ hi <= h => h \in DOMAIN n.hdr /\ n.hdr[h] = m.hdr[h]

(* n is m after d bytes at a were written, the bytes being b now.          *)
Overwritten(m, n, a, d, b) ==
  n = [g_zones |-> m.g_zones, zone |-> m.zone, hdr |-> Intact(m.hdr, a, d),
       bytes |-> b, mapped |-> m.mapped]

LEMMA IntactGives ==
  ASSUME NEW m, MemOK(m), NEW a \in Nat, NEW d \in Nat, NEW hi, hi = a + d,
         NEW b, DOMAIN b \subseteq Nat, NEW n, Overwritten(m, n, a, d, b)
  PROVE  Wiped(m, n, a, hi) /\ n.bytes = b
<1> DEFINE H == {h \in DOMAIN m.hdr : h + HEADER_SIZE <= a \/ a + d <= h}
<1>1. Intact(m.hdr, a, d) = [h \in H |-> m.hdr[h]]
  BY DEF Intact
<1>2. H \subseteq DOMAIN m.hdr
  OBVIOUS
<1>3. IsFiniteSet(H)
  <2> HIDE DEF H
  <2> QED
    BY <1>2, FS_Subset DEF MemOK
<1>4. DOMAIN n.hdr = H /\ \A h \in H : n.hdr[h] = m.hdr[h]
  BY <1>1 DEF Overwritten
<1>5. MemOK(n)
  <2> HIDE DEF H
  <2> QED
    BY <1>2, <1>3, <1>4 DEF MemOK, Overwritten
<1> QED
  BY <1>4, <1>5 DEF Wiped, Overwritten

(* The chunks of a zone are there as before when nothing of their headers  *)
(* was written.                                                            *)
LEMMA WipedShape ==
  ASSUME NEW m, NEW n, NEW lo, NEW hi, Wiped(m, n, lo, hi),
         NEW z, NEW B, NEW E, Shape(m, z, B, E),
         \A c \in B \cup E : c + HEADER_SIZE <= lo \/ hi <= c
  PROVE  Shape(n, z, B, E) /\ \A c \in B \cup E : n.hdr[c] = m.hdr[c]
<1>1. /\ z \in DOMAIN m.zone /\ B \cap E = {} /\ Layout(m, z, B \cup E)
      /\ Linked(m.hdr, m.zone[z].blocks, B)
      /\ Linked(m.hdr, m.zone[z].empty_spaces, E)
  BY DEF Shape
<1>2. n.zone = m.zone
  BY DEF Wiped
<1>3. \A c \in B \cup E : c \in DOMAIN n.hdr /\ n.hdr[c] = m.hdr[c]
  <2> TAKE c \in B \cup E
  <2>1. c \in DOMAIN m.hdr
    BY <1>1, Spans
  <2> QED
    BY <2>1 DEF Wiped
<1>4. Linked(n.hdr, n.zone[z].blocks, B) /\ Linked(n.hdr, n.zone[z].empty_spaces, E)
  <2>1. Linked(n.hdr, m.zone[z].blocks, B)
    BY <1>1, <1>3, LinkedResized
  <2>2. Linked(n.hdr, m.zone[z].empty_spaces, E)
    BY <1>1, <1>3, LinkedResized
  <2> QED
    BY <1>2, <2>1, <2>2
<1>5. Layout(n, z, B \cup E)
  <2>1. \A c \in B \cup E : SameSpan(m, n, c)
    BY <1>3 DEF SameSpan
  <2> QED
    BY <1>1, <1>2, <2>1, LayoutSame
<1> QED
  BY <1>1, <1>2, <1>3, <1>4, <1>5 DEF Shape

------------------------------------------------------------------------------
(* Growing a block into the empty space before it.                         *)

(* n is m after the block a of B took the empty space e before it; a's     *)
(* bytes are where they were.                                              *)
GrownBack(m, n, z, B, a, e) ==
  /\ Worked(m, n, z, B, (B \ {a}) \cup {e}, e)
  /\ e \notin B /\ e < a
  /\ n.hdr[e].data_size = available_space(m, a, e)
  /\ \A x \in DOMAIN m.bytes :
       a + HEADER_SIZE <= x /\ x < m.hdr[a].end
         => x \in DOMAIN n.bytes /\ n.bytes[x] = m.bytes[x]

(* The bytes of a chunk are off all headers of the zone.                   *)
LEMMA PayloadOff ==
  ASSUME NEW m, NEW z, NEW C, Layout(m, z, C), NEW a \in C,
         NEW x \in Nat, a + HEADER_SIZE <= x, x < m.hdr[a].end
  PROVE  OffHeaders(C, x)
<1> SUFFICES ASSUME NEW w \in C
             PROVE  x < w \/ w + HEADER_SIZE <= x
  BY DEF OffHeaders
<1>1. /\ a \in Nat /\ m.hdr[a].end \in Nat
      /\ m.hdr[a].end = a + HEADER_SIZE + m.hdr[a].data_size
      /\ m.hdr[a].data_size \in Nat
  BY Spans
<1>2. /\ w \in Nat /\ m.hdr[w].end \in Nat
      /\ m.hdr[w].end = w + HEADER_SIZE + m.hdr[w].data_size
      /\ m.hdr[w].data_size \in Nat
  BY Spans
<1>3. CASE w = a
  BY <1>1, <1>3, Sizeful
<1>4. CASE w < a
  <2>1. m.hdr[w].end <= a
    BY <1>4 DEF Layout
  <2> QED
    BY <1>1, <1>2, <2>1, Sizeful
<1>5. CASE a < w
  <2>1. m.hdr[a].end <= w
    BY <1>5 DEF Layout
  <2> QED
    BY <1>1, <1>2, <2>1
<1> QED
  BY <1>1, <1>2, <1>3, <1>4, <1>5

LEMMA GrowBackwardGives ==
  ASSUME NEW m, MemOK(m), NEW z, NEW B, NEW E, Shape(m, z, B, E), NEW a \in B,
         NEW e \in E, m.hdr[e].end = a,
         NEW n, n = GrowBackward(m, z, a, e)
  PROVE  GrownBack(m, n, z, B, a, e)
<1> DEFINE D    == E \ {e}
           F    == (B \ {a}) \cup {e}
           C    == B \cup E
           size == available_space(m, a, e)
           h    == [m.hdr[e] EXCEPT !.data_size = size, !.end = m.hdr[a].end]
           t    == TakeEmpty(m, z, e)
           p    == Put(t, e, h)
           r    == replace_block(p, z, "blocks", m.hdr[a], e)
<1>1. n = Forget(r, a)
  BY DEF GrowBackward
<1>2. /\ z \in DOMAIN m.zone /\ B \cap E = {} /\ Layout(m, z, C)
      /\ Linked(m.hdr, m.zone[z].blocks, B)
      /\ Linked(m.hdr, m.zone[z].empty_spaces, E)
  BY DEF Shape
<1>3. a \in C /\ e \in C /\ a # e /\ a \notin E /\ e \notin B
  BY <1>2
<1> HIDE DEF C
<1>4. /\ a \in Nat /\ a > 0 /\ a \in DOMAIN m.hdr /\ a \in Addr
      /\ m.hdr[a].end \in Nat /\ m.hdr[a].data_size \in Nat
      /\ m.hdr[a].end = a + HEADER_SIZE + m.hdr[a].data_size
  <2>1. a \in Addr
    BY <1>2, <1>3 DEF Layout
  <2> QED
    BY <1>2, <1>3, <2>1, Spans
<1>5. /\ e \in Nat /\ e > 0 /\ e \in DOMAIN m.hdr /\ e \in Addr
      /\ m.hdr[e].end \in Nat /\ m.hdr[e].data_size \in Nat
      /\ m.hdr[e].end = e + HEADER_SIZE + m.hdr[e].data_size
  <2>1. e \in Addr
    BY <1>2, <1>3 DEF Layout
  <2> QED
    BY <1>2, <1>3, <2>1, Spans
<1>6. size = m.hdr[a].data_size + HEADER_SIZE + m.hdr[e].data_size
  BY DEF available_space
<1>7. /\ size \in Nat /\ size = m.hdr[a].end - e - HEADER_SIZE
      /\ e + HEADER_SIZE + size = m.hdr[a].end /\ e < a
  BY <1>4, <1>5, <1>6, Sizeful
<1>8. IsHeader(m.hdr[e])
  BY <1>5 DEF MemOK
<1>9. /\ h = [m.hdr[e] EXCEPT !.data_size = size, !.end = m.hdr[a].end]
      /\ t = TakeEmpty(m, z, e) /\ p = Put(t, e, h)
      /\ r = replace_block(p, z, "blocks", m.hdr[a], e)
  OBVIOUS
<1> HIDE DEF h, t, p, r, size
<1>10. ResizedHeader(m.hdr[e], h, size, m.hdr[a].end, m.hdr[e].next)
  BY <1>8, <1>9, HeaderCut
<1>11. IsHeader(h) /\ h.data_size = size /\ h.end = m.hdr[a].end
  BY <1>10 DEF ResizedHeader
<1>12. Released(m, t, z, B, E, e)
  BY <1>9, TakeEmptyGives
<1>13. /\ Touches(m, t, z, D) /\ SameSizes(m, t) /\ MemOK(t)
       /\ Linked(t.hdr, t.zone[z].blocks, B) /\ Linked(t.hdr, t.zone[z].empty_spaces, D)
       /\ t.zone[z].end = m.zone[z].end /\ DOMAIN t.zone = DOMAIN m.zone
  BY <1>12 DEF Released, Touches, SameZone
<1>14. /\ B \cap D = {} /\ e \notin D /\ a \notin D /\ D \subseteq C /\ {e} \subseteq C
       /\ {a} \subseteq C /\ F \subseteq C /\ F \cap D = {} /\ a \notin F
       /\ F = (B \ {a}) \cup {e} /\ F \cup D = C \ {a} /\ B \cap F = B \ {a}
  BY <1>2, <1>3 DEF C
<1> HIDE DEF D, F
<1>15. Wrote(t, p, e, h) /\ Touches(t, p, z, {e})
  BY <1>5, <1>9, <1>11, <1>13, PutGives
<1>16. /\ MemOK(p) /\ p.zone = t.zone /\ e \in DOMAIN p.hdr /\ p.hdr[e] = h
       /\ \A x \in DOMAIN t.hdr : x # e => x \in DOMAIN p.hdr /\ p.hdr[x] = t.hdr[x]
       /\ z \in DOMAIN p.zone
  BY <1>2, <1>13, <1>15 DEF Wrote, Touches
<1>17. Linked(p.hdr, p.zone[z].blocks, B) /\ Linked(p.hdr, p.zone[z].empty_spaces, D)
  <2>1. B \cap {e} = {} /\ D \cap {e} = {}
    BY <1>3, <1>14
  <2>2. Linked(p.hdr, t.zone[z].blocks, B)
    BY <1>13, <1>15, <2>1, TouchesLinked
  <2>3. Linked(p.hdr, t.zone[z].empty_spaces, D)
    BY <1>13, <1>15, <2>1, TouchesLinked
  <2> QED
    BY <1>16, <2>2, <2>3
<1>18. /\ IsPrev(B, a, m.hdr[a].prev) /\ IsNext(B, a, m.hdr[a].next)
       /\ B \subseteq Nat \ {NULL}
  BY <1>2, LinkedMeans
<1>19. \A x \in B \ {a} : x # e /\ (x < a <=> x < e)
  <2> TAKE x \in B \ {a}
  <2>1. x \in C /\ x # e /\ x \in Nat
    BY <1>3, <1>18 DEF C
  <2>2. x < e => x < a
    BY <1>4, <1>5, <1>7, <2>1
  <2>3. ASSUME x < a, ~(x < e)
        PROVE  FALSE
    <3>1. e < x
      BY <1>5, <2>1, <2>3
    <3>2. m.hdr[e].end <= x
      BY <1>2, <1>3, <2>1, <3>1 DEF Layout
    <3> QED
      BY <1>4, <2>1, <2>3, <3>2
  <2> QED
    BY <2>1, <2>2, <2>3
<1>20. IsPrev(B \ {a}, e, m.hdr[a].prev) /\ IsNext(B \ {a}, e, m.hdr[a].next)
  <2>1. B \in SUBSET Nat /\ NULL < e
    BY <1>5, <1>18 DEF NULL
  <2> QED
    BY <1>5, <1>18, <1>19, <2>1, SameGap
<1>21. Relists(p, r, z, "blocks", (B \ {a}) \cup {e})
  <2>1. LinkedBut(p.hdr, p.zone[z]["blocks"], B, a) /\ "blocks" \in Lists
    BY <1>17 DEF Lists, Linked, LinkedBut
  <2> QED
    BY <1>3, <1>5, <1>9, <1>16, <1>18, <1>20, <2>1, ReplaceGives
<1>22. /\ Linked(r.hdr, r.zone[z].blocks, F) /\ Touches(p, r, z, F) /\ SameSizes(p, r)
       /\ MemOK(r) /\ r.zone[z].empty_spaces = p.zone[z].empty_spaces
       /\ r.zone[z].end = p.zone[z].end
  <2>1. "empty_spaces" \in Lists /\ "empty_spaces" # "blocks"
    BY DEF Lists
  <2>2. Relists(p, r, z, "blocks", F)
    BY <1>14, <1>21
  <2> QED
    BY <2>1, <2>2 DEF Relists, Relinked, Touches, SameZone
<1>23. Linked(r.hdr, r.zone[z].empty_spaces, D)
  <2>1. D \cap F = {}
    BY <1>14
  <2> QED
    BY <1>17, <1>22, <2>1, TouchesLinked
<1>24. Forgot(r, n, a) /\ Touches(r, n, z, {a})
  BY <1>1, <1>4, <1>22, ForgetGives
<1>25. n.zone = r.zone /\ \A x \in DOMAIN r.hdr : x # a => x \in DOMAIN n.hdr /\ n.hdr[x] = r.hdr[x]
  BY <1>24 DEF Forgot
<1>26. Touches(m, n, z, C)
  <2>1. Touches(m, t, z, C) /\ Touches(t, p, z, C) /\ Touches(p, r, z, C)
        /\ Touches(r, n, z, C)
    BY <1>13, <1>14, <1>15, <1>22, <1>24, TouchesMore
  <2> QED
    BY <2>1, TouchesTwice
<1>27. Linked(n.hdr, n.zone[z].blocks, F) /\ Linked(n.hdr, n.zone[z].empty_spaces, D)
  <2>1. F \cap {a} = {} /\ D \cap {a} = {}
    BY <1>14
  <2> QED
    BY <1>22, <1>23, <1>24, <1>25, <2>1, TouchesLinked
<1>28. \A x \in DOMAIN m.hdr : x # e /\ x # a => SameSpan(m, n, x)
  <2> TAKE x \in DOMAIN m.hdr
  <2> HAVE x # e /\ x # a
  <2>1. SameSpan(m, t, x) /\ x \in DOMAIN t.hdr
    BY <1>13 DEF SameSizes, SameSpan
  <2>2. SameSpan(t, p, x) /\ x \in DOMAIN p.hdr
    BY <1>16, <2>1 DEF SameSpan
  <2>3. SameSpan(p, r, x) /\ x \in DOMAIN r.hdr
    BY <1>22, <2>2 DEF SameSizes, SameSpan
  <2>4. SameSpan(r, n, x)
    BY <1>25, <2>3 DEF SameSpan
  <2> QED
    BY <2>1, <2>2, <2>3, <2>4 DEF SameSpan
<1>29. /\ e \in DOMAIN n.hdr /\ n.hdr[e].data_size = size
       /\ n.hdr[e].end = m.hdr[a].end
  <2>1. e \in DOMAIN r.hdr /\ r.hdr[e].data_size = size /\ r.hdr[e].end = m.hdr[a].end
    BY <1>11, <1>16, <1>22 DEF SameSizes
  <2> QED
    BY <1>3, <1>25, <2>1
<1>30. n.zone[z].end = m.zone[z].end
  BY <1>13, <1>16, <1>22, <1>25
<1>31. Layout(n, z, C \ {a})
  <2>1. \A x \in C : e < x => a <= x
    BY <1>2, <1>3 DEF Layout
  <2>2. \A x \in C \ {a} : x # e => SameSpan(m, n, x)
    <3> TAKE x \in C \ {a}
    <3>1. x \in DOMAIN m.hdr
      BY <1>2, Spans
    <3> QED
      BY <1>28, <3>1
  <2>3. HasSpan(n, e, m.hdr[a].end - e - HEADER_SIZE)
    BY <1>7, <1>29 DEF HasSpan
  <2> QED
    BY <1>2, <1>3, <1>7, <1>30, <2>1, <2>2, <2>3, JoinLayout
<1>32. Shape(n, z, F, D)
  <2>1. z \in DOMAIN n.zone
    BY <1>2, <1>26 DEF Touches
  <2> QED
    BY <1>14, <1>27, <1>31, <2>1 DEF Shape
<1>33. /\ \A x \in B \cap F : m.hdr[x].end \in Nat
       /\ \A w \in C : Clear(m, n, z, w, B \cap F)
       /\ \A x \in B \cap F : x # e => n.hdr[x].data_size = m.hdr[x].data_size
  <2>1. B \cap F \in SUBSET C
    BY DEF C
  <2>2. \A x \in B \cap F : m.hdr[x].end \in Nat /\ x \in DOMAIN m.hdr
    BY <1>2, <2>1, Spans
  <2>3. \A w \in C : Clear(m, n, z, w, B \cap F)
    BY <1>2, <2>1, ClearBefore
  <2>4. \A x \in B \cap F : x # e => n.hdr[x].data_size = m.hdr[x].data_size
    BY <1>14, <1>28, <2>2 DEF SameSpan
  <2> QED
    BY <2>2, <2>3, <2>4
<1>34. Worked(m, n, z, B, F, e)
  BY <1>2, <1>26, <1>32, <1>33, WorkedBy
<1>35. \A x \in DOMAIN m.bytes :
         a + HEADER_SIZE <= x /\ x < m.hdr[a].end
           => x \in DOMAIN n.bytes /\ n.bytes[x] = m.bytes[x]
  <2> TAKE x \in DOMAIN m.bytes
  <2> HAVE a + HEADER_SIZE <= x /\ x < m.hdr[a].end
  <2>1. x \in Nat
    BY DEF MemOK
  <2>2. OffHeaders(C, x)
    BY <1>2, <1>3, <2>1, PayloadOff
  <2> QED
    BY <1>26, <2>2 DEF Touches
<1>36. Worked(m, n, z, B, (B \ {a}) \cup {e}, e)
  BY <1>14, <1>34
<1>37. n.hdr[e].data_size = available_space(m, a, e)
  BY <1>29 DEF size
<1> QED
  BY <1>3, <1>7, <1>35, <1>36, <1>37 DEF GrownBack

(* n is m after payload bytes of the block a, and no others, were written. *)
Written(m, n, z, B, E, a) ==
  /\ MemOK(n) /\ Outside(m, n, z)
  /\ Shape(n, z, B, E)
  /\ \A b \in B : n.hdr[b] = m.hdr[b]
  /\ \A b \in B : b # a => PayloadKept(m, n, b)

LEMMA OffPayload ==
  ASSUME NEW m, NEW z, NEW C, Layout(m, z, C), NEW a \in C,
         NEW d \in Nat, d <= m.hdr[a].data_size
  PROVE  \A c \in C : c + HEADER_SIZE <= a + HEADER_SIZE \/ a + HEADER_SIZE + d <= c
<1> TAKE c \in C
<1>1. /\ a \in Nat /\ m.hdr[a].end \in Nat
      /\ m.hdr[a].end = a + HEADER_SIZE + m.hdr[a].data_size
      /\ m.hdr[a].data_size \in Nat
  BY Spans
<1>2. c \in Nat
  BY Spans
<1>3. CASE c <= a
  BY <1>1, <1>2, <1>3, Sizeful
<1>4. CASE a < c
  <2>1. m.hdr[a].end <= c
    BY <1>4 DEF Layout
  <2> QED
    BY <1>1, <1>2, <2>1, Sizeful
<1> QED
  BY <1>1, <1>2, <1>3, <1>4

LEMMA WriteGives ==
  ASSUME NEW m, MemOK(m), NEW z, NEW B, NEW E, Shape(m, z, B, E), NEW a \in B,
         NEW d \in Nat, d <= m.hdr[a].data_size,
         NEW lo, lo = a + HEADER_SIZE, NEW hi, hi = a + HEADER_SIZE + d,
         NEW n, Wiped(m, n, lo, hi),
         \A x \in DOMAIN m.bytes :
           x < lo \/ hi <= x => x \in DOMAIN n.bytes /\ n.bytes[x] = m.bytes[x]
  PROVE  Written(m, n, z, B, E, a)
<1>1. z \in DOMAIN m.zone /\ Layout(m, z, B \cup E) /\ a \in B \cup E
  BY DEF Shape
<1>2. /\ z \in Nat /\ m.zone[z].end \in Nat /\ a \in Nat
      /\ m.hdr[a].data_size \in Nat /\ m.hdr[a].end \in Nat
      /\ m.hdr[a].end = a + HEADER_SIZE + m.hdr[a].data_size
      /\ z + ZONE_HEADER_SIZE <= a /\ m.hdr[a].end <= m.zone[z].end
  BY <1>1, Spans
<1>3. \A c \in B \cup E : c + HEADER_SIZE <= lo \/ hi <= c
  BY <1>1, OffPayload
<1>4. Shape(n, z, B, E) /\ \A c \in B \cup E : n.hdr[c] = m.hdr[c]
  BY <1>3, WipedShape
<1>5. MemOK(n) /\ n.zone = m.zone /\ n.g_zones = m.g_zones /\ n.mapped = m.mapped
  BY DEF Wiped
<1>6. Outside(m, n, z)
  <2>1. ASSUME NEW h \in DOMAIN m.hdr, h < z \/ m.zone[z].end <= h
        PROVE  h \in DOMAIN n.hdr /\ n.hdr[h] = m.hdr[h]
    <3>1. h \in Nat
      BY DEF MemOK, Addr
    <3>2. h + HEADER_SIZE <= lo \/ hi <= h
      BY <1>2, <2>1, <3>1, Sizeful
    <3> QED
      BY <3>2 DEF Wiped
  <2>2. ASSUME NEW x \in DOMAIN m.bytes, x < z \/ m.zone[z].end <= x
        PROVE  x \in DOMAIN n.bytes /\ n.bytes[x] = m.bytes[x]
    <3>1. x \in Nat
      BY DEF MemOK
    <3>2. x < lo \/ hi <= x
      BY <1>2, <2>2, <3>1, Sizeful
    <3> QED
      BY <3>2
  <2>3. SameZone(m.zone[z], n.zone[z])
    BY <1>5 DEF SameZone
  <2> QED
    BY <1>5, <2>1, <2>2, <2>3 DEF Outside
<1>7. ASSUME NEW b \in B, b # a
      PROVE  PayloadKept(m, n, b)
  <2>1. b \in B \cup E
    OBVIOUS
  <2>2. /\ b \in Nat /\ m.hdr[b].end \in Nat
        /\ m.hdr[b].end = b + HEADER_SIZE + m.hdr[b].data_size
        /\ m.hdr[b].data_size \in Nat
    BY <1>1, <2>1, Spans
  <2>3. m.hdr[b].end <= a \/ m.hdr[a].end <= b
    <3>1. b < a => m.hdr[b].end <= a
      BY <1>1, <2>1 DEF Layout
    <3>2. a < b => m.hdr[a].end <= b
      BY <1>1, <2>1 DEF Layout
    <3> QED
      BY <1>2, <1>7, <2>2, <3>1, <3>2
  <2>4. \A x \in Nat : b + HEADER_SIZE <= x /\ x < m.hdr[b].end => x < lo \/ hi <= x
    BY <1>2, <2>2, <2>3, Sizeful
  <2>5. DOMAIN m.bytes \subseteq Nat
    BY DEF MemOK
  <2> QED
    BY <2>4, <2>5 DEF PayloadKept
<1> QED
  BY <1>4, <1>5, <1>6, <1>7 DEF Written

LEMMA MoveBytesGives ==
  ASSUME NEW m, MemOK(m), NEW dest \in Nat, dest # NULL, NEW src \in Nat, NEW d \in Nat,
         NEW n, n = MoveBytes(m, dest, src, d)
  PROVE  Wiped(m, n, dest, dest + d) /\ MovedTo(m.bytes, n.bytes, dest, src, d)
<1> DEFINE b == ft_memmove(m.bytes, dest, src, d)
           H == Intact(m.hdr, dest, d)
<1>1. n = [m EXCEPT !.bytes = b, !.hdr = H]
  BY DEF MoveBytes
<1> HIDE DEF b, H
<1>2. n = [g_zones |-> m.g_zones, zone |-> m.zone, hdr |-> H, bytes |-> b,
           mapped |-> m.mapped]
  BY <1>1 DEF MemOK
<1>3. MovedTo(m.bytes, b, dest, src, d)
  BY MemmoveGives DEF MemOK, b
<1>4. DOMAIN b \subseteq Nat
  BY <1>3 DEF MovedTo
<1>5. Wiped(m, n, dest, dest + d) /\ n.bytes = b
  <2>1. Overwritten(m, n, dest, d, b)
    BY <1>2 DEF H, Overwritten
  <2> DEFINE hi == dest + d
  <2>2. hi = dest + d
    OBVIOUS
  <2> HIDE DEF hi
  <2>3. Wiped(m, n, dest, hi) /\ n.bytes = b
    BY <1>4, <2>1, <2>2, IntactGives
  <2> QED
    BY <2>2, <2>3
<1> QED
  BY <1>3, <1>5

(* The payload of the block that grew backwards is moved to its new place. *)
MovedBack(m, v, z, B, a, e) ==
  /\ Worked(m, v, z, B, (B \ {a}) \cup {e}, e)
  /\ v.hdr[e].data_size = available_space(m, a, e)
  /\ PayloadMoved(m, v, a, e)

LEMMA MoveBackGives ==
  ASSUME NEW m, MemOK(m), NEW z, NEW B, NEW E, Shape(m, z, B, E), NEW a \in B,
         NEW e \in E, m.hdr[e].end = a,
         NEW v, v = MoveBytes(GrowBackward(m, z, a, e), e + HEADER_SIZE,
                              a + HEADER_SIZE, m.hdr[a].data_size)
  PROVE  MovedBack(m, v, z, B, a, e)
<1> DEFINE n == GrowBackward(m, z, a, e)
           C == (B \ {a}) \cup {e}
           d == m.hdr[a].data_size
           lo == e + HEADER_SIZE
           src == a + HEADER_SIZE
<1>1. n = GrowBackward(m, z, a, e) /\ v = MoveBytes(n, lo, src, d)
  OBVIOUS
<1> HIDE DEF n
<1>2. GrownBack(m, n, z, B, a, e)
  BY <1>1, GrowBackwardGives
<1>3. /\ Worked(m, n, z, B, C, e) /\ e \notin B /\ e < a /\ e \in C
      /\ n.hdr[e].data_size = available_space(m, a, e)
      /\ \A x \in DOMAIN m.bytes :
           a + HEADER_SIZE <= x /\ x < m.hdr[a].end
             => x \in DOMAIN n.bytes /\ n.bytes[x] = m.bytes[x]
  BY <1>2 DEF GrownBack
<1> HIDE DEF C
<1>4. PICK F : Shape(n, z, C, F)
  BY <1>3 DEF Worked
<1>5. MemOK(n)
  BY <1>3 DEF Worked
<1>6. /\ a \in Nat /\ d \in Nat /\ m.hdr[a].end = a + HEADER_SIZE + d
      /\ e \in Nat /\ m.hdr[e].data_size \in Nat
  <2>1. Layout(m, z, B \cup E) /\ a \in B \cup E /\ e \in B \cup E
    BY DEF Shape
  <2> QED
    BY <2>1, Spans
<1>7. lo \in Nat /\ lo # NULL /\ src \in Nat /\ d <= n.hdr[e].data_size
  BY <1>3, <1>6, Sizeful DEF available_space, NULL
<1>8. Wiped(n, v, lo, lo + d) /\ MovedTo(n.bytes, v.bytes, lo, src, d)
  <2> HIDE DEF lo, src, d
  <2> QED
    BY <1>1, <1>5, <1>6, <1>7, MoveBytesGives
<1>9. \A x \in DOMAIN n.bytes :
        x < lo \/ lo + d <= x => x \in DOMAIN v.bytes /\ v.bytes[x] = n.bytes[x]
  BY <1>8 DEF MovedTo
<1>10. Written(n, v, z, C, F, e)
  <2> HIDE DEF d
  <2> QED
    BY <1>3, <1>4, <1>5, <1>6, <1>7, <1>8, <1>9, WriteGives
<1>11. \A b \in C : v.hdr[b] = n.hdr[b]
  BY <1>10 DEF Written
<1>12. Outside(m, v, z)
  <2>1. Outside(m, n, z) /\ Outside(n, v, z)
    BY <1>3, <1>10 DEF Worked, Written
  <2>2. n.zone[z].end = m.zone[z].end
    BY <2>1 DEF Outside, SameZone
  <2>3. /\ v.g_zones = m.g_zones /\ v.mapped = m.mapped
        /\ DOMAIN v.zone = DOMAIN m.zone
        /\ SameZone(m.zone[z], v.zone[z])
    BY <2>1 DEF Outside, SameZone
  <2>4. \A y \in DOMAIN m.zone : y # z => v.zone[y] = m.zone[y]
    BY <2>1 DEF Outside
  <2>5. \A h \in DOMAIN m.hdr :
          h < z \/ m.zone[z].end <= h => h \in DOMAIN v.hdr /\ v.hdr[h] = m.hdr[h]
    BY <2>1, <2>2 DEF Outside
  <2>6. \A y \in DOMAIN m.bytes :
          y < z \/ m.zone[z].end <= y => y \in DOMAIN v.bytes /\ v.bytes[y] = m.bytes[y]
    BY <2>1, <2>2 DEF Outside
  <2> QED
    BY <2>3, <2>4, <2>5, <2>6 DEF Outside
<1>13. ASSUME NEW b \in B \cap C
       PROVE  PayloadKept(m, v, b) /\ v.hdr[b].data_size = m.hdr[b].data_size
  <2>1. b # e /\ b \in C /\ b \in B
    BY <1>3
  <2>2. /\ PayloadKept(m, n, b) /\ n.hdr[b].data_size = m.hdr[b].data_size
    BY <1>3, <2>1 DEF Worked
  <2>3. PayloadKept(n, v, b)
    BY <1>10, <2>1 DEF Written
  <2>4. v.hdr[b] = n.hdr[b]
    BY <1>11
  <2> QED
    BY <2>2, <2>3, <2>4 DEF PayloadKept
<1>14. Worked(m, v, z, B, C, e)
  BY <1>10, <1>12, <1>13 DEF Worked, Written
<1>15. PayloadMoved(m, v, a, e)
  <2> SUFFICES ASSUME NEW i \in Nat,
                      a + HEADER_SIZE + i \in DOMAIN m.bytes,
                      a + HEADER_SIZE + i < m.hdr[a].end
               PROVE  /\ e + HEADER_SIZE + i \in DOMAIN v.bytes
                      /\ v.bytes[e + HEADER_SIZE + i] = m.bytes[a + HEADER_SIZE + i]
    BY DEF PayloadMoved
  <2>1. i \in 0 .. d - 1 /\ a + HEADER_SIZE <= a + HEADER_SIZE + i
    BY <1>6, Sizeful
  <2>2. /\ src + i \in DOMAIN n.bytes
        /\ n.bytes[src + i] = m.bytes[src + i]
    BY <1>3, <2>1
  <2>3. lo + i \in DOMAIN v.bytes /\ v.bytes[lo + i] = n.bytes[src + i]
    BY <1>8, <2>1, <2>2 DEF MovedTo
  <2> QED
    BY <2>2, <2>3
<1>16. v.hdr[e].data_size = available_space(m, a, e)
  BY <1>3, <1>11
<1> QED
  BY <1>14, <1>15, <1>16 DEF MovedBack, C

LEMMA ExtendBackGives ==
  ASSUME NEW m, MemOK(m), NEW z, NEW B, NEW E, Shape(m, z, B, E), NEW a \in B,
         NEW size \in Nat, ALIGNMENT <= size,
         NEW r \in extend_block_back(m, z, a, size)
  PROVE  \E e \in E : /\ r.ptr = e + HEADER_SIZE
                      /\ Resized(m, r.mem, z, B, a, e, size)
<1>1. PICK e \in find_empty_before(m, z, a) :
        /\ available_space(m, a, e) >= size
        /\ r = [mem |-> CutBack(MoveBytes(GrowBackward(m, z, a, e),
                                          e + HEADER_SIZE, a + HEADER_SIZE,
                                          m.hdr[a].data_size), z, e, size),
                ptr |-> e + HEADER_SIZE]
  BY DEF extend_block_back
<1> DEFINE v == MoveBytes(GrowBackward(m, z, a, e), e + HEADER_SIZE,
                          a + HEADER_SIZE, m.hdr[a].data_size)
           o == CutBack(v, z, e, size)
           C == (B \ {a}) \cup {e}
<1>2. r.ptr = e + HEADER_SIZE /\ r.mem = o
  BY <1>1
<1>3. e \in E /\ m.hdr[e].end = a
  BY FoundBefore
<1>4. MovedBack(m, v, z, B, a, e)
  BY <1>3, MoveBackGives
<1>5. o = CutBack(v, z, e, size) /\ e \in C
  OBVIOUS
<1> HIDE DEF v, o
<1>6. /\ Worked(m, v, z, B, C, e) /\ PayloadMoved(m, v, a, e)
      /\ v.hdr[e].data_size = available_space(m, a, e)
  BY <1>4 DEF MovedBack
<1> HIDE DEF C
<1>7. /\ Layout(m, z, B \cup E) /\ a \in B \cup E /\ e \in B \cup E
      /\ e \notin B
  BY <1>3 DEF Shape
<1>8. m.hdr[a].data_size \in Nat /\ m.hdr[e].data_size \in Nat /\ e \in Nat
  BY <1>7, Spans
<1>9. size <= v.hdr[e].data_size
  BY <1>1, <1>6, <1>8, Sizeful DEF available_space
<1>10. /\ Worked(m, o, z, B, C, e) /\ Worked(v, o, z, C, C, e)
       /\ size <= o.hdr[e].data_size
  BY <1>5, <1>6, <1>7, <1>9, WorkedCut
<1>11. PayloadMoved(m, o, a, e)
  <2>1. PayloadKept(v, o, e)
    BY <1>5, <1>10 DEF Worked
  <2>2. PayloadMoved(v, o, e, e)
    BY <1>8, <2>1, KeptIsMoved
  <2>3. o.hdr[e].end <= v.hdr[e].end
    <3>1. PICK F : Shape(v, z, C, F)
      BY <1>6 DEF Worked
    <3>2. PICK G : Shape(o, z, C, G)
      BY <1>10 DEF Worked
    <3>3. v.hdr[e].end \in Nat /\ v.hdr[e].end = e + HEADER_SIZE + v.hdr[e].data_size
      <4>1. Layout(v, z, C \cup F) /\ e \in C \cup F
        BY <1>5, <3>1 DEF Shape
      <4> QED
        BY <4>1, Spans
    <3>4. o.hdr[e].end \in Nat /\ o.hdr[e].end = e + HEADER_SIZE + o.hdr[e].data_size
      <4>1. Layout(o, z, C \cup G) /\ e \in C \cup G
        BY <1>5, <3>2 DEF Shape
      <4> QED
        BY <4>1, Spans
    <3>5. o.hdr[e].data_size <= v.hdr[e].data_size
      <4>1. MemOK(v)
        BY <1>6 DEF Worked
      <4> QED
        BY <1>5, <1>9, <3>1, <4>1, CutGives
    <3>6. o.hdr[e].data_size \in Nat /\ v.hdr[e].data_size \in Nat
      <4>1. Layout(o, z, C \cup G) /\ Layout(v, z, C \cup F) /\ e \in C \cup G
            /\ e \in C \cup F
        BY <1>5, <3>1, <3>2 DEF Shape
      <4> QED
        BY <4>1, Spans
    <3> QED
      BY <1>8, <3>3, <3>4, <3>5, <3>6, Sizeful
  <2> SUFFICES ASSUME NEW i \in Nat,
                      a + HEADER_SIZE + i \in DOMAIN m.bytes,
                      a + HEADER_SIZE + i < m.hdr[a].end,
                      e + HEADER_SIZE + i < o.hdr[e].end
               PROVE  /\ e + HEADER_SIZE + i \in DOMAIN o.bytes
                      /\ o.bytes[e + HEADER_SIZE + i] = m.bytes[a + HEADER_SIZE + i]
    BY DEF PayloadMoved
  <2>4. e + HEADER_SIZE + i < v.hdr[e].end
    <3>1. PICK F : Shape(v, z, C, F)
      BY <1>6 DEF Worked
    <3>2. PICK G : Shape(o, z, C, G)
      BY <1>10 DEF Worked
    <3>3. Layout(o, z, C \cup G) /\ Layout(v, z, C \cup F) /\ e \in C \cup G
          /\ e \in C \cup F
      BY <1>5, <3>1, <3>2 DEF Shape
    <3>4. o.hdr[e].end \in Nat /\ v.hdr[e].end \in Nat
      BY <3>3, Spans
    <3> QED
      BY <1>8, <2>3, <3>4, Sizeful
  <2>5. /\ e + HEADER_SIZE + i \in DOMAIN v.bytes
        /\ v.bytes[e + HEADER_SIZE + i] = m.bytes[a + HEADER_SIZE + i]
    BY <1>6, <2>4 DEF PayloadMoved
  <2> QED
    BY <2>2, <2>4, <2>5 DEF PayloadMoved
<1>12. Resized(m, o, z, B, a, e, size)
  BY <1>10, <1>11 DEF Resized, C
<1> QED
  BY <1>2, <1>3, <1>12

(* A block that is large enough, or a neighbour away from it.              *)
LEMMA TryGives ==
  ASSUME NEW m, MemOK(m), NEW z, NEW B, NEW E, Shape(m, z, B, E), NEW a \in B,
         NEW size \in Nat, ALIGNMENT <= size,
         NEW r \in try_to_extend_block(m, z, a, size)
  PROVE  \E e \in E \cup {a} : /\ r.ptr = e + HEADER_SIZE
                               /\ Resized(m, r.mem, z, B, a, e, size)
<1>1. CASE r \in extend_block(m, z, a, size)
  BY <1>1, ExtendGives
<1>2. CASE r \in extend_block_back(m, z, a, size)
  BY <1>2, ExtendBackGives
<1> QED
  BY <1>1, <1>2 DEF try_to_extend_block

LEMMA ShrinkGives ==
  ASSUME NEW m, MemOK(m), NEW z, NEW B, NEW E, Shape(m, z, B, E), NEW a \in B,
         NEW size \in Nat, ALIGNMENT <= size, size <= m.hdr[a].data_size,
         NEW n, n = split_block(m, z, a, size)
  PROVE  Resized(m, n, z, B, a, a, size)
<1>1. Worked(m, n, z, B, B, a) /\ size <= n.hdr[a].data_size
  BY SplitGives
<1>2. a \in Nat
  <2>1. Layout(m, z, B \cup E) /\ a \in B \cup E
    BY DEF Shape
  <2> QED
    BY <2>1, Spans
<1>3. (B \ {a}) \cup {a} = B
  OBVIOUS
<1>4. PayloadMoved(m, n, a, a)
  BY <1>1, <1>2, KeptIsMoved DEF Worked
<1> QED
  BY <1>1, <1>3, <1>4 DEF Resized

------------------------------------------------------------------------------
(* The sizes of requests and zones.                                        *)

LEMMA LargeMultiple ==
  ASSUME NEW m \in Nat \ {0}, NEW x \in Nat \ {0}, x % m = 0
  PROVE  x >= m
<1> SUFFICES ASSUME x < m
             PROVE  FALSE
  OBVIOUS
<1>1. x % m = x
  OBVIOUS
<1> QED
  BY <1>1

LEMMA RoundedUp ==
  ASSUME NEW m \in Nat \ {0}, NEW n \in Nat \ {0}
  PROVE  LET r == ((n + m - 1) \div m) * m IN r \in Nat /\ n <= r /\ m <= r
<1> DEFINE x == n + m - 1
           q == x \div m
           s == x % m
<1>1. x \in Int /\ x = n + m - 1
  OBVIOUS
<1> HIDE DEF x
<1>2. q \in Int /\ s \in 0 .. m - 1
  BY <1>1
<1>3. x = m * q + s
  BY <1>1
<1> HIDE DEF q, s
<1> DEFINE p == m * q
<1>4. p \in Int /\ q * m = p /\ x = p + s
  BY <1>2, <1>3
<1>5. q >= 1
  <2>1. ASSUME q <= 0
        PROVE  p <= 0
    BY <1>2, <2>1
  <2> HIDE DEF p
  <2>2. p > 0
    BY <1>1, <1>2, <1>4
  <2> QED
    BY <1>2, <1>4, <2>1, <2>2
<1>6. p >= m
  BY <1>2, <1>5
<1> HIDE DEF p
<1>7. p \in Nat /\ n <= p /\ m <= p
  BY <1>1, <1>2, <1>4, <1>6
<1> QED
  BY <1>4, <1>7 DEF q, x

(* A request that is rounded up has room for itself and for one unit of    *)
(* alignment.                                                              *)
LEMMA AlignGives ==
  ASSUME NEW n \in Nat \ {0}
  PROVE  align_size(n) \in Nat /\ n <= align_size(n) /\ ALIGNMENT <= align_size(n)
<1>1. /\ ALIGNMENT \in Nat \ {0} /\ HEADER_SIZE \in Nat \ {0}
      /\ ZONE_HEADER_SIZE \in Nat \ {0} /\ TINY_DATA_MAX \in Nat \ {0}
      /\ HEADER_SIZE % ALIGNMENT = 0 /\ ZONE_HEADER_SIZE % ALIGNMENT = 0
      /\ SIZE_MAX \in Nat
      /\ SIZE_MAX >= ZONE_HEADER_SIZE + HEADER_SIZE + TINY_DATA_MAX
  BY SizesAssumption DEF IsMultiple
<1>2. HEADER_SIZE >= ALIGNMENT /\ ZONE_HEADER_SIZE >= ALIGNMENT
  BY <1>1, LargeMultiple
<1>3. CASE n > SIZE_MAX - ALIGNMENT
  BY <1>1, <1>2, <1>3 DEF align_size
<1>4. CASE ~(n > SIZE_MAX - ALIGNMENT)
  <2>1. align_size(n) = ((n + ALIGNMENT - 1) \div ALIGNMENT) * ALIGNMENT
    BY <1>4 DEF align_size
  <2> QED
    BY <1>1, <2>1, RoundedUp
<1> QED
  BY <1>3, <1>4

LEMMA ZoneSizes ==
  /\ TINY_ZONE_SIZE \in Nat /\ SMALL_ZONE_SIZE \in Nat
  /\ TINY_ZONE_SIZE  >= ZONE_HEADER_SIZE + HEADER_SIZE + ALIGNMENT
  /\ SMALL_ZONE_SIZE >= ZONE_HEADER_SIZE + HEADER_SIZE + ALIGNMENT
<1>1. TINY_DATA_MAX >= ALIGNMENT /\ SMALL_DATA_MAX >= ALIGNMENT
  BY SizesAssumption, LargeMultiple DEF IsMultiple
<1> QED
  BY <1>1, SizesAssumption

------------------------------------------------------------------------------
(* The memory with all its zones.                                          *)

BlocksOf(m, z) == ToSet(Blocks(m, z))

ZoneGood(m, z) ==
  /\ z \in Pages
  /\ m.zone[z].total_space \in Nat
  /\ m.zone[z].end = z + ZONE_HEADER_SIZE + m.zone[z].total_space
  /\ PagesIn(z, m.zone[z].total_space + ZONE_HEADER_SIZE) \subseteq m.mapped
  /\ \E E : Shape(m, z, BlocksOf(m, z), E)
  /\ m.zone[z].type = "LARGE" => \A a, b \in BlocksOf(m, z) : a = b

ZonesApart(m) == \A y, z \in DOMAIN m.zone : y < z => m.zone[y].end <= z

ZonesListed(m) == \E q, n : Chain(m.zone, m.g_zones, q, n)

HeapOK(m) == /\ MemOK(m) /\ ZonesListed(m) /\ ZonesApart(m)
             /\ \A z \in DOMAIN m.zone : ZoneGood(m, z)

IsBlock(m, a) == \E z \in DOMAIN m.zone : a \in BlocksOf(m, z)

(* The block a of m is a block of n, of the same size and with its bytes.  *)
Lasts(m, n, a) == /\ IsBlock(n, a)
                  /\ n.hdr[a].data_size = m.hdr[a].data_size
                  /\ PayloadKept(m, n, a)

(* n is m after some work; all blocks last but those in gone.              *)
Step(m, n, gone) == /\ HeapOK(n)
                    /\ \A a : IsBlock(m, a) /\ a \notin gone => Lasts(m, n, a)

LEMMA ShapeBlocks ==
  ASSUME NEW m, MemOK(m), NEW z, NEW B, NEW E, Shape(m, z, B, E)
  PROVE  BlocksOf(m, z) = B
<1>1. Linked(m.hdr, m.zone[z].blocks, B)
  BY DEF Shape
<1> QED
  BY <1>1, WalkMeets DEF BlocksOf, Blocks

LEMMA ZoneShape ==
  ASSUME NEW m, HeapOK(m), NEW z \in DOMAIN m.zone
  PROVE  /\ MemOK(m) /\ ZoneGood(m, z)
         /\ \E E : Shape(m, z, BlocksOf(m, z), E)
  BY DEF HeapOK, ZoneGood

(* What a block of the heap is.                                            *)
LEMMA BlockFacts ==
  ASSUME NEW m, HeapOK(m), NEW a, IsBlock(m, a)
  PROVE  /\ a \in Nat /\ a > 0 /\ a \in DOMAIN m.hdr
         /\ m.hdr[a].data_size \in Nat /\ m.hdr[a].data_size >= ALIGNMENT
         /\ m.hdr[a].end \in Nat
         /\ m.hdr[a].end = a + HEADER_SIZE + m.hdr[a].data_size
<1>1. PICK z \in DOMAIN m.zone : a \in BlocksOf(m, z)
  BY DEF IsBlock
<1>2. PICK E : Shape(m, z, BlocksOf(m, z), E)
  BY ZoneShape
<1>3. Layout(m, z, BlocksOf(m, z) \cup E) /\ a \in BlocksOf(m, z) \cup E
  BY <1>1, <1>2 DEF Shape
<1> QED
  BY <1>3, Spans

LEMMA StepTwice ==
  ASSUME NEW m, HeapOK(m), NEW n, NEW o, NEW G, NEW H, Step(m, n, G), Step(n, o, H)
  PROVE  Step(m, o, G \cup H)
<1>1. HeapOK(n) /\ HeapOK(o)
  BY DEF Step
<1>2. ASSUME NEW a, IsBlock(m, a), a \notin G \cup H
      PROVE  Lasts(m, o, a)
  <2>1. Lasts(m, n, a)
    BY <1>2 DEF Step
  <2>2. IsBlock(n, a)
    BY <2>1 DEF Lasts
  <2>3. Lasts(n, o, a)
    BY <1>2, <2>2 DEF Step
  <2>4. IsBlock(o, a)
    BY <2>3 DEF Lasts
  <2>5. m.hdr[a].end = a + HEADER_SIZE + m.hdr[a].data_size
    BY <1>2, BlockFacts
  <2>6. n.hdr[a].end = a + HEADER_SIZE + n.hdr[a].data_size
    BY <1>1, <2>2, BlockFacts
  <2>7. n.hdr[a].end = m.hdr[a].end /\ o.hdr[a].data_size = m.hdr[a].data_size
    BY <2>1, <2>3, <2>5, <2>6 DEF Lasts
  <2>8. PayloadKept(m, o, a)
    BY <2>1, <2>3, <2>7 DEF Lasts, PayloadKept
  <2> QED
    BY <2>4, <2>7, <2>8 DEF Lasts
<1> QED
  BY <1>1, <1>2 DEF Step

LEMMA StepMore ==
  ASSUME NEW m, NEW n, NEW G, NEW H, Step(m, n, G), G \subseteq H
  PROVE  Step(m, n, H)
  BY DEF Step

LEMMA StepNone ==
  ASSUME NEW m, HeapOK(m)
  PROVE  Step(m, m, {})
  BY DEF Step, Lasts, PayloadKept

(* Work elsewhere leaves the zone y alone.                                 *)
Untouched(m, n, y) ==
  /\ y \in DOMAIN n.zone
  /\ n.zone[y].end = m.zone[y].end /\ n.zone[y].type = m.zone[y].type
  /\ n.zone[y].total_space = m.zone[y].total_space
  /\ n.zone[y].blocks = m.zone[y].blocks
  /\ n.zone[y].empty_spaces = m.zone[y].empty_spaces
  /\ \A h \in DOMAIN m.hdr :
       y <= h /\ h + HEADER_SIZE <= m.zone[y].end
         => h \in DOMAIN n.hdr /\ n.hdr[h] = m.hdr[h]
  /\ \A x \in DOMAIN m.bytes :
       y <= x /\ x < m.zone[y].end => x \in DOMAIN n.bytes /\ n.bytes[x] = m.bytes[x]

StillGood(m, n, y) ==
  /\ ZoneGood(n, y) /\ BlocksOf(n, y) = BlocksOf(m, y)
  /\ \A a \in BlocksOf(m, y) : Lasts(m, n, a)

LEMMA UntouchedGood ==
  ASSUME NEW m, MemOK(m), NEW n, MemOK(n), NEW y, ZoneGood(m, y), Untouched(m, n, y),
         PagesIn(y, m.zone[y].total_space + ZONE_HEADER_SIZE) \subseteq n.mapped
  PROVE  StillGood(m, n, y)
<1> DEFINE B == BlocksOf(m, y)
<1>1. PICK E : Shape(m, y, B, E)
  BY DEF ZoneGood
<1> HIDE DEF B
<1>2. /\ B \cap E = {} /\ Layout(m, y, B \cup E)
      /\ Linked(m.hdr, m.zone[y].blocks, B)
      /\ Linked(m.hdr, m.zone[y].empty_spaces, E)
  BY <1>1 DEF Shape
<1>3. \A c \in B \cup E : /\ c \in DOMAIN m.hdr /\ c \in Nat
                          /\ y <= c /\ c + HEADER_SIZE <= m.zone[y].end
                          /\ m.hdr[c].end \in Nat /\ m.hdr[c].end <= m.zone[y].end
  <2> TAKE c \in B \cup E
  <2>1. /\ y \in Nat /\ c \in Nat /\ c \in DOMAIN m.hdr
        /\ m.hdr[c].data_size \in Nat /\ m.hdr[c].end \in Nat /\ m.zone[y].end \in Nat
        /\ m.hdr[c].end = c + HEADER_SIZE + m.hdr[c].data_size
        /\ y + ZONE_HEADER_SIZE <= c /\ m.hdr[c].end <= m.zone[y].end
    BY <1>2, Spans
  <2> QED
    BY <2>1, Sizeful
<1>4. \A c \in B \cup E : c \in DOMAIN n.hdr /\ n.hdr[c] = m.hdr[c]
  BY <1>3 DEF Untouched
<1>5. Linked(n.hdr, n.zone[y].blocks, B) /\ Linked(n.hdr, n.zone[y].empty_spaces, E)
  <2>1. Linked(n.hdr, m.zone[y].blocks, B)
    BY <1>2, <1>4, LinkedResized
  <2>2. Linked(n.hdr, m.zone[y].empty_spaces, E)
    BY <1>2, <1>4, LinkedResized
  <2> QED
    BY <2>1, <2>2 DEF Untouched
<1>6. Layout(n, y, B \cup E)
  <2>1. \A c \in B \cup E : SameSpan(m, n, c)
    BY <1>4 DEF SameSpan
  <2>2. n.zone[y].end = m.zone[y].end
    BY DEF Untouched
  <2> QED
    BY <1>2, <2>1, <2>2, LayoutSame
<1>7. Shape(n, y, B, E)
  BY <1>2, <1>5, <1>6 DEF Shape, Untouched
<1>8. BlocksOf(n, y) = B
  BY <1>7, ShapeBlocks
<1>9. ZoneGood(n, y)
  <2>1. /\ y \in Pages /\ m.zone[y].total_space \in Nat
        /\ m.zone[y].end = y + ZONE_HEADER_SIZE + m.zone[y].total_space
        /\ m.zone[y].type = "LARGE" => \A a, b \in B : a = b
    BY DEF ZoneGood, B
  <2>2. \E F : Shape(n, y, BlocksOf(n, y), F)
    BY <1>7, <1>8
  <2> QED
    BY <1>8, <2>1, <2>2 DEF ZoneGood, Untouched
<1>10. ASSUME NEW a \in B
       PROVE  Lasts(m, n, a)
  <2>1. IsBlock(n, a)
    BY <1>8 DEF IsBlock, Untouched
  <2>2. n.hdr[a] = m.hdr[a]
    BY <1>4
  <2>3. PayloadKept(m, n, a)
    <3>1. \A x \in DOMAIN m.bytes :
            a + HEADER_SIZE <= x /\ x < m.hdr[a].end => y <= x /\ x < m.zone[y].end
      <4> TAKE x \in DOMAIN m.bytes
      <4>1. x \in Nat
        BY DEF MemOK
      <4>2. /\ a \in Nat /\ y <= a /\ m.hdr[a].end \in Nat
            /\ m.hdr[a].end <= m.zone[y].end
        BY <1>3
      <4>3. y \in Nat /\ m.zone[y].end \in Nat
        BY <1>2 DEF Layout, Addr
      <4> QED
        BY <4>1, <4>2, <4>3, Sizeful
    <3> QED
      BY <3>1 DEF PayloadKept, Untouched
  <2> QED
    BY <2>1, <2>2, <2>3 DEF Lasts
<1> QED
  BY <1>8, <1>9, <1>10 DEF StillGood, B

(* A list whose nodes and links are the same is the same.                  *)
LEMMA ChainSame ==
  ASSUME NEW nodes, NEW head, NEW s, NEW n, Chain(nodes, head, s, n),
         NEW new, \A k \in 1 .. n : /\ s[k] \in DOMAIN new
                                    /\ new[s[k]].next = nodes[s[k]].next
                                    /\ new[s[k]].prev = nodes[s[k]].prev
  PROVE  Chain(new, head, s, n)
  BY DEF Chain

LEMMA ZoneNumbers ==
  ASSUME NEW m, HeapOK(m), NEW z \in DOMAIN m.zone
  PROVE  /\ z \in Nat /\ z > 0 /\ z \in Addr /\ z \in Pages
         /\ m.zone[z].end \in Nat /\ m.zone[z].total_space \in Nat
         /\ m.zone[z].end = z + ZONE_HEADER_SIZE + m.zone[z].total_space
         /\ z + ZONE_HEADER_SIZE <= m.zone[z].end
         /\ z < m.zone[z].end
<1>1. z \in Addr
  BY DEF HeapOK, MemOK
<1>2. /\ m.zone[z].total_space \in Nat /\ z \in Pages
      /\ m.zone[z].end = z + ZONE_HEADER_SIZE + m.zone[z].total_space
  BY DEF HeapOK, ZoneGood
<1> QED
  BY <1>1, <1>2, Sizeful DEF Addr, NULL

(* Two zones of the memory are apart.                                      *)
LEMMA ApartFrom ==
  ASSUME NEW m, HeapOK(m), NEW y \in DOMAIN m.zone, NEW z \in DOMAIN m.zone, y # z
  PROVE  m.zone[y].end <= z \/ m.zone[z].end <= y
<1>1. y \in Nat /\ z \in Nat
  BY ZoneNumbers
<1>2. y < z => m.zone[y].end <= z
  BY DEF HeapOK, ZonesApart
<1>3. z < y => m.zone[z].end <= y
  BY DEF HeapOK, ZonesApart
<1> QED
  BY <1>1, <1>2, <1>3

WorkStepped(m, n, z, C, x) ==
  /\ Step(m, n, (BlocksOf(m, z) \ C) \cup {x})
  /\ BlocksOf(n, z) = C

(* As Worked, but the bytes of the block x may be others.                  *)
Reworked(m, n, z, B, C, x) ==
  /\ MemOK(n) /\ Outside(m, n, z)
  /\ \E E : Shape(n, z, C, E)
  /\ \A a \in B \cap C : a # x => PayloadKept(m, n, a)
  /\ \A a \in B \cap C : a # x => n.hdr[a].data_size = m.hdr[a].data_size

LEMMA ReworkStep ==
  ASSUME NEW m, HeapOK(m), NEW z \in DOMAIN m.zone, NEW n, NEW C, NEW x,
         Reworked(m, n, z, BlocksOf(m, z), C, x),
         m.zone[z].type = "LARGE" => \A a, b \in C : a = b
  PROVE  WorkStepped(m, n, z, C, x)
<1> DEFINE B == BlocksOf(m, z)
<1>1. /\ MemOK(m) /\ MemOK(n) /\ Outside(m, n, z) /\ ZoneGood(m, z)
      /\ \A a \in B \cap C : a # x => PayloadKept(m, n, a)
      /\ \A a \in B \cap C : a # x => n.hdr[a].data_size = m.hdr[a].data_size
  BY ZoneShape DEF Reworked
<1>2. PICK E : Shape(n, z, C, E)
  BY DEF Reworked
<1> HIDE DEF B
<1>3. BlocksOf(n, z) = C
  BY <1>1, <1>2, ShapeBlocks
<1>4. /\ n.g_zones = m.g_zones /\ n.mapped = m.mapped /\ DOMAIN n.zone = DOMAIN m.zone
      /\ SameZone(m.zone[z], n.zone[z])
      /\ \A y \in DOMAIN m.zone : y # z => n.zone[y] = m.zone[y]
  BY <1>1 DEF Outside
<1>5. ZonesListed(n)
  <2>1. PICK q, k : Chain(m.zone, m.g_zones, q, k)
    BY DEF HeapOK, ZonesListed
  <2>2. \A j \in 1 .. k : q[j] \in DOMAIN m.zone
    BY <2>1 DEF Chain
  <2>3. \A y \in DOMAIN m.zone : /\ y \in DOMAIN n.zone
                                 /\ n.zone[y].next = m.zone[y].next
                                 /\ n.zone[y].prev = m.zone[y].prev
    BY <1>4 DEF SameZone
  <2>4. Chain(n.zone, m.g_zones, q, k)
    BY <2>1, <2>2, <2>3, ChainSame
  <2> QED
    BY <1>4, <2>4 DEF ZonesListed
<1>6. ZonesApart(n)
  <2>1. \A y \in DOMAIN m.zone : n.zone[y].end = m.zone[y].end
    BY <1>4 DEF SameZone
  <2> QED
    BY <1>4, <2>1 DEF HeapOK, ZonesApart
<1>7. ZoneGood(n, z)
  BY <1>1, <1>2, <1>3, <1>4 DEF ZoneGood, SameZone
<1>8. ASSUME NEW y \in DOMAIN m.zone, y # z
      PROVE  StillGood(m, n, y)
  <2>1. y \in Nat /\ z \in Nat /\ m.zone[y].end \in Nat /\ m.zone[z].end \in Nat
    BY ZoneNumbers
  <2>2. m.zone[y].end <= z \/ m.zone[z].end <= y
    BY <1>8, ApartFrom
  <2>3. n.zone[y] = m.zone[y] /\ y \in DOMAIN n.zone
    BY <1>4, <1>8
  <2>4. ASSUME NEW h \in DOMAIN m.hdr, y <= h, h + HEADER_SIZE <= m.zone[y].end
        PROVE  h \in DOMAIN n.hdr /\ n.hdr[h] = m.hdr[h]
    <3>1. h \in Nat
      BY <1>1 DEF MemOK, Addr
    <3>2. h < z \/ m.zone[z].end <= h
      BY <2>1, <2>2, <2>4, <3>1, Sizeful
    <3> QED
      BY <1>1, <3>2 DEF Outside
  <2>5. ASSUME NEW b \in DOMAIN m.bytes, y <= b, b < m.zone[y].end
        PROVE  b \in DOMAIN n.bytes /\ n.bytes[b] = m.bytes[b]
    <3>1. b \in Nat
      BY <1>1 DEF MemOK
    <3>2. b < z \/ m.zone[z].end <= b
      BY <2>1, <2>2, <2>5, <3>1
    <3> QED
      BY <1>1, <3>2 DEF Outside
  <2>6. Untouched(m, n, y)
    BY <2>3, <2>4, <2>5 DEF Untouched
  <2>7. ZoneGood(m, y)
    BY ZoneShape
  <2>8. PagesIn(y, m.zone[y].total_space + ZONE_HEADER_SIZE) \subseteq n.mapped
    BY <1>4, <2>7 DEF ZoneGood
  <2> QED
    BY <1>1, <2>6, <2>7, <2>8, UntouchedGood
<1>9. HeapOK(n)
  <2>1. \A y \in DOMAIN n.zone : ZoneGood(n, y)
    BY <1>4, <1>7, <1>8 DEF StillGood
  <2> QED
    BY <1>1, <1>5, <1>6, <2>1 DEF HeapOK
<1>10. ASSUME NEW a, IsBlock(m, a), a \notin (B \ C) \cup {x}
       PROVE  Lasts(m, n, a)
  <2>1. PICK y \in DOMAIN m.zone : a \in BlocksOf(m, y)
    BY <1>10 DEF IsBlock
  <2>2. CASE y = z
    <3>1. a \in B \cap C /\ a # x
      BY <1>10, <2>1, <2>2 DEF B
    <3>2. IsBlock(n, a)
      BY <1>3, <1>4, <3>1 DEF IsBlock
    <3> QED
      BY <1>1, <3>1, <3>2 DEF Lasts
  <2>3. CASE y # z
    BY <1>8, <2>1, <2>3 DEF StillGood
  <2> QED
    BY <2>2, <2>3
<1>11. Step(m, n, (B \ C) \cup {x})
  BY <1>9, <1>10 DEF Step
<1> QED
  BY <1>3, <1>11 DEF WorkStepped, B

LEMMA WorkStep ==
  ASSUME NEW m, HeapOK(m), NEW z \in DOMAIN m.zone, NEW n, NEW C, NEW x,
         Worked(m, n, z, BlocksOf(m, z), C, x),
         m.zone[z].type = "LARGE" => \A a, b \in C : a = b
  PROVE  WorkStepped(m, n, z, C, x)
<1>1. Reworked(m, n, z, BlocksOf(m, z), C, x)
  BY DEF Worked, Reworked
<1> QED
  BY <1>1, ReworkStep

(* A list when a node comes in front of it.                                *)
LEMMA ChainPrepend ==
  ASSUME NEW nodes, NULL \notin DOMAIN nodes, NEW head, NEW s, NEW n,
         Chain(nodes, head, s, n), NEW a, a # NULL, a \notin DOMAIN nodes,
         NEW new, a \in DOMAIN new, new[a].next = head, new[a].prev = NULL,
         \A x \in DOMAIN nodes :
           /\ x \in DOMAIN new /\ new[x].next = nodes[x].next
           /\ new[x].prev = IF x = head THEN a ELSE nodes[x].prev
  PROVE  \E t : Chain(new, a, t, n + 1)
<1> DEFINE t == [k \in 1 .. n + 1 |-> IF k = 1 THEN a ELSE s[k - 1]]
<1>1. /\ n \in Nat /\ \A k \in 1 .. n : s[k] \in DOMAIN nodes
      /\ \A j, k \in 1 .. n : s[j] = s[k] => j = k
      /\ head = At(s, n, 1)
      /\ \A k \in 1 .. n : nodes[s[k]].next = At(s, n, k + 1)
      /\ \A k \in 1 .. n : nodes[s[k]].prev = At(s, n, k - 1)
  BY DEF Chain
<1>2. /\ t[1] = a /\ \A k \in 1 .. n + 1 : k # 1 => k - 1 \in 1 .. n /\ t[k] = s[k - 1]
      /\ t = [k \in 1 .. n + 1 |-> t[k]]
  BY <1>1
<1> HIDE DEF t
<1>3. \A k \in 1 .. n + 1 : k # 1 => t[k] \in DOMAIN nodes
  BY <1>1, <1>2
<1>4. \A k \in 1 .. n + 1 : t[k] \in DOMAIN new
  BY <1>2, <1>3
<1>5. ASSUME NEW j \in 1 .. n + 1, NEW k \in 1 .. n + 1, t[j] = t[k]
      PROVE  j = k
  <2>1. CASE j = 1 \/ k = 1
    BY <1>2, <1>3, <1>5, <2>1
  <2>2. CASE j # 1 /\ k # 1
    <3>1. s[j - 1] = s[k - 1] /\ j - 1 \in 1 .. n /\ k - 1 \in 1 .. n
      BY <1>2, <1>5, <2>2
    <3>2. j - 1 = k - 1
      BY <1>1, <3>1
    <3> QED
      BY <3>2
  <2> QED
    BY <2>1, <2>2
<1>6. \A k \in 1 .. n + 1 : At(t, n + 1, k + 1) = At(s, n, k)
  <2> TAKE k \in 1 .. n + 1
  <2>1. CASE k = n + 1
    BY <1>1, <2>1 DEF At
  <2>2. CASE k # n + 1
    <3>1. k + 1 \in 1 .. n + 1 /\ k + 1 # 1 /\ (k + 1) - 1 = k /\ k \in 1 .. n
      BY <1>1, <2>2
    <3>2. t[k + 1] = s[(k + 1) - 1]
      BY <1>2, <3>1
    <3> QED
      BY <3>1, <3>2 DEF At
  <2> QED
    BY <2>1, <2>2
<1>7. ASSUME NEW k \in 1 .. n + 1
      PROVE  new[t[k]].next = At(t, n + 1, k + 1)
  <2>1. CASE k = 1
    BY <1>1, <1>2, <1>6, <2>1
  <2>2. CASE k # 1
    <3>1. k - 1 \in 1 .. n /\ t[k] = s[k - 1] /\ (k - 1) + 1 = k
      BY <1>2, <2>2
    <3>2. nodes[s[k - 1]].next = At(s, n, (k - 1) + 1)
      BY <1>1, <3>1
    <3> QED
      BY <1>1, <1>6, <3>1, <3>2
  <2> QED
    BY <2>1, <2>2
<1>8. ASSUME NEW k \in 1 .. n + 1
      PROVE  new[t[k]].prev = At(t, n + 1, k - 1)
  <2>1. CASE k = 1
    BY <1>2, <2>1 DEF At
  <2>2. CASE k = 2
    <3>4. k # 1 /\ k - 1 = 1 /\ k - 1 \in 1 .. n /\ t[k] = s[k - 1]
      BY <1>2, <2>2
    <3>1. 1 \in 1 .. n /\ t[k] = s[1] /\ k - 1 = 1 /\ 1 \in 1 .. n + 1
      BY <1>1, <3>4
    <3>2. s[1] = head
      BY <1>1, <3>1 DEF At
    <3> QED
      BY <1>1, <1>2, <3>1, <3>2 DEF At
  <2>3. CASE k # 1 /\ k # 2
    <3> DEFINE j == k - 1
    <3>1. /\ j \in 1 .. n /\ t[k] = s[j] /\ j # 1 /\ j - 1 \in 1 .. n
          /\ 1 \in 1 .. n /\ j \in 1 .. n + 1
      BY <1>1, <1>2, <2>3
    <3> HIDE DEF j
    <3>2. s[j] # head
      <4>1. head = s[1]
        BY <1>1, <3>1 DEF At
      <4> QED
        BY <1>1, <3>1, <4>1
    <3>3. new[s[j]].prev = At(s, n, j - 1)
      BY <1>1, <3>1, <3>2
    <3>4. At(s, n, j - 1) = s[j - 1] /\ At(t, n + 1, j) = t[j] /\ t[j] = s[j - 1]
      BY <1>2, <3>1 DEF At
    <3> QED
      BY <3>1, <3>3, <3>4 DEF j
  <2> QED
    BY <2>1, <2>2, <2>3
<1>9. a = At(t, n + 1, 1)
  BY <1>1, <1>2 DEF At
<1>10. n + 1 \in Nat
  BY <1>1
<1>11. Chain(new, a, t, n + 1)
  BY <1>2, <1>4, <1>5, <1>7, <1>8, <1>9, <1>10 DEF Chain
<1> QED
  BY <1>11

(* And when one is taken out of it.                                        *)
LEMMA ChainRemove ==
  ASSUME NEW nodes, NULL \notin DOMAIN nodes, NEW head, NEW s, NEW n,
         Chain(nodes, head, s, n), NEW i \in 1 .. n,
         NEW p, p = nodes[s[i]].prev, NEW q, q = nodes[s[i]].next,
         NEW new,
         \A x \in DOMAIN nodes \ {s[i]} :
           /\ x \in DOMAIN new
           /\ new[x].next = IF x = p THEN q ELSE nodes[x].next
           /\ new[x].prev = IF x = q THEN p ELSE nodes[x].prev,
         NEW first, first = IF p = NULL THEN q ELSE head
  PROVE  \E t : Chain(new, first, t, n - 1)
<1> DEFINE g(k) == IF k < i THEN k ELSE k + 1
           t == [k \in 1 .. n - 1 |-> s[g(k)]]
<1>1. /\ n \in Nat /\ \A k \in 1 .. n : s[k] \in DOMAIN nodes
      /\ \A j, k \in 1 .. n : s[j] = s[k] => j = k
      /\ head = At(s, n, 1)
      /\ \A k \in 1 .. n : nodes[s[k]].next = At(s, n, k + 1)
      /\ \A k \in 1 .. n : nodes[s[k]].prev = At(s, n, k - 1)
  BY DEF Chain
<1>2. /\ \A k \in 1 .. n - 1 : g(k) \in 1 .. n /\ g(k) # i /\ t[k] = s[g(k)]
      /\ \A j, k \in 1 .. n - 1 : g(j) = g(k) => j = k
      /\ t = [k \in 1 .. n - 1 |-> t[k]]
  BY <1>1
<1>3. p = At(s, n, i - 1) /\ q = At(s, n, i + 1)
  BY <1>1
<1>4. \A k \in 1 .. n : s[k] # NULL
  BY <1>1
<1>5. \A k \in 1 .. n - 1 : t[k] \in DOMAIN nodes /\ t[k] # s[i]
  <2> HIDE DEF g, t
  <2> QED
    BY <1>1, <1>2
<1>6. ASSUME NEW j \in 1 .. n - 1, NEW k \in 1 .. n - 1, t[j] = t[k]
      PROVE  j = k
  <2> HIDE DEF g, t
  <2> QED
    BY <1>1, <1>2, <1>6
<1>7. ASSUME NEW k \in 1 .. n - 1
      PROVE  new[t[k]].next = At(t, n - 1, k + 1)
  <2>1. CASE k = i - 1
    <3>1. t[k] = s[k] /\ k \in 1 .. n /\ p = s[k]
      BY <1>1, <1>2, <1>3, <2>1 DEF At
    <3>2. new[t[k]].next = q
      BY <1>5, <3>1
    <3>3. CASE i < n
      <4>1. k + 1 \in 1 .. n - 1 /\ g(k + 1) = i + 1 /\ i + 1 \in 1 .. n
        BY <1>1, <2>1, <3>3
      <4>2. t[k + 1] = s[i + 1]
        BY <1>2, <4>1
      <4> QED
        BY <1>3, <3>2, <4>1, <4>2 DEF At
    <3>4. CASE ~(i < n)
      <4>1. k + 1 \notin 1 .. n - 1 /\ i + 1 \notin 1 .. n
        BY <1>1, <2>1, <3>4
      <4> QED
        BY <1>3, <3>2, <4>1 DEF At
    <3> QED
      BY <3>3, <3>4
  <2>2. CASE k # i - 1
    <3> DEFINE h == g(k)
    <3>1. /\ h \in 1 .. n /\ t[k] = s[h] /\ h # i /\ h + 1 # i
      BY <1>1, <1>2, <2>2
    <3>2. s[h] # p
      <4>1. CASE i = 1
        <5>1. i - 1 \notin 1 .. n
          BY <1>1, <4>1
        <5> QED
          BY <1>3, <1>4, <3>1, <5>1 DEF At
      <4>2. CASE i # 1
        <5>1. i - 1 \in 1 .. n /\ h # i - 1
          BY <1>1, <3>1, <4>2
        <5>2. p = s[i - 1]
          BY <1>3, <5>1 DEF At
        <5> HIDE DEF h
        <5> QED
          BY <1>1, <3>1, <5>1, <5>2
      <4> QED
        BY <4>1, <4>2
    <3>3. new[t[k]].next = At(s, n, h + 1)
      <4>1. t[k] \in DOMAIN nodes \ {s[i]} /\ t[k] # p
        BY <1>5, <3>1, <3>2
      <4>2. new[t[k]].next = nodes[t[k]].next
        BY <4>1
      <4>3. nodes[s[h]].next = At(s, n, h + 1)
        <5> HIDE DEF h
        <5> QED
          BY <1>1, <3>1
      <4> QED
        BY <3>1, <4>2, <4>3
    <3>4. CASE h + 1 \in 1 .. n
      <4>1. k + 1 \in 1 .. n - 1 /\ g(k + 1) = h + 1
        BY <1>1, <2>2, <3>1, <3>4
      <4>2. t[k + 1] = s[h + 1]
        BY <1>2, <4>1
      <4> QED
        BY <3>3, <3>4, <4>1, <4>2 DEF At
    <3>5. CASE h + 1 \notin 1 .. n
      <4>1. k + 1 \notin 1 .. n - 1
        BY <1>1, <2>2, <3>1, <3>5
      <4> QED
        BY <3>3, <3>5, <4>1 DEF At
    <3> QED
      BY <3>4, <3>5
  <2> QED
    BY <2>1, <2>2
<1>8. ASSUME NEW k \in 1 .. n - 1
      PROVE  new[t[k]].prev = At(t, n - 1, k - 1)
  <2>1. CASE k = i
    <3>1. t[k] = s[i + 1] /\ i + 1 \in 1 .. n /\ q = s[i + 1]
      BY <1>1, <1>2, <1>3, <2>1 DEF At
    <3>2. new[t[k]].prev = p
      BY <1>5, <3>1
    <3>3. CASE i > 1
      <4>1. k - 1 \in 1 .. n - 1 /\ g(k - 1) = i - 1 /\ i - 1 \in 1 .. n
        BY <1>1, <2>1, <3>3
      <4>2. t[k - 1] = s[i - 1]
        BY <1>2, <4>1
      <4> QED
        BY <1>3, <3>2, <4>1, <4>2 DEF At
    <3>4. CASE ~(i > 1)
      <4>1. k - 1 \notin 1 .. n - 1 /\ i - 1 \notin 1 .. n
        BY <1>1, <2>1, <3>4
      <4> QED
        BY <1>3, <3>2, <4>1 DEF At
    <3> QED
      BY <3>3, <3>4
  <2>2. CASE k # i
    <3> DEFINE h == g(k)
    <3>1. /\ h \in 1 .. n /\ t[k] = s[h] /\ h # i /\ h - 1 # i
      BY <1>1, <1>2, <2>2
    <3>2. s[h] # q
      <4>1. CASE i = n
        <5>1. i + 1 \notin 1 .. n
          BY <1>1, <4>1
        <5> QED
          BY <1>3, <1>4, <3>1, <5>1 DEF At
      <4>2. CASE i # n
        <5>1. i + 1 \in 1 .. n /\ h # i + 1
          BY <1>1, <3>1, <4>2
        <5>2. q = s[i + 1]
          BY <1>3, <5>1 DEF At
        <5> HIDE DEF h
        <5> QED
          BY <1>1, <3>1, <5>1, <5>2
      <4> QED
        BY <4>1, <4>2
    <3>3. new[t[k]].prev = At(s, n, h - 1)
      <4>1. t[k] \in DOMAIN nodes \ {s[i]} /\ t[k] # q
        BY <1>5, <3>1, <3>2
      <4>2. new[t[k]].prev = nodes[t[k]].prev
        BY <4>1
      <4>3. nodes[s[h]].prev = At(s, n, h - 1)
        <5> HIDE DEF h
        <5> QED
          BY <1>1, <3>1
      <4> QED
        BY <3>1, <4>2, <4>3
    <3>4. CASE h - 1 \in 1 .. n
      <4>1. k - 1 \in 1 .. n - 1 /\ g(k - 1) = h - 1
        BY <1>1, <2>2, <3>1, <3>4
      <4>2. t[k - 1] = s[h - 1]
        BY <1>2, <4>1
      <4> QED
        BY <3>3, <3>4, <4>1, <4>2 DEF At
    <3>5. CASE h - 1 \notin 1 .. n
      <4>1. k - 1 \notin 1 .. n - 1
        BY <1>1, <2>2, <3>1, <3>5
      <4> QED
        BY <3>3, <3>5, <4>1 DEF At
    <3> QED
      BY <3>4, <3>5
  <2> QED
    BY <2>1, <2>2
<1>9. first = At(t, n - 1, 1)
  <2>1. CASE i = 1
    <3>1. i - 1 \notin 1 .. n
      BY <1>1, <2>1
    <3>2. p = NULL
      BY <1>3, <3>1 DEF At
    <3>3. first = At(s, n, 2)
      BY <1>3, <2>1, <3>2
    <3>4. CASE n = 1
      <4>1. 1 \notin 1 .. n - 1 /\ 2 \notin 1 .. n
        BY <3>4
      <4> QED
        BY <3>3, <4>1 DEF At
    <3>5. CASE n # 1
      <4>1. 1 \in 1 .. n - 1 /\ g(1) = 2 /\ 2 \in 1 .. n
        BY <1>1, <2>1, <3>5
      <4>2. t[1] = s[2]
        BY <1>2, <4>1
      <4> QED
        BY <3>3, <4>1, <4>2 DEF At
    <3> QED
      BY <3>4, <3>5
  <2>2. CASE i # 1
    <3>1. i - 1 \in 1 .. n /\ 1 \in 1 .. n /\ 1 \in 1 .. n - 1 /\ g(1) = 1
      BY <1>1, <2>2
    <3>2. p # NULL
      BY <1>3, <1>4, <3>1 DEF At
    <3>3. t[1] = s[1]
      BY <1>2, <3>1
    <3> QED
      BY <1>1, <3>1, <3>2, <3>3 DEF At
  <2> QED
    BY <2>1, <2>2
<1>10. n - 1 \in Nat
  BY <1>1
<1>11. \A k \in 1 .. n - 1 : t[k] \in DOMAIN new
  <2> HIDE DEF t
  <2> QED
    BY <1>5
<1> HIDE DEF t, g
<1>12. Chain(new, first, t, n - 1)
  BY <1>2, <1>6, <1>7, <1>8, <1>9, <1>10, <1>11 DEF Chain
<1> QED
  BY <1>12

------------------------------------------------------------------------------
(* A new zone.                                                             *)

LEMMA ListHead ==
  ASSUME NEW nodes, NEW head, \E s, n : Chain(nodes, head, s, n)
  PROVE  head = NULL \/ head \in DOMAIN nodes
<1>1. PICK s, n : Chain(nodes, head, s, n)
  OBVIOUS
<1>2. head = At(s, n, 1) /\ \A k \in 1 .. n : s[k] \in DOMAIN nodes
  BY <1>1 DEF Chain
<1> QED
  BY <1>2 DEF At

(* h is the zone header g but for its links.                               *)
SameButLinks(g, h) ==
  /\ IsZone(h) /\ h.end = g.end /\ h.type = g.type
  /\ h.total_space = g.total_space
  /\ h.blocks = g.blocks /\ h.empty_spaces = g.empty_spaces

(* The headers of zones when the head of their list gets a node before it. *)
Pushed(zone, g, base) ==
  IF g = NULL THEN zone ELSE [zone EXCEPT ![g].prev = base]

BehindNew(zone, linked, g, base) ==
  /\ DOMAIN linked = DOMAIN zone
  /\ \A y \in DOMAIN zone :
       /\ SameButLinks(zone[y], linked[y])
       /\ linked[y].next = zone[y].next
       /\ linked[y].prev = IF y = g THEN base ELSE zone[y].prev

LEMMA PrevSet ==
  ASSUME NEW zone, NEW g, g = NULL \/ g \in DOMAIN zone,
         \A y \in DOMAIN zone : IsZone(zone[y]), NEW base,
         NEW linked, linked = Pushed(zone, g, base),
         NULL \notin DOMAIN zone
  PROVE  BehindNew(zone, linked, g, base)
<1>1. DOMAIN linked = DOMAIN zone
  BY DEF Pushed
<1>2. ASSUME NEW y \in DOMAIN zone
      PROVE  /\ SameButLinks(zone[y], linked[y])
             /\ linked[y].next = zone[y].next
             /\ linked[y].prev = IF y = g THEN base ELSE zone[y].prev
  <2>1. CASE y # g
    <3>1. linked[y] = zone[y]
      BY <2>1 DEF Pushed
    <3> QED
      BY <2>1, <3>1 DEF SameButLinks
  <2>2. CASE y = g
    <3>1. linked[y] = [zone[y] EXCEPT !.prev = base]
      BY <2>2 DEF Pushed
    <3> DEFINE h == zone[y]
    <3>2. h = [end |-> h.end, type |-> h.type, blocks_num |-> h.blocks_num,
       total_space |-> h.total_space, remaining_space |-> h.remaining_space,
       max_free_space_size |-> h.max_free_space_size, blocks |-> h.blocks,
       empty_spaces |-> h.empty_spaces, prev |-> h.prev, next |-> h.next]
      BY DEF IsZone
    <3> HIDE DEF h
    <3>3. linked[y] = [end |-> h.end, type |-> h.type, blocks_num |-> h.blocks_num,
       total_space |-> h.total_space, remaining_space |-> h.remaining_space,
       max_free_space_size |-> h.max_free_space_size, blocks |-> h.blocks,
       empty_spaces |-> h.empty_spaces, prev |-> base, next |-> h.next]
      BY <3>1, <3>2 DEF h
    <3> QED
      BY <2>2, <3>3 DEF SameButLinks, IsZone, h
  <2> QED
    BY <2>1, <2>2
<1> QED
  BY <1>1, <1>2 DEF BehindNew

LEMMA PageNumbers ==
  ASSUME NEW p \in Pages
  PROVE  p \in Addr /\ p \in Nat /\ p > 0
<1>1. PAGESIZE \in Nat \ {0} /\ MEM_END \in Nat
  BY SizesAssumption, MemoryAssumption
<1> QED
  BY <1>1 DEF Pages, Addr, NULL

(* A mapping the kernel gave meets no zone.                                *)
LEMMA MappedApart ==
  ASSUME NEW m, HeapOK(m), NEW len \in Nat, NEW base \in mmap(m, len),
         NEW y \in DOMAIN m.zone
  PROVE  base # y /\ (m.zone[y].end <= base \/ base + len <= y)
<1>1. base \in Pages /\ len > 0 /\ PagesIn(base, len) \cap m.mapped = {}
  BY DEF mmap
<1>2. base \in Nat
  BY <1>1, PageNumbers
<1>3. /\ y \in Nat /\ y \in Pages /\ m.zone[y].end \in Nat
      /\ m.zone[y].total_space \in Nat
      /\ m.zone[y].end = y + ZONE_HEADER_SIZE + m.zone[y].total_space
      /\ y < m.zone[y].end
  BY ZoneNumbers
<1>4. PagesIn(y, m.zone[y].total_space + ZONE_HEADER_SIZE) \subseteq m.mapped
  BY ZoneShape DEF ZoneGood
<1> DEFINE t == m.zone[y].total_space + ZONE_HEADER_SIZE
<1>5. t \in Nat /\ m.zone[y].end = y + t
  BY <1>3, Sizeful
<1> HIDE DEF t
<1>6. \A p \in Pages : p \in Nat /\ (p \in PagesIn(y, t) <=> y <= p /\ p < m.zone[y].end)
  BY <1>5, PageNumbers DEF PagesIn
<1>7. \A p \in Pages : p \in PagesIn(base, len) <=> base <= p /\ p < base + len
  BY DEF PagesIn
<1>8. base \in PagesIn(base, len) /\ y \in PagesIn(y, t)
  BY <1>1, <1>2, <1>3, <1>6, <1>7
<1>9. PagesIn(y, t) \subseteq m.mapped
  BY <1>4 DEF t
<1>10. base \notin PagesIn(y, t) /\ y \notin PagesIn(base, len)
  BY <1>1, <1>8, <1>9
<1> QED
  BY <1>1, <1>2, <1>3, <1>6, <1>7, <1>8, <1>10

ZoneMade(m, n, base, type) ==
  /\ Step(m, n, {})
  /\ base \in DOMAIN n.zone /\ n.zone[base].type = type
  /\ BlocksOf(n, base) = {}

Prepended(m, k, base, new) ==
  /\ MemOK(k) /\ ZonesListed(k)
  /\ DOMAIN k.zone = DOMAIN m.zone \cup {base} /\ k.zone[base] = new
  /\ \A y \in DOMAIN m.zone : SameButLinks(m.zone[y], k.zone[y])

(* The memory of zone_init before the header of the empty space is written. *)
LEMMA ZoneLinked ==
  ASSUME NEW m, HeapOK(m), NEW base \in Addr, base \notin DOMAIN m.zone,
         NEW new, IsZone(new), new.prev = NULL, new.next = m.g_zones,
         NEW linked, linked = Pushed(m.zone, m.g_zones, base),
         NEW zone, zone = Store(linked, base, new), NEW mapped,
         NEW k, k = [g_zones |-> base, zone |-> zone, hdr |-> m.hdr,
                     bytes |-> m.bytes, mapped |-> mapped]
  PROVE  Prepended(m, k, base, new)
<1>1. MemOK(m) /\ \E s, j : Chain(m.zone, m.g_zones, s, j)
  BY DEF HeapOK, ZonesListed
<1>2. NULL \notin DOMAIN m.zone /\ base # NULL
  BY <1>1 DEF MemOK, Addr
<1>3. /\ DOMAIN linked = DOMAIN m.zone
      /\ \A y \in DOMAIN m.zone :
           /\ SameButLinks(m.zone[y], linked[y])
           /\ linked[y].next = m.zone[y].next
           /\ linked[y].prev = IF y = m.g_zones THEN base ELSE m.zone[y].prev
  <2>1. m.g_zones = NULL \/ m.g_zones \in DOMAIN m.zone
    BY <1>1, ListHead
  <2>2. \A y \in DOMAIN m.zone : IsZone(m.zone[y])
    BY <1>1 DEF MemOK
  <2>3. BehindNew(m.zone, linked, m.g_zones, base)
    BY <1>2, <2>1, <2>2, PrevSet
  <2> QED
    BY <2>3 DEF BehindNew
<1>4. /\ DOMAIN zone = DOMAIN m.zone \cup {base} /\ zone[base] = new
      /\ \A y \in DOMAIN m.zone : zone[y] = linked[y]
  BY <1>3 DEF Store
<1>5. \A y \in DOMAIN m.zone : SameButLinks(m.zone[y], zone[y])
  BY <1>3, <1>4
<1>6. IsFiniteSet(DOMAIN zone)
  BY <1>1, <1>4, FS_AddElement DEF MemOK
<1>7. MemOK(k)
  <2>1. \A y \in DOMAIN zone : IsZone(zone[y])
    BY <1>4, <1>5 DEF SameButLinks
  <2>2. DOMAIN zone \subseteq Addr
    BY <1>1, <1>4 DEF MemOK
  <2> QED
    BY <1>1, <1>6, <2>1, <2>2 DEF MemOK
<1>8. ZonesListed(k)
  <2>1. PICK s, j : Chain(m.zone, m.g_zones, s, j)
    BY <1>1
  <2>2. \A x \in DOMAIN m.zone :
           /\ x \in DOMAIN zone /\ zone[x].next = m.zone[x].next
           /\ zone[x].prev = IF x = m.g_zones THEN base ELSE m.zone[x].prev
    BY <1>3, <1>4
  <2>3. base \in DOMAIN zone /\ zone[base].next = m.g_zones /\ zone[base].prev = NULL
    BY <1>4
  <2>4. \E t : Chain(zone, base, t, j + 1)
    BY <1>2, <2>1, <2>2, <2>3, ChainPrepend
  <2> QED
    BY <2>4 DEF ZonesListed
<1> QED
  BY <1>4, <1>5, <1>7, <1>8 DEF Prepended

LEMMA FirstSpace ==
  ASSUME NEW n, NEW z \in DOMAIN n.zone, z \in Addr, NEW d \in Nat, d >= ALIGNMENT,
         NEW e, e = z + ZONE_HEADER_SIZE,
         e \in DOMAIN n.hdr, n.hdr[e] = Header(e, d),
         n.zone[z].blocks = NULL, n.zone[z].empty_spaces = e,
         n.zone[z].end = e + HEADER_SIZE + d
  PROVE  Shape(n, z, {}, {e})
<1>1. e \in Nat /\ e > 0 /\ e # NULL /\ e \in Addr
  BY Sizeful DEF Addr, NULL
<1>2. /\ n.hdr[e].data_size = d /\ n.hdr[e].prev = NULL /\ n.hdr[e].next = NULL
      /\ n.hdr[e].end = e + HEADER_SIZE + d
  BY HeaderIs
<1>3. Linked(n.hdr, NULL, {})
  BY DEF Linked, LinkedBut, IsNext
<1>4. Linked(n.hdr, e, {e})
  <2>1. IsNext({e}, NULL, e) /\ IsNext({e}, e, NULL) /\ IsPrev({e}, e, NULL)
    BY <1>1 DEF IsNext, IsPrev, NULL
  <2> QED
    BY <1>1, <1>2, <2>1 DEF Linked, LinkedBut
<1>5. Fits(n, z, e)
  BY <1>1, <1>2, Sizeful DEF Fits, HasSpan
<1>6. n.zone[z].end \in Nat
  BY <1>1, Sizeful
<1>7. Layout(n, z, {e})
  <2>1. \A a, b \in {e} : ~(a < b)
    BY <1>1
  <2> QED
    BY <1>1, <1>5, <1>6, <2>1 DEF Layout
<1>8. {} \cup {e} = {e} /\ {} \cap {e} = {}
  OBVIOUS
<1> QED
  BY <1>3, <1>4, <1>7, <1>8 DEF Shape

LEMMA InitGives ==
  ASSUME NEW m, HeapOK(m), NEW len \in Nat,
         len >= ZONE_HEADER_SIZE + HEADER_SIZE + ALIGNMENT,
         NEW base \in mmap(m, len), NEW type,
         NEW n, n = zone_init(m, base, type, len)
  PROVE  ZoneMade(m, n, base, type)
<1> DEFINE space == len - ZONE_HEADER_SIZE
           first == base + ZONE_HEADER_SIZE
           new    == [end |-> base + len, type |-> type, blocks_num |-> 0,
                 total_space |-> space, remaining_space |-> space,
                 max_free_space_size |-> space,
                 blocks |-> NULL, empty_spaces |-> first,
                 prev |-> NULL, next |-> m.g_zones]
           linked == IF m.g_zones = NULL
                THEN m.zone
                ELSE [m.zone EXCEPT ![m.g_zones].prev = base]
           zone == Store(linked, base, new)
           mapped == m.mapped \cup PagesIn(base, len)
           k == [m EXCEPT !.zone = zone, !.mapped = mapped, !.g_zones = base]
           h == Header(first, space - HEADER_SIZE)
           d == space - HEADER_SIZE
<1>1. n = Put(k, first, h)
  BY DEF zone_init
<1>2. MemOK(m)
  BY DEF HeapOK
<1>3. /\ IsZone(new) /\ new.prev = NULL /\ new.next = m.g_zones
      /\ new.end = base + len /\ new.type = type /\ new.total_space = space
      /\ new.blocks = NULL /\ new.empty_spaces = first
  BY DEF IsZone
<1>4. linked = Pushed(m.zone, m.g_zones, base)
  BY DEF Pushed
<1>5. zone = Store(linked, base, new)
  OBVIOUS
<1> HIDE DEF linked, new
<1> HIDE DEF zone
<1>6. k = [g_zones |-> base, zone |-> zone, hdr |-> m.hdr,
           bytes |-> m.bytes, mapped |-> mapped]
  <2> HIDE DEF mapped
  <2> DEFINE k1 == [m EXCEPT !.zone = zone]
             k2 == [k1 EXCEPT !.mapped = mapped]
  <2>1. k1 = [g_zones |-> m.g_zones, zone |-> zone, hdr |-> m.hdr,
           bytes |-> m.bytes, mapped |-> m.mapped]
    BY <1>2 DEF MemOK
  <2>2. k = [k2 EXCEPT !.g_zones = base]
    OBVIOUS
  <2> HIDE DEF k1, k
  <2>3. k2 = [g_zones |-> m.g_zones, zone |-> zone, hdr |-> m.hdr,
           bytes |-> m.bytes, mapped |-> mapped]
    BY <2>1
  <2> HIDE DEF k2
  <2> QED
    BY <2>2, <2>3
<1>7. /\ space \in Nat /\ first \in Nat /\ first \in Addr /\ base \in Nat /\ base \in Addr
      /\ base \in Pages
      /\ d \in Nat /\ d >= ALIGNMENT
      /\ first + HEADER_SIZE + d = base + len
      /\ base + ZONE_HEADER_SIZE + space = base + len
      /\ space + ZONE_HEADER_SIZE = len
      /\ first + HEADER_SIZE <= base + len
      /\ base <= first
  <2>1. base \in Pages
    BY DEF mmap
  <2>2. base \in Nat /\ base \in Addr /\ base > 0
    BY <2>1, PageNumbers
  <2> QED
    BY <2>1, <2>2, Sizeful DEF Addr, NULL
<1>8. first = base + ZONE_HEADER_SIZE /\ h = Header(first, d)
  OBVIOUS
<1> HIDE DEF k, h, d, first, space, mapped
<1>9. \A y \in DOMAIN m.zone : base # y /\ (m.zone[y].end <= base \/ base + len <= y)
  BY MappedApart
<1>10. /\ MemOK(k) /\ ZonesListed(k)
       /\ DOMAIN k.zone = DOMAIN m.zone \cup {base} /\ k.zone[base] = new
       /\ \A y \in DOMAIN m.zone : SameButLinks(m.zone[y], k.zone[y])
  <2>1. base \notin DOMAIN m.zone
    BY <1>9
  <2>2. Prepended(m, k, base, new)
    BY <1>3, <1>4, <1>5, <1>6, <1>7, <2>1, ZoneLinked
  <2> QED
    BY <2>2 DEF Prepended
<1>11. Wrote(k, n, first, h) /\ \A z : Touches(k, n, z, {first})
  BY <1>1, <1>7, <1>8, <1>10, HeaderIs, PutGives
<1>12. /\ MemOK(n) /\ n.g_zones = k.g_zones /\ n.mapped = mapped /\ n.zone = k.zone
       /\ first \in DOMAIN n.hdr /\ n.hdr[first] = h
       /\ \A x \in DOMAIN m.hdr : x # first => x \in DOMAIN n.hdr /\ n.hdr[x] = m.hdr[x]
       /\ \A x \in DOMAIN m.bytes :
            OffHeaders({first}, x) => x \in DOMAIN n.bytes /\ n.bytes[x] = m.bytes[x]
  BY <1>6, <1>11 DEF Wrote, Touches
<1>13. /\ base \in DOMAIN n.zone /\ n.zone[base] = new
       /\ DOMAIN n.zone = DOMAIN m.zone \cup {base}
       /\ \A y \in DOMAIN m.zone : SameButLinks(m.zone[y], n.zone[y])
  BY <1>10, <1>12
<1>14. Shape(n, base, {}, {first})
  <2>1. /\ n.hdr[first] = Header(first, d) /\ n.zone[base].blocks = NULL
        /\ n.zone[base].empty_spaces = first
        /\ n.zone[base].end = first + HEADER_SIZE + d
    BY <1>3, <1>7, <1>8, <1>12, <1>13
  <2> QED
    BY <1>7, <1>8, <1>12, <1>13, <2>1, FirstSpace
<1>15. BlocksOf(n, base) = {}
  BY <1>12, <1>14, ShapeBlocks
<1>16. ZoneGood(n, base)
  <2>1. /\ n.zone[base].total_space = space
        /\ n.zone[base].end = base + ZONE_HEADER_SIZE + n.zone[base].total_space
    BY <1>3, <1>7, <1>13
  <2>2. PagesIn(base, n.zone[base].total_space + ZONE_HEADER_SIZE) \subseteq n.mapped
    BY <1>7, <1>12, <2>1 DEF mapped
  <2>3. \E F : Shape(n, base, BlocksOf(n, base), F)
    BY <1>14, <1>15
  <2> QED
    BY <1>7, <1>15, <2>1, <2>2, <2>3 DEF ZoneGood
<1>17. ASSUME NEW y \in DOMAIN m.zone
       PROVE  StillGood(m, n, y)
  <2>1. y \in Nat /\ m.zone[y].end \in Nat
    BY ZoneNumbers
  <2>2. m.zone[y].end <= base \/ base + len <= y
    BY <1>9
  <2>3. ASSUME NEW x \in DOMAIN m.hdr, y <= x, x + HEADER_SIZE <= m.zone[y].end
        PROVE  x \in DOMAIN n.hdr /\ n.hdr[x] = m.hdr[x]
    <3>1. x \in Nat
      BY <1>2 DEF MemOK, Addr
    <3>2. x # first
      BY <1>7, <2>1, <2>2, <2>3, <3>1, Sizeful
    <3> QED
      BY <1>12, <3>2
  <2>4. ASSUME NEW b \in DOMAIN m.bytes, y <= b, b < m.zone[y].end
        PROVE  b \in DOMAIN n.bytes /\ n.bytes[b] = m.bytes[b]
    <3>1. b \in Nat
      BY <1>2 DEF MemOK
    <3>2. b < first \/ first + HEADER_SIZE <= b
      BY <1>7, <2>1, <2>2, <2>4, <3>1, Sizeful
    <3>3. OffHeaders({first}, b)
      BY <3>2 DEF OffHeaders
    <3> QED
      BY <1>12, <3>3
  <2>5. y \in DOMAIN n.zone /\ SameButLinks(m.zone[y], n.zone[y])
    BY <1>13
  <2>6. Untouched(m, n, y)
    BY <2>3, <2>4, <2>5 DEF Untouched, SameButLinks
  <2>7. ZoneGood(m, y)
    BY ZoneShape
  <2>8. PagesIn(y, m.zone[y].total_space + ZONE_HEADER_SIZE) \subseteq n.mapped
    BY <1>12, <2>7 DEF ZoneGood, mapped
  <2> QED
    BY <1>2, <1>12, <2>6, <2>7, <2>8, UntouchedGood
<1>18. ZonesListed(n)
  BY <1>10, <1>12 DEF ZonesListed
<1>19. ZonesApart(n)
  <2>1. \A y \in DOMAIN m.zone : y \in Nat /\ m.zone[y].end \in Nat
                                 /\ n.zone[y].end = m.zone[y].end /\ y < m.zone[y].end
    BY <1>13, ZoneNumbers DEF SameButLinks
  <2>2. n.zone[base].end = base + len
    BY <1>3, <1>13
  <2>3. ASSUME NEW y \in DOMAIN n.zone, NEW z \in DOMAIN n.zone, y < z
        PROVE  n.zone[y].end <= z
    <3>1. CASE y \in DOMAIN m.zone /\ z \in DOMAIN m.zone
      <4>1. m.zone[y].end <= z
        BY <2>3, <3>1 DEF HeapOK, ZonesApart
      <4> QED
        BY <2>1, <3>1, <4>1
    <3>2. CASE y = base /\ z \in DOMAIN m.zone
      <4>1. base + len <= z
        <5>1. m.zone[z].end <= base \/ base + len <= z
          BY <1>9, <3>2
        <5> QED
          BY <1>7, <2>1, <2>3, <3>2, <5>1
      <4> QED
        BY <2>2, <3>2, <4>1
    <3>3. CASE y \in DOMAIN m.zone /\ z = base
      <4>1. m.zone[y].end <= base \/ base + len <= y
        BY <1>9, <3>3
      <4>2. m.zone[y].end <= base
        BY <1>7, <2>1, <2>3, <3>3, <4>1
      <4> QED
        BY <2>1, <3>3, <4>2
    <3>4. CASE y = base /\ z = base
      BY <1>7, <2>3, <3>4
    <3> QED
      BY <1>13, <3>1, <3>2, <3>3, <3>4
  <2> QED
    BY <2>3 DEF ZonesApart
<1>20. HeapOK(n)
  <2>1. \A y \in DOMAIN n.zone : ZoneGood(n, y)
    BY <1>13, <1>16, <1>17 DEF StillGood
  <2> QED
    BY <1>12, <1>18, <1>19, <2>1 DEF HeapOK
<1>21. \A a : IsBlock(m, a) => Lasts(m, n, a)
  BY <1>17 DEF IsBlock, StillGood
<1>22. n.zone[base].type = type
  BY <1>3, <1>13
<1> QED
  BY <1>13, <1>15, <1>20, <1>21, <1>22 DEF ZoneMade, Step

------------------------------------------------------------------------------
(* A zone that goes.                                                       *)

(* The zone headers of free_large_zone: ahead has the link of the zone     *)
(* before, both that of the zone behind as well.                           *)
Ahead(zone, p, q) == IF p = NULL THEN zone ELSE [zone EXCEPT ![p].next = q]
Both(zone, p, q)  == IF q = NULL THEN Ahead(zone, p, q)
                     ELSE [Ahead(zone, p, q) EXCEPT ![q].prev = p]

LinkedPast(zone, new, p, q) ==
  /\ DOMAIN new = DOMAIN zone
  /\ \A x \in DOMAIN zone :
       /\ SameButLinks(zone[x], new[x])
       /\ new[x].next = IF x = p THEN q ELSE zone[x].next
       /\ new[x].prev = IF x = q THEN p ELSE zone[x].prev

LEMMA ZoneRelinked ==
  ASSUME NEW h, IsZone(h), NEW q
  PROVE  LET k == [h EXCEPT !.next = q]
             l == [h EXCEPT !.prev = q]
         IN /\ SameButLinks(h, k) /\ k.next = q /\ k.prev = h.prev
            /\ SameButLinks(h, l) /\ l.prev = q /\ l.next = h.next
<1> DEFINE k == [h EXCEPT !.next = q]
           l == [h EXCEPT !.prev = q]
<1>1. k = [end |-> h.end, type |-> h.type, blocks_num |-> h.blocks_num,
       total_space |-> h.total_space, remaining_space |-> h.remaining_space,
       max_free_space_size |-> h.max_free_space_size, blocks |-> h.blocks,
       empty_spaces |-> h.empty_spaces, prev |-> h.prev, next |-> q]
  BY DEF IsZone
<1>2. l = [end |-> h.end, type |-> h.type, blocks_num |-> h.blocks_num,
       total_space |-> h.total_space, remaining_space |-> h.remaining_space,
       max_free_space_size |-> h.max_free_space_size, blocks |-> h.blocks,
       empty_spaces |-> h.empty_spaces, prev |-> q, next |-> h.next]
  BY DEF IsZone
<1> HIDE DEF k, l
<1>3. SameButLinks(h, k) /\ k.next = q /\ k.prev = h.prev
  BY <1>1 DEF SameButLinks, IsZone
<1>4. SameButLinks(h, l) /\ l.prev = q /\ l.next = h.next
  BY <1>2 DEF SameButLinks, IsZone
<1> QED
  BY <1>3, <1>4 DEF k, l

LEMMA BothGives ==
  ASSUME NEW zone, NULL \notin DOMAIN zone, \A x \in DOMAIN zone : IsZone(zone[x]),
         NEW p \in DOMAIN zone \cup {NULL}, NEW q \in DOMAIN zone \cup {NULL}
  PROVE  LinkedPast(zone, Both(zone, p, q), p, q)
<1> DEFINE u == Ahead(zone, p, q)
           v == Both(zone, p, q)
<1>1. DOMAIN u = DOMAIN zone
  BY DEF Ahead
<1>2. ASSUME NEW x \in DOMAIN zone
      PROVE  /\ SameButLinks(zone[x], u[x]) /\ u[x].prev = zone[x].prev
             /\ u[x].next = IF x = p THEN q ELSE zone[x].next
  <2>1. CASE x # p
    <3>1. u[x] = zone[x]
      BY <2>1 DEF Ahead
    <3> QED
      BY <2>1, <3>1 DEF SameButLinks
  <2>2. CASE x = p
    <3>1. u[x] = [zone[x] EXCEPT !.next = q]
      BY <2>2 DEF Ahead
    <3> DEFINE h == zone[x]
               k == u[x]
    <3>2. IsZone(h) /\ k = [h EXCEPT !.next = q]
      BY <3>1
    <3> HIDE DEF h, k
    <3>3. SameButLinks(h, k) /\ k.next = q /\ k.prev = h.prev
      BY <3>2, ZoneRelinked
    <3> QED
      BY <2>2, <3>3 DEF h, k
  <2> QED
    BY <2>1, <2>2
<1>3. DOMAIN v = DOMAIN zone
  BY <1>1 DEF Both
<1>4. ASSUME NEW x \in DOMAIN zone
      PROVE  /\ SameButLinks(zone[x], v[x])
             /\ v[x].next = IF x = p THEN q ELSE zone[x].next
             /\ v[x].prev = IF x = q THEN p ELSE zone[x].prev
  <2>1. CASE x # q
    <3>1. v[x] = u[x]
      BY <1>1, <2>1 DEF Both
    <3> QED
      BY <1>2, <2>1, <3>1
  <2>2. CASE x = q
    <3>1. v[x] = [u[x] EXCEPT !.prev = p]
      BY <1>1, <2>2 DEF Both
    <3>2. IsZone(u[x])
      BY <1>2 DEF SameButLinks
    <3> DEFINE h == u[x]
               l == v[x]
    <3>3. IsZone(h) /\ l = [h EXCEPT !.prev = p]
      BY <3>1, <3>2
    <3>4. SameButLinks(zone[x], h) /\ h.next = IF x = p THEN q ELSE zone[x].next
      BY <1>2
    <3> HIDE DEF h, l
    <3>5. SameButLinks(h, l) /\ l.prev = p /\ l.next = h.next
      BY <3>3, ZoneRelinked
    <3>6. SameButLinks(zone[x], l) /\ l.next = IF x = p THEN q ELSE zone[x].next
      BY <3>4, <3>5 DEF SameButLinks
    <3> QED
      BY <2>2, <3>5, <3>6 DEF l
  <2> QED
    BY <2>1, <2>2
<1> QED
  BY <1>3, <1>4 DEF LinkedPast

LEMMA FreeLargeGives ==
  ASSUME NEW m, HeapOK(m), NEW z \in ToSet(ZoneList(m)),
         NEW n, n = free_large_zone(m, z)
  PROVE  Step(m, n, BlocksOf(m, z))
<1>1. MemOK(m)
  BY DEF HeapOK
<1>2. IsFiniteSet(DOMAIN m.zone) /\ NULL \notin DOMAIN m.zone
  BY <1>1 DEF MemOK, Addr
<1>3. PICK s, c : Chain(m.zone, m.g_zones, s, c)
  BY DEF HeapOK, ZonesListed
<1>4. ZoneList(m) = s
  BY <1>2, <1>3, WalkChain DEF ZoneList
<1>5. PICK i \in 1 .. c : z = s[i]
  <2>1. DOMAIN s = 1 .. c
    BY <1>3 DEF Chain
  <2> QED
    BY <1>4, <2>1 DEF ToSet
<1>6. /\ c \in Nat /\ \A k \in 1 .. c : s[k] \in DOMAIN m.zone
      /\ \A k \in 1 .. c : m.zone[s[k]].next = At(s, c, k + 1)
      /\ \A k \in 1 .. c : m.zone[s[k]].prev = At(s, c, k - 1)
  BY <1>3 DEF Chain
<1> DEFINE p == m.zone[z].prev
           q == m.zone[z].next
           g == IF p = NULL THEN q ELSE m.g_zones
           both == Both(m.zone, p, q)
           len == m.zone[z].total_space + ZONE_HEADER_SIZE
<1>7. z \in DOMAIN m.zone
  BY <1>5, <1>6
<1>8. p \in DOMAIN m.zone \cup {NULL} /\ q \in DOMAIN m.zone \cup {NULL}
  BY <1>5, <1>6 DEF At
<1>9. n = [g_zones |-> g, zone |-> Without(both, z, len), hdr |-> Intact(m.hdr, z, len),
           bytes |-> Without(m.bytes, z, len), mapped |-> m.mapped \ PagesIn(z, len)]
  <2> DEFINE a == IF p = NULL
                  THEN [m EXCEPT !.g_zones = q]
                  ELSE [m EXCEPT !.zone[p].next = q]
             b == IF q = NULL
                  THEN a
                  ELSE [a EXCEPT !.zone[q].prev = p]
  <2>1. n = munmap(b, z, len)
    BY DEF free_large_zone
  <2> HIDE DEF both
  <2>2. a = [g_zones |-> g, zone |-> Ahead(m.zone, p, q), hdr |-> m.hdr,
             bytes |-> m.bytes, mapped |-> m.mapped]
    <3> HIDE DEF p, q
    <3>1. CASE p = NULL
      BY <1>1, <3>1 DEF MemOK, Ahead
    <3>2. CASE p # NULL
      BY <1>1, <3>2 DEF MemOK, Ahead
    <3> QED
      BY <3>1, <3>2
  <2> HIDE DEF a
  <2>3. b = [g_zones |-> g, zone |-> both, hdr |-> m.hdr,
             bytes |-> m.bytes, mapped |-> m.mapped]
    <3> HIDE DEF p, q, g
    <3>1. CASE q = NULL
      BY <2>2, <3>1 DEF Both, both
    <3>2. CASE q # NULL
      BY <2>2, <3>2 DEF Both, both
    <3> QED
      BY <3>1, <3>2
  <2> HIDE DEF b, g, len
  <2> DEFINE M == m.mapped \ PagesIn(z, len)
             Z == Without(both, z, len)
             H == Intact(m.hdr, z, len)
             Y == Without(m.bytes, z, len)
             b1 == [b EXCEPT !.mapped = M]
             b2 == [b1 EXCEPT !.zone = Z]
             b3 == [b2 EXCEPT !.hdr = H]
  <2>4. n = [b3 EXCEPT !.bytes = Y]
    <3>1. /\ b.mapped = m.mapped /\ b.zone = both /\ b.hdr = m.hdr /\ b.bytes = m.bytes
      BY <2>3
    <3>2. n = [b EXCEPT !.mapped = M, !.zone = Z, !.hdr = H, !.bytes = Y]
      BY <2>1, <3>1 DEF munmap
    <3> QED
      BY <3>2
  <2> HIDE DEF M, Z, H, Y
  <2>5. b1 = [g_zones |-> g, zone |-> both, hdr |-> m.hdr, bytes |-> m.bytes,
              mapped |-> M]
    BY <2>3
  <2> HIDE DEF b1
  <2>6. b2 = [g_zones |-> g, zone |-> Z, hdr |-> m.hdr, bytes |-> m.bytes,
              mapped |-> M]
    BY <2>5
  <2> HIDE DEF b2
  <2>7. b3 = [g_zones |-> g, zone |-> Z, hdr |-> H, bytes |-> m.bytes, mapped |-> M]
    BY <2>6
  <2> HIDE DEF b3
  <2> QED
    BY <2>4, <2>7 DEF M, Z, H, Y
<1>10. LinkedPast(m.zone, both, p, q)
  <2>1. \A x \in DOMAIN m.zone : IsZone(m.zone[x])
    BY <1>1 DEF MemOK
  <2> HIDE DEF p, q
  <2> QED
    BY <1>2, <1>8, <2>1, BothGives
<1>11. g = IF p = NULL THEN q ELSE m.g_zones
  OBVIOUS
<1>12. p = m.zone[s[i]].prev /\ q = m.zone[s[i]].next
  BY <1>5
<1>13. /\ z \in Nat /\ m.zone[z].end \in Nat /\ len \in Nat /\ z + len = m.zone[z].end
       /\ z < m.zone[z].end
  BY <1>7, ZoneNumbers, Sizeful
<1> HIDE DEF p, q, g, both
<1>14. ASSUME NEW y \in DOMAIN m.zone, y # z
       PROVE  /\ y \in Nat /\ m.zone[y].end \in Nat /\ y < m.zone[y].end
              /\ m.zone[y].end <= z \/ m.zone[z].end <= y
  BY <1>7, <1>14, ZoneNumbers, ApartFrom
<1> HIDE DEF len
<1>15. /\ DOMAIN n.zone = DOMAIN m.zone \ {z}
       /\ \A y \in DOMAIN n.zone : n.zone[y] = both[y]
  <2>1. DOMAIN both = DOMAIN m.zone
    BY <1>10 DEF LinkedPast
  <2>2. n.zone = [x \in DOMAIN m.zone \ (z .. z + len - 1) |-> both[x]]
    BY <1>9, <2>1 DEF Without
  <2>3. DOMAIN m.zone \ (z .. z + len - 1) = DOMAIN m.zone \ {z}
    <3>1. z \in z .. z + len - 1
      BY <1>13
    <3>2. \A y \in DOMAIN m.zone : y # z => y \notin z .. z + len - 1
      <4> SUFFICES ASSUME NEW y \in DOMAIN m.zone, y # z
                   PROVE  y \notin z .. z + len - 1
        OBVIOUS
      <4> QED
        BY <1>13, <1>14
    <3> QED
      BY <3>1, <3>2
  <2> QED
    BY <2>2, <2>3
<1>16. \A y \in DOMAIN n.zone : SameButLinks(m.zone[y], n.zone[y])
  BY <1>10, <1>15 DEF LinkedPast
<1>17. DOMAIN n.hdr \subseteq DOMAIN m.hdr /\ \A h \in DOMAIN n.hdr : n.hdr[h] = m.hdr[h]
  BY <1>9 DEF Intact
<1>18. MemOK(n)
  <2>1. DOMAIN n.zone \subseteq DOMAIN m.zone /\ \A y \in DOMAIN n.zone : IsZone(n.zone[y])
    BY <1>15, <1>16 DEF SameButLinks
  <2>2. IsFiniteSet(DOMAIN n.zone)
    BY <1>2, <2>1, FS_Subset
  <2>3. IsFiniteSet(DOMAIN n.hdr)
    BY <1>1, <1>17, FS_Subset DEF MemOK
  <2>4. DOMAIN n.bytes \subseteq Nat
    BY <1>1, <1>9 DEF MemOK, Without
  <2>5. n = [g_zones |-> n.g_zones, zone |-> n.zone, hdr |-> n.hdr,
             bytes |-> n.bytes, mapped |-> n.mapped]
    BY <1>9
  <2> QED
    BY <1>1, <1>17, <2>1, <2>2, <2>3, <2>4, <2>5 DEF MemOK
<1>19. ZonesListed(n)
  <2>1. \A x \in DOMAIN m.zone \ {s[i]} :
           /\ x \in DOMAIN n.zone
           /\ n.zone[x].next = IF x = p THEN q ELSE m.zone[x].next
           /\ n.zone[x].prev = IF x = q THEN p ELSE m.zone[x].prev
    BY <1>5, <1>10, <1>15 DEF LinkedPast
  <2>2. \E t : Chain(n.zone, g, t, c - 1)
    BY <1>2, <1>3, <1>11, <1>12, <2>1, ChainRemove
  <2>3. n.g_zones = g
    BY <1>9
  <2> QED
    BY <2>2, <2>3 DEF ZonesListed
<1>20. ZonesApart(n)
  <2>1. \A y \in DOMAIN n.zone : y \in DOMAIN m.zone /\ n.zone[y].end = m.zone[y].end
    BY <1>15, <1>16 DEF SameButLinks
  <2> QED
    BY <2>1 DEF HeapOK, ZonesApart
<1>21. ASSUME NEW y \in DOMAIN n.zone
       PROVE  StillGood(m, n, y)
  <2>1. y \in DOMAIN m.zone /\ y # z
    BY <1>15
  <2>2. /\ y \in Nat /\ m.zone[y].end \in Nat
        /\ m.zone[y].end <= z \/ m.zone[z].end <= y
    BY <1>14, <2>1
  <2>3. ASSUME NEW h \in DOMAIN m.hdr, y <= h, h + HEADER_SIZE <= m.zone[y].end
        PROVE  h \in DOMAIN n.hdr /\ n.hdr[h] = m.hdr[h]
    <3>1. h \in Nat
      BY <1>1 DEF MemOK, Addr
    <3>2. h + HEADER_SIZE <= z \/ z + len <= h
      BY <1>13, <2>2, <2>3, <3>1, Sizeful
    <3>3. h \in DOMAIN Intact(m.hdr, z, len)
      BY <3>2 DEF Intact
    <3> QED
      BY <1>9, <1>17, <3>3
  <2>4. ASSUME NEW b \in DOMAIN m.bytes, y <= b, b < m.zone[y].end
        PROVE  b \in DOMAIN n.bytes /\ n.bytes[b] = m.bytes[b]
    <3>1. b \in Nat
      BY <1>1 DEF MemOK
    <3>2. b \notin z .. z + len - 1
      BY <1>13, <2>2, <2>4, <3>1
    <3> QED
      BY <1>9, <3>2 DEF Without
  <2>5. SameButLinks(m.zone[y], n.zone[y])
    BY <1>16
  <2>6. Untouched(m, n, y)
    BY <2>3, <2>4, <2>5 DEF Untouched, SameButLinks
  <2>7. ZoneGood(m, y)
    BY <2>1, ZoneShape
  <2>8. PagesIn(y, m.zone[y].total_space + ZONE_HEADER_SIZE) \subseteq n.mapped
    <3> DEFINE t == m.zone[y].total_space + ZONE_HEADER_SIZE
    <3>1. t \in Nat /\ y + t = m.zone[y].end
      BY <2>1, ZoneNumbers, Sizeful
    <3>2. PagesIn(y, t) \subseteq m.mapped
      BY <2>7 DEF ZoneGood
    <3> HIDE DEF t
    <3>3. ASSUME NEW x \in PagesIn(y, t)
          PROVE  x \notin PagesIn(z, len)
      <4>1. x \in Pages /\ y <= x /\ x < y + t
        BY DEF PagesIn
      <4>2. x \in Nat
        BY <4>1, PageNumbers
      <4>3. ~(z <= x /\ x < z + len)
        BY <1>13, <2>2, <3>1, <4>1, <4>2
      <4> QED
        BY <4>3 DEF PagesIn
    <3>4. PagesIn(y, t) \subseteq n.mapped
      BY <1>9, <3>2, <3>3
    <3> QED
      BY <3>4 DEF t
  <2> QED
    BY <1>1, <1>18, <2>6, <2>7, <2>8, UntouchedGood
<1>22. HeapOK(n)
  BY <1>18, <1>19, <1>20, <1>21 DEF HeapOK, StillGood
<1>23. ASSUME NEW a, IsBlock(m, a), a \notin BlocksOf(m, z)
       PROVE  Lasts(m, n, a)
  <2>1. PICK y \in DOMAIN m.zone : a \in BlocksOf(m, y)
    BY <1>23 DEF IsBlock
  <2>2. y \in DOMAIN n.zone
    BY <1>15, <1>23, <2>1
  <2> QED
    BY <1>21, <2>1, <2>2 DEF StillGood
<1> QED
  BY <1>22, <1>23 DEF Step

------------------------------------------------------------------------------
(* Where a request is served from.                                         *)

LEMMA ListedZone ==
  ASSUME NEW m, HeapOK(m), NEW z \in ToSet(ZoneList(m))
  PROVE  z \in DOMAIN m.zone /\ z \in Addr
<1>1. MemOK(m)
  BY DEF HeapOK
<1>2. IsFiniteSet(DOMAIN m.zone) /\ NULL \notin DOMAIN m.zone
  BY <1>1 DEF MemOK, Addr
<1>3. PICK s, c : Chain(m.zone, m.g_zones, s, c)
  BY DEF HeapOK, ZonesListed
<1>4. ZoneList(m) = s
  BY <1>2, <1>3, WalkChain DEF ZoneList
<1>5. DOMAIN s = 1 .. c /\ \A k \in 1 .. c : s[k] \in DOMAIN m.zone
  BY <1>3 DEF Chain
<1> QED
  BY <1>1, <1>4, <1>5 DEF ToSet, MemOK

(* What find_zone comes to: no zone, or one that has room for a block.     *)
ZoneFound(m, f) ==
  \/ f.zone = NULL /\ f.mem = m
  \/ /\ Step(m, f.mem, {})
     /\ f.zone \in DOMAIN f.mem.zone
     /\ f.mem.zone[f.zone].type = "LARGE" => BlocksOf(f.mem, f.zone) = {}

LEMMA MapGives ==
  ASSUME NEW m, HeapOK(m), NEW len \in Nat,
         len >= ZONE_HEADER_SIZE + HEADER_SIZE + ALIGNMENT,
         NEW type, NEW f \in MapZone(m, type, len)
  PROVE  ZoneFound(m, f)
<1>1. CASE f = [mem |-> m, zone |-> NULL]
  BY <1>1 DEF ZoneFound
<1>2. CASE f \in {[mem |-> zone_init(m, base, type, len), zone |-> base]
                    : base \in mmap(m, len)}
  <2>1. PICK base \in mmap(m, len) :
          f = [mem |-> zone_init(m, base, type, len), zone |-> base]
    BY <1>2
  <2>2. f.mem = zone_init(m, base, type, len) /\ f.zone = base
    BY <2>1
  <2>3. ZoneMade(m, f.mem, base, type)
    BY <2>2, InitGives
  <2> QED
    BY <2>2, <2>3 DEF ZoneFound, ZoneMade
<1> QED
  BY <1>1, <1>2 DEF MapZone

(* The search of find_zone: fitting, of its LET.                           *)
Fitting(m, type, size) ==
  FirstOf(ZoneList(m), LAMBDA z :
                   /\ m.zone[z].type = type
                   /\ m.zone[z].max_free_space_size >= size + HEADER_SIZE)

LEMMA FittingIs ==
  ASSUME NEW m, NEW type, NEW size, NEW z \in Fitting(m, type, size)
  PROVE  z \in ToSet(ZoneList(m)) /\ m.zone[z].type = type
  BY DEF Fitting, FirstOf, ToSet

LEMMA FindIs ==
  ASSUME NEW m, NEW type, NEW size \in Nat, NEW f \in find_zone(m, type, size)
  PROVE  \/ f = [mem |-> m, zone |-> NULL]
         \/ f \in MapZone(m, type, size + HEADER_SIZE + ZONE_HEADER_SIZE)
         \/ type # "LARGE"
              /\ \E z \in Fitting(m, type, size) : f = [mem |-> m, zone |-> z]
         \/ f \in MapZone(m, type, TINY_ZONE_SIZE)
         \/ f \in MapZone(m, type, SMALL_ZONE_SIZE)
<1> DEFINE F == Fitting(m, type, size)
           big == size + HEADER_SIZE + ZONE_HEADER_SIZE
           L == MapZone(m, type, big)
           T == MapZone(m, type, TINY_ZONE_SIZE)
           S == MapZone(m, type, SMALL_ZONE_SIZE)
<1>1. find_zone(m, type, size) =
        CASE type = "LARGE" /\ size > SIZE_MAX - HEADER_SIZE - ZONE_HEADER_SIZE ->
               {[mem |-> m, zone |-> NULL]}
          [] type = "LARGE" /\ size <= SIZE_MAX - HEADER_SIZE - ZONE_HEADER_SIZE -> L
          [] type # "LARGE" /\ F # {} -> {[mem |-> m, zone |-> z] : z \in F}
          [] OTHER -> MapZone(m, type, IF type = "TINY" THEN TINY_ZONE_SIZE
                                                        ELSE SMALL_ZONE_SIZE)
  BY DEF find_zone, Fitting
<1> HIDE DEF F, L
<1>2. CASE type = "LARGE" /\ size > SIZE_MAX - HEADER_SIZE - ZONE_HEADER_SIZE
  <2>1. ~(size <= SIZE_MAX - HEADER_SIZE - ZONE_HEADER_SIZE)
    BY <1>2, SizesAssumption
  <2>2. f \in {[mem |-> m, zone |-> NULL]}
    BY <1>1, <1>2, <2>1
  <2> QED
    BY <2>2
<1>3. CASE type = "LARGE" /\ size <= SIZE_MAX - HEADER_SIZE - ZONE_HEADER_SIZE
  BY <1>1, <1>3 DEF L
<1>4. CASE type # "LARGE" /\ F # {}
  BY <1>1, <1>4 DEF F
<1>5. CASE /\ ~(type = "LARGE" /\ size > SIZE_MAX - HEADER_SIZE - ZONE_HEADER_SIZE)
           /\ ~(type = "LARGE" /\ size <= SIZE_MAX - HEADER_SIZE - ZONE_HEADER_SIZE)
           /\ ~(type # "LARGE" /\ F # {})
  <2>1. f \in MapZone(m, type, IF type = "TINY" THEN TINY_ZONE_SIZE ELSE SMALL_ZONE_SIZE)
    BY <1>1, <1>5
  <2> QED
    BY <2>1
<1> QED
  BY <1>2, <1>3, <1>4, <1>5

LEMMA FindGives ==
  ASSUME NEW m, HeapOK(m), NEW size \in Nat, ALIGNMENT <= size, NEW type,
         NEW f \in find_zone(m, type, size)
  PROVE  ZoneFound(m, f)
<1> DEFINE big == size + HEADER_SIZE + ZONE_HEADER_SIZE
<1>1. big \in Nat /\ big >= ZONE_HEADER_SIZE + HEADER_SIZE + ALIGNMENT
  BY Sizeful
<1>2. CASE f = [mem |-> m, zone |-> NULL]
  BY <1>2 DEF ZoneFound
<1>3. CASE f \in MapZone(m, type, size + HEADER_SIZE + ZONE_HEADER_SIZE)
  <2>1. f \in MapZone(m, type, big)
    BY <1>3
  <2> HIDE DEF big
  <2> QED
    BY <1>1, <2>1, MapGives
<1>4. CASE type # "LARGE" /\ \E z \in Fitting(m, type, size) : f = [mem |-> m, zone |-> z]
  <2>1. PICK z \in Fitting(m, type, size) : f = [mem |-> m, zone |-> z]
    BY <1>4
  <2>2. z \in ToSet(ZoneList(m)) /\ m.zone[z].type # "LARGE"
    BY <1>4, FittingIs
  <2>3. z \in DOMAIN m.zone
    BY <2>2, ListedZone
  <2>4. Step(m, m, {})
    BY StepNone
  <2>5. f.mem = m /\ f.zone = z
    BY <2>1
  <2> QED
    BY <2>2, <2>3, <2>4, <2>5 DEF ZoneFound
<1>5. CASE f \in MapZone(m, type, TINY_ZONE_SIZE)
  BY <1>5, ZoneSizes, MapGives
<1>6. CASE f \in MapZone(m, type, SMALL_ZONE_SIZE)
  BY <1>6, ZoneSizes, MapGives
<1> QED
  BY <1>2, <1>3, <1>4, <1>5, <1>6, FindIs

(* A free chunk is no block, of no zone.                                   *)
LEMMA FreeIsNoBlock ==
  ASSUME NEW m, HeapOK(m), NEW z \in DOMAIN m.zone, NEW E,
         Shape(m, z, BlocksOf(m, z), E), NEW e \in E
  PROVE  ~IsBlock(m, e) /\ e \in Addr
<1>1. Layout(m, z, BlocksOf(m, z) \cup E) /\ e \in BlocksOf(m, z) \cup E
  BY DEF Shape
<1>2. e \in Addr
  BY <1>1 DEF Layout
<1>3. /\ z \in Nat /\ e \in Nat /\ m.zone[z].end \in Nat
      /\ m.hdr[e].end = e + HEADER_SIZE + m.hdr[e].data_size
      /\ m.hdr[e].data_size \in Nat
      /\ z + ZONE_HEADER_SIZE <= e /\ m.hdr[e].end <= m.zone[z].end
  BY <1>1, Spans
<1>4. z <= e /\ e < m.zone[z].end
  BY <1>3, Sizeful
<1>5. ASSUME NEW y \in DOMAIN m.zone, e \in BlocksOf(m, y)
      PROVE  FALSE
  <2>1. y # z
    BY <1>5 DEF Shape
  <2>2. PICK F : Shape(m, y, BlocksOf(m, y), F)
    BY ZoneShape
  <2>3. Layout(m, y, BlocksOf(m, y) \cup F) /\ e \in BlocksOf(m, y) \cup F
    BY <1>5, <2>2 DEF Shape
  <2>4. /\ y \in Nat /\ m.zone[y].end \in Nat
        /\ m.hdr[e].end = e + HEADER_SIZE + m.hdr[e].data_size
        /\ m.hdr[e].data_size \in Nat
        /\ y + ZONE_HEADER_SIZE <= e /\ m.hdr[e].end <= m.zone[y].end
    BY <2>3, Spans
  <2>5. y <= e /\ e < m.zone[y].end
    BY <1>3, <2>4, Sizeful
  <2>6. m.zone[y].end <= z \/ m.zone[z].end <= y
    BY <2>1, ApartFrom
  <2> QED
    BY <1>3, <1>4, <2>4, <2>5, <2>6
<1> QED
  BY <1>2, <1>5 DEF IsBlock

LEMMA StepNull ==
  ASSUME NEW m, HeapOK(m), NEW n, NEW G, Step(m, n, G \cup {NULL})
  PROVE  Step(m, n, G)
<1>1. \A a : IsBlock(m, a) => a # NULL
  <2> SUFFICES ASSUME NEW a, IsBlock(m, a)
               PROVE  a # NULL
    OBVIOUS
  <2>1. a \in Nat /\ a > 0
    BY BlockFacts
  <2> QED
    BY <2>1 DEF NULL
<1> QED
  BY <1>1 DEF Step

(* The block a of n is new, and has at least size bytes.                   *)
NewBlock(m, n, a, size) ==
  /\ a \in Addr /\ ~IsBlock(m, a) /\ IsBlock(n, a)
  /\ size <= n.hdr[a].data_size

(* What comes of a request for size bytes.                                 *)
Served(m, r, size) ==
  /\ Step(m, r.mem, {})
  /\ r.ptr # NULL => \E a : r.ptr = a + HEADER_SIZE /\ NewBlock(m, r.mem, a, size)

(* The search of allocate_block: fits, of its LET.                         *)
Spaces(m, z, size) ==
  FirstOf(EmptySpaces(m, z), LAMBDA e : m.hdr[e].data_size >= size)

LEMMA SpacesAre ==
  ASSUME NEW m, MemOK(m), NEW z, NEW B, NEW E, Shape(m, z, B, E), NEW size,
         NEW e \in Spaces(m, z, size)
  PROVE  e \in E /\ m.hdr[e].data_size >= size
<1>1. Linked(m.hdr, m.zone[z].empty_spaces, E)
  BY DEF Shape
<1>2. \A i \in DOMAIN EmptySpaces(m, z) : EmptySpaces(m, z)[i] \in E
  BY <1>1, WalkMeets DEF EmptySpaces
<1> QED
  BY <1>2 DEF Spaces, FirstOf

LEMMA AllocateIs ==
  ASSUME NEW m, NEW z, NEW size, NEW r \in allocate_block(m, z, size)
  PROVE  \/ r.mem = m /\ r.ptr = NULL
         \/ \E e \in Spaces(m, z, size) : /\ r.mem = allocate_from_empty(m, z, e, size)
                                          /\ r.ptr = e + HEADER_SIZE
<1> DEFINE F == Spaces(m, z, size)
<1>1. allocate_block(m, z, size) =
        IF F = {} THEN {[mem |-> m, ptr |-> NULL]}
        ELSE {[mem |-> allocate_from_empty(m, z, e, size), ptr |-> e + HEADER_SIZE]
                : e \in F}
  BY DEF allocate_block, Spaces
<1> HIDE DEF F
<1>2. CASE F = {}
  BY <1>1, <1>2
<1>3. CASE F # {}
  <2>1. r \in {[mem |-> allocate_from_empty(m, z, e, size), ptr |-> e + HEADER_SIZE]
                : e \in F}
    BY <1>1, <1>3
  <2>2. PICK e \in F :
          r = [mem |-> allocate_from_empty(m, z, e, size), ptr |-> e + HEADER_SIZE]
    BY <2>1
  <2> QED
    BY <2>2 DEF F
<1> QED
  BY <1>2, <1>3

LEMMA AllocateBlockGives ==
  ASSUME NEW m, HeapOK(m), NEW z \in DOMAIN m.zone,
         m.zone[z].type = "LARGE" => BlocksOf(m, z) = {},
         NEW size \in Nat, ALIGNMENT <= size, NEW r \in allocate_block(m, z, size)
  PROVE  Served(m, r, size)
<1>1. CASE r.mem = m /\ r.ptr = NULL
  BY <1>1, StepNone DEF Served
<1>2. CASE \E e \in Spaces(m, z, size) : /\ r.mem = allocate_from_empty(m, z, e, size)
                                         /\ r.ptr = e + HEADER_SIZE
  <2>1. PICK e \in Spaces(m, z, size) : /\ r.mem = allocate_from_empty(m, z, e, size)
                                        /\ r.ptr = e + HEADER_SIZE
    BY <1>2
  <2> DEFINE B == BlocksOf(m, z)
             C == B \cup {e}
             n == r.mem
  <2>2. MemOK(m) /\ \E E : Shape(m, z, B, E)
    BY ZoneShape
  <2>3. PICK E : Shape(m, z, B, E)
    BY <2>2
  <2>4. n = allocate_from_empty(m, z, e, size)
    BY <2>1
  <2>5. m.zone[z].type = "LARGE" => \A a, b \in C : a = b
    OBVIOUS
  <2>6. ~IsBlock(m, e) /\ e \in Addr /\ e \in E /\ size <= m.hdr[e].data_size
    <3>1. e \in E /\ m.hdr[e].data_size >= size
      BY <2>2, <2>3, SpacesAre
    <3>2. m.hdr[e].data_size \in Nat
      <4>1. Layout(m, z, B \cup E) /\ e \in B \cup E
        BY <2>3, <3>1 DEF Shape
      <4> QED
        BY <4>1, Spans
    <3>3. Shape(m, z, BlocksOf(m, z), E)
      BY <2>3
    <3> QED
      BY <3>1, <3>2, <3>3, FreeIsNoBlock
  <2>7. B \ C = {}
    OBVIOUS
  <2>8. B = BlocksOf(m, z)
    OBVIOUS
  <2>9. e \in C /\ C = B \cup {e}
    OBVIOUS
  <2> HIDE DEF C, n, B
  <2>10. Worked(m, n, z, B, C, NULL) /\ n.hdr[e].data_size >= size
    BY <2>2, <2>3, <2>4, <2>6, <2>9, AllocateGives
  <2>11. WorkStepped(m, n, z, C, NULL)
    BY <2>5, <2>8, <2>10, WorkStep
  <2>12. Step(m, n, {} \cup {NULL}) /\ BlocksOf(n, z) = C
    BY <2>7, <2>8, <2>11 DEF WorkStepped
  <2>13. Step(m, n, {})
    BY <2>12, StepNull
  <2>14. IsBlock(n, e)
    <3>1. z \in DOMAIN n.zone
      BY <2>10 DEF Worked, Outside
    <3> QED
      BY <2>9, <2>12, <3>1 DEF IsBlock
  <2>15. NewBlock(m, n, e, size)
    <3>1. n.hdr[e].data_size >= size => size <= n.hdr[e].data_size
      <4>1. HeapOK(n)
        BY <2>13 DEF Step
      <4>2. n.hdr[e].data_size \in Nat
        BY <2>14, <4>1, BlockFacts
      <4> QED
        BY <4>2
    <3> QED
      BY <2>6, <2>10, <2>14, <3>1 DEF NewBlock
  <2> QED
    BY <2>1, <2>13, <2>15 DEF Served, n
<1> QED
  BY <1>1, <1>2, AllocateIs

LEMMA RequestGives ==
  ASSUME NEW m, HeapOK(m), NEW n \in Nat, NEW r \in realloc_malloc(m, n)
  PROVE  Served(m, r, n)
<1> DEFINE size == align_size(n)
           F == find_zone(m, get_zone_type(size), size)
           R(f) == IF f.zone = NULL
                 THEN {[mem |-> f.mem, ptr |-> NULL]}
                 ELSE allocate_block(f.mem, f.zone, size)
<1>1. CASE n = 0 \/ n > MAX_ALLOC_SIZE
  <2>1. r.mem = m /\ r.ptr = NULL
    BY <1>1 DEF realloc_malloc
  <2> QED
    BY <2>1, StepNone DEF Served
<1>2. CASE ~(n = 0 \/ n > MAX_ALLOC_SIZE)
  <2>1. r \in UNION {R(f) : f \in F}
    BY <1>2 DEF realloc_malloc
  <2> HIDE DEF F
  <2>2. PICK f \in F : r \in R(f)
    BY <2>1
  <2>3. size \in Nat /\ n <= size /\ ALIGNMENT <= size
    BY <1>2, AlignGives
  <2> HIDE DEF size
  <2>4. ZoneFound(m, f)
    <3>1. f \in find_zone(m, get_zone_type(size), size)
      BY <2>2 DEF F
    <3> QED
      BY <2>3, <3>1, FindGives
  <2>5. CASE f.zone = NULL
    <3>1. r.mem = f.mem /\ r.ptr = NULL
      BY <2>2, <2>5
    <3>2. Step(m, f.mem, {})
      BY <2>4, StepNone DEF ZoneFound
    <3> QED
      BY <3>1, <3>2 DEF Served
  <2>6. CASE f.zone # NULL
    <3> DEFINE k == f.mem
               z == f.zone
    <3>1. r \in allocate_block(k, z, size)
      BY <2>2, <2>6
    <3>2. /\ Step(m, k, {}) /\ z \in DOMAIN k.zone
          /\ k.zone[z].type = "LARGE" => BlocksOf(k, z) = {}
      BY <2>4, <2>6 DEF ZoneFound
    <3> HIDE DEF k, z
    <3>3. HeapOK(k)
      BY <3>2 DEF Step
    <3>4. Served(k, r, size)
      BY <2>3, <3>1, <3>2, <3>3, AllocateBlockGives
    <3>5. Step(m, r.mem, {})
      <4>1. Step(k, r.mem, {})
        BY <3>4 DEF Served
      <4>2. Step(m, r.mem, {} \cup {})
        BY <3>2, <4>1, StepTwice
      <4> QED
        BY <4>2
    <3>6. ASSUME NEW a, NewBlock(k, r.mem, a, size)
          PROVE  NewBlock(m, r.mem, a, n)
      <4>1. ~IsBlock(m, a)
        BY <3>2, <3>6 DEF NewBlock, Step, Lasts
      <4>2. r.mem.hdr[a].data_size \in Nat
        BY <3>5, <3>6, BlockFacts DEF NewBlock, Step
      <4>3. n <= r.mem.hdr[a].data_size
        BY <2>3, <3>6, <4>2 DEF NewBlock
      <4> QED
        BY <3>6, <4>1, <4>3 DEF NewBlock
    <3> QED
      BY <3>4, <3>5, <3>6 DEF Served
  <2> QED
    BY <2>5, <2>6
<1> QED
  BY <1>1, <1>2

------------------------------------------------------------------------------
(* Blocks that are given back, and blocks that get another size.           *)

LEMMA StepDrop ==
  ASSUME NEW m, NEW n, NEW G, NEW H, Step(m, n, G),
         \A b \in G \ H : ~IsBlock(m, b)
  PROVE  Step(m, n, H)
  BY DEF Step

BlockFound(m, f, ptr) ==
  /\ f.zone \in DOMAIN m.zone /\ f.zone \in ToSet(ZoneList(m))
  /\ f.block = ptr - HEADER_SIZE
  /\ f.block \in BlocksOf(m, f.zone)
  /\ IsBlock(m, f.block)

LEMMA BlockOfGives ==
  ASSUME NEW m, HeapOK(m), NEW ptr, NEW f \in BlockOf(m, ptr)
  PROVE  BlockFound(m, f, ptr)
<1> DEFINE S == FirstOf(ZoneList(m), LAMBDA z : z <= ptr /\ ptr < m.zone[z].end)
<1>1. f \in {g \in [zone : S, block : {ptr - HEADER_SIZE}] :
              ptr # NULL /\ g.block \in ToSet(Blocks(m, g.zone))}
  BY DEF BlockOf
<1>2. S \subseteq ToSet(ZoneList(m))
  BY DEF FirstOf, ToSet
<1> HIDE DEF S
<1>3. /\ f.zone \in ToSet(ZoneList(m)) /\ f.block = ptr - HEADER_SIZE
      /\ f.block \in BlocksOf(m, f.zone)
  BY <1>1, <1>2 DEF BlocksOf
<1>4. f.zone \in DOMAIN m.zone
  BY <1>3, ListedZone
<1> QED
  BY <1>3, <1>4 DEF BlockFound, IsBlock

LEMMA FreeGives ==
  ASSUME NEW m, HeapOK(m), NEW ptr, NEW n \in realloc_free(m, ptr)
  PROVE  Step(m, n, {ptr - HEADER_SIZE})
<1>1. CASE n = m
  BY <1>1, StepNone, StepMore
<1>2. CASE \E f \in BlockOf(m, ptr) :
             n = IF m.zone[f.zone].type = "LARGE"
                 THEN free_large_zone(m, f.zone)
                 ELSE convert_block_to_empty(m, f.zone, f.block)
  <2>1. PICK f \in BlockOf(m, ptr) :
             n = IF m.zone[f.zone].type = "LARGE"
                 THEN free_large_zone(m, f.zone)
                 ELSE convert_block_to_empty(m, f.zone, f.block)
    BY <1>2
  <2> DEFINE z == f.zone
             a == f.block
  <2>2. /\ z \in DOMAIN m.zone /\ z \in ToSet(ZoneList(m))
        /\ a = ptr - HEADER_SIZE /\ a \in BlocksOf(m, z)
        /\ n = IF m.zone[z].type = "LARGE" THEN free_large_zone(m, z)
               ELSE convert_block_to_empty(m, z, a)
    BY <2>1, BlockOfGives DEF BlockFound
  <2> HIDE DEF z, a
  <2>3. CASE m.zone[z].type = "LARGE"
    <3>1. Step(m, n, BlocksOf(m, z))
      BY <2>2, <2>3, FreeLargeGives
    <3>2. \A b, c \in BlocksOf(m, z) : b = c
      BY <2>2, <2>3, ZoneShape DEF ZoneGood
    <3>3. BlocksOf(m, z) = {a}
      BY <2>2, <3>2
    <3> QED
      BY <2>2, <3>1, <3>3
  <2>4. CASE m.zone[z].type # "LARGE"
    <3> DEFINE B == BlocksOf(m, z)
               C == B \ {a}
    <3>1. MemOK(m) /\ \E E : Shape(m, z, B, E)
      BY <2>2, ZoneShape
    <3>2. PICK E : Shape(m, z, B, E)
      BY <3>1
    <3>3. n = convert_block_to_empty(m, z, a)
      BY <2>2, <2>4
    <3>4. a \in B
      BY <2>2
    <3>5. B = BlocksOf(m, z) /\ C = B \ {a}
      OBVIOUS
    <3> HIDE DEF B, C
    <3>6. Worked(m, n, z, B, C, NULL)
      BY <3>1, <3>2, <3>3, <3>4, <3>5, ConvertGives
    <3>7. WorkStepped(m, n, z, C, NULL)
      BY <2>2, <2>4, <3>5, <3>6, WorkStep
    <3>8. B \ C = {a}
      BY <3>4, <3>5
    <3>9. Step(m, n, {a} \cup {NULL})
      BY <3>5, <3>7, <3>8 DEF WorkStepped
    <3> QED
      BY <2>2, <3>9, StepNull
  <2> QED
    BY <2>3, <2>4
<1> QED
  BY <1>1, <1>2 DEF realloc_free

(* n is m after the block a became the block e, of at least size bytes.    *)
Moved(m, n, a, e, size) ==
  /\ Step(m, n, {a})
  /\ e \in Addr /\ IsBlock(n, e)
  /\ e = a \/ ~IsBlock(m, e)
  /\ size <= n.hdr[e].data_size
  /\ PayloadMoved(m, n, a, e)

LEMMA ResizeStep ==
  ASSUME NEW m, HeapOK(m), NEW z \in DOMAIN m.zone, NEW E,
         Shape(m, z, BlocksOf(m, z), E), NEW a \in BlocksOf(m, z),
         NEW e \in E \cup {a}, NEW size, NEW n,
         Resized(m, n, z, BlocksOf(m, z), a, e, size)
  PROVE  Moved(m, n, a, e, size)
<1> DEFINE B == BlocksOf(m, z)
           C == (B \ {a}) \cup {e}
<1>1. Worked(m, n, z, B, C, e) /\ size <= n.hdr[e].data_size /\ PayloadMoved(m, n, a, e)
  BY DEF Resized
<1>2. m.zone[z].type = "LARGE" => \A b, c \in C : b = c
  <2>1. m.zone[z].type = "LARGE" => \A b, c \in B : b = c
    BY ZoneShape DEF ZoneGood
  <2>2. (\A b, c \in B : b = c) => C = {e}
    OBVIOUS
  <2> QED
    BY <2>1, <2>2
<1>3. e \in C /\ (B \ C) \cup {e} \subseteq {a, e}
  OBVIOUS
<1>4. B = BlocksOf(m, z)
  OBVIOUS
<1> HIDE DEF C, B
<1>5. WorkStepped(m, n, z, C, e)
  BY <1>1, <1>2, <1>4, WorkStep
<1>6. e = a \/ ~IsBlock(m, e)
  BY FreeIsNoBlock
<1>7. Step(m, n, {a, e}) /\ BlocksOf(n, z) = C
  BY <1>3, <1>4, <1>5, StepMore DEF WorkStepped
<1>8. Step(m, n, {a})
  <2>1. \A b \in {a, e} \ {a} : ~IsBlock(m, b)
    BY <1>6
  <2> QED
    BY <1>7, <2>1, StepDrop
<1>9. IsBlock(n, e)
  <2>1. z \in DOMAIN n.zone
    BY <1>1 DEF Worked, Outside
  <2> QED
    BY <1>3, <1>7, <2>1 DEF IsBlock
<1>10. e \in Addr
  <2>1. e \in Nat /\ e > 0
    BY <1>8, <1>9, BlockFacts DEF Step
  <2> QED
    BY <2>1 DEF Addr, NULL
<1> QED
  BY <1>1, <1>6, <1>8, <1>9, <1>10 DEF Moved

(* A block is cut back, or kept when there is too little to cut off.       *)
LEMMA CutStep ==
  ASSUME NEW m, HeapOK(m), NEW z \in DOMAIN m.zone, NEW a \in BlocksOf(m, z),
         NEW size \in Nat, ALIGNMENT <= size, size <= m.hdr[a].data_size,
         NEW n, n = split_block(m, z, a, size)
  PROVE  Moved(m, n, a, a, size)
<1>1. MemOK(m) /\ \E E : Shape(m, z, BlocksOf(m, z), E)
  BY ZoneShape
<1>2. PICK E : Shape(m, z, BlocksOf(m, z), E)
  BY <1>1
<1>3. Resized(m, n, z, BlocksOf(m, z), a, a, size)
  BY <1>1, <1>2, ShrinkGives
<1>4. a \in E \cup {a}
  OBVIOUS
<1> QED
  BY <1>2, <1>3, <1>4, ResizeStep

(* A block that grows within its zone.                                     *)
LEMMA GrowStep ==
  ASSUME NEW m, HeapOK(m), NEW z \in DOMAIN m.zone, NEW a \in BlocksOf(m, z),
         NEW size \in Nat, ALIGNMENT <= size,
         NEW r \in try_to_extend_block(m, z, a, size)
  PROVE  \E e : r.ptr = e + HEADER_SIZE /\ Moved(m, r.mem, a, e, size)
<1>1. MemOK(m) /\ \E E : Shape(m, z, BlocksOf(m, z), E)
  BY ZoneShape
<1>2. PICK E : Shape(m, z, BlocksOf(m, z), E)
  BY <1>1
<1>3. PICK e \in E \cup {a} : /\ r.ptr = e + HEADER_SIZE
                              /\ Resized(m, r.mem, z, BlocksOf(m, z), a, e, size)
  BY <1>1, <1>2, TryGives
<1>4. Moved(m, r.mem, a, e, size)
  BY <1>2, <1>3, ResizeStep
<1> QED
  BY <1>3, <1>4

(* Bytes of the payload of the block a of m are written, up to hi.         *)
Rewritten(m, n, a) == /\ Step(m, n, {a})
                      /\ IsBlock(n, a) /\ n.hdr[a] = m.hdr[a]

LEMMA RewriteStep ==
  ASSUME NEW m, HeapOK(m), NEW a, IsBlock(m, a),
         NEW d \in Nat, d <= m.hdr[a].data_size,
         NEW lo, lo = a + HEADER_SIZE, NEW hi, hi = a + HEADER_SIZE + d,
         NEW n, Wiped(m, n, lo, hi),
         \A x \in DOMAIN m.bytes :
           x < lo \/ hi <= x => x \in DOMAIN n.bytes /\ n.bytes[x] = m.bytes[x]
  PROVE  Rewritten(m, n, a)
<1>1. PICK z \in DOMAIN m.zone : a \in BlocksOf(m, z)
  BY DEF IsBlock
<1> DEFINE B == BlocksOf(m, z)
<1>2. MemOK(m) /\ \E E : Shape(m, z, B, E)
  BY ZoneShape
<1>3. PICK E : Shape(m, z, B, E)
  BY <1>2
<1>4. B = BlocksOf(m, z) /\ a \in B
  BY <1>1
<1>5. m.zone[z].type = "LARGE" => \A b, c \in B : b = c
  BY ZoneShape DEF ZoneGood
<1> HIDE DEF B
<1>6. Written(m, n, z, B, E, a)
  BY <1>2, <1>3, <1>4, WriteGives
<1>7. Reworked(m, n, z, B, B, a)
  BY <1>6 DEF Written, Reworked
<1>8. WorkStepped(m, n, z, B, a)
  BY <1>4, <1>5, <1>7, ReworkStep
<1>9. Step(m, n, {a}) /\ BlocksOf(n, z) = B
  <2>1. (B \ B) \cup {a} = {a}
    OBVIOUS
  <2> QED
    BY <1>4, <1>8, <2>1 DEF WorkStepped
<1>10. IsBlock(n, a) /\ n.hdr[a] = m.hdr[a]
  <2>1. z \in DOMAIN n.zone
    BY <1>6 DEF Written, Outside
  <2> QED
    BY <1>4, <1>6, <1>9, <2>1 DEF IsBlock, Written
<1> QED
  BY <1>9, <1>10 DEF Rewritten

(* The copy of realloc: the bytes of the block a into the block b, and a   *)
(* given back.                                                             *)
LEMMA CopyStep ==
  ASSUME NEW m, HeapOK(m), NEW a, IsBlock(m, a),
         NEW k, Step(m, k, {}), NEW b, NEW size \in Nat, NewBlock(m, k, b, size),
         m.hdr[a].data_size <= size,
         NEW v, v = MoveBytes(k, b + HEADER_SIZE, a + HEADER_SIZE, m.hdr[a].data_size),
         NEW n, n \in realloc_free(v, a + HEADER_SIZE)
  PROVE  Moved(m, n, a, b, size)
<1> DEFINE d   == m.hdr[a].data_size
           src == a + HEADER_SIZE
           lo  == b + HEADER_SIZE
           hi  == b + HEADER_SIZE + d
<1>1. /\ a \in Nat /\ a > 0 /\ d \in Nat /\ m.hdr[a].end \in Nat
      /\ m.hdr[a].end = a + HEADER_SIZE + d
  BY BlockFacts
<1>2. /\ HeapOK(k) /\ IsBlock(k, b) /\ ~IsBlock(m, b) /\ b \in Addr
      /\ size <= k.hdr[b].data_size
  BY DEF Step, NewBlock
<1>3. /\ b \in Nat /\ b > 0 /\ k.hdr[b].data_size \in Nat /\ k.hdr[b].end \in Nat
      /\ k.hdr[b].end = b + HEADER_SIZE + k.hdr[b].data_size
  BY <1>2, BlockFacts
<1>4. /\ src \in Nat /\ lo \in Nat /\ lo # NULL /\ hi = lo + d /\ d <= k.hdr[b].data_size
      /\ src - HEADER_SIZE = a /\ d <= size
  BY <1>1, <1>2, <1>3, Sizeful DEF NULL
<1>5. MemOK(k)
  BY <1>2 DEF HeapOK
<1>6. lo = b + HEADER_SIZE /\ hi = b + HEADER_SIZE + d /\ src = a + HEADER_SIZE
      /\ v = MoveBytes(k, lo, src, d) /\ n \in realloc_free(v, src)
  OBVIOUS
<1>7. d = m.hdr[a].data_size
  OBVIOUS
<1> HIDE DEF d, src, lo, hi
<1>8. Wiped(k, v, lo, hi) /\ MovedTo(k.bytes, v.bytes, lo, src, d)
  BY <1>1, <1>4, <1>5, <1>6, MoveBytesGives
<1>9. Rewritten(k, v, b)
  <2>1. \A x \in DOMAIN k.bytes :
          x < lo \/ hi <= x => x \in DOMAIN v.bytes /\ v.bytes[x] = k.bytes[x]
    BY <1>4, <1>8 DEF MovedTo
  <2> QED
    BY <1>1, <1>2, <1>4, <1>6, <1>8, <2>1, RewriteStep
<1>10. Step(k, v, {b}) /\ HeapOK(v) /\ IsBlock(v, b) /\ v.hdr[b] = k.hdr[b]
  BY <1>9 DEF Rewritten, Step
<1>11. Step(v, n, {a})
  <2>1. Step(v, n, {src - HEADER_SIZE})
    BY <1>6, <1>10, FreeGives
  <2> QED
    BY <1>4, <2>1
<1>12. Step(m, n, {a})
  <2>1. Step(m, v, {} \cup {b})
    BY <1>2, <1>10, StepTwice
  <2>2. Step(m, n, ({} \cup {b}) \cup {a})
    BY <1>10, <1>11, <2>1, StepTwice
  <2>3. \A c \in (({} \cup {b}) \cup {a}) \ {a} : ~IsBlock(m, c)
    BY <1>2
  <2> QED
    BY <2>2, <2>3, StepDrop
<1>13. a # b
  BY <1>2
<1>14. Lasts(v, n, b) /\ Lasts(m, k, a) /\ HeapOK(n)
  BY <1>10, <1>11, <1>13 DEF Step
<1>15. /\ IsBlock(n, b) /\ n.hdr[b].data_size = k.hdr[b].data_size
       /\ PayloadKept(v, n, b) /\ PayloadKept(m, k, a)
       /\ k.hdr[a].end = m.hdr[a].end
  <2>1. n.hdr[b].data_size = k.hdr[b].data_size /\ IsBlock(n, b)
    BY <1>10, <1>14 DEF Lasts
  <2>2. IsBlock(k, a) /\ k.hdr[a].data_size = m.hdr[a].data_size
    BY <1>14 DEF Lasts
  <2>3. k.hdr[a].end = a + HEADER_SIZE + k.hdr[a].data_size
    BY <1>2, <2>2, BlockFacts
  <2>4. m.hdr[a].end = a + HEADER_SIZE + m.hdr[a].data_size
    BY BlockFacts
  <2> QED
    BY <1>14, <2>1, <2>2, <2>3, <2>4 DEF Lasts
<1>16. n.hdr[b].end = k.hdr[b].end /\ v.hdr[b].end = k.hdr[b].end
  <2>1. n.hdr[b].end = b + HEADER_SIZE + n.hdr[b].data_size
    BY <1>14, <1>15, BlockFacts
  <2> QED
    BY <1>3, <1>10, <1>15, <2>1
<1>17. PayloadMoved(m, n, a, b)
  <2> SUFFICES ASSUME NEW i \in Nat,
                      a + HEADER_SIZE + i \in DOMAIN m.bytes,
                      a + HEADER_SIZE + i < m.hdr[a].end,
                      b + HEADER_SIZE + i < n.hdr[b].end
               PROVE  /\ b + HEADER_SIZE + i \in DOMAIN n.bytes
                      /\ n.bytes[b + HEADER_SIZE + i] = m.bytes[a + HEADER_SIZE + i]
    BY DEF PayloadMoved
  <2> DEFINE x == a + HEADER_SIZE + i
             y == b + HEADER_SIZE + i
  <2>1. /\ x = src + i /\ y = lo + i /\ i \in 0 .. d - 1
        /\ a + HEADER_SIZE <= x /\ b + HEADER_SIZE <= y
    BY <1>1, <1>3, <1>6, Sizeful
  <2>2. x \in DOMAIN m.bytes /\ x < m.hdr[a].end /\ y < n.hdr[b].end
    OBVIOUS
  <2> HIDE DEF x, y
  <2>3. x \in DOMAIN k.bytes /\ k.bytes[x] = m.bytes[x]
    BY <1>15, <2>1, <2>2 DEF PayloadKept
  <2>4. y \in DOMAIN v.bytes /\ v.bytes[y] = k.bytes[x]
    BY <1>8, <2>1, <2>3 DEF MovedTo
  <2>5. y \in DOMAIN n.bytes /\ n.bytes[y] = v.bytes[y]
    BY <1>15, <1>16, <2>1, <2>2, <2>4 DEF PayloadKept
  <2> QED
    BY <2>3, <2>4, <2>5 DEF x, y
<1> QED
  BY <1>2, <1>12, <1>15, <1>17 DEF Moved

------------------------------------------------------------------------------
(* What callers hold, and what the owner that is watched wrote.            *)

Holds(m, p, n) == /\ p \in Nat /\ n \in Nat
                  /\ IsBlock(m, p - HEADER_SIZE)
                  /\ n <= m.hdr[p - HEADER_SIZE].data_size

Owns(m, o) == \A p \in DOMAIN o : Holds(m, p, o[p])

Watches(o, w) ==
  \/ w = NotWatched
  \/ /\ w.ptr \in DOMAIN o /\ w.kept \in Nat /\ w.kept <= o[w.ptr]
     /\ w.ptr # NULL

Kept(m, w) ==
  \A i \in 0 .. w.kept - 1 : w.ptr + i \in DOMAIN m.bytes /\ m.bytes[w.ptr + i] = i

(* The inductive invariant.                                                *)
Sound(m, o, w) == HeapOK(m) /\ Owns(m, o) /\ Watches(o, w) /\ Kept(m, w)

MemoryInv == Sound(mem, owned, watched)

LEMMA MinOfTwo ==
  ASSUME NEW a \in Nat, NEW b \in Nat
  PROVE  LET c == Min({a, b}) IN c \in Nat /\ c <= a /\ c <= b
<1>1. \E x \in {a, b} : \A y \in {a, b} : x <= y
  OBVIOUS
<1> QED
  BY <1>1 DEF Min

LEMMA HeldNumbers ==
  ASSUME NEW m, HeapOK(m), NEW p, NEW n, Holds(m, p, n), NEW a, a = p - HEADER_SIZE
  PROVE  /\ p \in Nat /\ a \in Nat /\ p = a + HEADER_SIZE /\ p > 0 /\ n \in Nat
         /\ IsBlock(m, a) /\ n <= m.hdr[a].data_size
         /\ m.hdr[a].data_size \in Nat /\ m.hdr[a].end \in Nat
         /\ m.hdr[a].end = p + m.hdr[a].data_size
<1>1. p \in Nat /\ n \in Nat /\ IsBlock(m, a) /\ n <= m.hdr[a].data_size
  BY DEF Holds
<1>2. /\ a \in Nat /\ a > 0 /\ m.hdr[a].data_size \in Nat /\ m.hdr[a].end \in Nat
      /\ m.hdr[a].end = a + HEADER_SIZE + m.hdr[a].data_size
  BY <1>1, BlockFacts
<1> QED
  BY <1>1, <1>2, Sizeful

LEMMA HoldStays ==
  ASSUME NEW m, NEW p, NEW n, Holds(m, p, n), NEW k, Lasts(m, k, p - HEADER_SIZE)
  PROVE  Holds(k, p, n)
  BY DEF Holds, Lasts

LEMMA KeptStays ==
  ASSUME NEW m, HeapOK(m), NEW w, NEW n, Holds(m, w.ptr, n),
         w.kept \in Nat, w.kept <= n, Kept(m, w),
         NEW k, HeapOK(k), Lasts(m, k, w.ptr - HEADER_SIZE)
  PROVE  Kept(k, w)
<1> DEFINE p == w.ptr
           a == p - HEADER_SIZE
<1>1. /\ p \in Nat /\ a \in Nat /\ p = a + HEADER_SIZE
      /\ n \in Nat /\ n <= m.hdr[a].data_size
      /\ m.hdr[a].data_size \in Nat /\ m.hdr[a].end \in Nat
      /\ m.hdr[a].end = p + m.hdr[a].data_size
  BY HeldNumbers
<1>2. IsBlock(k, a) /\ k.hdr[a].data_size = m.hdr[a].data_size /\ PayloadKept(m, k, a)
  BY DEF Lasts
<1>3. k.hdr[a].end = a + HEADER_SIZE + k.hdr[a].data_size
  BY <1>2, BlockFacts
<1>4. \A i \in 0 .. w.kept - 1 : p + i \in DOMAIN m.bytes /\ m.bytes[p + i] = i
  BY DEF Kept
<1> HIDE DEF p, a
<1>5. k.hdr[a].end = m.hdr[a].end
  BY <1>1, <1>2, <1>3
<1>6. ASSUME NEW i \in 0 .. w.kept - 1
      PROVE  p + i \in DOMAIN k.bytes /\ k.bytes[p + i] = i
  <2> DEFINE x == p + i
  <2>1. x \in DOMAIN m.bytes /\ m.bytes[x] = i
    BY <1>4
  <2>2. a + HEADER_SIZE <= x /\ x < m.hdr[a].end
    BY <1>1
  <2> HIDE DEF x
  <2>3. x \in DOMAIN k.bytes /\ k.bytes[x] = i
    BY <1>2, <1>5, <2>1, <2>2 DEF PayloadKept
  <2> QED
    BY <2>3 DEF x
<1> QED
  BY <1>6 DEF Kept, p

(* The owners but that of ptr keep what they hold when the block of ptr is *)
(* the only one that does not last.                                        *)
LEMMA OthersHold ==
  ASSUME NEW m, HeapOK(m), NEW o, Owns(m, o), NEW ptr \in Nat,
         NEW k, Step(m, k, {ptr - HEADER_SIZE})
  PROVE  \A p \in DOMAIN o : p # ptr => Lasts(m, k, p - HEADER_SIZE) /\ Holds(k, p, o[p])
<1> SUFFICES ASSUME NEW p \in DOMAIN o, p # ptr
             PROVE  Lasts(m, k, p - HEADER_SIZE) /\ Holds(k, p, o[p])
  OBVIOUS
<1>1. Holds(m, p, o[p])
  BY DEF Owns
<1>2. p \in Nat /\ IsBlock(m, p - HEADER_SIZE)
  BY <1>1 DEF Holds
<1>3. p - HEADER_SIZE # ptr - HEADER_SIZE
  BY <1>2, Sizeful
<1>4. Lasts(m, k, p - HEADER_SIZE)
  BY <1>2, <1>3 DEF Step
<1> QED
  BY <1>1, <1>4, HoldStays

LEMMA WatchStays ==
  ASSUME NEW m, HeapOK(m), NEW o, Owns(m, o), NEW w, Watches(o, w), Kept(m, w),
         NEW ptr \in Nat, w.ptr # ptr, NEW k, Step(m, k, {ptr - HEADER_SIZE})
  PROVE  Kept(k, w)
<1>1. CASE w = NotWatched
  BY <1>1 DEF Kept, NotWatched
<1>2. CASE w.ptr \in DOMAIN o /\ w.kept \in Nat /\ w.kept <= o[w.ptr]
  <2>1. Holds(m, w.ptr, o[w.ptr])
    BY <1>2 DEF Owns
  <2>2. Lasts(m, k, w.ptr - HEADER_SIZE)
    BY <1>2, OthersHold
  <2> QED
    BY <1>2, <2>1, <2>2, KeptStays DEF Step
<1> QED
  BY <1>1, <1>2 DEF Watches

LEMMA BytesApart ==
  ASSUME NEW m, HeapOK(m), NEW n, MemOK(n),
         n.g_zones = m.g_zones, n.zone = m.zone, n.hdr = m.hdr, n.mapped = m.mapped
  PROVE  HeapOK(n) /\ \A a : IsBlock(n, a) <=> IsBlock(m, a)
<1>1. \A z : BlocksOf(n, z) = BlocksOf(m, z)
  BY DEF BlocksOf, Blocks
<1>2. \A a : IsBlock(n, a) <=> IsBlock(m, a)
  BY <1>1 DEF IsBlock
<1>3. ASSUME NEW z \in DOMAIN m.zone
      PROVE  ZoneGood(n, z)
  <2>1. ZoneGood(m, z) /\ \E E : Shape(m, z, BlocksOf(m, z), E)
    BY ZoneShape
  <2>2. PICK E : Shape(m, z, BlocksOf(m, z), E)
    BY <2>1
  <2>3. Layout(n, z, BlocksOf(m, z) \cup E)
    <3>1. Layout(m, z, BlocksOf(m, z) \cup E)
      BY <2>2 DEF Shape
    <3>2. \A c \in BlocksOf(m, z) \cup E : SameSpan(m, n, c)
      <4> TAKE c \in BlocksOf(m, z) \cup E
      <4>1. c \in DOMAIN m.hdr
        BY <3>1, Spans
      <4> QED
        BY <4>1 DEF SameSpan
    <3> QED
      BY <3>1, <3>2, LayoutSame
  <2>4. Shape(n, z, BlocksOf(n, z), E)
    BY <1>1, <2>2, <2>3 DEF Shape
  <2> QED
    BY <1>1, <2>1, <2>4 DEF ZoneGood
<1>4. ZonesListed(n) /\ ZonesApart(n)
  BY DEF HeapOK, ZonesListed, ZonesApart
<1> QED
  BY <1>2, <1>3, <1>4 DEF HeapOK

(* The end of a call.                                                      *)
LEMMA LeaveGives ==
  ASSUME NEW m, NEW o, NEW w, Sound(m, o, w), Leave(m, o, w)
  PROVE  MemoryInv'
<1>1. HeapOK(m) /\ Owns(m, o) /\ Watches(o, w) /\ Kept(m, w) /\ MemOK(m)
  BY DEF Sound, HeapOK
<1> DEFINE b == [a \in DOMAIN m.bytes \cap (w.ptr .. w.ptr + w.kept - 1) |-> m.bytes[a]]
           n == mem'
<1>2. n = [m EXCEPT !.bytes = b] /\ owned' = o /\ watched' = w
  BY DEF Leave
<1>3. /\ DOMAIN b \subseteq DOMAIN m.bytes
      /\ \A a \in DOMAIN m.bytes :
           a \in w.ptr .. w.ptr + w.kept - 1 => a \in DOMAIN b /\ b[a] = m.bytes[a]
  OBVIOUS
<1> HIDE DEF b, n
<1>4. n = [g_zones |-> m.g_zones, zone |-> m.zone, hdr |-> m.hdr, bytes |-> b,
           mapped |-> m.mapped]
  BY <1>1, <1>2 DEF MemOK
<1>5. /\ n.g_zones = m.g_zones /\ n.zone = m.zone /\ n.hdr = m.hdr
      /\ n.mapped = m.mapped /\ n.bytes = b
  BY <1>4
<1>6. MemOK(n)
  <2>1. n = [g_zones |-> n.g_zones, zone |-> n.zone, hdr |-> n.hdr, bytes |-> n.bytes,
           mapped |-> n.mapped]
    BY <1>4
  <2> QED
    BY <1>1, <1>3, <1>5, <2>1 DEF MemOK
<1>7. HeapOK(n) /\ \A a : IsBlock(n, a) <=> IsBlock(m, a)
  BY <1>1, <1>5, <1>6, BytesApart
<1>8. Owns(n, o)
  BY <1>1, <1>5, <1>7 DEF Owns, Holds
<1>9. Kept(n, w)
  <2>1. CASE w = NotWatched
    BY <2>1 DEF NotWatched, Kept
  <2>2. CASE w.ptr \in DOMAIN o /\ w.kept \in Nat
    <3>1. w.ptr \in Nat
      BY <1>1, <2>2 DEF Owns, Holds
    <3>2. \A i \in 0 .. w.kept - 1 : w.ptr + i \in w.ptr .. w.ptr + w.kept - 1
      BY <2>2, <3>1
    <3> QED
      BY <1>1, <1>3, <1>5, <3>2 DEF Kept
  <2> QED
    BY <1>1, <2>1, <2>2 DEF Watches
<1> QED
  BY <1>1, <1>2, <1>7, <1>8, <1>9 DEF MemoryInv, Sound, n

LEMMA MallocInv ==
  ASSUME MemoryInv, NEW n \in Nat, malloc(n)
  PROVE  MemoryInv'
<1>1. HeapOK(mem) /\ Owns(mem, owned) /\ Watches(owned, watched) /\ Kept(mem, watched)
  BY DEF MemoryInv, Sound
<1>2. PICK r \in realloc_malloc(mem, n) :
        Leave(r.mem, IF r.ptr = NULL THEN owned ELSE Store(owned, r.ptr, n), watched)
  BY DEF malloc
<1> DEFINE k == r.mem
           o == IF r.ptr = NULL THEN owned ELSE Store(owned, r.ptr, n)
<1>3. Served(mem, r, n)
  BY <1>1, <1>2, RequestGives
<1>4. Step(mem, k, {}) /\ HeapOK(k)
  BY <1>3 DEF Served, Step
<1>5. \A p \in DOMAIN owned : Lasts(mem, k, p - HEADER_SIZE) /\ Holds(k, p, owned[p])
  <2> TAKE p \in DOMAIN owned
  <2>1. Holds(mem, p, owned[p])
    BY <1>1 DEF Owns
  <2>2. Lasts(mem, k, p - HEADER_SIZE)
    BY <1>4, <2>1 DEF Holds, Step
  <2> QED
    BY <2>1, <2>2, HoldStays
<1>6. Kept(k, watched)
  <2>1. CASE watched = NotWatched
    BY <2>1 DEF NotWatched, Kept
  <2>2. CASE watched.ptr \in DOMAIN owned /\ watched.kept \in Nat
             /\ watched.kept <= owned[watched.ptr]
    <3>1. Holds(mem, watched.ptr, owned[watched.ptr])
      BY <1>1, <2>2 DEF Owns
    <3>2. Lasts(mem, k, watched.ptr - HEADER_SIZE)
      BY <1>5, <2>2
    <3> HIDE DEF k
    <3> QED
      BY <1>1, <1>4, <2>2, <3>1, <3>2, KeptStays
  <2> QED
    BY <1>1, <2>1, <2>2 DEF Watches
<1>7. Owns(k, o) /\ Watches(o, watched)
  <2>1. CASE r.ptr = NULL
    BY <1>1, <1>5, <2>1 DEF Owns
  <2>2. CASE r.ptr # NULL
    <3>1. PICK a : r.ptr = a + HEADER_SIZE /\ NewBlock(mem, k, a, n)
      BY <1>3, <2>2 DEF Served
    <3>2. a \in Nat /\ IsBlock(k, a) /\ ~IsBlock(mem, a) /\ n <= k.hdr[a].data_size
      BY <3>1 DEF NewBlock, Addr
    <3>3. r.ptr \in Nat /\ r.ptr - HEADER_SIZE = a
      BY <3>1, <3>2, Sizeful
    <3>4. Holds(k, r.ptr, n)
      BY <3>2, <3>3 DEF Holds
    <3>5. r.ptr \notin DOMAIN owned
      BY <1>1, <3>2, <3>3 DEF Owns, Holds
    <3>6. /\ DOMAIN o = DOMAIN owned \cup {r.ptr} /\ o[r.ptr] = n
          /\ \A p \in DOMAIN owned : o[p] = owned[p]
      BY <2>2, <3>5 DEF Store
    <3> HIDE DEF o, k
    <3>7. Owns(k, o)
      BY <1>5, <3>4, <3>6 DEF Owns
    <3> QED
      BY <1>1, <3>6, <3>7 DEF Watches
  <2> QED
    BY <2>1, <2>2
<1>8. Sound(k, o, watched)
  BY <1>4, <1>6, <1>7 DEF Sound
<1>9. Leave(k, o, watched)
  BY <1>2
<1> HIDE DEF k, o
<1> QED
  BY <1>8, <1>9, LeaveGives

LEMMA FreeInv ==
  ASSUME MemoryInv, NEW ptr \in Nat, free(ptr)
  PROVE  MemoryInv'
<1>1. HeapOK(mem) /\ Owns(mem, owned) /\ Watches(owned, watched) /\ Kept(mem, watched)
  BY DEF MemoryInv, Sound
<1> DEFINE o == Drop(ptr)
           w == IF watched.ptr = ptr THEN NotWatched ELSE watched
<1>2. PICK k \in realloc_free(mem, ptr) : Leave(k, o, w)
  BY DEF free
<1>3. Step(mem, k, {ptr - HEADER_SIZE}) /\ HeapOK(k)
  BY <1>1, FreeGives DEF Step
<1>4. DOMAIN o = DOMAIN owned \ {ptr} /\ \A p \in DOMAIN o : o[p] = owned[p]
  BY DEF Drop
<1>5. Owns(k, o)
  <2>1. \A p \in DOMAIN owned :
          p # ptr => Lasts(mem, k, p - HEADER_SIZE) /\ Holds(k, p, owned[p])
    BY <1>1, <1>3, OthersHold
  <2> HIDE DEF o
  <2> QED
    BY <1>4, <2>1 DEF Owns
<1>6. Watches(o, w) /\ Kept(k, w)
  <2>1. CASE watched.ptr = ptr
    <3>1. w = NotWatched
      BY <2>1
    <3> HIDE DEF w
    <3> QED
      BY <3>1 DEF NotWatched, Watches, Kept
  <2>2. CASE watched.ptr # ptr
    <3>1. w = watched
      BY <2>2
    <3>2. Kept(k, watched)
      BY <1>1, <1>3, <2>2, WatchStays
    <3> HIDE DEF w, o
    <3> QED
      BY <1>1, <1>4, <2>2, <3>1, <3>2 DEF Watches
  <2> QED
    BY <2>1, <2>2
<1> HIDE DEF o, w
<1>7. Sound(k, o, w)
  BY <1>3, <1>5, <1>6 DEF Sound
<1> QED
  BY <1>2, <1>7, LeaveGives

(* The owner of the block at ptr gets it at another place, or another size. *)
LEMMA ReturnInv ==
  ASSUME MemoryInv, NEW ptr \in Nat, ptr # NULL, NEW a, a = ptr - HEADER_SIZE,
         IsBlock(mem, a), NEW k, NEW e, NEW size \in Nat, Moved(mem, k, a, e, size),
         NEW n \in Nat, n <= size, NEW new_ptr, new_ptr = e + HEADER_SIZE,
         Return(k, ptr, new_ptr, n)
  PROVE  MemoryInv'
<1>1. HeapOK(mem) /\ Owns(mem, owned) /\ Watches(owned, watched) /\ Kept(mem, watched)
  BY DEF MemoryInv, Sound
<1> DEFINE d == Drop(ptr)
           o == Store(d, new_ptr, n)
           w == IF watched.ptr = ptr
                THEN [ptr |-> new_ptr, kept |-> Min({watched.kept, n})]
                ELSE watched
<1>2. Leave(k, o, w)
  BY DEF Return
<1>3. /\ Step(mem, k, {a}) /\ e \in Addr /\ IsBlock(k, e)
      /\ e = a \/ ~IsBlock(mem, e)
      /\ size <= k.hdr[e].data_size /\ PayloadMoved(mem, k, a, e)
  BY DEF Moved
<1>4. HeapOK(k)
  BY <1>3 DEF Step
<1>5. /\ e \in Nat /\ k.hdr[e].data_size \in Nat /\ k.hdr[e].end \in Nat
      /\ k.hdr[e].end = e + HEADER_SIZE + k.hdr[e].data_size /\ e > 0
  BY <1>3, <1>4, BlockFacts
<1>6. /\ new_ptr \in Nat /\ new_ptr # NULL /\ new_ptr - HEADER_SIZE = e
      /\ k.hdr[e].end = new_ptr + k.hdr[e].data_size /\ n <= k.hdr[e].data_size
  BY <1>3, <1>5, Sizeful DEF NULL
<1>7. Holds(k, new_ptr, n)
  BY <1>3, <1>6 DEF Holds
<1>8. \A p \in DOMAIN owned :
        p # ptr => Lasts(mem, k, p - HEADER_SIZE) /\ Holds(k, p, owned[p])
  <2>1. Step(mem, k, {ptr - HEADER_SIZE})
    BY <1>3
  <2> QED
    BY <1>1, <2>1, OthersHold
<1>9. \A p \in DOMAIN owned : p # ptr => p # new_ptr
  <2> SUFFICES ASSUME NEW p \in DOMAIN owned, p # ptr, p = new_ptr
               PROVE  FALSE
    OBVIOUS
  <2>1. Holds(mem, p, owned[p])
    BY <1>1 DEF Owns
  <2>2. p \in Nat /\ IsBlock(mem, e)
    BY <1>6, <2>1 DEF Holds
  <2>3. e = a
    BY <1>3, <2>2
  <2> QED
    BY <1>6, <2>2, <2>3, Sizeful
<1>10. /\ DOMAIN o = (DOMAIN owned \ {ptr}) \cup {new_ptr} /\ o[new_ptr] = n
       /\ \A p \in DOMAIN owned : p # ptr => o[p] = owned[p]
  BY <1>9 DEF Store, Drop
<1> HIDE DEF o, d
<1>11. Owns(k, o)
  BY <1>7, <1>8, <1>10 DEF Owns
<1>12. Watches(o, w) /\ Kept(k, w)
  <2>1. CASE watched.ptr = ptr
    <3> DEFINE c == Min({watched.kept, n})
    <3>1. ptr \in DOMAIN owned /\ watched.kept \in Nat /\ watched.kept <= owned[ptr]
      BY <1>1, <2>1 DEF Watches, NotWatched
    <3>2. w.ptr = new_ptr /\ w.kept = c
      BY <2>1
    <3>3. c \in Nat /\ c <= watched.kept /\ c <= n
      BY <3>1, MinOfTwo
    <3> HIDE DEF c, w
    <3>4. Holds(mem, ptr, owned[ptr])
      BY <1>1, <3>1 DEF Owns
    <3>5. /\ a \in Nat /\ ptr = a + HEADER_SIZE /\ owned[ptr] \in Nat
          /\ owned[ptr] <= mem.hdr[a].data_size
          /\ mem.hdr[a].data_size \in Nat /\ mem.hdr[a].end \in Nat
          /\ mem.hdr[a].end = ptr + mem.hdr[a].data_size
      BY <1>1, <3>4, HeldNumbers
    <3>6. Watches(o, w)
      BY <1>6, <1>10, <3>2, <3>3 DEF Watches
    <3>7. ASSUME NEW i \in 0 .. c - 1
          PROVE  new_ptr + i \in DOMAIN k.bytes /\ k.bytes[new_ptr + i] = i
      <4>1. /\ i \in Nat /\ i \in 0 .. watched.kept - 1
            /\ ptr + i < mem.hdr[a].end /\ new_ptr + i < k.hdr[e].end
        <5>1. i \in Nat /\ i < c
          BY <3>3
        <5>2. i < watched.kept /\ i < owned[ptr] /\ i < mem.hdr[a].data_size
          BY <3>1, <3>3, <3>5, <5>1
        <5>3. i < n /\ i < k.hdr[e].data_size
          BY <1>5, <1>6, <3>3, <5>1
        <5>4. ptr + i < mem.hdr[a].end
          BY <3>5, <5>1, <5>2
        <5>5. new_ptr + i < k.hdr[e].end
          BY <1>5, <1>6, <5>1, <5>3
        <5> QED
          BY <3>1, <5>1, <5>2, <5>4, <5>5
      <4>2. ptr + i \in DOMAIN mem.bytes /\ mem.bytes[ptr + i] = i
        BY <1>1, <2>1, <4>1 DEF Kept
      <4>3. a + HEADER_SIZE + i = ptr + i /\ e + HEADER_SIZE + i = new_ptr + i
        BY <3>5, <1>5, <4>1
      <4> QED
        BY <1>3, <4>1, <4>2, <4>3 DEF PayloadMoved
    <3>8. Kept(k, w)
      BY <3>2, <3>7 DEF Kept
    <3> QED
      BY <3>6, <3>8
  <2>2. CASE watched.ptr # ptr
    <3>1. w = watched
      BY <2>2
    <3>2. Kept(k, watched)
      <4>1. Step(mem, k, {ptr - HEADER_SIZE})
        BY <1>3
      <4> QED
        BY <1>1, <2>2, <4>1, WatchStays
    <3> HIDE DEF w
    <3>3. Watches(o, watched)
      BY <1>1, <1>10, <2>2 DEF Watches
    <3> QED
      BY <3>1, <3>2, <3>3
  <2> QED
    BY <2>1, <2>2
<1> HIDE DEF w
<1>13. Sound(k, o, w)
  BY <1>4, <1>11, <1>12 DEF Sound
<1> QED
  BY <1>2, <1>13, LeaveGives

LEMMA StutterInv ==
  ASSUME MemoryInv, UNCHANGED vars
  PROVE  MemoryInv'
  BY DEF MemoryInv, vars

LEMMA MoveBlockInv ==
  ASSUME MemoryInv, NEW ptr \in Nat, ptr # NULL, NEW a, a = ptr - HEADER_SIZE,
         IsBlock(mem, a), NEW n \in Nat \ {0}, NEW size, size = align_size(n),
         ~(mem.hdr[a].data_size >= size), MoveBlock(ptr, n, a)
  PROVE  MemoryInv'
<1>1. HeapOK(mem)
  BY DEF MemoryInv, Sound
<1>2. size \in Nat /\ n <= size
  BY AlignGives
<1>3. PICK r \in realloc_malloc(mem, size) :
        IF r.ptr = NULL
        THEN UNCHANGED vars
        ELSE \E m \in realloc_free(
                  MoveBytes(r.mem, r.ptr, ptr, mem.hdr[a].data_size), ptr) :
               Return(m, ptr, r.ptr, n)
  BY DEF MoveBlock
<1>4. Served(mem, r, size)
  BY <1>1, <1>2, RequestGives
<1>5. CASE r.ptr = NULL
  BY <1>3, <1>5, StutterInv
<1>6. CASE r.ptr # NULL
  <2> DEFINE v == MoveBytes(r.mem, r.ptr, ptr, mem.hdr[a].data_size)
             k == r.mem
             new_ptr == r.ptr
  <2>1. PICK m \in realloc_free(v, ptr) : Return(m, ptr, new_ptr, n)
    BY <1>3, <1>6
  <2>2. v = MoveBytes(k, new_ptr, ptr, mem.hdr[a].data_size)
    OBVIOUS
  <2>3. Step(mem, k, {}) /\ \E b : new_ptr = b + HEADER_SIZE /\ NewBlock(mem, k, b, size)
    BY <1>4, <1>6 DEF Served
  <2> HIDE DEF v, k, new_ptr
  <2>4. PICK b : new_ptr = b + HEADER_SIZE /\ NewBlock(mem, k, b, size)
    BY <2>3
  <2>5. /\ a \in Nat /\ mem.hdr[a].data_size \in Nat
    BY <1>1, BlockFacts
  <2>6. ptr = a + HEADER_SIZE /\ mem.hdr[a].data_size <= size
    BY <1>2, <2>5, Sizeful
  <2>7. /\ v = MoveBytes(k, b + HEADER_SIZE, a + HEADER_SIZE, mem.hdr[a].data_size)
        /\ m \in realloc_free(v, a + HEADER_SIZE)
    BY <2>1, <2>2, <2>4, <2>6
  <2>8. Moved(mem, m, a, b, size)
    BY <1>1, <1>2, <2>3, <2>4, <2>6, <2>7, CopyStep
  <2> QED
    BY <1>2, <2>1, <2>4, <2>8, ReturnInv
<1> QED
  BY <1>5, <1>6

LEMMA ResizeBlockInv ==
  ASSUME MemoryInv, NEW ptr \in Nat, ptr # NULL, NEW f \in BlockOf(mem, ptr),
         NEW n \in Nat \ {0}, ResizeBlock(ptr, n, f)
  PROVE  MemoryInv'
<1> DEFINE size  == align_size(n)
           grown == IF get_zone_type(size) = mem.zone[f.zone].type
                    THEN try_to_extend_block(mem, f.zone, f.block, size)
                    ELSE {}
           z == f.zone
           a == f.block
<1>1. HeapOK(mem)
  BY DEF MemoryInv, Sound
<1>2. /\ z \in DOMAIN mem.zone /\ a = ptr - HEADER_SIZE
      /\ a \in BlocksOf(mem, z) /\ IsBlock(mem, a)
  BY <1>1, BlockOfGives DEF BlockFound
<1>3. size \in Nat /\ n <= size /\ ALIGNMENT <= size /\ size = align_size(n)
  BY AlignGives
<1>4. mem.hdr[a].data_size \in Nat /\ a \in Nat /\ ptr = a + HEADER_SIZE
  <2>1. mem.hdr[a].data_size \in Nat /\ a \in Nat
    BY <1>1, <1>2, BlockFacts
  <2> HIDE DEF a
  <2> QED
    BY <1>2, <2>1, Sizeful
<1>5. CASE \/ mem.hdr[a].data_size >= size
              /\ Return(split_block(mem, z, a, size), ptr, ptr, n)
           \/ \E r \in try_to_extend_block(mem, z, a, size) :
                Return(r.mem, ptr, r.ptr, n)
           \/ ~(mem.hdr[a].data_size >= size) /\ MoveBlock(ptr, n, a)
  <2> HIDE DEF size, grown, z, a
  <2>1. CASE mem.hdr[a].data_size >= size
              /\ Return(split_block(mem, z, a, size), ptr, ptr, n)
    <3> DEFINE k == split_block(mem, z, a, size)
    <3>1. size <= mem.hdr[a].data_size /\ k = split_block(mem, z, a, size)
      BY <1>3, <1>4, <2>1
    <3>2. Return(k, ptr, ptr, n)
      BY <2>1
    <3> HIDE DEF k
    <3>3. Moved(mem, k, a, a, size)
      BY <1>1, <1>2, <1>3, <3>1, CutStep
    <3> QED
      BY <1>2, <1>3, <1>4, <3>2, <3>3, ReturnInv
  <2>2. CASE \E r \in try_to_extend_block(mem, z, a, size) : Return(r.mem, ptr, r.ptr, n)
    <3>1. PICK r \in try_to_extend_block(mem, z, a, size) : Return(r.mem, ptr, r.ptr, n)
      BY <2>2
    <3>2. PICK e : r.ptr = e + HEADER_SIZE /\ Moved(mem, r.mem, a, e, size)
      BY <1>1, <1>2, <1>3, GrowStep
    <3> QED
      BY <1>2, <1>3, <3>1, <3>2, ReturnInv
  <2>3. CASE ~(mem.hdr[a].data_size >= size) /\ MoveBlock(ptr, n, a)
    BY <1>2, <1>3, <2>3, MoveBlockInv
  <2> QED
    BY <1>5, <2>1, <2>2, <2>3
<1>6. ResizeBlock(ptr, n, f) =
        CASE mem.hdr[a].data_size >= size ->
                Return(split_block(mem, z, a, size), ptr, ptr, n)
          [] mem.hdr[a].data_size < size /\ grown # {} ->
                \E r \in grown : Return(r.mem, ptr, r.ptr, n)
          [] OTHER -> MoveBlock(ptr, n, a)
  BY DEF ResizeBlock
<1>7. grown \subseteq try_to_extend_block(mem, z, a, size)
  OBVIOUS
<1> HIDE DEF size, grown, z, a
<1>8. CASE mem.hdr[a].data_size >= size
  <2>1. ~(mem.hdr[a].data_size < size)
    BY <1>3, <1>4, <1>8
  <2>2. Return(split_block(mem, z, a, size), ptr, ptr, n)
    BY <1>6, <1>8, <2>1
  <2> QED
    BY <1>5, <1>8, <2>2
<1>9. CASE ~(mem.hdr[a].data_size >= size)
  <2>1. mem.hdr[a].data_size < size
    BY <1>3, <1>4, <1>9
  <2>2. CASE grown # {}
    <3>1. \E r \in grown : Return(r.mem, ptr, r.ptr, n)
      BY <1>6, <1>9, <2>1, <2>2
    <3> QED
      BY <1>5, <1>7, <3>1
  <2>3. CASE grown = {}
    <3>1. MoveBlock(ptr, n, a)
      BY <1>6, <1>9, <2>3
    <3> QED
      BY <1>5, <1>9, <3>1
  <2> QED
    BY <2>2, <2>3
<1> QED
  BY <1>8, <1>9

LEMMA ReallocInv ==
  ASSUME MemoryInv, NEW ptr \in Nat, NEW n \in Nat, realloc(ptr, n)
  PROVE  MemoryInv'
<1>1. CASE ptr = NULL
  BY <1>1, MallocInv DEF realloc
<1>2. CASE ptr # NULL /\ n = 0
  BY <1>2, FreeInv DEF realloc
<1>3. CASE ptr # NULL /\ n # 0
  <2>1. \/ BlockOf(mem, ptr) = {} /\ UNCHANGED vars
        \/ \E f \in BlockOf(mem, ptr) : ResizeBlock(ptr, n, f)
    BY <1>3 DEF realloc
  <2>2. CASE UNCHANGED vars
    BY <2>2, StutterInv
  <2>3. CASE \E f \in BlockOf(mem, ptr) : ResizeBlock(ptr, n, f)
    BY <1>3, <2>3, ResizeBlockInv
  <2> QED
    BY <2>1, <2>2, <2>3
<1> QED
  BY <1>1, <1>2, <1>3

(* The bytes of Write: kept, of its LET, and those of the range.           *)
LEMMA WriteInv ==
  ASSUME MemoryInv, NEW ptr \in DOMAIN owned, Write(ptr)
  PROVE  MemoryInv'
<1> DEFINE d     == owned[ptr]
           a     == ptr - HEADER_SIZE
           range == ptr .. ptr + d - 1
           keeps == watched.ptr \in {NULL, ptr}
           kept  == Without(mem.bytes, ptr, d)
           b     == IF keeps
                    THEN [x \in DOMAIN kept \cup range |->
                            IF x \in range THEN x - ptr ELSE kept[x]]
                    ELSE kept
           n     == mem'
           hi    == ptr + d
<1>1. /\ HeapOK(mem) /\ Owns(mem, owned) /\ Watches(owned, watched) /\ Kept(mem, watched)
      /\ MemOK(mem)
  BY DEF MemoryInv, Sound, HeapOK
<1>2. Holds(mem, ptr, d)
  BY <1>1 DEF Owns
<1>3. /\ ptr \in Nat /\ a \in Nat /\ ptr = a + HEADER_SIZE /\ d \in Nat /\ ptr > 0
      /\ IsBlock(mem, a) /\ d <= mem.hdr[a].data_size
  BY <1>1, <1>2, HeldNumbers
<1>4. /\ n = [mem EXCEPT !.hdr = Intact(mem.hdr, ptr, d), !.bytes = b]
      /\ watched' = IF keeps THEN [ptr |-> ptr, kept |-> d] ELSE watched
      /\ owned' = owned
  BY DEF Write
<1>5. /\ \A x \in DOMAIN mem.bytes :
           x \notin range => x \in DOMAIN b /\ b[x] = mem.bytes[x]
      /\ keeps => \A x \in range : x \in DOMAIN b /\ b[x] = x - ptr
      /\ DOMAIN b \subseteq Nat
  <2>1. DOMAIN mem.bytes \subseteq Nat /\ range \subseteq Nat
    BY <1>1, <1>3 DEF MemOK
  <2>2. /\ DOMAIN kept = DOMAIN mem.bytes \ range
        /\ \A x \in DOMAIN kept : kept[x] = mem.bytes[x]
    BY DEF Without
  <2> HIDE DEF kept, range, d
  <2>3. CASE keeps
    <3>1. b = [x \in DOMAIN kept \cup range |->
                IF x \in range THEN x - ptr ELSE kept[x]]
      BY <2>3
    <3> HIDE DEF b
    <3> QED
      BY <2>1, <2>2, <3>1
  <2>4. CASE ~keeps
    <3>1. b = kept
      BY <2>4
    <3> HIDE DEF b
    <3> QED
      BY <2>1, <2>2, <2>4, <3>1
  <2> QED
    BY <2>3, <2>4
<1>6. \A x \in Nat : x \in range <=> ptr <= x /\ x < hi
  BY <1>3
<1>7. hi = a + HEADER_SIZE + d /\ hi = ptr + d
  BY <1>3
<1>8. \A i \in 0 .. d - 1 : ptr + i \in range /\ (ptr + i) - ptr = i
  BY <1>3
<1> HIDE DEF b, n, hi, range, kept, a, d
<1>9. Overwritten(mem, n, ptr, d, b)
  BY <1>1, <1>4, RecordWrite DEF MemOK, Overwritten
<1>10. Wiped(mem, n, ptr, hi) /\ n.bytes = b
  BY <1>1, <1>3, <1>5, <1>7, <1>9, IntactGives
<1>11. \A x \in DOMAIN mem.bytes :
         x < ptr \/ hi <= x => x \in DOMAIN n.bytes /\ n.bytes[x] = mem.bytes[x]
  <2> TAKE x \in DOMAIN mem.bytes
  <2>1. x \in Nat
    BY <1>1 DEF MemOK
  <2>2. hi \in Nat
    BY <1>3, <1>7
  <2>3. x < ptr \/ hi <= x => x \notin range
    BY <1>3, <1>6, <2>1, <2>2
  <2> QED
    BY <1>5, <1>10, <2>3
<1>12. Rewritten(mem, n, a)
  BY <1>1, <1>3, <1>7, <1>10, <1>11, RewriteStep
<1>13. /\ HeapOK(n) /\ Step(mem, n, {ptr - HEADER_SIZE})
       /\ IsBlock(n, a) /\ n.hdr[a] = mem.hdr[a]
  BY <1>12 DEF Rewritten, Step, a
<1>14. Owns(n, owned)
  <2>1. \A p \in DOMAIN owned : p # ptr => Holds(n, p, owned[p])
    BY <1>1, <1>3, <1>13, OthersHold
  <2>2. Holds(n, ptr, owned[ptr])
    BY <1>2, <1>13 DEF Holds, a, d
  <2> QED
    BY <2>1, <2>2 DEF Owns
<1>15. Watches(owned, watched') /\ Kept(n, watched')
  <2>1. CASE keeps
    <3>1. watched'.ptr = ptr /\ watched'.kept = d
      BY <1>4, <2>1
    <3>2. Watches(owned, watched')
      BY <1>3, <3>1 DEF Watches, NULL, d
    <3>3. \A i \in 0 .. d - 1 : ptr + i \in DOMAIN n.bytes /\ n.bytes[ptr + i] = i
      BY <1>5, <1>8, <1>10, <2>1
    <3> QED
      BY <3>1, <3>2, <3>3 DEF Kept
  <2>2. CASE ~keeps
    <3>1. watched' = watched /\ watched.ptr # ptr
      BY <1>4, <2>2
    <3>2. Kept(n, watched)
      BY <1>1, <1>3, <1>13, <3>1, WatchStays
    <3> QED
      BY <1>1, <3>1, <3>2
  <2> QED
    BY <2>1, <2>2
<1> QED
  BY <1>4, <1>13, <1>14, <1>15 DEF MemoryInv, Sound, n

------------------------------------------------------------------------------
(* The invariants.                                                         *)

LEMMA InitInv ==
  ASSUME Init
  PROVE  MemoryInv
<1>1. /\ mem = [g_zones |-> NULL, zone |-> <<>>, hdr |-> <<>>, bytes |-> <<>>,
                mapped |-> {}]
      /\ owned = <<>> /\ watched = NotWatched
  BY DEF Init
<1>2. /\ mem.g_zones = NULL /\ mem.zone = <<>> /\ mem.hdr = <<>> /\ mem.bytes = <<>>
      /\ mem = [g_zones |-> mem.g_zones, zone |-> mem.zone, hdr |-> mem.hdr,
                bytes |-> mem.bytes, mapped |-> mem.mapped]
  BY <1>1
<1>3. DOMAIN mem.zone = {} /\ DOMAIN mem.hdr = {} /\ DOMAIN mem.bytes = {}
  BY <1>2
<1>4. MemOK(mem)
  BY <1>2, <1>3, FS_EmptySet DEF MemOK
<1>5. Chain(mem.zone, NULL, <<>>, 0)
  BY DEF Chain, At
<1>6. HeapOK(mem)
  BY <1>2, <1>3, <1>4, <1>5 DEF HeapOK, ZonesListed, ZonesApart
<1>7. Owns(mem, owned) /\ Watches(owned, watched) /\ Kept(mem, watched)
  BY <1>1 DEF Owns, Watches, Kept, NotWatched
<1> QED
  BY <1>6, <1>7 DEF MemoryInv, Sound

LEMMA NextInv ==
  ASSUME MemoryInv, [Next]_vars
  PROVE  MemoryInv'
<1>1. RequestSizes \subseteq Nat
  BY MemoryAssumption, SizesAssumption
<1>2. Ptrs \subseteq Nat
  BY MemoryAssumption DEF Ptrs, MemoryInv, Sound, Owns, Holds
<1>3. ASSUME NEW n \in RequestSizes, malloc(n)
      PROVE  MemoryInv'
  BY <1>1, <1>3, MallocInv
<1>4. ASSUME NEW ptr \in Ptrs, free(ptr)
      PROVE  MemoryInv'
  BY <1>2, <1>4, FreeInv
<1>5. ASSUME NEW ptr \in Ptrs, NEW n \in RequestSizes, realloc(ptr, n)
      PROVE  MemoryInv'
  BY <1>1, <1>2, <1>5, ReallocInv
<1>6. ASSUME NEW ptr \in DOMAIN owned, Write(ptr)
      PROVE  MemoryInv'
  BY <1>6, WriteInv
<1>7. CASE UNCHANGED vars
  BY <1>7, StutterInv
<1> QED
  BY <1>3, <1>4, <1>5, <1>6, <1>7 DEF Next

LEMMA ChainWellLinked ==
  ASSUME NEW nodes, NEW head, NEW s, NEW n, Chain(nodes, head, s, n),
         Walk(nodes, head) = s
  PROVE  WellLinked(nodes, head)
<1>1. /\ DOMAIN s = 1 .. n /\ n \in Nat
      /\ \A k \in 1 .. n : nodes[s[k]].prev = At(s, n, k - 1)
  BY DEF Chain
<1>2. \A k \in 1 .. n : nodes[s[k]].prev = (IF k = 1 THEN NULL ELSE s[k - 1])
  <2> TAKE k \in 1 .. n
  <2>1. CASE k = 1
    BY <1>1, <2>1 DEF At
  <2>2. CASE k # 1
    <3>1. k - 1 \in 1 .. n
      BY <1>1, <2>2
    <3> QED
      BY <1>1, <2>2, <3>1 DEF At
  <2> QED
    BY <2>1, <2>2
<1> QED
  BY <1>1, <1>2 DEF WellLinked

LEMMA ListGood ==
  ASSUME NEW m, MemOK(m), NEW head, NEW S, Linked(m.hdr, head, S),
         \A a \in S : m.hdr[a].end = a + HEADER_SIZE + m.hdr[a].data_size
  PROVE  LET walk == Walk(m.hdr, head) IN
         /\ WellLinked(m.hdr, head)
         /\ \A i \in 2 .. Len(walk) : walk[i - 1] < walk[i]
         /\ \A a \in ToSet(walk) : m.hdr[a].end = a + HEADER_SIZE + m.hdr[a].data_size
<1>1. IsFiniteSet(DOMAIN m.hdr) /\ NULL \notin DOMAIN m.hdr
  BY DEF MemOK, Addr
<1>2. PICK n, s : InOrder(s, n, S) /\ Chain(m.hdr, head, s, n) /\ Walk(m.hdr, head) = s
  BY <1>1, LinkedWalk
<1>3. WellLinked(m.hdr, head)
  BY <1>2, ChainWellLinked
<1>4. n \in Nat /\ s = [k \in 1 .. n |-> s[k]] /\ \A j, k \in 1 .. n : j < k => s[j] < s[k]
  BY <1>2 DEF InOrder
<1>5. Len(s) = n
  BY <1>4
<1>6. \A i \in 2 .. Len(s) : s[i - 1] < s[i]
  <2> TAKE i \in 2 .. Len(s)
  <2>1. i - 1 \in 1 .. n /\ i \in 1 .. n /\ i - 1 < i
    BY <1>4, <1>5
  <2> QED
    BY <1>4, <2>1
<1>7. ToSet(s) = S
  BY <1>2, WalkMeets
<1> QED
  BY <1>2, <1>3, <1>6, <1>7

LEMMA LinkedByInv ==
  ASSUME MemoryInv
  PROVE  ListsWellLinked
<1>1. HeapOK(mem) /\ MemOK(mem)
  BY DEF MemoryInv, Sound, HeapOK
<1>2. IsFiniteSet(DOMAIN mem.zone) /\ NULL \notin DOMAIN mem.zone
  BY <1>1 DEF MemOK, Addr
<1>3. WellLinked(mem.zone, mem.g_zones)
  <2>1. PICK s, c : Chain(mem.zone, mem.g_zones, s, c)
    BY <1>1 DEF HeapOK, ZonesListed
  <2>2. Walk(mem.zone, mem.g_zones) = s
    BY <1>2, <2>1, WalkChain
  <2> QED
    BY <2>1, <2>2, ChainWellLinked
<1>4. ASSUME NEW z \in DOMAIN mem.zone,
             NEW head \in {mem.zone[z].blocks, mem.zone[z].empty_spaces}
      PROVE  LET walk == Walk(mem.hdr, head) IN
             /\ WellLinked(mem.hdr, head)
             /\ \A i \in 2 .. Len(walk) : walk[i - 1] < walk[i]
             /\ \A a \in ToSet(walk) :
                  mem.hdr[a].end = a + HEADER_SIZE + mem.hdr[a].data_size
  <2> DEFINE B == BlocksOf(mem, z)
  <2>1. \E E : Shape(mem, z, B, E)
    BY <1>1, ZoneShape
  <2>2. PICK E : Shape(mem, z, B, E)
    BY <2>1
  <2> HIDE DEF B
  <2>3. /\ Linked(mem.hdr, mem.zone[z].blocks, B)
        /\ Linked(mem.hdr, mem.zone[z].empty_spaces, E)
        /\ Layout(mem, z, B \cup E)
    BY <2>2 DEF Shape
  <2>4. \A a \in B \cup E : mem.hdr[a].end = a + HEADER_SIZE + mem.hdr[a].data_size
    BY <2>3, Spans
  <2>5. PICK S \in {B, E} : Linked(mem.hdr, head, S)
    BY <2>3
  <2>6. \A a \in S : mem.hdr[a].end = a + HEADER_SIZE + mem.hdr[a].data_size
    BY <2>4
  <2> QED
    BY <1>1, <2>5, <2>6, ListGood
<1> QED
  BY <1>3, <1>4 DEF ListsWellLinked

LEMMA KeptByInv ==
  ASSUME MemoryInv
  PROVE  ContentsKept
  BY DEF MemoryInv, Sound, Kept, ContentsKept

LEMMA Invariance == Spec => []MemoryInv
<1>1. Init => MemoryInv
  BY InitInv
<1>2. MemoryInv /\ [Next]_vars => MemoryInv'
  BY NextInv
<1> QED
  BY <1>1, <1>2, PTL DEF Spec

(* In every list, that of the zones and those of the chunks of each zone,  *)
(* the links of both directions agree, whatever calls of malloc, free and  *)
(* realloc inserted, replaced, joined and took out; the lists of chunks    *)
(* are in the order of the addresses, and end is where a chunk ends.       *)
THEOREM ListsStayWellLinked == Spec => []ListsWellLinked
<1>1. MemoryInv => ListsWellLinked
  BY LinkedByInv
<1> QED
  BY <1>1, Invariance, PTL

(* What a caller wrote into its block is there, byte for byte, until it    *)
(* writes again or gives the block back, also when realloc has grown it    *)
(* over a neighbour, cut it back, or moved it to another place.            *)
THEOREM ContentsStay == Spec => []ContentsKept
<1>1. MemoryInv => ContentsKept
  BY KeptByInv
<1> QED
  BY <1>1, Invariance, PTL
=============================================================================

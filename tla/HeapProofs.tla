----------------------------- MODULE HeapProofs ------------------------------
(***************************************************************************)
(* Every operation on a zone keeps it well formed and counted, for any     *)
(* layout; and every step of malloc, free and realloc on the list of zones *)
(* keeps each zone well formed.                                            *)
(*                                                                         *)
(* First sums over finite sets: MapThenSumSet of the community modules is  *)
(* a CHOOSE of a recursive function on sets.  The function exists for      *)
(* every finite set and is unique, so that a sum can be taken in any       *)
(* order; and the chunks of a tiling, with their headers, add up to the    *)
(* zone they tile.                                                         *)
(*                                                                         *)
(* Then the geometry: cutting a chunk in two and joining two or three      *)
(* neighbours turn a tiling into a tiling.  Then merge_empty_spaces: in a  *)
(* tiled zone a gap smaller than a chunk is no gap, so that it joins the   *)
(* touching empty spaces; when all of them but one were apart it joins     *)
(* that one with at most one neighbour on each side.  Then one lemma for   *)
(* each operation of malloc, free and realloc on a zone.                   *)
(*                                                                         *)
(* Last the heap.  A good heap is a list of well-formed zones and a set of *)
(* pages.  In a sound heap the zones also are apart and lie on the mapped  *)
(* pages, and callers hold the payloads of its blocks.  A step is          *)
(* described by what it does to the set of all blocks: one appears, one    *)
(* goes, or one takes the place of another.                                *)
(***************************************************************************)
EXTENDS Heap, TLAPS, FiniteSetTheorems, WellFoundedInduction, NaturalsInduction,
        SequenceTheorems

------------------------------------------------------------------------------
(* Sums over finite sets.                                                  *)

(* The step from a set to the sets with one element less, for the proofs   *)
(* that go by the size of a set: of some subsets of S one is smallest.     *)
LEMMA SmallestSet ==
  ASSUME NEW S, IsFiniteSet(S), NEW Bad \in SUBSET (SUBSET S), Bad # {}
  PROVE  \E s \in Bad : IsFiniteSet(s) /\ \A t \in SUBSET s : t # s => t \notin Bad
<1>1. \A s \in SUBSET S : IsFiniteSet(s)
  BY FS_Subset
<1>2. Bad \subseteq FiniteSubsetsOf(S)
  BY <1>1 DEF FiniteSubsetsOf
<1>3. PICK s \in Bad : \A t \in Bad : ~(<<t, s>> \in StrictSubsetOrdering(S))
  BY <1>2, FS_StrictSubsetOrderingWellFounded, WFMin
<1>4. ASSUME NEW t \in SUBSET s, t # s, t \in Bad
      PROVE  FALSE
  <2>1. <<t, s>> \in StrictSubsetOrdering(S)
    BY <1>4 DEF StrictSubsetOrdering
  <2> QED
    BY <1>3, <1>4, <2>1
<1> QED
  BY <1>1, <1>3, <1>4

(* What the fold behind MapThenSumSet defines: g[s] is the sum of w over   *)
(* s, for every subset s of S.                                             *)
Picked(s) == CHOOSE x \in s : TRUE
AddsUp(g, w, S) ==
  g = [s \in SUBSET S |-> IF s = {} THEN 0 ELSE w[Picked(s)] + g[s \ {Picked(s)}]]

Total(w, S) == (CHOOSE g : AddsUp(g, w, S))[S]

(* What AddsUp says of the sums it is given, element by element.           *)
LEMMA AddsUpMeans ==
  ASSUME NEW g, NEW w, NEW S, AddsUp(g, w, S)
  PROVE  /\ g = [s \in SUBSET S |-> g[s]]
         /\ {} \in SUBSET S /\ g[{}] = 0
         /\ \A s \in SUBSET S : s # {} =>
              /\ Picked(s) \in s /\ s \ {Picked(s)} \in SUBSET s
              /\ s \ {Picked(s)} # s
              /\ g[s] = w[Picked(s)] + g[s \ {Picked(s)}]
<1> DEFINE F(s) == IF s = {} THEN 0 ELSE w[Picked(s)] + g[s \ {Picked(s)}]
<1>1. g = [s \in SUBSET S |-> F(s)]
  BY DEF AddsUp
<1>2. \A s \in SUBSET S : g[s] = F(s)
  BY <1>1
<1>3. \A s : s # {} => Picked(s) \in s
  BY DEF Picked
<1> QED
  BY <1>1, <1>2, <1>3

(* There is at most one such sum.                                          *)
LEMMA SumsAgree ==
  ASSUME NEW w, NEW S, IsFiniteSet(S), NEW g, AddsUp(g, w, S),
         NEW T, NEW h, AddsUp(h, w, T), S \subseteq T
  PROVE  \A s \in SUBSET S : g[s] = h[s]
<1> DEFINE Bad == {s \in SUBSET S : g[s] # h[s]}
<1> SUFFICES ASSUME Bad # {}
             PROVE  FALSE
  OBVIOUS
<1>1. PICK s \in Bad : \A t \in SUBSET s : t # s => t \notin Bad
  <2> HIDE DEF Bad
  <2>1. Bad \in SUBSET (SUBSET S)
    BY DEF Bad
  <2> QED
    BY <2>1, SmallestSet
<1>2. s \in SUBSET S /\ s \in SUBSET T /\ g[s] # h[s]
  OBVIOUS
<1>3. s # {}
  BY <1>2, AddsUpMeans
<1> DEFINE t == s \ {Picked(s)}
<1>4. /\ g[s] = w[Picked(s)] + g[t] /\ t \in SUBSET s /\ t # s
  BY <1>2, <1>3, AddsUpMeans
<1>5. h[s] = w[Picked(s)] + h[t]
  BY <1>2, <1>3, AddsUpMeans
<1>6. g[t] = h[t]
  BY <1>1, <1>2, <1>4
<1> QED
  BY <1>2, <1>4, <1>5, <1>6

(* And there is one, for a finite set.                                     *)
LEMMA SumsExist ==
  ASSUME NEW w, NEW S, IsFiniteSet(S)
  PROVE  \E g : AddsUp(g, w, S)
<1> DEFINE Bad == {s \in SUBSET S : ~ \E g : AddsUp(g, w, s)}
<1> SUFFICES ASSUME Bad # {}
             PROVE  FALSE
  OBVIOUS
<1>1. PICK s \in Bad : IsFiniteSet(s) /\ \A t \in SUBSET s : t # s => t \notin Bad
  <2> HIDE DEF Bad
  <2>1. Bad \in SUBSET (SUBSET S)
    BY DEF Bad
  <2> QED
    BY <2>1, SmallestSet
<1>2. s \in SUBSET S /\ ~ \E g : AddsUp(g, w, s)
  OBVIOUS
<1>3. \A t \in SUBSET s : t # s => \E g : AddsUp(g, w, t)
  BY <1>1, <1>2
<1> DEFINE G(t) == CHOOSE g : AddsUp(g, w, t)
           V(t) == IF t = {} THEN 0
                   ELSE w[Picked(t)] + G(t \ {Picked(t)})[t \ {Picked(t)}]
           f == [t \in SUBSET s |-> V(t)]
<1>4. \A t \in SUBSET s : t # s => AddsUp(G(t), w, t)
  BY <1>3
<1>5. \A t \in SUBSET s : IsFiniteSet(t)
  BY <1>1, FS_Subset
<1> HIDE DEF G, Bad
<1>6. ASSUME NEW t \in SUBSET s, t # s
      PROVE  G(t)[t] = V(t)
  <2>1. AddsUp(G(t), w, t)
    BY <1>4, <1>6
  <2>2. CASE t = {}
    BY <2>1, <2>2, AddsUpMeans
  <2>3. CASE t # {}
    <3> DEFINE u == t \ {Picked(t)}
    <3>1. /\ G(t)[t] = w[Picked(t)] + G(t)[u]
          /\ u \in SUBSET t /\ u # t
      BY <2>1, <2>3, AddsUpMeans
    <3> HIDE DEF u
    <3>2. u \in SUBSET s /\ u # s /\ IsFiniteSet(u)
      BY <1>5, <1>6, <3>1
    <3>3. AddsUp(G(u), w, u)
      BY <1>4, <3>2
    <3>4. G(u)[u] = G(t)[u]
      BY <2>1, <3>1, <3>2, <3>3, SumsAgree
    <3> QED
      BY <2>3, <3>1, <3>4 DEF u
  <2> QED
    BY <2>2, <2>3
<1>7. ASSUME NEW t \in SUBSET s
      PROVE  V(t) = IF t = {} THEN 0 ELSE w[Picked(t)] + f[t \ {Picked(t)}]
  <2>1. CASE t = {}
    BY <2>1
  <2>2. CASE t # {}
    <3>1. Picked(t) \in t
      BY <2>2 DEF Picked
    <3> DEFINE u == t \ {Picked(t)}
    <3>2. u \in SUBSET s /\ u # s
      BY <3>1
    <3>3. G(u)[u] = V(u)
      BY <1>6, <3>2
    <3>4. f[u] = V(u)
      BY <3>2
    <3> QED
      BY <2>2, <3>3, <3>4
  <2> QED
    BY <2>1, <2>2
<1>8. AddsUp(f, w, s)
  <2> HIDE DEF V
  <2>1. \A t \in SUBSET s :
          V(t) = IF t = {} THEN 0 ELSE w[Picked(t)] + f[t \ {Picked(t)}]
    BY <1>7
  <2>2. f = [t \in SUBSET s |->
               IF t = {} THEN 0 ELSE w[Picked(t)] + f[t \ {Picked(t)}]]
    BY <2>1
  <2> QED
    BY <2>2 DEF AddsUp
<1> QED
  BY <1>2, <1>8

(* The sum over a finite set, whatever the order it is taken in.           *)
LEMMA TotalFacts ==
  ASSUME NEW T, NEW w \in [T -> Int], NEW S \in SUBSET T, IsFiniteSet(S)
  PROVE  /\ Total(w, S) \in Int
         /\ S = {} => Total(w, S) = 0
         /\ \A x \in S : Total(w, S) = w[x] + Total(w, S \ {x})
<1> DEFINE g == CHOOSE g : AddsUp(g, w, S)
<1>1. AddsUp(g, w, S)
  BY SumsExist
<1>2. Total(w, S) = g[S]
  BY DEF Total
<1> HIDE DEF g
<1>3. \A s \in SUBSET S : Total(w, s) = g[s]
  <2> TAKE s \in SUBSET S
  <2> DEFINE h == CHOOSE h : AddsUp(h, w, s)
  <2>1. IsFiniteSet(s)
    BY FS_Subset
  <2>2. AddsUp(h, w, s)
    BY <2>1, SumsExist
  <2>3. Total(w, s) = h[s]
    BY DEF Total
  <2> HIDE DEF h
  <2> QED
    BY <1>1, <2>1, <2>2, <2>3, SumsAgree
<1>4. \A s \in SUBSET S : g[s] \in Int
  <2> DEFINE Bad == {s \in SUBSET S : g[s] \notin Int}
  <2> SUFFICES ASSUME Bad # {}
               PROVE  FALSE
    OBVIOUS
  <2>1. PICK s \in Bad : \A t \in SUBSET s : t # s => t \notin Bad
    <3> HIDE DEF Bad
    <3>1. Bad \in SUBSET (SUBSET S)
      BY DEF Bad
    <3> QED
      BY <3>1, SmallestSet
  <2>2. s \in SUBSET S /\ g[s] \notin Int
    OBVIOUS
  <2>3. s # {}
    <3> HIDE DEF Bad
    <3>1. g[{}] = 0
      BY <1>1, AddsUpMeans
    <3> QED
      BY <2>2, <3>1
  <2> DEFINE t == s \ {Picked(s)}
  <2>4. /\ g[s] = w[Picked(s)] + g[t] /\ t \in SUBSET s /\ t # s /\ Picked(s) \in s
    BY <1>1, <2>2, <2>3, AddsUpMeans
  <2>5. g[t] \in Int /\ w[Picked(s)] \in Int
    BY <2>1, <2>2, <2>4
  <2> QED
    BY <2>2, <2>4, <2>5
<1>5. \A s \in SUBSET S : \A x \in s : g[s] = w[x] + g[s \ {x}]
  <2> DEFINE Bad == {s \in SUBSET S : \E x \in s : g[s] # w[x] + g[s \ {x}]}
  <2> SUFFICES ASSUME Bad # {}
               PROVE  FALSE
    OBVIOUS
  <2>1. PICK s \in Bad : \A t \in SUBSET s : t # s => t \notin Bad
    <3> HIDE DEF Bad
    <3>1. Bad \in SUBSET (SUBSET S)
      BY DEF Bad
    <3> QED
      BY <3>1, SmallestSet
  <2>2. PICK x \in s : g[s] # w[x] + g[s \ {x}]
    OBVIOUS
  <2>3. s \in SUBSET S
    OBVIOUS
  <2>4. \A t \in SUBSET s : t # s => \A y \in t : g[t] = w[y] + g[t \ {y}]
    BY <2>1, <2>3
  <2> HIDE DEF Bad
  <2> DEFINE c == Picked(s)
  <2>5. g[s] = w[c] + g[s \ {c}] /\ c \in s
    BY <1>1, <2>2, <2>3, AddsUpMeans
  <2> HIDE DEF c
  <2>6. c # x
    BY <2>2, <2>5
  <2>7. g[s \ {c}] = w[x] + g[(s \ {c}) \ {x}]
    BY <2>2, <2>4, <2>5, <2>6
  <2>8. g[s \ {x}] = w[c] + g[(s \ {x}) \ {c}]
    BY <2>2, <2>4, <2>5, <2>6
  <2>9. (s \ {c}) \ {x} = (s \ {x}) \ {c}
    OBVIOUS
  <2> DEFINE r == (s \ {c}) \ {x}
  <2>10. w[c] \in Int /\ w[x] \in Int /\ g[r] \in Int
    BY <1>4, <2>3, <2>5
  <2> HIDE DEF r
  <2>11. g[s \ {c}] = w[x] + g[r] /\ g[s \ {x}] = w[c] + g[r]
    BY <2>7, <2>8, <2>9 DEF r
  <2> QED
    BY <2>2, <2>5, <2>10, <2>11
<1>6. S \in SUBSET S /\ \A x : S \ {x} \in SUBSET S
  OBVIOUS
<1>7. S = {} => g[S] = 0
  BY <1>1, AddsUpMeans
<1> QED
  BY <1>3, <1>4, <1>5, <1>6, <1>7

------------------------------------------------------------------------------
(* Tilings: the geometry of the chunks of a zone from s to e, blocks and   *)
(* empty spaces alike.                                                     *)

Tiling(s, e, C) ==
  /\ C \subseteq Chunk
  /\ \A c \in C : /\ s + ZONE_HEADER_SIZE <= c.addr
                  /\ block_end(c) <= e
                  /\ c.data_size >= ALIGNMENT
  /\ \A c, d \in C :
       c # d => block_end(c) <= d.addr \/ block_end(d) <= c.addr
  /\ \E c \in C : c.addr = s + ZONE_HEADER_SIZE
  /\ \A c \in C : block_end(c) = e \/ \E d \in C : d.addr = block_end(c)

(* Sizes are positive.                                                     *)
LEMMA SizesFacts ==
  /\ ALIGNMENT \in Nat /\ ALIGNMENT > 0
  /\ HEADER_SIZE \in Nat /\ HEADER_SIZE > 0
  /\ ZONE_HEADER_SIZE \in Nat /\ ZONE_HEADER_SIZE > 0
  /\ MIN_SPLIT_SIZE = HEADER_SIZE + ALIGNMENT
  BY SizesAssumption DEF MIN_SPLIT_SIZE

(* One number taken out of a sum.                                          *)
LEMMA TotalWithout ==
  ASSUME NEW T, NEW w \in [T -> Int], NEW S \in SUBSET T, IsFiniteSet(S), NEW x \in S
  PROVE  /\ w[x] \in Int /\ Total(w, S \ {x}) \in Int
         /\ Total(w, S) = w[x] + Total(w, S \ {x})
<1> DEFINE R == S \ {x}
<1>1. R \in SUBSET T /\ IsFiniteSet(R)
  BY FS_RemoveElement
<1>2. Total(w, S) = w[x] + Total(w, R)
  BY TotalFacts
<1> HIDE DEF R
<1>3. Total(w, R) \in Int
  BY <1>1, TotalFacts
<1> QED
  BY <1>2, <1>3 DEF R

------------------------------------------------------------------------------
(* The bytes of a set of chunks, their headers included.                   *)
Weight == [c \in Chunk |-> HEADER_SIZE + c.data_size]
Extent(S) == MapThenSumSet(LAMBDA e : HEADER_SIZE + e.data_size, S)

(* The extent of a set of chunks is the total of their weights.            *)
LEMMA ExtentIsTotal ==
  ASSUME NEW S \in SUBSET Chunk, IsFiniteSet(S)
  PROVE  Extent(S) = Total(Weight, S)
<1> DEFINE Is(g) == g = [s \in SUBSET S |-> IF s = {} THEN 0
                           ELSE LET x == CHOOSE x \in s : TRUE
                                IN (HEADER_SIZE + x.data_size) + g[s \ {x}]]
<1>1. \A g : Is(g) <=> AddsUp(g, Weight, S)
  <2> TAKE g
  <2> DEFINE A(s) == IF s = {} THEN 0 ELSE LET x == CHOOSE x \in s : TRUE
                                IN (HEADER_SIZE + x.data_size) + g[s \ {x}]
             B(s) == IF s = {} THEN 0 ELSE Weight[Picked(s)] + g[s \ {Picked(s)}]
  <2>1. \A s \in SUBSET S : A(s) = B(s)
    <3> TAKE s \in SUBSET S
    <3>1. CASE s = {}
      BY <3>1
    <3>2. CASE s # {}
      <4>1. Picked(s) \in Chunk
        BY <3>2 DEF Picked
      <4>2. Weight[Picked(s)] = HEADER_SIZE + Picked(s).data_size
        BY <4>1 DEF Weight
      <4> QED
        BY <3>2, <4>2 DEF Picked
    <3> QED
      BY <3>1, <3>2
  <2>2. (Is(g) <=> g = [s \in SUBSET S |-> A(s)])
    OBVIOUS
  <2>3. (AddsUp(g, Weight, S) <=> g = [s \in SUBSET S |-> B(s)])
    BY DEF AddsUp
  <2> HIDE DEF A, B, Is
  <2>4. [s \in SUBSET S |-> A(s)] = [s \in SUBSET S |-> B(s)]
    BY <2>1
  <2> QED
    BY <2>2, <2>3, <2>4
<1>2. Extent(S) = (CHOOSE g : Is(g))[S]
  BY DEF Extent, MapThenSumSet, MapThenFoldSet
<1>3. PICK g : AddsUp(g, Weight, S)
  BY SumsExist
<1> HIDE DEF Is
<1>4. \E h : Is(h)
  BY <1>1, <1>3
<1> DEFINE h == CHOOSE h : Is(h)
<1>5. Is(h)
  BY <1>4
<1> DEFINE k == CHOOSE k : AddsUp(k, Weight, S)
<1>6. AddsUp(k, Weight, S)
  BY <1>3
<1>7. Total(Weight, S) = k[S] /\ Extent(S) = h[S]
  BY <1>2 DEF Total
<1> HIDE DEF h, k
<1>8. AddsUp(h, Weight, S)
  BY <1>1, <1>5
<1> QED
  BY <1>6, <1>7, <1>8, SumsAgree

(* Tiling chunks are finitely many: no two have the same address.          *)
LEMMA TilingFinite ==
  ASSUME NEW s \in Nat, NEW e \in Nat, NEW C, Tiling(s, e, C)
  PROVE  IsFiniteSet(C)
<1> DEFINE at == [c \in C |-> c.addr]
<1>1. at \in [C -> 0 .. e]
  BY SizesFacts DEF Tiling, Chunk, block_end
<1>2. \A c, d \in C : c # d => c.addr # d.addr
  BY SizesFacts DEF Tiling, Chunk, block_end
<1>3. at \in Injection(C, 0 .. e)
  BY <1>1, <1>2 DEF Injection, IsInjective
<1>4. IsFiniteSet(0 .. e)
  BY FS_Interval
<1> QED
  BY <1>3, <1>4, FS_Injection

(* One chunk more, one chunk less.                                         *)
LEMMA CountedWithout ==
  ASSUME NEW B \in SUBSET Chunk, IsFiniteSet(B), NEW b \in B
  PROVE  /\ IsFiniteSet(B \ {b})
         /\ Cardinality(B) \in Nat /\ Total(Weight, B) \in Int
         /\ Cardinality(B \ {b}) = Cardinality(B) - 1
         /\ Total(Weight, B \ {b}) = Total(Weight, B) - (HEADER_SIZE + b.data_size)
<1>1. Weight \in [Chunk -> Int] /\ Weight[b] = HEADER_SIZE + b.data_size
  BY SizesFacts DEF Weight, Chunk
<1>2. IsFiniteSet(B \ {b}) /\ B \ {b} \in SUBSET Chunk
  BY FS_RemoveElement
<1>3. /\ Total(Weight, B) \in Int /\ Total(Weight, B \ {b}) \in Int
      /\ Total(Weight, B) = Weight[b] + Total(Weight, B \ {b})
  BY <1>1, <1>2, TotalFacts
<1>4. Cardinality(B) \in Nat /\ Cardinality(B \ {b}) = Cardinality(B) - 1
  BY FS_RemoveElement, FS_CardinalityType
<1>5. b.data_size \in Nat
  BY DEF Chunk
<1> QED
  BY <1>1, <1>2, <1>3, <1>4, <1>5, SizesFacts

(* The counts of a set with one more chunk.                                *)
LEMMA CountedWith ==
  ASSUME NEW B \in SUBSET Chunk, IsFiniteSet(B), NEW b \in Chunk, b \notin B
  PROVE  /\ IsFiniteSet(B \cup {b})
         /\ Cardinality(B) \in Nat /\ Total(Weight, B) \in Int
         /\ Cardinality(B \cup {b}) = Cardinality(B) + 1
         /\ Total(Weight, B \cup {b}) = Total(Weight, B) + HEADER_SIZE + b.data_size
<1> DEFINE D == B \cup {b}
<1>1. IsFiniteSet(D) /\ D \in SUBSET Chunk /\ b \in D /\ D \ {b} = B
  BY FS_AddElement
<1>2. /\ Cardinality(D) \in Nat /\ Total(Weight, D) \in Int
      /\ Cardinality(B) = Cardinality(D) - 1
      /\ Total(Weight, B) = Total(Weight, D) - (HEADER_SIZE + b.data_size)
  <2> HIDE DEF D
  <2> QED
    BY <1>1, CountedWithout
<1>3. b.data_size \in Nat
  BY DEF Chunk
<1>4. Cardinality(B) \in Nat
  BY FS_CardinalityType
<1> HIDE DEF D
<1> QED
  BY <1>1, <1>2, <1>3, <1>4, SizesFacts DEF D

(* Two sets without a common chunk add up.                                 *)
LEMMA TotalOfUnion ==
  ASSUME NEW A \in SUBSET Chunk, NEW B \in SUBSET Chunk, A \cap B = {},
         IsFiniteSet(A), IsFiniteSet(B)
  PROVE  /\ Total(Weight, A) \in Int /\ Total(Weight, B) \in Int
         /\ Total(Weight, A \cup B) = Total(Weight, A) + Total(Weight, B)
<1>1. Weight \in [Chunk -> Int]
  BY SizesFacts DEF Weight, Chunk
<1>2. \A s \in SUBSET B : IsFiniteSet(s) /\ IsFiniteSet(A \cup s)
  BY FS_Subset, FS_Union
<1> DEFINE Bad == {s \in SUBSET B :
                     Total(Weight, A \cup s) # Total(Weight, A) + Total(Weight, s)}
<1>3. Bad = {}
  <2> SUFFICES ASSUME Bad # {}
               PROVE  FALSE
    OBVIOUS
  <2>1. PICK s \in Bad : \A t \in SUBSET s : t # s => t \notin Bad
    <3> HIDE DEF Bad
    <3>1. Bad \in SUBSET (SUBSET B)
      BY DEF Bad
    <3> QED
      BY <3>1, SmallestSet
  <2>2. /\ s \in SUBSET B
        /\ Total(Weight, A \cup s) # Total(Weight, A) + Total(Weight, s)
    OBVIOUS
  <2>3. \A t \in SUBSET s : t # s =>
          Total(Weight, A \cup t) = Total(Weight, A) + Total(Weight, t)
    BY <2>1, <2>2
  <2> HIDE DEF Bad
  <2>4. Total(Weight, A) \in Int
    BY <1>1, TotalFacts
  <2>5. s # {}
    <3> SUFFICES ASSUME s = {}
                 PROVE  FALSE
      OBVIOUS
    <3>1. Total(Weight, s) = 0
      BY <1>1, <1>2, <2>2, TotalFacts
    <3>2. A \cup s = A
      OBVIOUS
    <3> QED
      BY <2>2, <2>4, <3>1, <3>2
  <2>6. PICK x \in s : TRUE
    BY <2>5
  <2> DEFINE t == s \ {x}
  <2>7. /\ t \in SUBSET s /\ t # s /\ t \in SUBSET Chunk
        /\ (A \cup s) \ {x} = A \cup t
        /\ A \cup s \in SUBSET Chunk /\ s \in SUBSET Chunk
        /\ x \in A \cup s
    BY <2>2, <2>6
  <2>8. Total(Weight, A \cup s) = Weight[x] + Total(Weight, A \cup t)
    <3> DEFINE X == A \cup s
    <3>1. X \in SUBSET Chunk /\ IsFiniteSet(X) /\ x \in X
      BY <1>2, <2>2, <2>7
    <3> HIDE DEF X
    <3>2. Total(Weight, X) = Weight[x] + Total(Weight, X \ {x})
      BY <1>1, <3>1, TotalFacts
    <3> QED
      BY <2>7, <3>2 DEF X
  <2>9. /\ Total(Weight, s) = Weight[x] + Total(Weight, t)
        /\ Total(Weight, s) \in Int
    BY <1>1, <1>2, <2>2, <2>7, TotalFacts
  <2>10. Total(Weight, A \cup t) = Total(Weight, A) + Total(Weight, t)
    BY <2>3, <2>7
  <2>11. Total(Weight, t) \in Int
    <3>1. IsFiniteSet(t)
      BY <1>2, <2>2, <2>7
    <3> QED
      BY <1>1, <2>7, <3>1, TotalFacts
  <2>12. Weight[x] \in Int
    BY <1>1, <2>2
  <2> HIDE DEF t
  <2> QED
    BY <2>2, <2>4, <2>8, <2>9, <2>10, <2>11, <2>12
<1>4. Total(Weight, A \cup B) = Total(Weight, A) + Total(Weight, B)
  BY <1>3
<1>5. Total(Weight, A) \in Int
  BY <1>1, TotalFacts
<1>6. Total(Weight, B) \in Int
  BY <1>1, TotalFacts
<1> QED
  BY <1>4, <1>5, <1>6

(* A set of addresses has a least one.                                     *)
LEMMA LeastAddress ==
  ASSUME NEW S \in SUBSET Nat, S # {}
  PROVE  \E a \in S : \A x \in S : a <= x
<1>1. PICK a \in S : \A x \in S : ~(<<x, a>> \in OpToRel(<, Nat))
  BY WFMin, NatLessThanWellFounded
<1>2. OpToRel(<, Nat) = {ss \in Nat \X Nat : ss[1] < ss[2]}
  BY DEF OpToRel
<1>3. \A x \in S : ~(x < a)
  <2> TAKE x \in S
  <2>1. x \in Nat /\ a \in Nat
    OBVIOUS
  <2>2. <<x, a>> \notin {ss \in Nat \X Nat : ss[1] < ss[2]}
    BY <1>1, <1>2
  <2> QED
    BY <2>1, <2>2
<1> QED
  BY <1>3

(* A tiling fills everything behind the zone header: the chunks below one  *)
(* chunk, with their headers, fill what lies below it.                     *)
Below(C, a) == {d \in C : d.addr < a}

(* Chunks that leave no gap below an address add up to the distance to it. *)
LEMMA FilledBelow ==
  ASSUME NEW s \in Nat, NEW e \in Nat, NEW C, Tiling(s, e, C)
  PROVE  \A c \in C : Total(Weight, Below(C, c.addr)) = c.addr - s - ZONE_HEADER_SIZE
<1> DEFINE Bad == {c \in C : Total(Weight, Below(C, c.addr))
                               # c.addr - s - ZONE_HEADER_SIZE}
<1> SUFFICES ASSUME Bad # {}
             PROVE  FALSE
  OBVIOUS
<1>1. C \subseteq Chunk /\ IsFiniteSet(C) /\ Weight \in [Chunk -> Int]
  BY TilingFinite, SizesFacts DEF Tiling, Weight, Chunk
<1>2. /\ \A c \in C : /\ c.addr \in Nat /\ c.data_size \in Nat
                      /\ s + ZONE_HEADER_SIZE <= c.addr
                      /\ block_end(c) = c.addr + HEADER_SIZE + c.data_size
                      /\ block_end(c) \in Nat
                      /\ c.addr < block_end(c)
                      /\ block_end(c) <= e
      /\ \A c, d \in C : c # d => block_end(c) <= d.addr \/ block_end(d) <= c.addr
  BY <1>1, SizesFacts DEF Tiling, Chunk, block_end
<1>3. PICK c \in Bad : \A d \in Bad : c.addr <= d.addr
  <2> DEFINE At == {x.addr : x \in Bad}
  <2>1. At \in SUBSET Nat /\ At # {}
    BY <1>2
  <2> HIDE DEF At
  <2>2. PICK a \in At : \A x \in At : a <= x
    BY <2>1, LeastAddress
  <2> QED
    BY <2>2 DEF At
<1>4. c \in C /\ Total(Weight, Below(C, c.addr)) # c.addr - s - ZONE_HEADER_SIZE
  OBVIOUS
<1>5. \A d \in C : d.addr < c.addr =>
        Total(Weight, Below(C, d.addr)) = d.addr - s - ZONE_HEADER_SIZE
  BY <1>2, <1>3
<1> HIDE DEF Bad
<1>6. CASE Below(C, c.addr) = {}
  <2>1. c.addr = s + ZONE_HEADER_SIZE
    <3>1. PICK d \in C : d.addr = s + ZONE_HEADER_SIZE
      BY DEF Tiling
    <3>2. ~(d.addr < c.addr)
      BY <1>6 DEF Below
    <3> QED
      BY <1>2, <1>4, <3>1, <3>2, SizesFacts
  <2>2. Total(Weight, {}) = 0
    BY <1>1, TotalFacts, FS_EmptySet
  <2> QED
    BY <1>2, <1>4, <1>6, <2>1, <2>2, SizesFacts
<1>7. CASE Below(C, c.addr) # {}
  <2>1. PICK p \in C : /\ p.addr < c.addr
                       /\ \A d \in C : d.addr < c.addr => d.addr <= p.addr
    <3> DEFINE At == {c.addr - x.addr : x \in Below(C, c.addr)}
    <3>1. At \in SUBSET Nat /\ At # {}
      BY <1>2, <1>4, <1>7 DEF Below
    <3> HIDE DEF At
    <3>2. PICK a \in At : \A x \in At : a <= x
      BY <3>1, LeastAddress
    <3>3. PICK p \in Below(C, c.addr) : a = c.addr - p.addr
      BY DEF At
    <3>4. \A d \in Below(C, c.addr) : c.addr - p.addr <= c.addr - d.addr
      BY <3>2, <3>3 DEF At
    <3> QED
      BY <1>2, <1>4, <3>3, <3>4 DEF Below
  <2>2. p # c
    BY <1>2, <2>1
  <2>3. block_end(p) <= c.addr
    BY <1>2, <1>4, <2>1, <2>2
  <2>4. block_end(p) = c.addr
    <3>1. block_end(p) = e \/ \E d \in C : d.addr = block_end(p)
      BY DEF Tiling
    <3>2. block_end(p) # e
      BY <1>2, <1>4, <2>3
    <3>3. PICK d \in C : d.addr = block_end(p)
      BY <3>1, <3>2
    <3>4. ~(d.addr < c.addr)
      BY <1>2, <2>1, <3>3
    <3> QED
      BY <1>2, <1>4, <2>3, <3>3, <3>4
  <2> DEFINE B == Below(C, c.addr)
             A == Below(C, p.addr)
  <2>5. p \in B /\ B \ {p} = A
    <3>1. p \in B
      BY <2>1 DEF Below
    <3>2. ASSUME NEW d \in B, d # p
          PROVE  d \in A
      <4>1. d \in C /\ d.addr < c.addr
        BY <3>2 DEF Below
      <4>2. block_end(d) <= p.addr \/ block_end(p) <= d.addr
        BY <1>2, <3>2, <4>1
      <4>3. block_end(d) <= p.addr
        BY <1>2, <1>4, <2>4, <4>1, <4>2
      <4> QED
        BY <1>2, <4>1, <4>3 DEF Below
    <3>3. ASSUME NEW d \in A
          PROVE  d \in B /\ d # p
      BY <1>2, <1>4, <2>1, <3>3 DEF Below
    <3> QED
      BY <3>1, <3>2, <3>3
  <2>6. B \in SUBSET Chunk /\ IsFiniteSet(B)
    <3>1. B \subseteq C
      BY DEF Below
    <3> QED
      BY <1>1, <3>1, FS_Subset
  <2>7. Total(Weight, A) = p.addr - s - ZONE_HEADER_SIZE
    BY <1>5, <2>1
  <2> HIDE DEF A, B
  <2>8. /\ Total(Weight, B) \in Int
        /\ Total(Weight, A) = Total(Weight, B) - (HEADER_SIZE + p.data_size)
    BY <2>5, <2>6, CountedWithout
  <2>9. c.addr = p.addr + HEADER_SIZE + p.data_size
    BY <1>2, <2>4
  <2>10. Total(Weight, B) = c.addr - s - ZONE_HEADER_SIZE
    BY <1>2, <1>4, <2>7, <2>8, <2>9, SizesFacts
  <2> QED
    BY <1>4, <2>10 DEF B
<1> QED
  BY <1>6, <1>7

(* All of them fill the zone.                                              *)
LEMMA FilledWhole ==
  ASSUME NEW s \in Nat, NEW e \in Nat, NEW C, Tiling(s, e, C)
  PROVE  Total(Weight, C) = e - s - ZONE_HEADER_SIZE
<1>1. C \subseteq Chunk /\ IsFiniteSet(C)
  BY TilingFinite DEF Tiling
<1>2. /\ \A c \in C : /\ c.addr \in Nat /\ c.data_size \in Nat
                      /\ s + ZONE_HEADER_SIZE <= c.addr
                      /\ block_end(c) = c.addr + HEADER_SIZE + c.data_size
                      /\ block_end(c) \in Nat
                      /\ c.addr < block_end(c)
                      /\ block_end(c) <= e
      /\ \A c, d \in C : c # d => block_end(c) <= d.addr \/ block_end(d) <= c.addr
  BY <1>1, SizesFacts DEF Tiling, Chunk, block_end
<1>3. PICK p \in C : \A d \in C : d.addr <= p.addr
  <2> DEFINE At == {e - x.addr : x \in C}
  <2>1. At \in SUBSET Nat
    BY <1>2
  <2>2. At # {}
    BY DEF Tiling
  <2> HIDE DEF At
  <2>3. PICK a \in At : \A x \in At : a <= x
    BY <2>1, <2>2, LeastAddress
  <2>4. PICK p \in C : a = e - p.addr
    BY DEF At
  <2>5. \A d \in C : e - p.addr <= e - d.addr
    BY <2>3, <2>4 DEF At
  <2> QED
    BY <1>2, <2>4, <2>5
<1>4. block_end(p) = e
  <2>1. block_end(p) = e \/ \E d \in C : d.addr = block_end(p)
    BY DEF Tiling
  <2> QED
    BY <1>2, <1>3, <2>1
<1> DEFINE A == Below(C, p.addr)
<1>5. C \ {p} = A
  <2>1. ASSUME NEW d \in C, d # p
        PROVE  d.addr < p.addr
    BY <1>2, <1>3, <2>1
  <2> QED
    BY <1>2, <2>1 DEF Below
<1>6. Total(Weight, A) = p.addr - s - ZONE_HEADER_SIZE
  BY FilledBelow
<1> HIDE DEF A
<1>7. /\ Total(Weight, C) \in Int
      /\ Total(Weight, A) = Total(Weight, C) - (HEADER_SIZE + p.data_size)
  BY <1>1, <1>5, CountedWithout
<1>8. e = p.addr + HEADER_SIZE + p.data_size
  BY <1>2, <1>4
<1> QED
  BY <1>2, <1>6, <1>7, <1>8, SizesFacts

------------------------------------------------------------------------------

(* Max of FiniteSetsExt, which is a CHOOSE, is the greatest element of a   *)
(* bounded set of sizes: the statistic of a zone is a size.                *)
LEMMA MaxOfBounded ==
  ASSUME NEW S \in SUBSET Nat, S # {}, NEW B \in Nat, \A x \in S : x <= B
  PROVE  Max(S) \in S /\ \A x \in S : x <= Max(S)
<1> DEFINE T == {B - x : x \in S}
<1>1. T \in SUBSET Nat
  BY DEF T
<1>2. T # {}
  <2>1. PICK x \in S : TRUE
    OBVIOUS
  <2>2. B - x \in T
    BY <2>1 DEF T
  <2> QED
    BY <2>2
<1>3. PICK t \in T : \A u \in T : ~(<<u, t>> \in OpToRel(<, Nat))
  <2> HIDE DEF T
  <2> QED BY <1>1, <1>2, WFMin, NatLessThanWellFounded
<1>4. \A u \in T : t <= u
  <2>1. OpToRel(<, Nat) = {ss \in Nat \X Nat : ss[1] < ss[2]}
    BY DEF OpToRel
  <2>2. TAKE u \in T
  <2>3. u \in Nat /\ t \in Nat
    BY <1>1
  <2>4. <<u, t>> \notin {ss \in Nat \X Nat : ss[1] < ss[2]}
    BY <1>3, <2>1
  <2>5. ~(u < t)
    BY <2>3, <2>4
  <2> QED
    BY <2>3, <2>5
<1>5. PICK m \in S : t = B - m
  BY DEF T
<1>6. \A x \in S : m >= x
  <2>1. TAKE x \in S
  <2>2. B - x \in T
    BY DEF T
  <2>3. t <= B - x
    BY <1>4, <2>2
  <2>4. m \in Nat /\ x \in Nat /\ t \in Nat
    BY <1>1
  <2> HIDE DEF T
  <2> QED
    BY <1>5, <2>3, <2>4
<1> QED
  BY <1>6 DEF Max

------------------------------------------------------------------------------
(* Tilings: the geometry of the chunks of a zone, blocks and empty spaces  *)
(* alike.                                                                  *)

(* The two parts of a chunk cut behind size bytes of payload, and the      *)
(* chunk that two neighbours make together.                                *)
FrontOf(c, size) == [addr |-> c.addr, data_size |-> size]
RestOf(c, size)  == [addr      |-> c.addr + HEADER_SIZE + size,
                     data_size |-> c.data_size - size - HEADER_SIZE]
Joint(p, q)      == [addr      |-> p.addr,
                     data_size |-> p.data_size + HEADER_SIZE + q.data_size]

(* No other chunk starts inside a chunk.                                   *)
LEMMA NothingInside ==
  ASSUME NEW s \in Nat, NEW e \in Nat, NEW C, Tiling(s, e, C),
         NEW c \in C, NEW d \in C, c # d
  PROVE  ~(c.addr <= d.addr /\ d.addr < block_end(c))
  BY SizesFacts DEF Tiling, Chunk, block_end

(* A chunk that is cut in two is replaced by its two parts.                *)
LEMMA TilingSplit ==
  ASSUME NEW s \in Nat, NEW e \in Nat, NEW C, Tiling(s, e, C), NEW c \in C,
         NEW size \in Nat, size >= ALIGNMENT,
         c.data_size - size >= MIN_SPLIT_SIZE
  PROVE  /\ Tiling(s, e, (C \ {c}) \cup {FrontOf(c, size), RestOf(c, size)})
         /\ FrontOf(c, size) \notin C /\ RestOf(c, size) \notin C
         /\ FrontOf(c, size) # RestOf(c, size)
<1> DEFINE f == FrontOf(c, size)
           r == RestOf(c, size)
           D == (C \ {c}) \cup {f, r}
<1>1. /\ c \in Chunk /\ f \in Chunk /\ r \in Chunk
      /\ f.addr = c.addr /\ block_end(f) = r.addr /\ block_end(r) = block_end(c)
      /\ f.data_size >= ALIGNMENT /\ r.data_size >= ALIGNMENT
      /\ c.addr < r.addr /\ r.addr < block_end(c)
      /\ f.data_size < c.data_size
  BY SizesFacts DEF Tiling, Chunk, block_end, FrontOf, RestOf
<1>2. \A d \in C \ {c} : /\ d \in Chunk
                         /\ \/ block_end(d) <= f.addr
                            \/ block_end(c) <= d.addr
  BY <1>1 DEF Tiling
<1>3. f \notin C /\ r \notin C /\ f # r
  <2>1. f # c /\ r # c /\ f # r
    BY <1>1 DEF Chunk
  <2>2. f \notin C \ {c} /\ r \notin C \ {c}
    BY <1>1, <1>2, SizesFacts DEF Chunk, block_end
  <2> QED
    BY <2>1, <2>2
<1>4. Tiling(s, e, D)
  <2>1. D \subseteq Chunk
    BY <1>1, <1>2
  <2>2. \A d \in D : /\ s + ZONE_HEADER_SIZE <= d.addr
                     /\ block_end(d) <= e
                     /\ d.data_size >= ALIGNMENT
    BY <1>1, SizesFacts DEF Tiling, Chunk, block_end
  <2>3. \A x, y \in D :
          x # y => block_end(x) <= y.addr \/ block_end(y) <= x.addr
    <3> SUFFICES ASSUME NEW x \in D, NEW y \in D, x # y
                 PROVE  block_end(x) <= y.addr \/ block_end(y) <= x.addr
      OBVIOUS
    <3>1. CASE x \in C \ {c} /\ y \in C \ {c}
      BY <3>1 DEF Tiling
    <3>2. CASE x \in {f, r} /\ y \in {f, r}
      BY <3>2, <1>1 DEF Chunk
    <3>3. CASE x \in C \ {c} /\ y \in {f, r}
      BY <3>3, <1>1, <1>2, SizesFacts DEF Chunk, block_end
    <3>4. CASE x \in {f, r} /\ y \in C \ {c}
      BY <3>4, <1>1, <1>2, SizesFacts DEF Chunk, block_end
    <3> QED
      BY <3>1, <3>2, <3>3, <3>4
  <2>4. \E d \in D : d.addr = s + ZONE_HEADER_SIZE
    BY <1>1 DEF Tiling
  <2>5. \A d \in D : block_end(d) = e \/ \E x \in D : x.addr = block_end(d)
    <3>1. \A d \in C : block_end(d) = e \/ \E x \in D : x.addr = block_end(d)
      BY <1>1 DEF Tiling
    <3> QED
      BY <3>1, <1>1
  <2> QED
    BY <2>1, <2>2, <2>3, <2>4, <2>5 DEF Tiling
<1> QED
  BY <1>3, <1>4

(* Two neighbours are replaced by the chunk they make together.            *)
LEMMA TilingJoin ==
  ASSUME NEW s \in Nat, NEW e \in Nat, NEW C, Tiling(s, e, C),
         NEW p \in C, NEW q \in C, block_end(p) = q.addr
  PROVE  /\ Tiling(s, e, (C \ {p, q}) \cup {Joint(p, q)})
         /\ Joint(p, q) \notin C
<1> DEFINE j == Joint(p, q)
           D == (C \ {p, q}) \cup {j}
<1>1. /\ p \in Chunk /\ q \in Chunk /\ j \in Chunk
      /\ j.addr = p.addr /\ block_end(j) = block_end(q)
      /\ j.data_size >= ALIGNMENT /\ j.data_size > p.data_size
      /\ p.addr < q.addr /\ q.addr < block_end(q)
  BY SizesFacts DEF Tiling, Chunk, block_end, Joint
<1>2. \A d \in C \ {p, q} : /\ d \in Chunk
                            /\ d.addr < block_end(d)
                            /\ block_end(d) <= j.addr \/ block_end(j) <= d.addr
  <2> SUFFICES ASSUME NEW d \in C \ {p, q}
               PROVE  /\ d \in Chunk
                      /\ d.addr < block_end(d)
                      /\ block_end(d) <= j.addr \/ block_end(j) <= d.addr
    OBVIOUS
  <2>1. d \in Chunk /\ d.addr < block_end(d)
    BY SizesFacts DEF Tiling, Chunk, block_end
  <2>2. block_end(d) <= p.addr \/ q.addr <= d.addr
    BY DEF Tiling
  <2>3. block_end(d) <= q.addr \/ block_end(q) <= d.addr
    BY DEF Tiling
  <2>4. block_end(q) \in Nat /\ block_end(d) \in Nat /\ d.addr \in Nat /\ q.addr \in Nat
    BY <1>1, <2>1, SizesFacts DEF Chunk, block_end
  <2> QED
    BY <1>1, <2>1, <2>2, <2>3, <2>4
<1>3. j \notin C
  <2>1. j # p
    BY <1>1 DEF Chunk
  <2>2. j # q
    BY <1>1 DEF Chunk
  <2>3. j \notin C \ {p, q}
    BY <1>1, <1>2, SizesFacts DEF Chunk, block_end
  <2> QED
    BY <2>1, <2>2, <2>3
<1>4. Tiling(s, e, D)
  <2>1. D \subseteq Chunk
    <3>1. C \subseteq Chunk
      BY DEF Tiling
    <3> QED
      BY <1>1, <3>1
  <2>2. \A d \in D : /\ s + ZONE_HEADER_SIZE <= d.addr
                     /\ block_end(d) <= e
                     /\ d.data_size >= ALIGNMENT
    BY <1>1 DEF Tiling
  <2>3. \A x, y \in D :
          x # y => block_end(x) <= y.addr \/ block_end(y) <= x.addr
    BY <1>2 DEF Tiling
  <2>4. \E d \in D : d.addr = s + ZONE_HEADER_SIZE
    <3>1. PICK c \in C : c.addr = s + ZONE_HEADER_SIZE
      BY DEF Tiling
    <3>2. c # q
      BY <1>1, <3>1, SizesFacts DEF Tiling, Chunk
    <3> QED
      BY <1>1, <3>1, <3>2
  <2>5. \A d \in D : block_end(d) = e \/ \E x \in D : x.addr = block_end(d)
    <3> SUFFICES ASSUME NEW d \in D, block_end(d) # e
                 PROVE  \E x \in D : x.addr = block_end(d)
      OBVIOUS
    <3>1. PICK c \in C : /\ c # p
                         /\ block_end(c) = block_end(d)
                         /\ d # j => c = d
                         /\ d = j => c = q
      BY <1>1, SizesFacts DEF Chunk, block_end
    <3>2. PICK x \in C : x.addr = block_end(c)
      <4>1. block_end(c) = e \/ \E x \in C : x.addr = block_end(c)
        BY DEF Tiling
      <4> QED
        BY <3>1, <4>1
    <3>3. x # q
      <4>1. CASE c = q
        BY <4>1, <1>1, <3>2, SizesFacts DEF Chunk, block_end
      <4>2. CASE c # q
        <5>1. block_end(c) <= p.addr \/ block_end(p) <= c.addr
          <6>1. c # p
            BY <3>1
          <6> QED
            BY <6>1 DEF Tiling
        <5>2. /\ c \in Chunk /\ c.addr < block_end(c)
              /\ block_end(c) \in Nat /\ c.addr \in Nat
          BY SizesFacts DEF Tiling, Chunk, block_end
        <5> QED
          BY <5>1, <5>2, <3>2, <1>1 DEF Chunk
      <4> QED
        BY <4>1, <4>2
    <3>4. CASE x = p
      BY <3>1, <3>2, <3>4, <1>1
    <3>5. CASE x # p
      <4>1. x \in D
        BY <3>3, <3>5
      <4> QED
        BY <3>1, <3>2, <4>1
    <3> QED
      BY <3>4, <3>5
  <2> QED
    BY <2>1, <2>2, <2>3, <2>4, <2>5 DEF Tiling
<1> QED
  BY <1>3, <1>4

(* From the start of first to the end of last, as one chunk.               *)
Span(first, last) == [addr      |-> first.addr,
                      data_size |-> block_end(last) - first.addr - HEADER_SIZE]

(* The span of one chunk is that chunk, of two neighbours their joint.     *)
LEMMA SpanIsJoint ==
  /\ \A c \in Chunk : Span(c, c) = c
  /\ \A p, q \in Chunk : block_end(p) = q.addr => Span(p, q) = Joint(p, q)
  BY SizesFacts DEF Span, Joint, Chunk, block_end

(* A chunk is joined with a neighbour on either side, or on none.          *)
LEMMA TilingJoinAround ==
  ASSUME NEW s \in Nat, NEW e \in Nat, NEW C, Tiling(s, e, C),
         NEW first \in C, NEW n \in C, NEW last \in C,
         first = n \/ block_end(first) = n.addr,
         last = n \/ block_end(n) = last.addr
  PROVE  /\ Tiling(s, e, (C \ {first, n, last}) \cup {Span(first, last)})
         /\ Span(first, last) \in Chunk
         /\ Span(first, last) \in C => Span(first, last) = n
         /\ block_end(Span(first, last)) = block_end(last)
<1>1. C \subseteq Chunk
  BY DEF Tiling
<1>2. CASE first = n /\ last = n
  <2>1. Span(first, last) = n
    BY <1>1, <1>2, SpanIsJoint
  <2>2. (C \ {first, n, last}) \cup {Span(first, last)} = C
    BY <1>2, <2>1
  <2> QED
    BY <1>1, <1>2, <2>1, <2>2
<1>3. CASE first # n /\ last = n
  <2>1. Span(first, last) = Joint(first, n)
    BY <1>1, <1>3, SpanIsJoint
  <2>2. (C \ {first, n, last}) = C \ {first, n}
    BY <1>3
  <2>3. Joint(first, n) \in Chunk /\ block_end(Joint(first, n)) = block_end(n)
    BY <1>1, <1>3, SizesFacts DEF Joint, Chunk, block_end
  <2> QED
    BY <1>3, <2>1, <2>2, <2>3, TilingJoin
<1>4. CASE first = n /\ last # n
  <2>1. Span(first, last) = Joint(n, last)
    BY <1>1, <1>4, SpanIsJoint
  <2>2. (C \ {first, n, last}) = C \ {n, last}
    BY <1>4
  <2>3. Joint(n, last) \in Chunk /\ block_end(Joint(n, last)) = block_end(last)
    BY <1>1, <1>4, SizesFacts DEF Joint, Chunk, block_end
  <2> QED
    BY <1>4, <2>1, <2>2, <2>3, TilingJoin
<1>5. CASE first # n /\ last # n
  <2> DEFINE j == Joint(first, n)
             k == Joint(j, last)
             C1 == (C \ {first, n}) \cup {j}
  <2>1. /\ j \in Chunk /\ k \in Chunk
        /\ block_end(j) = block_end(n) /\ block_end(k) = block_end(last)
        /\ k = Span(first, last)
        /\ first # last
    BY <1>1, <1>5, SizesFacts DEF Joint, Span, Chunk, block_end
  <2>2. Tiling(s, e, C1) /\ j \notin C
    BY <1>5, TilingJoin
  <2>3. Tiling(s, e, (C1 \ {j, last}) \cup {k}) /\ k \notin C1
    <3>1. j \in C1 /\ last \in C1 /\ block_end(j) = last.addr
      BY <1>5, <2>1
    <3> HIDE DEF j, C1
    <3> QED
      BY <3>1, <2>2, TilingJoin
  <2>4. C1 \ {j, last} = C \ {first, n, last}
    BY <2>2
  <2>5. k \notin C
    <3>1. k # first /\ k # n
      BY <1>1, <1>5, SizesFacts DEF Joint, Chunk, block_end
    <3> QED
      BY <2>3, <3>1
  <2> QED
    BY <2>1, <2>3, <2>4, <2>5
<1> QED
  BY <1>2, <1>3, <1>4, <1>5

------------------------------------------------------------------------------
(* Zones.                                                                  *)

Layout(s, e, B, E) == B \cap E = {} /\ Tiling(s, e, B \cup E)
Apart(E) == \A p, q \in E : block_end(p) # q.addr

LaidOut(z) == /\ z \in ZoneRecord
              /\ Layout(z.start, z.end, z.blocks, z.empty_spaces)

(* The counters, in terms of the blocks alone: what an operation does to   *)
(* the empty spaces cannot disturb them.                                   *)
Exact(z) == /\ z.blocks_num = Cardinality(z.blocks)
            /\ z.total_space = z.end - z.start - ZONE_HEADER_SIZE
            /\ z.remaining_space = z.total_space - Total(Weight, z.blocks)

WellFormed(z) == LaidOut(z) /\ Apart(z.empty_spaces) /\ Exact(z)

(* The blocks of a zone are finitely many, and so are its empty spaces.    *)
LEMMA ChunksFinite ==
  ASSUME NEW z, LaidOut(z)
  PROVE  /\ z.blocks \in SUBSET Chunk /\ IsFiniteSet(z.blocks)
         /\ z.empty_spaces \in SUBSET Chunk /\ IsFiniteSet(z.empty_spaces)
<1> DEFINE C == z.blocks \cup z.empty_spaces
<1>1. z.start \in Nat /\ z.end \in Nat /\ Tiling(z.start, z.end, C)
  BY DEF LaidOut, Layout, ZoneRecord
<1>2. C \subseteq Chunk
  BY <1>1 DEF Tiling
<1>3. IsFiniteSet(C)
  <2> HIDE DEF C
  <2> QED
    BY <1>1, TilingFinite
<1>4. z.blocks \subseteq C /\ z.empty_spaces \subseteq C
  OBVIOUS
<1> HIDE DEF C
<1> QED
  BY <1>2, <1>3, <1>4, FS_Subset

(* The bytes that the blocks leave of a zone are those of its empty        *)
(* spaces: with the blocks counted, so is the space that remains.          *)
LEMMA ExactMeans ==
  ASSUME NEW z, LaidOut(z)
  PROVE  Exact(z) <=> Counted(z)
<1> DEFINE B == z.blocks
           E == z.empty_spaces
<1>1. /\ z.start \in Nat /\ z.end \in Nat /\ Tiling(z.start, z.end, B \cup E)
      /\ B \cap E = {}
  BY DEF LaidOut, Layout, ZoneRecord
<1>2. /\ B \in SUBSET Chunk /\ IsFiniteSet(B)
      /\ E \in SUBSET Chunk /\ IsFiniteSet(E)
  BY ChunksFinite
<1>3. Extent(E) = MapThenSumSet(LAMBDA e : HEADER_SIZE + e.data_size, z.empty_spaces)
  BY DEF Extent
<1>4. Counted(z) <=> /\ z.blocks_num = Cardinality(B)
                     /\ z.remaining_space = Extent(E)
                     /\ z.total_space = z.end - z.start - ZONE_HEADER_SIZE
  BY <1>3 DEF Counted
<1>5. Exact(z) <=> /\ z.blocks_num = Cardinality(B)
                   /\ z.total_space = z.end - z.start - ZONE_HEADER_SIZE
                   /\ z.remaining_space = z.total_space - Total(Weight, B)
  BY DEF Exact
<1> HIDE DEF B, E
<1>6. Extent(E) = Total(Weight, E)
  BY <1>2, ExtentIsTotal
<1>7. Total(Weight, B \cup E) = z.end - z.start - ZONE_HEADER_SIZE
  BY <1>1, FilledWhole
<1>8. /\ Total(Weight, B) \in Int /\ Total(Weight, E) \in Int
      /\ Total(Weight, B \cup E) = Total(Weight, B) + Total(Weight, E)
  BY <1>1, <1>2, TotalOfUnion
<1> QED
  BY <1>1, <1>4, <1>5, <1>6, <1>7, <1>8, SizesFacts

(* A zone has lost a block to the empty spaces, ...                        *)
LEMMA ExactWithout ==
  ASSUME NEW z, LaidOut(z), Exact(z), NEW b \in z.blocks,
         NEW w, w.start = z.start, w.end = z.end, w.total_space = z.total_space,
         w.blocks = z.blocks \ {b}, w.blocks_num = z.blocks_num - 1,
         w.remaining_space = z.remaining_space + b.data_size + HEADER_SIZE
  PROVE  Exact(w)
<1>1. z.blocks \in SUBSET Chunk /\ IsFiniteSet(z.blocks)
  BY ChunksFinite
<1>2. z.total_space \in Nat /\ b.data_size \in Nat
  BY <1>1 DEF LaidOut, ZoneRecord, Chunk
<1>3. /\ Cardinality(z.blocks) \in Nat /\ Total(Weight, z.blocks) \in Int
      /\ Cardinality(w.blocks) = Cardinality(z.blocks) - 1
      /\ Total(Weight, w.blocks)
           = Total(Weight, z.blocks) - (HEADER_SIZE + b.data_size)
  BY <1>1, CountedWithout
<1> QED
  BY <1>2, <1>3, SizesFacts DEF Exact

(* ... or has made a block of some of its space, ...                       *)
LEMMA ExactWith ==
  ASSUME NEW z, LaidOut(z), Exact(z), NEW c \in Chunk, c \notin z.blocks,
         NEW w, w.start = z.start, w.end = z.end, w.total_space = z.total_space,
         w.blocks = z.blocks \cup {c}, w.blocks_num = z.blocks_num + 1,
         w.remaining_space = z.remaining_space - (c.data_size + HEADER_SIZE)
  PROVE  Exact(w)
<1>1. z.blocks \in SUBSET Chunk /\ IsFiniteSet(z.blocks)
  BY ChunksFinite
<1>2. z.total_space \in Nat /\ c.data_size \in Nat
  BY DEF LaidOut, ZoneRecord, Chunk
<1>3. /\ Cardinality(z.blocks) \in Nat /\ Total(Weight, z.blocks) \in Int
      /\ Cardinality(w.blocks) = Cardinality(z.blocks) + 1
      /\ Total(Weight, w.blocks)
           = Total(Weight, z.blocks) + HEADER_SIZE + c.data_size
  BY <1>1, CountedWith
<1> QED
  BY <1>2, <1>3, SizesFacts DEF Exact

(* ... or one of its blocks has become another.                            *)
LEMMA ExactReplaced ==
  ASSUME NEW z, LaidOut(z), Exact(z), NEW b \in z.blocks,
         NEW c \in Chunk, c \notin z.blocks,
         NEW w, w.start = z.start, w.end = z.end, w.total_space = z.total_space,
         w.blocks = (z.blocks \ {b}) \cup {c}, w.blocks_num = z.blocks_num,
         w.remaining_space = z.remaining_space + (b.data_size - c.data_size)
  PROVE  Exact(w)
<1>1. z.blocks \in SUBSET Chunk /\ IsFiniteSet(z.blocks)
  BY ChunksFinite
<1>2. z.total_space \in Nat /\ b.data_size \in Nat /\ c.data_size \in Nat
  BY <1>1 DEF LaidOut, ZoneRecord, Chunk
<1> DEFINE A == z.blocks \ {b}
<1>3. /\ Cardinality(z.blocks) \in Nat /\ Total(Weight, z.blocks) \in Int
      /\ IsFiniteSet(A) /\ A \in SUBSET Chunk /\ c \notin A
      /\ Cardinality(A) = Cardinality(z.blocks) - 1
      /\ Total(Weight, A) = Total(Weight, z.blocks) - (HEADER_SIZE + b.data_size)
  BY <1>1, CountedWithout
<1>4. w.blocks = A \cup {c}
  OBVIOUS
<1> HIDE DEF A
<1>5. /\ Cardinality(w.blocks) = Cardinality(A) + 1
      /\ Total(Weight, w.blocks) = Total(Weight, A) + HEADER_SIZE + c.data_size
  <2> DEFINE D == A \cup {c}
  <2>1. /\ Cardinality(D) = Cardinality(A) + 1
        /\ Total(Weight, D) = Total(Weight, A) + HEADER_SIZE + c.data_size
    BY <1>3, CountedWith
  <2>2. w.blocks = D
    BY <1>4
  <2> HIDE DEF D
  <2> QED
    BY <2>1, <2>2
<1> QED
  BY <1>2, <1>3, <1>5, SizesFacts DEF Exact

(* Well formed is what the invariants Tiled, Coalesced and Counted of      *)
(* module Zone say of a zone, with its type.                               *)
LEMMA WellFormedMeans ==
  ASSUME NEW z \in ZoneRecord
  PROVE  WellFormed(z) <=> Tiled(z) /\ Coalesced(z) /\ Counted(z)
<1>1. LaidOut(z) <=> Tiled(z)
  BY DEF LaidOut, Layout, Tiling, Tiled, ChunksInside, ChunksDisjoint,
         NoByteLost, Chunks, ZoneRecord
<1>2. Apart(z.empty_spaces) <=> Coalesced(z)
  BY DEF Apart, Coalesced
<1> QED
  BY <1>1, <1>2, ExactMeans DEF WellFormed

(* Refreshing the statistics moves no chunk.                               *)
LEMMA StatsWellFormed ==
  ASSUME NEW z, WellFormed(z)
  PROVE  WellFormed(update_empty_stats(z))
<1>1. CASE z.empty_spaces = {}
  BY <1>1 DEF update_empty_stats
<1>2. CASE z.empty_spaces # {}
  <2> DEFINE S == {x.data_size : x \in z.empty_spaces}
  <2>1. z \in ZoneRecord /\ z.empty_spaces \subseteq Chunk
    BY DEF WellFormed, LaidOut, ZoneRecord
  <2>2. S \in SUBSET Nat /\ S # {}
    BY <1>2, <2>1 DEF Chunk
  <2>3. \A x \in S : x <= z.end
    BY <2>1, SizesFacts
       DEF WellFormed, LaidOut, Layout, Tiling, Chunk, block_end, ZoneRecord
  <2>4. z.end \in Nat
    BY <2>1 DEF ZoneRecord
  <2>5. Max(S) \in Nat
    <3> HIDE DEF S
    <3> QED
      BY <2>2, <2>3, <2>4, MaxOfBounded
  <2>6. update_empty_stats(z) = [z EXCEPT !.max_free_space_size = Max(S)]
    BY <1>2 DEF update_empty_stats
  <2> HIDE DEF S
  <2> QED
    BY <2>1, <2>5, <2>6 DEF WellFormed, LaidOut, Exact, ZoneRecord
<1> QED
  BY <1>1, <1>2

(* In a tiled zone two empty spaces are joined exactly when they touch: a  *)
(* gap between them holds at least one whole chunk.                        *)
LEMMA JoinedIsTouching ==
  ASSUME NEW s \in Nat, NEW e \in Nat, NEW C, Tiling(s, e, C),
         NEW p \in C, NEW q \in C
  PROVE  Joined(p, q) <=> block_end(p) = q.addr
<1>1. /\ p \in Chunk /\ q \in Chunk
      /\ p.addr \in Nat /\ q.addr \in Nat /\ block_end(p) \in Nat
      /\ block_end(q) \in Nat /\ block_end(q) <= e
      /\ p.addr < block_end(p) /\ q.addr < block_end(q)
  BY SizesFacts DEF Tiling, Chunk, block_end
<1>2. ASSUME block_end(p) = q.addr
      PROVE  Joined(p, q)
  BY <1>1, <1>2, SizesFacts DEF Joined
<1>3. ASSUME Joined(p, q), block_end(p) # q.addr
      PROVE  FALSE
  <2>1. p # q /\ p.addr < q.addr /\ q.addr - block_end(p) < MIN_SPLIT_SIZE
    BY <1>1, <1>3 DEF Joined
  <2>2. block_end(p) <= q.addr \/ block_end(q) <= p.addr
    BY <2>1 DEF Tiling
  <2>3. block_end(p) < q.addr
    BY <1>1, <1>3, <2>1, <2>2
  <2>4. block_end(p) = e \/ \E d \in C : d.addr = block_end(p)
    BY DEF Tiling
  <2>5. PICK d \in C : d.addr = block_end(p)
    BY <1>1, <2>3, <2>4
  <2>6. d # q
    BY <2>3, <2>5, <1>1
  <2>7. block_end(d) <= q.addr \/ block_end(q) <= d.addr
    BY <2>6 DEF Tiling
  <2>8. /\ d.addr \in Nat /\ block_end(d) \in Nat
        /\ block_end(d) >= d.addr + MIN_SPLIT_SIZE
    BY SizesFacts DEF Tiling, Chunk, block_end
  <2> QED
    BY <1>1, <2>1, <2>3, <2>5, <2>7, <2>8, SizesFacts
<1> QED
  BY <1>2, <1>3

(* A chunk has at most one neighbour on each side.                         *)
LEMMA OneNeighbour ==
  ASSUME NEW s \in Nat, NEW e \in Nat, NEW C, Tiling(s, e, C),
         NEW p \in C, NEW q \in C
  PROVE  /\ p.addr = q.addr => p = q
         /\ block_end(p) = block_end(q) => p = q
         /\ block_end(p) # p.addr
<1>1. /\ p.addr \in Nat /\ q.addr \in Nat
      /\ block_end(p) \in Nat /\ block_end(q) \in Nat
      /\ p.addr < block_end(p) /\ q.addr < block_end(q)
  BY SizesFacts DEF Tiling, Chunk, block_end
<1>2. p # q => block_end(p) <= q.addr \/ block_end(q) <= p.addr
  BY DEF Tiling
<1> QED
  BY <1>1, <1>2

(* Only one empty space, n, may touch others: then merging gives the zone  *)
(* with n and the spaces it touches made one.                              *)
LEMMA RunsAround ==
  ASSUME NEW s \in Nat, NEW e \in Nat, NEW C, Tiling(s, e, C),
         NEW E \in SUBSET C, NEW n \in E, Apart(E \ {n}),
         NEW first \in E, NEW last \in E,
         \/ first = n /\ \A p \in E : block_end(p) # n.addr
         \/ block_end(first) = n.addr,
         \/ last = n /\ \A q \in E : block_end(n) # q.addr
         \/ block_end(n) = last.addr
  PROVE  Runs(E) = {<<first, last>>} \cup {<<x, x>> : x \in E \ {first, n, last}}
<1> DEFINE G == {first, n, last}
           Touch(p, q) == block_end(p) = q.addr
<1>1. \A p, q \in E : Joined(p, q) <=> Touch(p, q)
  BY JoinedIsTouching
<1>2. \A p, q \in E : Touch(p, q) => \/ p = first /\ q = n /\ first # n
                                     \/ p = n /\ q = last /\ last # n
  <2> SUFFICES ASSUME NEW p \in E, NEW q \in E, Touch(p, q)
               PROVE  \/ p = first /\ q = n /\ first # n
                      \/ p = n /\ q = last /\ last # n
    OBVIOUS
  <2>1. p # q
    BY OneNeighbour
  <2>2. p = n \/ q = n
    BY DEF Apart
  <2>3. CASE q = n
    BY <2>1, <2>3, OneNeighbour
  <2>4. CASE p = n
    BY <2>1, <2>4, OneNeighbour
  <2> QED
    BY <2>2, <2>3, <2>4
<1>3. /\ first # n => Touch(first, n)
      /\ last # n => Touch(n, last)
  OBVIOUS
<1>4. \A x \in E : (\A p \in E : ~Joined(p, x)) <=> x = first \/ x \notin G
  <2>1. first = last => first = n
    <3>1. \A c \in {first, n, last} : /\ c.addr \in Nat /\ block_end(c) \in Nat
                                      /\ c.addr < block_end(c)
      BY SizesFacts DEF Tiling, Chunk, block_end
    <3> QED
      BY <3>1
  <2> QED
    BY <1>1, <1>2, <1>3, <2>1
<1>5. \A x \in E : (\A q \in E : ~Joined(x, q)) <=> x = last \/ x \notin G
  <2>1. first = last => first = n
    <3>1. \A c \in {first, n, last} : /\ c.addr \in Nat /\ block_end(c) \in Nat
                                      /\ c.addr < block_end(c)
      BY SizesFacts DEF Tiling, Chunk, block_end
    <3> QED
      BY <3>1
  <2> QED
    BY <1>1, <1>2, <1>3, <2>1
<1>6. \A x \in E : /\ x.addr \in Nat /\ block_end(x) \in Nat
                   /\ x.addr < block_end(x)
  BY SizesFacts DEF Tiling, Chunk, block_end
<1>7. first.addr <= n.addr /\ n.addr <= last.addr
  BY <1>3, <1>6
<1>8. \A x \in E \ G : ~(first.addr <= x.addr /\ x.addr <= last.addr)
  <2> SUFFICES ASSUME NEW x \in E, x \notin G,
                      first.addr <= x.addr, x.addr <= last.addr
               PROVE  FALSE
    OBVIOUS
  <2>1. /\ block_end(first) <= x.addr \/ block_end(x) <= first.addr
        /\ block_end(n) <= x.addr \/ block_end(x) <= n.addr
        /\ block_end(last) <= x.addr \/ block_end(x) <= last.addr
    BY DEF Tiling
  <2>2. block_end(first) = n.addr \/ first = n
    OBVIOUS
  <2>3. block_end(n) = last.addr \/ last = n
    OBVIOUS
  <2> QED
    BY <1>6, <2>1, <2>2, <2>3
<1>9. <<first, last>> \in Runs(E)
  <2>1. \A x \in E : first.addr < x.addr /\ x.addr <= last.addr
                     => \E p \in E : Joined(p, x)
    <3> SUFFICES ASSUME NEW x \in E, first.addr < x.addr, x.addr <= last.addr
                 PROVE  x # first /\ x \in G
      BY <1>4
    <3> QED
      BY <1>6, <1>8
  <2> QED
    BY <1>4, <1>5, <1>6, <1>7, <2>1 DEF Runs
<1>10. \A x \in E \ G : <<x, x>> \in Runs(E)
  BY <1>4, <1>5, <1>6 DEF Runs
<1>11. ASSUME NEW x \in E, NEW y \in E, <<x, y>> \in Runs(E)
       PROVE  \/ x = first /\ y = last
              \/ x = y /\ x \notin G
  <2>1. /\ x = first \/ x \notin G
        /\ y = last \/ y \notin G
        /\ x.addr <= y.addr
        /\ \A z \in E : x.addr < z.addr /\ z.addr <= y.addr
                        => ~(z = first \/ z \notin G)
    BY <1>4, <1>5, <1>11 DEF Runs
  <2>2. x # y => x.addr < y.addr
    BY <1>6, <2>1, OneNeighbour
  <2>3. CASE y \notin G
    BY <1>6, <2>1, <2>2, <2>3
  <2>4. CASE y = last /\ x \notin G
    <3>1. x.addr < first.addr
      BY <1>6, <1>8, <2>1, <2>4
    <3> QED
      BY <1>6, <1>7, <2>1, <2>4, <3>1
  <2> QED
    BY <2>1, <2>3, <2>4
<1>12. Runs(E) \subseteq E \X E
  BY DEF Runs
<1> QED
  BY <1>9, <1>10, <1>11, <1>12

(* merge_empty_spaces makes a zone well formed again in which one empty    *)
(* space n has appeared among spaces that do not touch.                    *)
LEMMA MergeWellFormed ==
  ASSUME NEW z, LaidOut(z), Exact(z),
         NEW n \in z.empty_spaces, Apart(z.empty_spaces \ {n})
  PROVE  WellFormed(merge_empty_spaces(z))
<1> DEFINE s == z.start
           e == z.end
           B == z.blocks
           E == z.empty_spaces
           C == B \cup E
<1>1. /\ z \in ZoneRecord /\ s \in Nat /\ e \in Nat
      /\ B \subseteq Chunk /\ E \subseteq Chunk
      /\ B \cap E = {} /\ Tiling(s, e, C)
  BY DEF LaidOut, Layout, ZoneRecord
<1>2. PICK first \in E : \/ first = n /\ \A p \in E : block_end(p) # n.addr
                         \/ block_end(first) = n.addr
  OBVIOUS
<1>3. PICK last \in E : \/ last = n /\ \A q \in E : block_end(n) # q.addr
                        \/ block_end(n) = last.addr
  OBVIOUS
<1> DEFINE G == {first, n, last}
           j == Span(first, last)
           D == {j} \cup (E \ G)
           w == [z EXCEPT !.empty_spaces = D]
<1>4. Runs(E) = {<<first, last>>} \cup {<<x, x>> : x \in E \ G}
  <2> HIDE DEF E, C, s, e, B
  <2>1. n \in E /\ E \in SUBSET C /\ Apart(E \ {n})
    BY DEF E, C
  <2> QED
    BY <1>1, <1>2, <1>3, <2>1, RunsAround
<1>5. D = {Span(r[1], r[2]) : r \in Runs(E)}
  <2>1. {Span(r[1], r[2]) : r \in Runs(E)} =
          {Span(first, last)} \cup {Span(x, x) : x \in E \ G}
    <3>1. \A r \in Runs(E) : \/ r = <<first, last>>
                            \/ \E x \in E \ G : r = <<x, x>>
      BY <1>4
    <3>2. \A r \in Runs(E) : \/ Span(r[1], r[2]) = Span(first, last)
                            \/ \E x \in E \ G : Span(r[1], r[2]) = Span(x, x)
      BY <3>1
    <3>3. <<first, last>> \in Runs(E) /\ \A x \in E \ G : <<x, x>> \in Runs(E)
      BY <1>4
    <3>4. Span(first, last) \in {Span(r[1], r[2]) : r \in Runs(E)}
      BY <3>3
    <3>5. ASSUME NEW x \in E \ G
          PROVE  Span(x, x) \in {Span(r[1], r[2]) : r \in Runs(E)}
      <4>1. <<x, x>> \in Runs(E)
        BY <3>3
      <4>2. <<x, x>>[1] = x /\ <<x, x>>[2] = x
        OBVIOUS
      <4> QED
        BY <4>1, <4>2
    <3> QED
      BY <3>2, <3>4, <3>5
  <2>2. {Span(x, x) : x \in E \ G} = E \ G
    BY <1>1, SpanIsJoint
  <2> QED
    BY <2>1, <2>2
<1>6. merge_empty_spaces(z) = update_empty_stats(w)
  BY <1>5 DEF merge_empty_spaces, Span
<1>7. /\ Tiling(s, e, (C \ G) \cup {j})
      /\ j \in Chunk
      /\ j \in C => j = n
      /\ block_end(j) = block_end(last) /\ j.addr = first.addr
  <2>1. j.addr = first.addr
    BY DEF Span
  <2>2. first \in C /\ n \in C /\ last \in C
    OBVIOUS
  <2>3. /\ first = n \/ block_end(first) = n.addr
        /\ last = n \/ block_end(n) = last.addr
    BY <1>2, <1>3
  <2> HIDE DEF E, C, s, e, B, G, j, D, w
  <2>4. s \in Nat /\ e \in Nat /\ Tiling(s, e, C)
    BY <1>1
  <2>5. /\ Tiling(s, e, (C \ {first, n, last}) \cup {Span(first, last)})
        /\ Span(first, last) \in Chunk
        /\ Span(first, last) \in C => Span(first, last) = n
        /\ block_end(Span(first, last)) = block_end(last)
    <3> DEFINE around == \A S, f, l :
                 /\ Tiling(s, e, S) /\ f \in S /\ n \in S /\ l \in S
                 /\ f = n \/ block_end(f) = n.addr
                 /\ l = n \/ block_end(n) = l.addr
                 => /\ Tiling(s, e, (S \ {f, n, l}) \cup {Span(f, l)})
                    /\ Span(f, l) \in Chunk
                    /\ Span(f, l) \in S => Span(f, l) = n
                    /\ block_end(Span(f, l)) = block_end(l)
    <3>1. around
      BY <2>4, TilingJoinAround
    <3> QED
      BY <2>2, <2>3, <2>4, <3>1
  <2> QED
    BY <2>1, <2>5 DEF G, j
<1>8. B \cap D = {} /\ B \cup D = (C \ G) \cup {j}
  <2>1. j \notin B
    BY <1>1, <1>7
  <2>2. G \cap B = {}
    BY <1>1
  <2> HIDE DEF j, G
  <2> QED
    BY <1>1, <2>1, <2>2
<1>9. w \in ZoneRecord /\ LaidOut(w)
  <2>1. D \subseteq Chunk
    BY <1>1, <1>7
  <2> HIDE DEF D
  <2>2. w \in ZoneRecord
    BY <1>1, <2>1 DEF ZoneRecord
  <2>3. w.start = s /\ w.end = e /\ w.blocks = B /\ w.empty_spaces = D
    BY <1>1 DEF ZoneRecord
  <2> QED
    BY <1>7, <1>8, <2>2, <2>3 DEF LaidOut, Layout
<1>10. Apart(D)
  <2> SUFFICES ASSUME NEW p \in D, NEW q \in D, block_end(p) = q.addr
               PROVE  FALSE
    BY DEF Apart
  <2>1. p # q
    BY <1>1, <1>7, <1>8, OneNeighbour
  <2>2. CASE p # j /\ q # j
    BY <2>2 DEF Apart
  <2>3. CASE p = j /\ q # j
    <3>1. block_end(last) = q.addr /\ q \in E \ G
      BY <1>7, <2>3
    <3>2. last = n
      BY <3>1 DEF Apart
    <3> QED
      BY <1>1, <1>3, <3>1, <3>2, OneNeighbour
  <2>4. CASE q = j /\ p # j
    <3>1. block_end(p) = first.addr /\ p \in E \ G
      BY <1>7, <2>4
    <3>2. first = n
      BY <3>1 DEF Apart
    <3> QED
      BY <1>1, <1>2, <3>1, <3>2, OneNeighbour
  <2> QED
    BY <2>1, <2>2, <2>3, <2>4
<1>11. WellFormed(w)
  <2>1. w.empty_spaces = D
    BY <1>1 DEF ZoneRecord
  <2> HIDE DEF D
  <2>2. Exact(w)
    BY <1>1 DEF ZoneRecord, Exact
  <2> HIDE DEF w
  <2> QED
    BY <1>9, <1>10, <2>1, <2>2 DEF WellFormed
<1> QED
  BY <1>6, <1>11, StatsWellFormed

------------------------------------------------------------------------------
(* The operations on a zone keep it well formed.                           *)

(* A fresh zone is one empty space.                                        *)
LEMMA InitWellFormed ==
  ASSUME NEW start \in Nat, NEW type \in ZoneTypes, NEW zone_size \in Nat,
         zone_size >= ZONE_HEADER_SIZE + HEADER_SIZE + ALIGNMENT
  PROVE  WellFormed(zone_init(start, type, zone_size))
<1> DEFINE z == zone_init(start, type, zone_size)
           c == [addr      |-> start + ZONE_HEADER_SIZE,
                 data_size |-> zone_size - ZONE_HEADER_SIZE - HEADER_SIZE]
<1>1. z \in ZoneRecord /\ c \in Chunk
  BY SizesFacts DEF zone_init, ZoneRecord, Chunk
<1>2. /\ z.start = start /\ z.end = start + zone_size
      /\ z.blocks = {} /\ z.empty_spaces = {c}
  BY DEF zone_init
<1>3. /\ c.addr = start + ZONE_HEADER_SIZE /\ block_end(c) = start + zone_size
      /\ c.data_size >= ALIGNMENT
  BY SizesFacts DEF block_end
<1>4. Tiling(start, start + zone_size, {c})
  <2> HIDE DEF c
  <2> QED
    BY <1>1, <1>3, SizesFacts DEF Tiling
<1>5. block_end(c) # c.addr
  BY SizesFacts DEF block_end
<1> HIDE DEF z, c
<1>6. Layout(z.start, z.end, z.blocks, z.empty_spaces)
  BY <1>2, <1>4 DEF Layout
<1>7. Exact(z)
  <2>1. Weight \in [Chunk -> Int]
    BY SizesFacts DEF Weight, Chunk
  <2>2. Total(Weight, {}) = 0 /\ Cardinality({}) = 0
    BY <2>1, TotalFacts, FS_EmptySet
  <2>3. /\ z.blocks_num = 0 /\ z.remaining_space = zone_size - ZONE_HEADER_SIZE
        /\ z.total_space = zone_size - ZONE_HEADER_SIZE
    BY DEF z, zone_init
  <2> QED
    BY <1>2, <2>2, <2>3, SizesFacts DEF Exact
<1> QED
  BY <1>1, <1>2, <1>5, <1>6, <1>7 DEF WellFormed, LaidOut, Apart, z

(* The zone becomes w by moving one chunk from one list to the other.      *)
LEMMA BlockToEmpty ==
  ASSUME NEW z, LaidOut(z), NEW b \in z.blocks, NEW w \in ZoneRecord,
         w.start = z.start, w.end = z.end, w.blocks = z.blocks \ {b},
         w.empty_spaces = z.empty_spaces \cup {b}
  PROVE  LaidOut(w)
<1>1. /\ w.blocks \cap w.empty_spaces = {}
      /\ w.blocks \cup w.empty_spaces = z.blocks \cup z.empty_spaces
  BY DEF LaidOut, Layout
<1> QED
  BY <1>1 DEF LaidOut, Layout

(* The other way round.                                                    *)
LEMMA EmptyToBlock ==
  ASSUME NEW z, LaidOut(z), NEW x \in z.empty_spaces, NEW w \in ZoneRecord,
         w.start = z.start, w.end = z.end, w.blocks = z.blocks \cup {x},
         w.empty_spaces = z.empty_spaces \ {x}
  PROVE  LaidOut(w)
<1>1. /\ w.blocks \cap w.empty_spaces = {}
      /\ w.blocks \cup w.empty_spaces = z.blocks \cup z.empty_spaces
  BY DEF LaidOut, Layout
<1> QED
  BY <1>1 DEF LaidOut, Layout

(* free: a block becomes an empty space and is merged.                     *)
LEMMA ConvertWellFormed ==
  ASSUME NEW z, WellFormed(z), NEW b \in z.blocks
  PROVE  WellFormed(convert_block_to_empty(z, b))
<1> DEFINE w == [z EXCEPT !.blocks          = @ \ {b},
                          !.blocks_num      = @ - 1,
                          !.remaining_space = @ + b.data_size + HEADER_SIZE,
                          !.empty_spaces    = @ \cup {b}]
<1>1. z \in ZoneRecord /\ LaidOut(z) /\ b \in Chunk /\ b \notin z.empty_spaces
  BY DEF WellFormed, LaidOut, Layout, ZoneRecord
<1>2. /\ w \in ZoneRecord
      /\ w.start = z.start /\ w.end = z.end
      /\ w.blocks = z.blocks \ {b} /\ w.empty_spaces = z.empty_spaces \cup {b}
      /\ w.total_space = z.total_space /\ w.blocks_num = z.blocks_num - 1
      /\ w.remaining_space = z.remaining_space + b.data_size + HEADER_SIZE
  <2>1. /\ z.blocks \ {b} \in SUBSET Chunk
        /\ z.empty_spaces \cup {b} \in SUBSET Chunk
        /\ z.blocks_num - 1 \in Int
        /\ z.remaining_space + b.data_size + HEADER_SIZE \in Int
    BY <1>1, SizesFacts DEF ZoneRecord, Chunk
  <2> QED
    BY <1>1, <2>1 DEF ZoneRecord
<1> HIDE DEF w
<1>3. LaidOut(w)
  BY <1>1, <1>2, BlockToEmpty
<1>4. b \in w.empty_spaces /\ Apart(w.empty_spaces \ {b})
  BY <1>1, <1>2 DEF WellFormed, Apart
<1>5. Exact(w)
  BY <1>1, <1>2, ExactWithout DEF WellFormed
<1>6. WellFormed(merge_empty_spaces(w))
  BY <1>3, <1>4, <1>5, MergeWellFormed
<1> QED
  BY <1>6 DEF w, convert_block_to_empty

(* The zone becomes w by cutting a block in two, the rest of it free.      *)
LEMMA BlockCut ==
  ASSUME NEW z, LaidOut(z), NEW b \in z.blocks,
         NEW size \in Nat, size >= ALIGNMENT,
         b.data_size - size >= MIN_SPLIT_SIZE,
         NEW w, w.start = z.start, w.end = z.end,
         w.blocks = (z.blocks \ {b}) \cup {FrontOf(b, size)},
         w.empty_spaces = z.empty_spaces \cup {RestOf(b, size)}
  PROVE  /\ Layout(w.start, w.end, w.blocks, w.empty_spaces)
         /\ FrontOf(b, size) \in Chunk /\ RestOf(b, size) \in Chunk
         /\ FrontOf(b, size) \notin z.empty_spaces
         /\ RestOf(b, size) \notin z.empty_spaces
         /\ FrontOf(b, size) \notin z.blocks
<1> DEFINE C == z.blocks \cup z.empty_spaces
           f == FrontOf(b, size)
           r == RestOf(b, size)
<1>1. /\ z.start \in Nat /\ z.end \in Nat /\ Tiling(z.start, z.end, C)
      /\ b \in C /\ b \notin z.empty_spaces
      /\ z.blocks \cap z.empty_spaces = {}
  BY DEF LaidOut, Layout, ZoneRecord
<1>2. /\ Tiling(z.start, z.end, (C \ {b}) \cup {f, r})
      /\ f \notin C /\ r \notin C /\ f # r
  <2> HIDE DEF C
  <2> QED
    BY <1>1, TilingSplit
<1>3. /\ w.blocks \cap w.empty_spaces = {}
      /\ w.blocks \cup w.empty_spaces = (C \ {b}) \cup {f, r}
  <2> HIDE DEF f, r
  <2>1. w.blocks = (z.blocks \ {b}) \cup {f} /\ w.empty_spaces = z.empty_spaces \cup {r}
    BY DEF f, r
  <2> QED
    BY <1>1, <1>2, <2>1
<1>4. f \in Chunk /\ r \in Chunk
  BY <1>2 DEF Tiling
<1> QED
  BY <1>2, <1>3, <1>4 DEF Layout

(* realloc: the tail of a block is cut off, or not, and merged.            *)
LEMMA SplitWellFormed ==
  ASSUME NEW z, WellFormed(z), NEW b \in z.blocks,
         NEW size \in Nat, size >= ALIGNMENT
  PROVE  WellFormed(split_block(z, b, size))
<1>1. CASE b.data_size - size < MIN_SPLIT_SIZE
  BY <1>1 DEF split_block
<1>2. CASE ~(b.data_size - size < MIN_SPLIT_SIZE)
  <2> DEFINE f == FrontOf(b, size)
             r == RestOf(b, size)
             w == [z EXCEPT !.blocks          = (@ \ {b}) \cup {f},
                            !.remaining_space = @ + (b.data_size - size),
                            !.empty_spaces    = @ \cup {r}]
  <2>1. /\ z \in ZoneRecord /\ LaidOut(z) /\ b \in Chunk
        /\ b.data_size \in Nat /\ b.data_size - size >= MIN_SPLIT_SIZE
    BY <1>2, SizesFacts DEF WellFormed, LaidOut, ZoneRecord, Chunk
  <2>2. /\ [b EXCEPT !.data_size = size] = f
        /\ [addr      |-> block_end(f),
            data_size |-> (b.data_size - size) - HEADER_SIZE] = r
    BY <2>1, SizesFacts DEF Chunk, FrontOf, RestOf, block_end
  <2>3. split_block(z, b, size) = merge_empty_spaces(w)
    BY <1>2, <2>2 DEF split_block
  <2>4. /\ w.start = z.start /\ w.end = z.end
        /\ w.blocks = (z.blocks \ {b}) \cup {f}
        /\ w.empty_spaces = z.empty_spaces \cup {r}
        /\ w.total_space = z.total_space /\ w.blocks_num = z.blocks_num
        /\ w.remaining_space = z.remaining_space + (b.data_size - size)
    BY <2>1 DEF ZoneRecord
  <2>5. /\ Layout(w.start, w.end, w.blocks, w.empty_spaces)
        /\ f \in Chunk /\ r \in Chunk /\ r \notin z.empty_spaces
        /\ f \notin z.blocks
    <3> HIDE DEF w
    <3> QED
      BY <2>1, <2>4, BlockCut
  <2>6. w \in ZoneRecord
    <3>1. /\ (z.blocks \ {b}) \cup {f} \in SUBSET Chunk
          /\ z.empty_spaces \cup {r} \in SUBSET Chunk
          /\ z.remaining_space + (b.data_size - size) \in Int
      BY <2>1, <2>5 DEF ZoneRecord
    <3> HIDE DEF f, r
    <3> QED
      BY <2>1, <3>1 DEF ZoneRecord
  <2>7. r \in w.empty_spaces /\ Apart(w.empty_spaces \ {r})
    <3>1. w.empty_spaces \ {r} = z.empty_spaces
      BY <2>4, <2>5
    <3> HIDE DEF w, r
    <3> QED
      BY <2>4, <3>1 DEF WellFormed
  <2>8. Exact(w)
    <3>1. f.data_size = size
      BY DEF FrontOf
    <3> HIDE DEF w, f, r
    <3> QED
      BY <2>1, <2>4, <2>5, <3>1, ExactReplaced DEF WellFormed
  <2> HIDE DEF w
  <2> QED
    BY <2>3, <2>5, <2>6, <2>7, <2>8, MergeWellFormed DEF LaidOut
<1> QED
  BY <1>1, <1>2

(* malloc: an empty space is used whole, or its front is.                  *)
LEMMA AllocateWellFormed ==
  ASSUME NEW z, WellFormed(z), NEW size \in Nat, size >= ALIGNMENT,
         NEW x \in find_empty_space(z, size)
  PROVE  WellFormed(allocate_from_empty(z, x, size))
<1>1. /\ z \in ZoneRecord /\ LaidOut(z) /\ x \in z.empty_spaces
      /\ x \in Chunk /\ x.addr \in Nat /\ x.data_size \in Nat
      /\ x.data_size >= size /\ x \notin z.blocks
  BY DEF WellFormed, LaidOut, Layout, ZoneRecord, Chunk, find_empty_space
(* The whole of x as a block, which is how the zone is left when x is not  *)
(* split, and on the way when it is.                                       *)
<1> DEFINE v(rem) == [z EXCEPT !.blocks          = @ \cup {x},
                               !.blocks_num      = @ + 1,
                               !.empty_spaces    = @ \ {x},
                               !.remaining_space = rem]
<1>2. ASSUME NEW rem \in Int
      PROVE  /\ v(rem) \in ZoneRecord
             /\ v(rem).start = z.start /\ v(rem).end = z.end
             /\ v(rem).blocks = z.blocks \cup {x}
             /\ v(rem).empty_spaces = z.empty_spaces \ {x}
             /\ v(rem).total_space = z.total_space
             /\ v(rem).blocks_num = z.blocks_num + 1
             /\ v(rem).remaining_space = rem
             /\ LaidOut(v(rem))
  <2>1. /\ z.blocks \cup {x} \in SUBSET Chunk
        /\ z.empty_spaces \ {x} \in SUBSET Chunk
        /\ z.blocks_num + 1 \in Int
    BY <1>1 DEF ZoneRecord
  <2>2. /\ v(rem) \in ZoneRecord
        /\ v(rem).start = z.start /\ v(rem).end = z.end
        /\ v(rem).blocks = z.blocks \cup {x}
        /\ v(rem).empty_spaces = z.empty_spaces \ {x}
        /\ v(rem).total_space = z.total_space
        /\ v(rem).blocks_num = z.blocks_num + 1
        /\ v(rem).remaining_space = rem
    BY <1>1, <2>1 DEF ZoneRecord
  <2> HIDE DEF v
  <2> QED
    BY <1>1, <2>2, EmptyToBlock
<1>3. CASE x.data_size - size < MIN_SPLIT_SIZE
  <2> DEFINE rem == z.remaining_space - (x.data_size + HEADER_SIZE)
  <2>1. rem \in Int
    BY <1>1, SizesFacts DEF ZoneRecord
  <2>2. allocate_from_empty(z, x, size) = update_empty_stats(v(rem))
    <3>1. ~(x.data_size - size >= MIN_SPLIT_SIZE)
      BY <1>1, <1>3, SizesFacts
    <3>2. [addr |-> x.addr, data_size |-> x.data_size] = x
      BY <1>1 DEF Chunk
    <3>3. (z.empty_spaces \ {x}) \cup {} = z.empty_spaces \ {x}
      OBVIOUS
    <3> QED
      BY <3>1, <3>2, <3>3 DEF allocate_from_empty
  <2> HIDE DEF rem
  <2>3. Apart(v(rem).empty_spaces)
    BY <1>2, <2>1 DEF WellFormed, Apart
  <2> HIDE DEF v
  <2>4. Exact(v(rem))
    BY <1>1, <1>2, <2>1, ExactWith DEF WellFormed, rem
  <2> QED
    BY <1>2, <2>1, <2>2, <2>3, <2>4, StatsWellFormed DEF WellFormed
<1>4. CASE ~(x.data_size - size < MIN_SPLIT_SIZE)
  <2> DEFINE f == FrontOf(x, size)
             r == RestOf(x, size)
             w == [z EXCEPT !.blocks          = @ \cup {f},
                            !.blocks_num      = @ + 1,
                            !.empty_spaces    = (@ \ {x}) \cup {r},
                            !.remaining_space = @ - (size + HEADER_SIZE)]
  <2>1. x.data_size - size >= MIN_SPLIT_SIZE
    BY <1>1, <1>4, SizesFacts
  <2>2. allocate_from_empty(z, x, size) = update_empty_stats(w)
    <3>1. [addr |-> x.addr, data_size |-> size] = f
      BY DEF FrontOf
    <3>2. [addr      |-> block_end(f),
           data_size |-> (x.data_size - size) - HEADER_SIZE] = r
      BY DEF FrontOf, RestOf, block_end
    <3>3. f.data_size = size
      BY DEF FrontOf
    <3> HIDE DEF f, r
    <3> QED
      BY <2>1, <3>1, <3>2, <3>3 DEF allocate_from_empty
  <2>3. /\ w.start = z.start /\ w.end = z.end
        /\ w.blocks = z.blocks \cup {f}
        /\ w.empty_spaces = (z.empty_spaces \ {x}) \cup {r}
        /\ w.total_space = z.total_space /\ w.blocks_num = z.blocks_num + 1
        /\ w.remaining_space = z.remaining_space - (size + HEADER_SIZE)
    BY <1>1 DEF ZoneRecord
  <2>4. /\ Layout(w.start, w.end, w.blocks, w.empty_spaces)
        /\ f \in Chunk /\ r \in Chunk
        /\ f \notin z.empty_spaces \ {x} /\ r \notin z.empty_spaces \ {x}
        /\ f \notin z.blocks
    <3> HIDE DEF v, f, r, w
    <3>1. PICK u \in ZoneRecord :
            /\ LaidOut(u) /\ u.start = z.start /\ u.end = z.end
            /\ u.blocks = z.blocks \cup {x}
            /\ u.empty_spaces = z.empty_spaces \ {x}
      <4>1. 0 \in Int
        OBVIOUS
      <4> QED
        BY <1>2, <4>1
    <3>2. /\ x \in u.blocks /\ w.start = u.start /\ w.end = u.end
          /\ w.blocks = (u.blocks \ {x}) \cup {f}
          /\ w.empty_spaces = u.empty_spaces \cup {r}
      BY <1>1, <2>3, <3>1
    <3>3. /\ Layout(w.start, w.end, w.blocks, w.empty_spaces)
          /\ f \in Chunk /\ r \in Chunk
          /\ f \notin u.empty_spaces /\ r \notin u.empty_spaces
          /\ f \notin u.blocks
      BY <2>1, <3>1, <3>2, BlockCut DEF f, r
    <3> QED
      BY <3>1, <3>3
  <2>5. w \in ZoneRecord
    <3>1. /\ z.blocks \cup {f} \in SUBSET Chunk
          /\ (z.empty_spaces \ {x}) \cup {r} \in SUBSET Chunk
          /\ z.blocks_num + 1 \in Int
          /\ z.remaining_space - (size + HEADER_SIZE) \in Int
      BY <1>1, <2>4, SizesFacts DEF ZoneRecord
    <3> HIDE DEF f, r
    <3> QED
      BY <1>1, <3>1 DEF ZoneRecord
  <2>6. Apart(w.empty_spaces)
    <3> SUFFICES ASSUME NEW p \in w.empty_spaces, NEW q \in w.empty_spaces,
                        block_end(p) = q.addr
                 PROVE  FALSE
      BY DEF Apart
    <3>1. /\ block_end(f) = r.addr /\ block_end(r) = block_end(x)
          /\ block_end(r) # r.addr
      BY <1>1, <2>1, SizesFacts DEF FrontOf, RestOf, block_end
    <3>2. /\ w.start \in Nat /\ w.end \in Nat
          /\ Tiling(w.start, w.end, w.blocks \cup w.empty_spaces)
          /\ w.blocks \cap w.empty_spaces = {}
      BY <2>4, <2>5 DEF Layout, ZoneRecord
    <3>3. f \in w.blocks /\ f \notin w.empty_spaces
      BY <2>3, <3>2
    <3> HIDE DEF w, f
    <3>4. CASE q = r
      <4>1. p = f
        BY <3>1, <3>2, <3>3, <3>4, OneNeighbour
      <4> QED
        BY <3>3, <4>1
    <3>5. CASE q # r /\ p = r
      BY <1>1, <2>3, <3>1, <3>5 DEF WellFormed, Apart
    <3>6. CASE q # r /\ p # r
      BY <2>3, <3>6 DEF WellFormed, Apart
    <3> QED
      BY <3>4, <3>5, <3>6
  <2>7. Exact(w)
    <3>1. f.data_size = size
      BY DEF FrontOf
    <3> HIDE DEF w, f, r
    <3> QED
      BY <1>1, <2>3, <2>4, <3>1, ExactWith DEF WellFormed
  <2> HIDE DEF w
  <2> QED
    BY <2>2, <2>4, <2>5, <2>6, <2>7, StatsWellFormed DEF WellFormed, LaidOut
<1> QED
  BY <1>3, <1>4

(* A block and an empty space that touch become one block ...              *)
LEMMA JoinWellFormed ==
  ASSUME NEW z, WellFormed(z), NEW b \in z.blocks, NEW x \in z.empty_spaces,
         NEW p, NEW q, <<p, q>> \in {<<b, x>>, <<x, b>>}, block_end(p) = q.addr,
         NEW w \in ZoneRecord, w.start = z.start, w.end = z.end,
         w.blocks = (z.blocks \ {b}) \cup {Joint(p, q)},
         w.empty_spaces = z.empty_spaces \ {x},
         w.total_space = z.total_space, w.blocks_num = z.blocks_num,
         w.remaining_space = z.remaining_space - (HEADER_SIZE + x.data_size)
  PROVE  WellFormed(w) /\ Joint(p, q) \notin z.blocks
<1> DEFINE C == z.blocks \cup z.empty_spaces
           j == Joint(p, q)
<1>1. /\ z \in ZoneRecord /\ z.start \in Nat /\ z.end \in Nat
      /\ Tiling(z.start, z.end, C) /\ z.blocks \cap z.empty_spaces = {}
      /\ b \in Chunk /\ x \in Chunk /\ b # x
      /\ p \in C /\ q \in C /\ {p, q} = {b, x} /\ p # q
  BY DEF WellFormed, LaidOut, Layout, ZoneRecord
<1>2. /\ Tiling(z.start, z.end, (C \ {p, q}) \cup {j})
      /\ j \notin C
  <2> HIDE DEF C
  <2> QED
    BY <1>1, TilingJoin
<1> HIDE DEF j
<1>3. LaidOut(w) /\ Apart(w.empty_spaces)
  <2>1. w.blocks = (z.blocks \ {b}) \cup {j}
    BY DEF j
  <2>2. /\ w.blocks \cap w.empty_spaces = {}
        /\ w.blocks \cup w.empty_spaces = (C \ {p, q}) \cup {j}
    BY <1>1, <1>2, <2>1
  <2> QED
    BY <1>2, <2>2 DEF LaidOut, Layout, WellFormed, Apart
<1>4. Exact(w)
  <2>1. w.blocks = (z.blocks \ {b}) \cup {j}
    BY DEF j
  <2>2. j \in Chunk /\ j \notin z.blocks
    BY <1>2 DEF Tiling
  <2>3. /\ j.data_size = b.data_size + HEADER_SIZE + x.data_size
        /\ b.data_size \in Nat /\ x.data_size \in Nat
        /\ z.remaining_space \in Int
    BY <1>1, SizesFacts DEF j, Joint, Chunk, ZoneRecord
  <2>4. w.remaining_space = z.remaining_space + (b.data_size - j.data_size)
    BY <2>3, SizesFacts
  <2> QED
    BY <2>1, <2>2, <2>4, ExactReplaced DEF WellFormed
<1> QED
  BY <1>2, <1>3, <1>4 DEF WellFormed, j

(* The zone in which a block b and a space x beside it have become j.      *)
WithJoint(z, b, x, j) ==
  [z EXCEPT !.blocks          = (@ \ {b}) \cup {j},
            !.empty_spaces    = @ \ {x},
            !.remaining_space = @ - (HEADER_SIZE + x.data_size)]

(* This is a well formed zone.                                             *)
LEMMA WithJointWellFormed ==
  ASSUME NEW z, WellFormed(z), NEW b \in z.blocks, NEW x \in z.empty_spaces,
         NEW p, NEW q, <<p, q>> \in {<<b, x>>, <<x, b>>}, block_end(p) = q.addr
  PROVE  LET j == Joint(p, q)
             w == WithJoint(z, b, x, j)
         IN /\ j \in Chunk /\ j \notin z.blocks
            /\ WellFormed(w)
            /\ w.start = z.start /\ w.end = z.end /\ w.type = z.type
            /\ w.total_space = z.total_space
            /\ w.blocks = (z.blocks \ {b}) \cup {j}
            /\ w.empty_spaces = z.empty_spaces \ {x}
<1> DEFINE j == Joint(p, q)
           w == WithJoint(z, b, x, j)
<1>1. z \in ZoneRecord /\ b \in Chunk /\ x \in Chunk /\ p \in Chunk /\ q \in Chunk
  BY DEF WellFormed, LaidOut, ZoneRecord
<1>2. j \in Chunk
  BY <1>1, SizesFacts DEF Joint, Chunk
<1> HIDE DEF j
<1>3. /\ (z.blocks \ {b}) \cup {j} \in SUBSET Chunk
      /\ z.empty_spaces \ {x} \in SUBSET Chunk
      /\ z.remaining_space - (HEADER_SIZE + x.data_size) \in Int
  BY <1>1, <1>2, SizesFacts DEF ZoneRecord, Chunk
<1>4. /\ w \in ZoneRecord
      /\ w.start = z.start /\ w.end = z.end /\ w.type = z.type
      /\ w.total_space = z.total_space
      /\ w.blocks = (z.blocks \ {b}) \cup {j}
      /\ w.empty_spaces = z.empty_spaces \ {x}
      /\ w.blocks_num = z.blocks_num
      /\ w.remaining_space = z.remaining_space - (HEADER_SIZE + x.data_size)
  BY <1>1, <1>3 DEF ZoneRecord, WithJoint
<1> HIDE DEF w
<1>5. WellFormed(w) /\ j \notin z.blocks
  BY <1>4, JoinWellFormed DEF j
<1> QED
  BY <1>2, <1>4, <1>5 DEF w, j

(* ... and its tail may be cut off again.                                  *)
LEMMA AbsorbWellFormed ==
  ASSUME NEW z, WellFormed(z), NEW b \in z.blocks, NEW x \in z.empty_spaces,
         NEW p, NEW q, <<p, q>> \in {<<b, x>>, <<x, b>>}, block_end(p) = q.addr,
         NEW size \in Nat, size >= ALIGNMENT
  PROVE  WellFormed(Absorb(z, b, x, Joint(p, q), size))
<1> DEFINE j == Joint(p, q)
           w == WithJoint(z, b, x, j)
<1>1. WellFormed(w) /\ j \in w.blocks
  BY WithJointWellFormed
<1>2. Absorb(z, b, x, j, size) =
        IF j.data_size - size >= MIN_SPLIT_SIZE
        THEN split_block(w, j, size)
        ELSE update_empty_stats(w)
  BY DEF Absorb, WithJoint
<1> HIDE DEF w, j
<1>3. WellFormed(split_block(w, j, size)) /\ WellFormed(update_empty_stats(w))
  BY <1>1, SplitWellFormed, StatsWellFormed
<1> QED
  BY <1>2, <1>3 DEF j

(* Extending a block, forward or backward, keeps the zone well formed and  *)
(* hands out a pointer.                                                    *)
LEMMA ExtendWellFormed ==
  ASSUME NEW z, WellFormed(z), NEW b \in z.blocks,
         NEW size \in Nat, size >= ALIGNMENT,
         NEW result \in try_to_extend_block(z, b, size)
  PROVE  WellFormed(result.zone) /\ result.ptr \in Nat
<1>1. b \in Chunk /\ \A x \in z.empty_spaces : x \in Chunk
  BY DEF WellFormed, LaidOut, ZoneRecord
<1>2. CASE result \in extend_block(z, b, size)
  <2>1. PICK x \in z.empty_spaces :
          /\ x.addr = block_end(b)
          /\ result = [zone |-> Absorb(z, b, x,
                         [b EXCEPT !.data_size = available_space(b, x)], size),
                       ptr |-> block_payload(b)]
    BY <1>2 DEF extend_block, find_empty_after
  <2>2. [b EXCEPT !.data_size = available_space(b, x)] = Joint(b, x)
    BY <1>1 DEF Chunk, Joint, available_space
  <2>3. WellFormed(Absorb(z, b, x, Joint(b, x), size))
    BY <2>1, AbsorbWellFormed
  <2> QED
    BY <1>1, <2>1, <2>2, <2>3, SizesFacts DEF Chunk, block_payload
<1>3. CASE result \in extend_block_back(z, b, size)
  <2>1. PICK x \in z.empty_spaces :
          /\ block_end(x) = b.addr
          /\ result = [zone |-> Absorb(z, b, x,
                         [x EXCEPT !.data_size = available_space(b, x)], size),
                       ptr |-> block_payload(x)]
    BY <1>3 DEF extend_block_back, find_empty_before
  <2>2. [x EXCEPT !.data_size = available_space(b, x)] = Joint(x, b)
    BY <1>1, SizesFacts DEF Chunk, Joint, available_space
  <2>3. WellFormed(Absorb(z, b, x, Joint(x, b), size))
    BY <2>1, AbsorbWellFormed
  <2> QED
    BY <1>1, <2>1, <2>2, <2>3, SizesFacts DEF Chunk, block_payload
<1> QED
  BY <1>2, <1>3 DEF try_to_extend_block

------------------------------------------------------------------------------
(* Multiples.                                                              *)

(* Quotient and remainder.                                                 *)
LEMMA Division ==
  ASSUME NEW m \in Nat \ {0}, NEW x \in Int
  PROVE  /\ x \div m \in Int
         /\ x % m \in 0 .. m - 1
         /\ x = m * (x \div m) + (x % m)
<1>1. x \div m \in Int
  OBVIOUS
<1>2. x % m \in 0 .. m - 1
  OBVIOUS
<1>3. x = m * (x \div m) + (x % m)
  OBVIOUS
<1> QED
  BY <1>1, <1>2, <1>3

(* m times anything is a multiple of m.                                    *)
LEMMA ProductIsMultiple ==
  ASSUME NEW m \in Nat \ {0}, NEW q \in Int
  PROVE  (m * q) % m = 0
  OBVIOUS

(* Sums and differences of multiples are multiples.                        *)
LEMMA MultiplesAdd ==
  ASSUME NEW m \in Nat \ {0}, NEW x \in Int, NEW y \in Int, x % m = 0, y % m = 0
  PROVE  (x + y) % m = 0 /\ (x - y) % m = 0
<1> DEFINE p == x \div m
           q == y \div m
<1>1. p \in Int /\ q \in Int /\ x = m * p /\ y = m * q
  BY Division
<1> HIDE DEF p, q
<1>2. (m * (p + q)) % m = 0 /\ (m * (p - q)) % m = 0
  BY <1>1, ProductIsMultiple
<1>3. m * (p + q) = x + y /\ m * (p - q) = x - y
  BY <1>1
<1> QED
  BY <1>2, <1>3

(* A multiple of a multiple of m is a multiple of m.                       *)
LEMMA MultipleOfMultiple ==
  ASSUME NEW m \in Nat \ {0}, NEW k \in Nat \ {0}, NEW x \in Int,
         IsMultiple(k, m), IsMultiple(x, k)
  PROVE  IsMultiple(x, m)
<1> DEFINE p == x \div k
           q == k \div m
<1>1. p \in Int /\ x = k * p
  BY Division DEF IsMultiple
<1>2. q \in Int /\ k = m * q
  BY Division DEF IsMultiple
<1> HIDE DEF p, q
<1>3. (m * (q * p)) % m = 0
  BY <1>1, <1>2, ProductIsMultiple
<1>4. m * (q * p) = x
  BY <1>1, <1>2
<1> QED
  BY <1>3, <1>4 DEF IsMultiple

------------------------------------------------------------------------------
(* What the operations on a zone do beside: its range, its type and its    *)
(* total stay, the blocks change by one, the statistic is refreshed and    *)
(* the chunks stay on the grid of the alignment.                           *)

SameFrame(z, w) == /\ w.start = z.start /\ w.end = z.end
                   /\ w.type = z.type /\ w.total_space = z.total_space

OnGrid(c) == IsMultiple(c.addr, ALIGNMENT) /\ IsMultiple(c.data_size, ALIGNMENT)
AllOnGrid(z) == \A c \in Chunks(z) : OnGrid(c)

(* The statistic promises no more than the largest empty space holds.      *)
Honest(z) ==
  z.empty_spaces # {} =>
    \E e \in z.empty_spaces : z.max_free_space_size <= e.data_size + HEADER_SIZE

(* Sums and differences stay on the grid.                                  *)
LEMMA GridFacts ==
  ASSUME NEW x \in Int, NEW y \in Int,
         IsMultiple(x, ALIGNMENT), IsMultiple(y, ALIGNMENT)
  PROVE  /\ x + y \in Int /\ IsMultiple(x + y, ALIGNMENT)
         /\ x - y \in Int /\ IsMultiple(x - y, ALIGNMENT)
<1>1. ALIGNMENT \in Nat \ {0}
  BY SizesAssumption
<1>2. x % ALIGNMENT = 0 /\ y % ALIGNMENT = 0
  BY DEF IsMultiple
<1>3. (x + y) % ALIGNMENT = 0 /\ (x - y) % ALIGNMENT = 0
  BY <1>1, <1>2, MultiplesAdd
<1> QED
  BY <1>3 DEF IsMultiple

(* The end, the front and the rest of a chunk on the grid are on the grid. *)
LEMMA PartsOnGrid ==
  ASSUME NEW c \in Chunk, OnGrid(c)
  PROVE  /\ block_end(c) \in Int /\ IsMultiple(block_end(c), ALIGNMENT)
         /\ block_payload(c) \in Int /\ IsMultiple(block_payload(c), ALIGNMENT)
         /\ \A size \in Nat : IsMultiple(size, ALIGNMENT)
              => OnGrid(FrontOf(c, size)) /\ OnGrid(RestOf(c, size))
<1>1. /\ c.addr \in Int /\ c.data_size \in Int
      /\ IsMultiple(c.addr, ALIGNMENT) /\ IsMultiple(c.data_size, ALIGNMENT)
      /\ HEADER_SIZE \in Int /\ IsMultiple(HEADER_SIZE, ALIGNMENT)
  BY SizesAssumption DEF Chunk, OnGrid
<1>2. c.addr + HEADER_SIZE \in Int /\ IsMultiple(c.addr + HEADER_SIZE, ALIGNMENT)
  BY <1>1, GridFacts
<1>3. block_end(c) \in Int /\ IsMultiple(block_end(c), ALIGNMENT)
  BY <1>1, <1>2, GridFacts DEF block_end
<1>4. ASSUME NEW size \in Nat, IsMultiple(size, ALIGNMENT)
      PROVE  OnGrid(FrontOf(c, size)) /\ OnGrid(RestOf(c, size))
  <2>0. size \in Int
    OBVIOUS
  <2>1. IsMultiple(c.addr + HEADER_SIZE + size, ALIGNMENT)
    BY <1>2, <1>4, <2>0, GridFacts
  <2>2. c.data_size - size \in Int /\ IsMultiple(c.data_size - size, ALIGNMENT)
    BY <1>1, <1>4, <2>0, GridFacts
  <2>3. IsMultiple(c.data_size - size - HEADER_SIZE, ALIGNMENT)
    BY <1>1, <2>2, GridFacts
  <2> QED
    BY <1>1, <1>4, <2>1, <2>3 DEF OnGrid, FrontOf, RestOf
<1> QED
  BY <1>2, <1>3, <1>4 DEF block_payload

(* What chunks on the grid make together is on the grid.                   *)
LEMMA WholeOnGrid ==
  ASSUME NEW p \in Chunk, NEW q \in Chunk, OnGrid(p), OnGrid(q)
  PROVE  OnGrid(Joint(p, q)) /\ OnGrid(Span(p, q))
<1>1. /\ p.addr \in Int /\ p.data_size \in Int /\ q.data_size \in Int
      /\ IsMultiple(p.addr, ALIGNMENT) /\ IsMultiple(p.data_size, ALIGNMENT)
      /\ IsMultiple(q.data_size, ALIGNMENT)
      /\ HEADER_SIZE \in Int /\ IsMultiple(HEADER_SIZE, ALIGNMENT)
  BY SizesAssumption DEF Chunk, OnGrid
<1>2. block_end(q) \in Int /\ IsMultiple(block_end(q), ALIGNMENT)
  BY PartsOnGrid
<1>3. /\ p.data_size + HEADER_SIZE \in Int
      /\ IsMultiple(p.data_size + HEADER_SIZE, ALIGNMENT)
      /\ block_end(q) - p.addr \in Int
      /\ IsMultiple(block_end(q) - p.addr, ALIGNMENT)
  BY <1>1, <1>2, GridFacts
<1>4. /\ IsMultiple(p.data_size + HEADER_SIZE + q.data_size, ALIGNMENT)
      /\ IsMultiple(block_end(q) - p.addr - HEADER_SIZE, ALIGNMENT)
  BY <1>1, <1>3, GridFacts
<1> QED
  BY <1>1, <1>4 DEF OnGrid, Joint, Span

(* Refreshing the statistics changes nothing else, and makes it honest.    *)
LEMMA StatsEffect ==
  ASSUME NEW z \in ZoneRecord, NEW X,
         NEW w, w = [z EXCEPT !.empty_spaces = X], WellFormed(update_empty_stats(w))
  PROVE  LET u == update_empty_stats(w) IN
         /\ SameFrame(z, u) /\ u.blocks = z.blocks /\ u.empty_spaces = X
         /\ Honest(u)
<1> DEFINE S == {x.data_size : x \in X}
           u == update_empty_stats(w)
<1>1. /\ w.empty_spaces = X /\ w.blocks = z.blocks
      /\ SameFrame(z, w)
  BY DEF ZoneRecord, SameFrame
<1>2. CASE X = {}
  BY <1>1, <1>2 DEF update_empty_stats, Honest
<1>3. CASE X # {}
  <2>1. u = [w EXCEPT !.max_free_space_size = Max(S)]
    BY <1>1, <1>3 DEF update_empty_stats
  <2> HIDE DEF S
  <2>2. /\ SameFrame(z, u) /\ u.blocks = z.blocks /\ u.empty_spaces = X
        /\ u.max_free_space_size = Max(S)
    BY <2>1 DEF ZoneRecord, SameFrame
  <2> HIDE DEF u
  <2>3. u \in ZoneRecord /\ X \subseteq Chunk /\ u.end \in Nat
    BY <2>2 DEF WellFormed, LaidOut, ZoneRecord, u
  <2>4. \A x \in X : x.data_size \in Nat /\ x.data_size <= u.end
    BY <2>2, <2>3, SizesFacts
       DEF WellFormed, LaidOut, Layout, Tiling, Chunk, block_end, u
  <2>5. S \in SUBSET Nat /\ S # {} /\ \A x \in S : x <= u.end
    BY <1>3, <2>4 DEF S
  <2>6. Max(S) \in S
    BY <2>3, <2>5, MaxOfBounded
  <2>7. PICK x \in X : Max(S) = x.data_size
    BY <2>6 DEF S
  <2>8. Max(S) <= x.data_size + HEADER_SIZE
    BY <2>4, <2>7, SizesFacts
  <2>9. Honest(u)
    BY <2>2, <2>8 DEF Honest
  <2> QED
    BY <2>2, <2>9 DEF u
<1> QED
  BY <1>2, <1>3

(* Merging empty spaces touches no block, and leaves the grid alone.       *)
LEMMA MergeEffect ==
  ASSUME NEW z \in ZoneRecord, WellFormed(merge_empty_spaces(z))
  PROVE  LET m == merge_empty_spaces(z) IN
         /\ SameFrame(z, m) /\ m.blocks = z.blocks /\ Honest(m)
         /\ AllOnGrid(z) => AllOnGrid(m)
<1> DEFINE E == z.empty_spaces
           X == {Span(r[1], r[2]) : r \in Runs(E)}
           w == [z EXCEPT !.empty_spaces = X]
           m == merge_empty_spaces(z)
<1>1. m = update_empty_stats(w)
  BY DEF merge_empty_spaces, Span
<1>2. SameFrame(z, m) /\ m.blocks = z.blocks /\ m.empty_spaces = X /\ Honest(m)
  <2>1. w = [z EXCEPT !.empty_spaces = X]
    OBVIOUS
  <2> HIDE DEF X, w
  <2>2. WellFormed(update_empty_stats(w))
    BY <1>1
  <2>3. LET u == update_empty_stats(w) IN
        /\ SameFrame(z, u) /\ u.blocks = z.blocks /\ u.empty_spaces = X
        /\ Honest(u)
    BY <2>1, <2>2, StatsEffect
  <2> QED
    BY <1>1, <2>3
<1>3. ASSUME AllOnGrid(z), NEW c \in X
      PROVE  OnGrid(c)
  <2>1. PICK r \in Runs(E) : c = Span(r[1], r[2])
    OBVIOUS
  <2>2. r[1] \in E /\ r[2] \in E
    BY DEF Runs
  <2>3. /\ r[1] \in Chunk /\ r[2] \in Chunk
        /\ OnGrid(r[1]) /\ OnGrid(r[2])
    BY <1>3, <2>2 DEF ZoneRecord, AllOnGrid, Chunks
  <2> QED
    BY <2>1, <2>3, WholeOnGrid
<1> HIDE DEF X, m
<1>4. AllOnGrid(z) => AllOnGrid(m)
  BY <1>2, <1>3 DEF AllOnGrid, Chunks
<1> QED
  BY <1>2, <1>4 DEF m

(* free: the block is gone.                                                *)
LEMMA ConvertEffect ==
  ASSUME NEW z, WellFormed(z), NEW b \in z.blocks
  PROVE  LET w == convert_block_to_empty(z, b) IN
         /\ SameFrame(z, w) /\ w.blocks = z.blocks \ {b} /\ Honest(w)
         /\ AllOnGrid(z) => AllOnGrid(w)
<1> DEFINE v == [z EXCEPT !.blocks          = @ \ {b},
                          !.blocks_num      = @ - 1,
                          !.remaining_space = @ + b.data_size + HEADER_SIZE,
                          !.empty_spaces    = @ \cup {b}]
           w == convert_block_to_empty(z, b)
<1>1. z \in ZoneRecord /\ b \in Chunk
  BY DEF WellFormed, LaidOut, ZoneRecord
<1>2. /\ z.blocks \ {b} \in SUBSET Chunk
      /\ z.empty_spaces \cup {b} \in SUBSET Chunk
      /\ z.blocks_num - 1 \in Int
      /\ z.remaining_space + b.data_size + HEADER_SIZE \in Int
  BY <1>1, SizesFacts DEF ZoneRecord, Chunk
<1>3. /\ v \in ZoneRecord /\ SameFrame(z, v)
      /\ v.blocks = z.blocks \ {b} /\ v.empty_spaces = z.empty_spaces \cup {b}
  BY <1>1, <1>2 DEF ZoneRecord, SameFrame
<1>4. w = merge_empty_spaces(v) /\ WellFormed(w)
  BY ConvertWellFormed DEF convert_block_to_empty
<1> HIDE DEF v, w
<1>5. /\ SameFrame(v, w) /\ w.blocks = v.blocks /\ Honest(w)
      /\ AllOnGrid(v) => AllOnGrid(w)
  BY <1>3, <1>4, MergeEffect
<1>6. AllOnGrid(z) => AllOnGrid(v)
  BY <1>3 DEF AllOnGrid, Chunks
<1> QED
  BY <1>3, <1>5, <1>6 DEF SameFrame, w

(* A block is as long as the rounded request, or a rest longer that is too *)
(* short to be a chunk.                                                    *)
Snug(c, size) == c.data_size >= size /\ c.data_size - size < MIN_SPLIT_SIZE

(* realloc: a block that is long enough for size is made snug.             *)
LEMMA SplitEffect ==
  ASSUME NEW z, WellFormed(z), NEW b \in z.blocks,
         NEW size \in Nat, size >= ALIGNMENT, b.data_size >= size
  PROVE  LET w == split_block(z, b, size) IN
         /\ SameFrame(z, w)
         /\ \E c \in Chunk : /\ c.addr = b.addr /\ Snug(c, size)
                             /\ w.blocks = (z.blocks \ {b}) \cup {c}
         /\ Honest(z) \/ ~Snug(b, size) => Honest(w)
         /\ AllOnGrid(z) /\ IsMultiple(size, ALIGNMENT) => AllOnGrid(w)
         /\ Snug(b, size) => w = z
<1> DEFINE w == split_block(z, b, size)
           f == FrontOf(b, size)
           r == RestOf(b, size)
<1>1. z \in ZoneRecord /\ LaidOut(z) /\ b \in Chunk
  BY DEF WellFormed, LaidOut, ZoneRecord
<1>2. CASE b.data_size - size < MIN_SPLIT_SIZE
  <2>1. w = z
    BY <1>2 DEF split_block
  <2>2. Snug(b, size) /\ z.blocks = (z.blocks \ {b}) \cup {b}
    BY <1>2 DEF Snug
  <2> QED
    BY <1>1, <2>1, <2>2 DEF SameFrame
<1>3. CASE ~(b.data_size - size < MIN_SPLIT_SIZE)
  <2> DEFINE v == [z EXCEPT !.blocks          = (@ \ {b}) \cup {f},
                            !.remaining_space = @ + (b.data_size - size),
                            !.empty_spaces    = @ \cup {r}]
  <2>1. /\ [b EXCEPT !.data_size = size] = f
        /\ [addr      |-> block_end(f),
            data_size |-> (b.data_size - size) - HEADER_SIZE] = r
        /\ f \in Chunk /\ r \in Chunk /\ f.addr = b.addr
        /\ f.data_size = size
    BY <1>1, <1>3, SizesFacts DEF Chunk, FrontOf, RestOf, block_end
  <2>2. w = merge_empty_spaces(v) /\ WellFormed(w)
    BY <1>3, <2>1, SplitWellFormed DEF split_block
  <2>3. /\ (z.blocks \ {b}) \cup {f} \in SUBSET Chunk
        /\ z.empty_spaces \cup {r} \in SUBSET Chunk
        /\ z.remaining_space + (b.data_size - size) \in Int
    BY <1>1, <2>1 DEF ZoneRecord, Chunk
  <2>4. Snug(f, size)
    BY <2>1, SizesFacts DEF Snug
  <2> HIDE DEF w, f, r
  <2>5. /\ v \in ZoneRecord /\ SameFrame(z, v)
        /\ v.blocks = (z.blocks \ {b}) \cup {f}
        /\ v.empty_spaces = z.empty_spaces \cup {r}
    BY <1>1, <2>3 DEF ZoneRecord, SameFrame
  <2> HIDE DEF v
  <2>6. /\ SameFrame(v, w) /\ w.blocks = v.blocks /\ Honest(w)
        /\ AllOnGrid(v) => AllOnGrid(w)
    BY <2>2, <2>5, MergeEffect
  <2>7. AllOnGrid(z) /\ IsMultiple(size, ALIGNMENT) => AllOnGrid(v)
    <3>1. AllOnGrid(z) /\ IsMultiple(size, ALIGNMENT) => OnGrid(f) /\ OnGrid(r)
      BY <1>1, PartsOnGrid DEF AllOnGrid, Chunks, f, r
    <3> QED
      BY <2>5, <3>1 DEF AllOnGrid, Chunks
  <2>8. ~Snug(b, size)
    BY <1>3 DEF Snug
  <2>9. SameFrame(z, w) /\ w.blocks = (z.blocks \ {b}) \cup {f}
    BY <2>5, <2>6 DEF SameFrame
  <2> QED
    BY <2>1, <2>4, <2>6, <2>7, <2>8, <2>9 DEF w
<1> QED
  BY <1>2, <1>3

(* malloc: the front of an empty space becomes a snug block.               *)
LEMMA AllocateEffect ==
  ASSUME NEW z, WellFormed(z), NEW size \in Nat, size >= ALIGNMENT,
         NEW x \in find_empty_space(z, size)
  PROVE  LET w == allocate_from_empty(z, x, size) IN
         /\ SameFrame(z, w)
         /\ \E c \in Chunk : /\ c.addr = x.addr /\ Snug(c, size)
                             /\ w.blocks = z.blocks \cup {c}
         /\ Honest(w)
         /\ AllOnGrid(z) /\ IsMultiple(size, ALIGNMENT) => AllOnGrid(w)
<1> DEFINE w == allocate_from_empty(z, x, size)
           splits == x.data_size - size >= MIN_SPLIT_SIZE
           c == [addr |-> x.addr,
                 data_size |-> IF splits THEN size ELSE x.data_size]
           n == [addr |-> block_end(c),
                 data_size |-> (x.data_size - size) - HEADER_SIZE]
           B == z.blocks \cup {c}
           X == (z.empty_spaces \ {x}) \cup (IF splits THEN {n} ELSE {})
           rem == z.remaining_space - (c.data_size + HEADER_SIZE)
           v == [z EXCEPT !.blocks          = B,
                          !.blocks_num      = @ + 1,
                          !.remaining_space = rem]
           u == [v EXCEPT !.empty_spaces = X]
<1>1. /\ z \in ZoneRecord /\ x \in z.empty_spaces
      /\ x \in Chunk /\ x.data_size >= size
  BY DEF WellFormed, LaidOut, ZoneRecord, find_empty_space
<1>2. c \in Chunk /\ c.addr = x.addr /\ Snug(c, size)
  BY <1>1, SizesFacts DEF Chunk, Snug
<1>3. AllOnGrid(z) /\ IsMultiple(size, ALIGNMENT)
        => OnGrid(c) /\ \A y \in X : OnGrid(y)
  <2> SUFFICES ASSUME AllOnGrid(z), IsMultiple(size, ALIGNMENT)
               PROVE  OnGrid(c) /\ \A y \in X : OnGrid(y)
    OBVIOUS
  <2>1. \A y \in z.empty_spaces : OnGrid(y)
    BY <1>1 DEF AllOnGrid, Chunks
  <2>2. OnGrid(FrontOf(x, size)) /\ OnGrid(RestOf(x, size))
    BY <1>1, <2>1, PartsOnGrid
  <2>3. CASE splits
    <3>1. c = FrontOf(x, size) /\ n = RestOf(x, size)
      BY <2>3 DEF FrontOf, RestOf, block_end
    <3> QED
      BY <2>1, <2>2, <2>3, <3>1
  <2>4. CASE ~splits
    <3>1. c = x
      BY <1>1, <2>4 DEF Chunk
    <3> QED
      BY <1>1, <2>1, <2>4, <3>1
  <2> QED
    BY <2>3, <2>4
<1>4. B \in SUBSET Chunk /\ rem \in Int /\ z.blocks_num + 1 \in Int
  BY <1>1, <1>2, SizesFacts DEF ZoneRecord, Chunk
<1>5. w = update_empty_stats(u)
  <2>1. u = [z EXCEPT !.blocks          = B,
                      !.blocks_num      = @ + 1,
                      !.empty_spaces    = X,
                      !.remaining_space = rem]
    BY <1>1 DEF ZoneRecord
  <2> QED
    BY <2>1 DEF allocate_from_empty
<1>6. WellFormed(w)
  BY AllocateWellFormed
<1> HIDE DEF w, c, X, B, rem
<1>7. v \in ZoneRecord /\ SameFrame(z, v) /\ v.blocks = B
  BY <1>1, <1>4 DEF ZoneRecord, SameFrame
<1>8. u = [v EXCEPT !.empty_spaces = X]
  OBVIOUS
<1> HIDE DEF v, u
<1>9. /\ SameFrame(v, w) /\ w.blocks = B /\ w.empty_spaces = X
      /\ Honest(w)
  BY <1>5, <1>6, <1>7, <1>8, StatsEffect
<1>10. AllOnGrid(z) /\ IsMultiple(size, ALIGNMENT) => AllOnGrid(w)
  BY <1>3, <1>9 DEF AllOnGrid, Chunks, B
<1> QED
  BY <1>2, <1>7, <1>9, <1>10 DEF SameFrame, B, w

(* realloc: a block that is joined with the space beside it, from the      *)
(* address of the lower one, is made snug.                                 *)
LEMMA AbsorbEffect ==
  ASSUME NEW z, WellFormed(z), NEW b \in z.blocks, NEW x \in z.empty_spaces,
         NEW p, NEW q, <<p, q>> \in {<<b, x>>, <<x, b>>}, block_end(p) = q.addr,
         NEW size \in Nat, size >= ALIGNMENT, available_space(b, x) >= size
  PROVE  LET w == Absorb(z, b, x, Joint(p, q), size) IN
         /\ SameFrame(z, w)
         /\ \E c \in Chunk : /\ c.addr = p.addr /\ Snug(c, size)
                             /\ w.blocks = (z.blocks \ {b}) \cup {c}
         /\ Honest(w)
         /\ AllOnGrid(z) /\ IsMultiple(size, ALIGNMENT) => AllOnGrid(w)
<1> DEFINE j == Joint(p, q)
           B == (z.blocks \ {b}) \cup {j}
           X == z.empty_spaces \ {x}
           v == WithJoint(z, b, x, j)
           w == Absorb(z, b, x, j, size)
<1>1. /\ z \in ZoneRecord /\ b \in Chunk /\ x \in Chunk
      /\ b \notin z.empty_spaces
      /\ {p, q} = {b, x} /\ p \in Chunk /\ q \in Chunk
  BY DEF WellFormed, LaidOut, Layout, ZoneRecord
<1>2. /\ j \in Chunk /\ j.addr = p.addr
      /\ j.data_size = available_space(b, x) /\ j.data_size >= size
  BY <1>1, SizesFacts DEF Chunk, Joint, available_space
<1>3. /\ WellFormed(v) /\ j \notin z.blocks
      /\ SameFrame(z, v) /\ v.blocks = B /\ v.empty_spaces = X
      /\ j \in v.blocks
  BY WithJointWellFormed DEF SameFrame
<1>4. w = IF j.data_size - size >= MIN_SPLIT_SIZE
          THEN split_block(v, j, size)
          ELSE update_empty_stats(v)
  BY DEF Absorb, WithJoint
<1>5. WellFormed(w)
  BY AbsorbWellFormed
<1>6. AllOnGrid(z) => OnGrid(j)
  <2>1. AllOnGrid(z) => OnGrid(p) /\ OnGrid(q)
    BY DEF AllOnGrid, Chunks
  <2> QED
    BY <1>1, <2>1, WholeOnGrid
<1> HIDE DEF v, w, j
<1>7. v \in ZoneRecord
  BY <1>3 DEF WellFormed, LaidOut
<1>8. AllOnGrid(z) => AllOnGrid(v)
  BY <1>3, <1>6 DEF AllOnGrid, Chunks
<1>9. CASE j.data_size - size >= MIN_SPLIT_SIZE
  <2> HIDE DEF v
  <2>1. w = split_block(v, j, size)
    BY <1>4, <1>9
  <2>2. PICK c \in Chunk : /\ c.addr = j.addr /\ Snug(c, size)
                           /\ w.blocks = (v.blocks \ {j}) \cup {c}
    BY <1>2, <1>3, <2>1, SplitEffect
  <2>3. /\ SameFrame(v, w)
        /\ AllOnGrid(v) /\ IsMultiple(size, ALIGNMENT) => AllOnGrid(w)
    BY <1>2, <1>3, <2>1, SplitEffect
  <2>4. Honest(w)
    <3>1. ~Snug(j, size)
      BY <1>1, <1>2, <1>9, SizesFacts DEF Snug, Chunk
    <3> QED
      BY <1>2, <1>3, <2>1, <3>1, SplitEffect
  <2>5. w.blocks = (z.blocks \ {b}) \cup {c}
    BY <1>3, <2>2
  <2> QED
    BY <1>2, <1>3, <1>8, <2>2, <2>3, <2>4, <2>5 DEF SameFrame, w, j
<1>10. CASE ~(j.data_size - size >= MIN_SPLIT_SIZE)
  <2>1. Snug(j, size)
    BY <1>1, <1>2, <1>10, SizesFacts DEF Snug, Chunk
  <2>2. w = update_empty_stats(v)
    BY <1>4, <1>10
  <2>3. /\ SameFrame(v, w) /\ w.blocks = v.blocks
        /\ w.empty_spaces = v.empty_spaces /\ Honest(w)
    <3>1. PICK Y : Y = v.empty_spaces /\ v = [v EXCEPT !.empty_spaces = Y]
      BY <1>7 DEF ZoneRecord
    <3>2. WellFormed(update_empty_stats(v))
      BY <1>5, <2>2
    <3> QED
      BY <1>7, <2>2, <3>1, <3>2, StatsEffect
  <2>4. AllOnGrid(v) => AllOnGrid(w)
    BY <2>3 DEF AllOnGrid, Chunks
  <2> HIDE DEF v
  <2> QED
    BY <1>2, <1>3, <1>8, <2>1, <2>3, <2>4 DEF SameFrame, w, j
<1> QED
  BY <1>9, <1>10

(* A block that is extended is replaced by a snug one, at its own address  *)
(* or at the address of the empty space that was before it.                *)
LEMMA ExtendEffect ==
  ASSUME NEW z, WellFormed(z), NEW b \in z.blocks,
         NEW size \in Nat, size >= ALIGNMENT,
         NEW result \in try_to_extend_block(z, b, size)
  PROVE  LET w == result.zone IN
         /\ SameFrame(z, w)
         /\ \E c \in Chunk :
              /\ Snug(c, size) /\ w.blocks = (z.blocks \ {b}) \cup {c}
              /\ result.ptr = block_payload(c)
              /\ \/ c.addr = b.addr
                 \/ \E x \in z.empty_spaces : c.addr = x.addr /\ block_end(x) = b.addr
         /\ Honest(w)
         /\ AllOnGrid(z) /\ IsMultiple(size, ALIGNMENT) => AllOnGrid(w)
<1>1. b \in Chunk /\ \A x \in z.empty_spaces : x \in Chunk
  BY DEF WellFormed, LaidOut, ZoneRecord
<1>2. CASE result \in extend_block(z, b, size)
  <2>1. PICK x \in z.empty_spaces :
          /\ x.addr = block_end(b) /\ available_space(b, x) >= size
          /\ result = [zone |-> Absorb(z, b, x,
                         [b EXCEPT !.data_size = available_space(b, x)], size),
                       ptr |-> block_payload(b)]
    BY <1>2 DEF extend_block, find_empty_after
  <2>2. [b EXCEPT !.data_size = available_space(b, x)] = Joint(b, x)
    BY <1>1 DEF Chunk, Joint, available_space
  <2>3. result.zone = Absorb(z, b, x, Joint(b, x), size)
        /\ result.ptr = block_payload(b)
    BY <2>1, <2>2
  <2>4. PICK c \in Chunk : /\ c.addr = b.addr /\ Snug(c, size)
                           /\ result.zone.blocks = (z.blocks \ {b}) \cup {c}
    BY <2>1, <2>3, AbsorbEffect
  <2>5. /\ SameFrame(z, result.zone) /\ Honest(result.zone)
        /\ AllOnGrid(z) /\ IsMultiple(size, ALIGNMENT) => AllOnGrid(result.zone)
    BY <2>1, <2>3, AbsorbEffect
  <2>6. result.ptr = block_payload(c)
    BY <2>3, <2>4 DEF block_payload
  <2> QED
    BY <2>4, <2>5, <2>6
<1>3. CASE result \in extend_block_back(z, b, size)
  <2>1. PICK x \in z.empty_spaces :
          /\ block_end(x) = b.addr /\ available_space(b, x) >= size
          /\ result = [zone |-> Absorb(z, b, x,
                         [x EXCEPT !.data_size = available_space(b, x)], size),
                       ptr |-> block_payload(x)]
    BY <1>3 DEF extend_block_back, find_empty_before
  <2>2. [x EXCEPT !.data_size = available_space(b, x)] = Joint(x, b)
    BY <1>1, SizesFacts DEF Chunk, Joint, available_space
  <2>3. result.zone = Absorb(z, b, x, Joint(x, b), size)
        /\ result.ptr = block_payload(x)
    BY <2>1, <2>2
  <2>4. PICK c \in Chunk : /\ c.addr = x.addr /\ Snug(c, size)
                           /\ result.zone.blocks = (z.blocks \ {b}) \cup {c}
    BY <2>1, <2>3, AbsorbEffect
  <2>5. /\ SameFrame(z, result.zone) /\ Honest(result.zone)
        /\ AllOnGrid(z) /\ IsMultiple(size, ALIGNMENT) => AllOnGrid(result.zone)
    BY <2>1, <2>3, AbsorbEffect
  <2>6. result.ptr = block_payload(c)
    BY <2>3, <2>4 DEF block_payload
  <2> QED
    BY <2>1, <2>4, <2>5, <2>6
<1> QED
  BY <1>2, <1>3 DEF try_to_extend_block

------------------------------------------------------------------------------
(* Heaps whose zones are well formed.                                      *)

GoodZones == {z \in ZoneRecord : WellFormed(z)}
GoodHeaps == [zones : Seq(GoodZones), mapped : SUBSET PageAddrs]

------------------------------------------------------------------------------
(* The arithmetic of sizes.                                                *)

(* A positive multiple of m is at least m.                                 *)
LEMMA MultipleIsLarge ==
  ASSUME NEW m \in Nat \ {0}, NEW x \in Nat \ {0}, x % m = 0
  PROVE  x >= m
<1> SUFFICES ASSUME x < m
             PROVE  FALSE
  OBVIOUS
<1>1. x % m = x
  OBVIOUS
<1> QED
  BY <1>1

(* A rounded request has room for one unit of alignment at least.          *)
LEMMA AlignFacts ==
  ASSUME NEW n \in Nat \ {0}
  PROVE  align_size(n) \in Nat /\ align_size(n) >= ALIGNMENT
<1>1. /\ ALIGNMENT \in Nat \ {0} /\ HEADER_SIZE \in Nat \ {0}
      /\ ZONE_HEADER_SIZE \in Nat \ {0} /\ TINY_DATA_MAX \in Nat \ {0}
      /\ HEADER_SIZE % ALIGNMENT = 0 /\ ZONE_HEADER_SIZE % ALIGNMENT = 0
      /\ SIZE_MAX \in Nat
      /\ SIZE_MAX >= ZONE_HEADER_SIZE + HEADER_SIZE + TINY_DATA_MAX
  BY SizesAssumption DEF IsMultiple
<1>2. HEADER_SIZE >= ALIGNMENT /\ ZONE_HEADER_SIZE >= ALIGNMENT
  BY <1>1, MultipleIsLarge
<1>3. CASE n > SIZE_MAX - ALIGNMENT
  BY <1>1, <1>2, <1>3 DEF align_size
<1>4. CASE ~(n > SIZE_MAX - ALIGNMENT)
  <2> DEFINE q == (n + ALIGNMENT - 1) \div ALIGNMENT
  <2>1. q \in Nat /\ q >= 1
    BY <1>1
  <2> HIDE DEF q
  <2>2. q * ALIGNMENT \in Nat /\ q * ALIGNMENT >= ALIGNMENT
    BY <1>1, <2>1
  <2>3. align_size(n) = q * ALIGNMENT
    BY <1>4 DEF align_size, q
  <2> QED
    BY <2>2, <2>3
<1> QED
  BY <1>3, <1>4

(* A zone of either kind has room for a chunk.                             *)
LEMMA ZoneSizeFacts ==
  /\ TINY_ZONE_SIZE \in Nat /\ SMALL_ZONE_SIZE \in Nat
  /\ TINY_ZONE_SIZE  >= ZONE_HEADER_SIZE + HEADER_SIZE + ALIGNMENT
  /\ SMALL_ZONE_SIZE >= ZONE_HEADER_SIZE + HEADER_SIZE + ALIGNMENT
<1>1. TINY_DATA_MAX >= ALIGNMENT /\ SMALL_DATA_MAX >= ALIGNMENT
  BY SizesAssumption, MultipleIsLarge DEF IsMultiple
<1> QED
  BY <1>1, SizesAssumption

------------------------------------------------------------------------------
(* Heaps.                                                                  *)

(* A zone of a good heap is well formed.                                   *)
LEMMA GoodZone ==
  ASSUME NEW h \in GoodHeaps, NEW i \in DOMAIN h.zones
  PROVE  h.zones[i] \in ZoneRecord /\ WellFormed(h.zones[i])
<1>1. h.zones \in Seq(GoodZones)
  BY DEF GoodHeaps
<1>2. h.zones[i] \in GoodZones
  BY <1>1, LenProperties, ElementOfSeq
<1> QED
  BY <1>2 DEF GoodZones

(* Replacing a zone by a well-formed one keeps the heap good.              *)
LEMMA SetZoneGood ==
  ASSUME NEW h \in GoodHeaps, NEW i \in DOMAIN h.zones, NEW z, WellFormed(z)
  PROVE  SetZone(h, i, z) \in GoodHeaps
<1>1. h.zones \in Seq(GoodZones) /\ i \in 1 .. Len(h.zones)
  BY LenProperties DEF GoodHeaps
<1>2. z \in GoodZones
  BY DEF GoodZones, WellFormed, LaidOut
<1>3. [h.zones EXCEPT ![i] = z] \in Seq(GoodZones)
  BY <1>1, <1>2, ExceptSeq
<1>4. SetZone(h, i, z) = [h EXCEPT !.zones = [h.zones EXCEPT ![i] = z]]
  BY DEF SetZone
<1> QED
  BY <1>3, <1>4 DEF GoodHeaps

(* Mapping a zone that has room for a chunk puts a good zone in front.     *)
LEMMA MapZoneGood ==
  ASSUME NEW h \in GoodHeaps, NEW type \in ZoneTypes, NEW zone_size \in Nat,
         zone_size >= ZONE_HEADER_SIZE + HEADER_SIZE + ALIGNMENT,
         NEW found \in MapZone(h, type, zone_size)
  PROVE  /\ found.heap \in GoodHeaps
         /\ found.at # 0 => found.at \in DOMAIN found.heap.zones
<1>1. CASE found \in NoZone(h)
  BY <1>1 DEF NoZone
<1>2. ASSUME NEW base \in mmap(h, zone_size),
             found = [heap |-> [zones  |-> <<zone_init(base, type, zone_size)>> \o h.zones,
                                mapped |-> h.mapped \cup PagesOf(base, zone_size)],
                      at   |-> 1]
      PROVE  /\ found.heap \in GoodHeaps
             /\ found.at # 0 => found.at \in DOMAIN found.heap.zones
  <2> DEFINE z == zone_init(base, type, zone_size)
  <2>1. base \in Nat
    BY SizesAssumption, HeapAssumption DEF mmap, PageAddrs
  <2>2. z \in GoodZones
    BY <2>1, InitWellFormed DEF GoodZones, WellFormed, LaidOut
  <2> HIDE DEF z
  <2>3. <<z>> \in Seq(GoodZones) /\ Len(<<z>>) = 1 /\ h.zones \in Seq(GoodZones)
    BY <2>2 DEF GoodHeaps
  <2>4. /\ <<z>> \o h.zones \in Seq(GoodZones)
        /\ Len(<<z>> \o h.zones) = 1 + Len(h.zones)
        /\ Len(h.zones) \in Nat
    BY <2>3, ConcatProperties, LenProperties
  <2>5. 1 \in DOMAIN (<<z>> \o h.zones)
    BY <2>4, LenProperties
  <2>6. h.mapped \cup PagesOf(base, zone_size) \in SUBSET PageAddrs
    BY DEF GoodHeaps, PagesOf
  <2> QED
    BY <1>2, <2>4, <2>5, <2>6 DEF GoodHeaps, z
<1> QED
  BY <1>1, <1>2 DEF MapZone

(* The search for a zone ends with none or with a zone of a good heap.     *)
LEMMA FindZoneGood ==
  ASSUME NEW h \in GoodHeaps, NEW type \in ZoneTypes,
         NEW size \in Nat, size >= ALIGNMENT,
         NEW found \in find_zone(h, type, size)
  PROVE  /\ found.heap \in GoodHeaps
         /\ found.at # 0 => found.at \in DOMAIN found.heap.zones
<1>1. CASE found \in create_large_zone(h, size)
  <2> DEFINE zone_size == size + HEADER_SIZE + ZONE_HEADER_SIZE
  <2>1. CASE size > SIZE_MAX - HEADER_SIZE - ZONE_HEADER_SIZE
    BY <1>1, <2>1 DEF create_large_zone, NoZone
  <2>2. CASE ~(size > SIZE_MAX - HEADER_SIZE - ZONE_HEADER_SIZE)
    <3>1. /\ zone_size \in Nat /\ SIZE_MAX \in Nat
          /\ zone_size < SIZE_MAX + 1
          /\ zone_size >= ZONE_HEADER_SIZE + HEADER_SIZE + ALIGNMENT
      BY <2>2, SizesAssumption
    <3> HIDE DEF zone_size
    <3>2. Wrap(zone_size) = zone_size
      BY <3>1 DEF Wrap
    <3>3. found \in MapZone(h, "LARGE", zone_size)
      BY <1>1, <2>2, <3>2 DEF create_large_zone, zone_size
    <3> QED
      BY <3>1, <3>3, MapZoneGood DEF ZoneTypes
  <2> QED
    BY <2>1, <2>2
<1>2. CASE found \in create_zone(h, type)
  BY <1>2, ZoneSizeFacts, MapZoneGood DEF create_zone
<1>3. CASE found \in {[heap |-> h, at |-> i] : i \in FittingZone(h, type, size)}
  BY <1>3 DEF FittingZone
<1> QED
  BY <1>1, <1>2, <1>3 DEF find_zone

(* A zone found for a request is cut well, and a pointer handed out.       *)
LEMMA AllocateBlockGood ==
  ASSUME NEW h \in GoodHeaps, NEW i \in DOMAIN h.zones,
         NEW size \in Nat, size >= ALIGNMENT,
         NEW result \in allocate_block(h, i, size)
  PROVE  result.heap \in GoodHeaps /\ result.ptr \in Nat
<1> DEFINE z == h.zones[i]
<1>1. z \in ZoneRecord /\ WellFormed(z)
  BY GoodZone
<1>2. CASE result = [heap |-> h, ptr |-> NULL]
  BY <1>2 DEF NULL
<1>3. ASSUME NEW e \in find_empty_space(z, size),
             result = [heap |-> [h EXCEPT !.zones[i] = allocate_from_empty(z, e, size)],
                       ptr  |-> block_payload(e)]
      PROVE  result.heap \in GoodHeaps /\ result.ptr \in Nat
  <2> HIDE DEF z
  <2>1. WellFormed(allocate_from_empty(z, e, size))
    BY <1>1, AllocateWellFormed
  <2>2. SetZone(h, i, allocate_from_empty(z, e, size)) \in GoodHeaps
    BY <2>1, SetZoneGood
  <2>3. e \in Chunk
    BY <1>1 DEF find_empty_space, ZoneRecord
  <2>4. block_payload(e) \in Nat
    BY <2>3, SizesFacts DEF Chunk, block_payload
  <2> QED
    BY <1>3, <2>2, <2>4 DEF SetZone
<1> QED
  BY <1>2, <1>3 DEF allocate_block

(* malloc leaves a good heap, and hands out NULL or a pointer for a        *)
(* request that is not zero and within the limit.                          *)
LEMMA AllocateGood ==
  ASSUME NEW h \in GoodHeaps, NEW n \in Nat, NEW result \in Allocate(h, n)
  PROVE  /\ result.heap \in GoodHeaps
         /\ result.ptr \in Nat
         /\ result.ptr # NULL => n # 0
<1>1. CASE n = 0 \/ n > MAX_ALLOC_SIZE
  BY <1>1 DEF Allocate, NULL
<1>2. CASE ~(n = 0 \/ n > MAX_ALLOC_SIZE)
  <2> DEFINE size == align_size(n)
             type == get_zone_type(size)
  <2>1. size \in Nat /\ size >= ALIGNMENT
    BY <1>2, AlignFacts
  <2>2. type \in ZoneTypes
    BY DEF get_zone_type, ZoneTypes
  <2> HIDE DEF size, type
  <2>3. PICK found \in find_zone(h, type, size) :
          result \in IF found.at = 0
                     THEN {[heap |-> found.heap, ptr |-> NULL]}
                     ELSE allocate_block(found.heap, found.at, size)
    BY <1>2 DEF Allocate, size, type
  <2>4. /\ found.heap \in GoodHeaps
        /\ found.at # 0 => found.at \in DOMAIN found.heap.zones
    BY <2>1, <2>2, FindZoneGood
  <2>5. CASE found.at = 0
    BY <1>2, <2>3, <2>4, <2>5 DEF NULL
  <2>6. CASE found.at # 0
    BY <1>2, <2>1, <2>3, <2>4, <2>6, AllocateBlockGood
  <2> QED
    BY <2>5, <2>6
<1> QED
  BY <1>1, <1>2

(* What the look-up of a pointer finds is a block of a zone of the list.   *)
LEMMA BlockOfFound ==
  ASSUME NEW h, NEW ptr, NEW f \in BlockOf(h, ptr)
  PROVE  f.at \in DOMAIN h.zones /\ f.block \in h.zones[f.at].blocks
  BY DEF BlockOf, find_zone_for_ptr, is_valid_block

(* Giving a block back leaves a good heap: its zone merges it, or goes.    *)
LEMMA ReleaseBlockGood ==
  ASSUME NEW h \in GoodHeaps, NEW i \in DOMAIN h.zones,
         NEW b \in h.zones[i].blocks
  PROVE  ReleaseBlock(h, i, b) \in GoodHeaps
<1>1. CASE h.zones[i].type = "LARGE"
  <2> DEFINE s == h.zones
             t == RemoveAt(s, i)
  <2>1. /\ s \in Seq(GoodZones) /\ Len(s) \in Nat /\ i \in 1 .. Len(s)
        /\ h.mapped \in SUBSET PageAddrs
    BY LenProperties DEF GoodHeaps
  <2> HIDE DEF s
  <2>2. \A j \in 1 .. Len(s) : s[j] \in GoodZones
    BY <2>1, ElementOfSeq
  <2>3. SubSeq(s, 1, i - 1) \in Seq(GoodZones)
    BY <2>1, <2>2, SubSeqProperties
  <2>4. SubSeq(s, i + 1, Len(s)) \in Seq(GoodZones)
    BY <2>1, <2>2, SubSeqProperties
  <2>5. t \in Seq(GoodZones)
    BY <2>3, <2>4, ConcatProperties DEF RemoveAt
  <2> HIDE DEF t
  <2>6. PICK pages :
          ReleaseBlock(h, i, b) =
            [[h EXCEPT !.zones = t] EXCEPT !.mapped = @ \ pages]
    BY <1>1 DEF ReleaseBlock, free_large_zone, munmap, s, t
  <2>7. [h EXCEPT !.zones = t] \in GoodHeaps
    BY <2>5 DEF GoodHeaps
  <2>8. \A g \in GoodHeaps : [g EXCEPT !.mapped = @ \ pages] \in GoodHeaps
    <3> SUFFICES ASSUME NEW g \in GoodHeaps
                 PROVE  [g EXCEPT !.mapped = @ \ pages] \in GoodHeaps
      OBVIOUS
    <3>1. g.mapped \ pages \in SUBSET PageAddrs
      BY DEF GoodHeaps
    <3> QED
      BY <3>1 DEF GoodHeaps
  <2> QED
    BY <2>6, <2>7, <2>8
<1>2. CASE h.zones[i].type # "LARGE"
  <2>1. WellFormed(convert_block_to_empty(h.zones[i], b))
    BY GoodZone, ConvertWellFormed
  <2> QED
    BY <1>2, <2>1, SetZoneGood DEF ReleaseBlock
<1> QED
  BY <1>1, <1>2

(* free leaves a good heap, whatever pointer it is given.                  *)
LEMMA ReleaseGood ==
  ASSUME NEW h \in GoodHeaps, NEW ptr, NEW r \in Release(h, ptr)
  PROVE  r \in GoodHeaps
<1>1. CASE r = h
  BY <1>1
<1>2. CASE \E f \in BlockOf(h, ptr) : r = ReleaseBlock(h, f.at, f.block)
  BY <1>2, BlockOfFound, ReleaseBlockGood
<1> QED
  BY <1>1, <1>2 DEF Release

(* realloc leaves a good heap when it grows a block in its zone ...        *)
LEMMA ExtendedGood ==
  ASSUME NEW h \in GoodHeaps, NEW i \in DOMAIN h.zones,
         NEW b \in h.zones[i].blocks, NEW size \in Nat, size >= ALIGNMENT,
         NEW result \in Extended(h, i, b, size)
  PROVE  result.heap \in GoodHeaps /\ result.ptr \in Nat
<1>1. PICK r \in try_to_extend_block(h.zones[i], b, size) :
        result = [heap |-> SetZone(h, i, r.zone), ptr |-> r.ptr]
  BY DEF Extended
<1>2. WellFormed(r.zone) /\ r.ptr \in Nat
  BY GoodZone, ExtendWellFormed
<1> QED
  BY <1>1, <1>2, SetZoneGood

(* ... and when it moves the block, or finds no room to.                   *)
LEMMA MovedGood ==
  ASSUME NEW h \in GoodHeaps, NEW ptr, NEW size \in Nat,
         NEW result \in Moved(h, ptr, size)
  PROVE  result.heap \in GoodHeaps /\ result.ptr \in Nat
<1>1. PICK new \in Allocate(h, size) :
        result \in IF new.ptr = NULL
                   THEN {new}
                   ELSE {[heap |-> r, ptr |-> new.ptr] : r \in Release(new.heap, ptr)}
  BY DEF Moved
<1>2. new.heap \in GoodHeaps /\ new.ptr \in Nat
  BY AllocateGood
<1> QED
  BY <1>1, <1>2, ReleaseGood

------------------------------------------------------------------------------
(* Rounding a request.                                                     *)

(* The least multiple of the alignment that is not below n.                *)
RoundUp(n) == ((n + ALIGNMENT - 1) \div ALIGNMENT) * ALIGNMENT

(* What rounding up adds is less than the alignment.                       *)
LEMMA RoundUpBounds ==
  ASSUME NEW n \in Nat
  PROVE  /\ RoundUp(n) \in Nat /\ IsMultiple(RoundUp(n), ALIGNMENT)
         /\ n <= RoundUp(n) /\ RoundUp(n) < n + ALIGNMENT
<1> DEFINE m == ALIGNMENT
           x == n + m - 1
           q == x \div m
           p == m * q
           r == x % m
<1>1. m \in Nat \ {0}
  BY SizesAssumption
<1> HIDE DEF m
<1>2. x \in Int /\ x = n + m - 1
  BY <1>1
<1> HIDE DEF x
<1>3. q \in Int /\ r \in 0 .. m - 1 /\ x = p + r
  BY <1>1, <1>2, Division
<1> HIDE DEF q, r
<1>4. p % m = 0 /\ q * m = p /\ p \in Int
  BY <1>1, <1>3, ProductIsMultiple
<1> HIDE DEF p
<1>5. p \in Nat /\ p >= n /\ p < n + m
  BY <1>1, <1>2, <1>3, <1>4
<1>6. RoundUp(n) = p
  BY <1>4 DEF RoundUp, x, m, q
<1> QED
  BY <1>4, <1>5, <1>6 DEF IsMultiple, m

(* Two multiples that are less than one alignment apart are equal.         *)
LEMMA CloseMultiples ==
  ASSUME NEW x \in Nat, NEW y \in Nat, IsMultiple(x, ALIGNMENT),
         IsMultiple(y, ALIGNMENT), x < y
  PROVE  y - x >= ALIGNMENT
<1>1. y - x \in Nat \ {0} /\ IsMultiple(y - x, ALIGNMENT)
  BY GridFacts
<1> QED
  BY <1>1, SizesAssumption, MultipleIsLarge DEF IsMultiple

(* A rounded request is not below the request, is a multiple of the        *)
(* alignment unless it is among the last sizes, and stays when it is       *)
(* rounded again, as realloc_malloc does.                                  *)
LEMMA AlignBounds ==
  ASSUME NEW n \in Nat
  PROVE  /\ align_size(n) \in Nat /\ n <= align_size(n)
         /\ align_size(n) <= SIZE_MAX - ALIGNMENT => IsMultiple(align_size(n), ALIGNMENT)
         /\ align_size(align_size(n)) = align_size(n)
<1>1. SIZE_MAX \in Nat /\ ALIGNMENT \in Nat /\ ALIGNMENT > 0
  BY SizesAssumption
<1>2. CASE n > SIZE_MAX - ALIGNMENT
  <2>1. align_size(n) = n
    BY <1>2 DEF align_size
  <2> QED
    BY <1>1, <1>2, <2>1
<1>3. CASE ~(n > SIZE_MAX - ALIGNMENT)
  <2> DEFINE r == RoundUp(n)
  <2>1. align_size(n) = r
    BY <1>3 DEF align_size, RoundUp
  <2>2. r \in Nat /\ n <= r /\ IsMultiple(r, ALIGNMENT)
    BY RoundUpBounds
  <2> HIDE DEF r
  <2>3. align_size(r) = r
    <3>1. CASE r > SIZE_MAX - ALIGNMENT
      BY <3>1 DEF align_size
    <3>2. CASE ~(r > SIZE_MAX - ALIGNMENT)
      <4>1. align_size(r) = RoundUp(r)
        BY <3>2 DEF align_size, RoundUp
      <4>2. /\ RoundUp(r) \in Nat /\ IsMultiple(RoundUp(r), ALIGNMENT)
            /\ r <= RoundUp(r) /\ RoundUp(r) < r + ALIGNMENT
        BY <2>2, RoundUpBounds
      <4>3. ~(r < RoundUp(r))
        BY <1>1, <2>2, <4>2, CloseMultiples
      <4> QED
        BY <2>2, <4>1, <4>2, <4>3
    <3> QED
      BY <3>1, <3>2
  <2> QED
    BY <2>1, <2>2, <2>3
<1> QED
  BY <1>2, <1>3

(* Rounding keeps the order of the requests that a zone can serve.         *)
LEMMA AlignKeepsOrder ==
  ASSUME NEW m \in Nat, NEW n \in Nat, n <= m,
         align_size(m) <= SIZE_MAX - ALIGNMENT
  PROVE  align_size(n) <= align_size(m)
<1>1. SIZE_MAX \in Nat /\ ALIGNMENT \in Nat /\ ALIGNMENT > 0
  BY SizesAssumption
<1>2. m <= align_size(m) /\ align_size(m) \in Nat
  BY AlignBounds
<1>3. ~(m > SIZE_MAX - ALIGNMENT) /\ ~(n > SIZE_MAX - ALIGNMENT)
  BY <1>1, <1>2
<1>4. align_size(m) = RoundUp(m) /\ align_size(n) = RoundUp(n)
  BY <1>3 DEF align_size, RoundUp
<1>5. /\ RoundUp(m) \in Nat /\ IsMultiple(RoundUp(m), ALIGNMENT) /\ m <= RoundUp(m)
      /\ RoundUp(n) \in Nat /\ IsMultiple(RoundUp(n), ALIGNMENT)
      /\ RoundUp(n) < n + ALIGNMENT
  BY RoundUpBounds
<1>6. RoundUp(m) < RoundUp(n) => RoundUp(n) - RoundUp(m) >= ALIGNMENT
  BY <1>5, CloseMultiples
<1> QED
  BY <1>1, <1>4, <1>5, <1>6

------------------------------------------------------------------------------
(* What is more to a heap between two calls: where its zones lie, and what *)
(* callers hold of it.                                                     *)

(* A zone lies on pages of its own, its total is its length, and a size_t  *)
(* holds it.                                                               *)
Placed(z) == /\ z.start \in PageAddrs
             /\ z.end <= MEM_END
             /\ z.end - z.start <= SIZE_MAX
             /\ z.total_space = z.end - z.start - ZONE_HEADER_SIZE

(* A LARGE zone holds one block, at its front.                             *)
HoldsOne(z) ==
  z.type = "LARGE" => \E b \in z.blocks : /\ z.blocks = {b}
                                          /\ b.addr = z.start + ZONE_HEADER_SIZE

SoundZone(z) ==
  WellFormed(z) /\ Placed(z) /\ AllOnGrid(z) /\ Honest(z) /\ HoldsOne(z)

RangesApart(z, w) == z.end <= w.start \/ w.end <= z.start
PagesUnder(z) == PagesOf(z.start, z.end - z.start)

SoundHeap(h) ==
  /\ h \in GoodHeaps
  /\ \A i \in DOMAIN h.zones : SoundZone(h.zones[i])
  /\ \A i, j \in DOMAIN h.zones : i # j => RangesApart(h.zones[i], h.zones[j])
  /\ h.mapped = UNION {PagesUnder(h.zones[i]) : i \in DOMAIN h.zones}

(* The blocks of all the zones.                                            *)
HeapBlocks(h) == UNION {h.zones[i].blocks : i \in DOMAIN h.zones}

(* Callers hold the payloads of the blocks B, each snug for its request.   *)
Held(B, own) ==
  /\ own \in [{block_payload(b) : b \in B} -> 1 .. SIZE_MAX]
  /\ \A b \in B : Snug(b, align_size(own[block_payload(b)]))

------------------------------------------------------------------------------
(* Chunks of sound zones.                                                  *)

(* Where a zone lies.                                                      *)
LEMMA ZonePlaced ==
  ASSUME NEW z, SoundZone(z)
  PROVE  /\ z \in ZoneRecord /\ z.start \in Nat /\ z.start > 0 /\ z.end \in Nat
         /\ z.end <= MEM_END /\ z.end - z.start <= SIZE_MAX
         /\ z.start + ZONE_HEADER_SIZE + HEADER_SIZE + ALIGNMENT <= z.end
<1>1. /\ z \in ZoneRecord /\ z.start \in Nat /\ z.end \in Nat
      /\ Tiling(z.start, z.end, z.blocks \cup z.empty_spaces)
  BY DEF SoundZone, WellFormed, LaidOut, Layout, ZoneRecord
<1>2. PICK c \in z.blocks \cup z.empty_spaces : c.addr = z.start + ZONE_HEADER_SIZE
  BY <1>1 DEF Tiling
<1>3. /\ c \in Chunk /\ block_end(c) <= z.end /\ c.data_size >= ALIGNMENT
  BY <1>1 DEF Tiling
<1>4. z.start > 0
  BY SizesAssumption, HeapAssumption DEF SoundZone, Placed, PageAddrs
<1> QED
  BY <1>1, <1>2, <1>3, <1>4, SizesFacts DEF SoundZone, Placed, Chunk, block_end

(* Where its chunks lie.                                                   *)
LEMMA ChunkPlaced ==
  ASSUME NEW z, SoundZone(z), NEW c \in Chunks(z)
  PROVE  /\ c \in Chunk /\ c.addr \in Nat /\ c.data_size \in Nat
         /\ block_end(c) \in Nat /\ block_payload(c) \in Nat
         /\ z.start + ZONE_HEADER_SIZE <= c.addr /\ block_end(c) <= z.end
         /\ c.addr < block_payload(c) /\ block_payload(c) < block_end(c)
         /\ c.data_size <= SIZE_MAX - ZONE_HEADER_SIZE - HEADER_SIZE
         /\ OnGrid(c)
<1>1. Tiling(z.start, z.end, Chunks(z))
  BY DEF SoundZone, WellFormed, LaidOut, Layout, Chunks
<1>2. /\ c \in Chunk /\ z.start + ZONE_HEADER_SIZE <= c.addr
      /\ block_end(c) <= z.end /\ c.data_size >= ALIGNMENT
  BY <1>1 DEF Tiling
<1>3. OnGrid(c)
  BY DEF SoundZone, AllOnGrid
<1> QED
  BY <1>2, <1>3, ZonePlaced, SizesFacts, SizesAssumption
     DEF Chunk, block_end, block_payload

(* No two chunks of a heap share a byte, in one zone or in two.            *)
LEMMA HeapApart ==
  ASSUME NEW h, SoundHeap(h), NEW i \in DOMAIN h.zones, NEW j \in DOMAIN h.zones,
         NEW c \in Chunks(h.zones[i]), NEW d \in Chunks(h.zones[j]),
         i # j \/ c # d
  PROVE  block_end(c) <= d.addr \/ block_end(d) <= c.addr
<1>1. SoundZone(h.zones[i]) /\ SoundZone(h.zones[j])
  BY DEF SoundHeap
<1>2. CASE i = j
  <2>1. Tiling(h.zones[i].start, h.zones[i].end, Chunks(h.zones[i]))
    BY <1>1 DEF SoundZone, WellFormed, LaidOut, Layout, Chunks
  <2> QED
    BY <1>2, <2>1 DEF Tiling
<1>3. CASE i # j
  <2>1. RangesApart(h.zones[i], h.zones[j])
    BY <1>3 DEF SoundHeap
  <2>2. /\ h.zones[i].start <= c.addr /\ block_end(c) <= h.zones[i].end
        /\ h.zones[j].start <= d.addr /\ block_end(d) <= h.zones[j].end
        /\ c.addr \in Nat /\ block_end(c) \in Nat
        /\ d.addr \in Nat /\ block_end(d) \in Nat
        /\ h.zones[i].start \in Nat /\ h.zones[i].end \in Nat
        /\ h.zones[j].start \in Nat /\ h.zones[j].end \in Nat
    BY <1>1, ChunkPlaced, ZonePlaced, SizesFacts
  <2> QED
    BY <2>1, <2>2 DEF RangesApart
<1> QED
  BY <1>2, <1>3

(* So its address tells which chunk it is.                                 *)
LEMMA AddressIsChunk ==
  ASSUME NEW h, SoundHeap(h), NEW i \in DOMAIN h.zones, NEW j \in DOMAIN h.zones,
         NEW c \in Chunks(h.zones[i]), NEW d \in Chunks(h.zones[j]),
         c.addr = d.addr
  PROVE  i = j /\ c = d
<1>1. SoundZone(h.zones[i]) /\ SoundZone(h.zones[j])
  BY DEF SoundHeap
<1>2. /\ c.addr \in Nat /\ block_end(c) \in Nat /\ c.addr < block_end(c)
      /\ block_end(d) \in Nat /\ d.addr < block_end(d)
      /\ block_payload(c) \in Nat /\ block_payload(d) \in Nat /\ d.addr \in Nat
      /\ c.addr < block_payload(c) /\ block_payload(c) < block_end(c)
      /\ d.addr < block_payload(d) /\ block_payload(d) < block_end(d)
  BY <1>1, ChunkPlaced
<1> QED
  BY <1>2, HeapApart

(* What the blocks of a heap are.                                          *)
LEMMA BlockPlaced ==
  ASSUME NEW h, SoundHeap(h), NEW b \in HeapBlocks(h)
  PROVE  /\ b \in Chunk /\ b.addr \in Nat /\ b.data_size \in Nat
         /\ block_payload(b) = b.addr + HEADER_SIZE
         /\ block_end(b) = block_payload(b) + b.data_size
         /\ block_payload(b) \in 1 .. MEM_END - 1
         /\ IsMultiple(block_payload(b), ALIGNMENT)
         /\ block_end(b) \in Nat /\ block_end(b) <= MEM_END
         /\ b.data_size <= SIZE_MAX - ZONE_HEADER_SIZE - HEADER_SIZE
         /\ \A c \in HeapBlocks(h) : b # c =>
              block_end(b) <= c.addr \/ block_end(c) <= b.addr
<1>1. PICK i \in DOMAIN h.zones : b \in h.zones[i].blocks
  BY DEF HeapBlocks
<1>2. b \in Chunks(h.zones[i]) /\ SoundZone(h.zones[i])
  BY <1>1 DEF SoundHeap, Chunks
<1>3. /\ b \in Chunk /\ b.addr \in Nat /\ b.data_size \in Nat
      /\ block_end(b) \in Nat /\ block_payload(b) \in Nat
      /\ block_end(b) <= h.zones[i].end /\ h.zones[i].end <= MEM_END
      /\ h.zones[i].end \in Nat
      /\ b.addr < block_payload(b) /\ block_payload(b) < block_end(b)
      /\ b.data_size <= SIZE_MAX - ZONE_HEADER_SIZE - HEADER_SIZE
      /\ OnGrid(b)
  BY <1>2, ChunkPlaced, ZonePlaced
<1>4. \A c \in HeapBlocks(h) : b # c =>
        block_end(b) <= c.addr \/ block_end(c) <= b.addr
  BY <1>2, HeapApart DEF HeapBlocks, Chunks
<1>5. IsMultiple(block_payload(b), ALIGNMENT)
  BY <1>3, PartsOnGrid
<1> QED
  BY <1>3, <1>4, <1>5, SizesFacts, HeapAssumption DEF block_payload, block_end

------------------------------------------------------------------------------
(* The three ways a heap changes: a zone changes inside, a zone is mapped, *)
(* a zone is given back.                                                   *)

(* A zone changes: blocks gone of it go, and blocks new appear.            *)
LEMMA SetZoneSound ==
  ASSUME NEW h, SoundHeap(h), NEW i \in DOMAIN h.zones,
         NEW w, SoundZone(w), SameFrame(h.zones[i], w),
         NEW gone \in SUBSET h.zones[i].blocks, NEW new,
         w.blocks = (h.zones[i].blocks \ gone) \cup new
  PROVE  /\ SoundHeap(SetZone(h, i, w))
         /\ HeapBlocks(SetZone(h, i, w)) = (HeapBlocks(h) \ gone) \cup new
<1> DEFINE g == SetZone(h, i, w)
<1>1. g \in GoodHeaps
  BY SetZoneGood DEF SoundHeap, SoundZone
<1>2. /\ DOMAIN g.zones = DOMAIN h.zones /\ g.mapped = h.mapped
      /\ g.zones[i] = w
      /\ \A j \in DOMAIN h.zones : j # i => g.zones[j] = h.zones[j]
  BY DEF SetZone, SoundHeap, GoodHeaps
<1> HIDE DEF g
<1>3. \A j \in DOMAIN h.zones : /\ g.zones[j].start = h.zones[j].start
                                /\ g.zones[j].end = h.zones[j].end
  BY <1>2 DEF SameFrame
<1>4. /\ \A j \in DOMAIN g.zones : SoundZone(g.zones[j])
      /\ \A j, k \in DOMAIN g.zones : j # k => RangesApart(g.zones[j], g.zones[k])
  BY <1>2, <1>3 DEF SoundHeap, RangesApart
<1>5. \A j \in DOMAIN h.zones : PagesUnder(g.zones[j]) = PagesUnder(h.zones[j])
  BY <1>3 DEF PagesUnder
<1>6. g.mapped = UNION {PagesUnder(g.zones[j]) : j \in DOMAIN g.zones}
  <2>1. {PagesUnder(g.zones[j]) : j \in DOMAIN g.zones} =
          {PagesUnder(h.zones[j]) : j \in DOMAIN h.zones}
    BY <1>2, <1>5
  <2> QED
    BY <1>2, <2>1 DEF SoundHeap
<1>7. SoundHeap(g)
  BY <1>1, <1>4, <1>6 DEF SoundHeap
<1>8. \A j \in DOMAIN h.zones : j # i => h.zones[j].blocks \cap gone = {}
  BY AddressIsChunk DEF Chunks
<1>9. HeapBlocks(g) = (HeapBlocks(h) \ gone) \cup new
  BY <1>2, <1>8 DEF HeapBlocks
<1> QED
  BY <1>7, <1>9 DEF g

(* Two ranges of pages that share no page share no byte.                   *)
LEMMA PagesApart ==
  ASSUME NEW z, SoundZone(z), NEW base \in PageAddrs, NEW len \in Nat, len > 0,
         PagesOf(base, len) \cap PagesUnder(z) = {}
  PROVE  z.end <= base \/ base + len <= z.start
<1>1. z.start \in PageAddrs /\ z.start \in Nat /\ z.end \in Nat /\ base \in Nat
  BY ZonePlaced, SizesAssumption, HeapAssumption DEF SoundZone, Placed, PageAddrs
<1>2. z.start < z.end
  BY ZonePlaced, SizesFacts
<1>3. base \in PagesOf(base, len) /\ z.start \in PagesUnder(z)
  BY <1>1, <1>2 DEF PagesOf, PagesUnder
<1>4. base \notin PagesUnder(z) /\ z.start \notin PagesOf(base, len)
  BY <1>3
<1> QED
  BY <1>1, <1>2, <1>4 DEF PagesOf, PagesUnder

(* A zone is mapped and becomes the head of the list.                      *)
LEMMA PushZoneSound ==
  ASSUME NEW h, SoundHeap(h), NEW len \in Nat, NEW base \in mmap(h, len),
         NEW w, SoundZone(w), w.start = base, w.end = base + len
  PROVE  LET g == [zones  |-> <<w>> \o h.zones,
                   mapped |-> h.mapped \cup PagesOf(base, len)]
         IN /\ SoundHeap(g)
            /\ HeapBlocks(g) = HeapBlocks(h) \cup w.blocks
            /\ HeapBlocks(h) \cap w.blocks = {}
<1> DEFINE s == h.zones
           t == <<w>> \o s
           g == [zones |-> t, mapped |-> h.mapped \cup PagesOf(base, len)]
<1>1. /\ base \in PageAddrs /\ base \in Nat /\ len > 0
      /\ PagesOf(base, len) \cap h.mapped = {}
  BY SizesAssumption, HeapAssumption DEF mmap, PageAddrs
<1>2. s \in Seq(GoodZones) /\ h.mapped \in SUBSET PageAddrs
  BY DEF SoundHeap, GoodHeaps
<1>3. w \in GoodZones
  BY DEF SoundZone, GoodZones, WellFormed, LaidOut
<1>4. /\ t \in Seq(GoodZones) /\ DOMAIN t = 1 .. Len(s) + 1
      /\ Len(s) \in Nat /\ DOMAIN s = 1 .. Len(s)
      /\ t[1] = w
      /\ \A j \in 1 .. Len(s) : t[j + 1] = s[j]
  <2> HIDE DEF s
  <2>1. <<w>> \in Seq(GoodZones) /\ Len(<<w>>) = 1 /\ <<w>>[1] = w
    BY <1>3
  <2>2. /\ t \in Seq(GoodZones) /\ Len(t) = 1 + Len(s)
        /\ \A k \in 1 .. 1 + Len(s) : t[k] = IF k <= 1 THEN <<w>>[k] ELSE s[k - 1]
    BY <1>2, <2>1, ConcatProperties
  <2> HIDE DEF t
  <2>3. Len(s) \in Nat /\ DOMAIN s = 1 .. Len(s) /\ DOMAIN t = 1 .. Len(s) + 1
    BY <1>2, <2>2, LenProperties
  <2> QED
    BY <2>1, <2>2, <2>3
<1> HIDE DEF t, s
<1>5. \A k \in DOMAIN t : k = 1 \/ \E j \in DOMAIN s : k = j + 1 /\ t[k] = s[j]
  <2> SUFFICES ASSUME NEW k \in DOMAIN t, k # 1
               PROVE  \E j \in DOMAIN s : k = j + 1 /\ t[k] = s[j]
    OBVIOUS
  <2>1. k - 1 \in DOMAIN s /\ k = (k - 1) + 1
    BY <1>4
  <2> QED
    BY <1>4, <2>1
<1>6. \A j \in DOMAIN s : j + 1 \in DOMAIN t /\ t[j + 1] = s[j]
  BY <1>4
<1>7. 1 \in DOMAIN t
  BY <1>4
<1>8. g \in GoodHeaps
  <2>1. PagesOf(base, len) \in SUBSET PageAddrs
    BY DEF PagesOf
  <2> QED
    BY <1>2, <1>4, <2>1 DEF GoodHeaps
<1>9. \A k \in DOMAIN t : SoundZone(t[k])
  BY <1>4, <1>5 DEF SoundHeap, s
<1>10. \A j \in DOMAIN s : RangesApart(w, s[j])
  <2> SUFFICES ASSUME NEW j \in DOMAIN s
               PROVE  RangesApart(w, s[j])
    OBVIOUS
  <2>1. SoundZone(s[j]) /\ PagesUnder(s[j]) \subseteq h.mapped
    BY DEF SoundHeap, s
  <2>2. s[j].end <= base \/ base + len <= s[j].start
    BY <1>1, <2>1, PagesApart
  <2> QED
    BY <2>2 DEF RangesApart
<1>11. \A j, k \in DOMAIN t : j # k => RangesApart(t[j], t[k])
  <2> SUFFICES ASSUME NEW j \in DOMAIN t, NEW k \in DOMAIN t, j # k
               PROVE  RangesApart(t[j], t[k])
    OBVIOUS
  <2>1. \A a, b \in DOMAIN s : a # b => RangesApart(s[a], s[b])
    BY DEF SoundHeap, s
  <2>2. CASE j = 1 \/ k = 1
    BY <1>4, <1>5, <1>10, <2>2 DEF RangesApart
  <2>3. CASE j # 1 /\ k # 1
    BY <1>5, <2>1, <2>3
  <2> QED
    BY <2>2, <2>3
<1>12. PagesUnder(w) = PagesOf(base, len)
  <2>1. w.end - w.start = len
    BY <1>1
  <2> QED
    BY <2>1 DEF PagesUnder
<1>13. g.mapped = UNION {PagesUnder(t[k]) : k \in DOMAIN t}
  <2>1. h.mapped = UNION {PagesUnder(s[j]) : j \in DOMAIN s}
    BY DEF SoundHeap, s
  <2>2. {PagesUnder(t[k]) : k \in DOMAIN t} =
          {PagesUnder(s[j]) : j \in DOMAIN s} \cup {PagesUnder(w)}
    BY <1>4, <1>5, <1>6, <1>7
  <2> QED
    BY <1>12, <2>1, <2>2
<1>14. HeapBlocks(g) = HeapBlocks(h) \cup w.blocks
  <2>1. {t[k].blocks : k \in DOMAIN t} = {s[j].blocks : j \in DOMAIN s} \cup {w.blocks}
    BY <1>4, <1>5, <1>6, <1>7
  <2>2. HeapBlocks(g) = UNION {t[k].blocks : k \in DOMAIN t}
    BY DEF HeapBlocks
  <2>3. HeapBlocks(h) = UNION {s[j].blocks : j \in DOMAIN s}
    BY DEF HeapBlocks, s
  <2> HIDE DEF g
  <2> QED
    BY <2>1, <2>2, <2>3
<1>15. SoundHeap(g)
  BY <1>8, <1>9, <1>11, <1>13 DEF SoundHeap
<1>16. HeapBlocks(h) \cap w.blocks = {}
  <2> SUFFICES ASSUME NEW j \in DOMAIN s, NEW c \in s[j].blocks, c \in w.blocks
               PROVE  FALSE
    BY DEF HeapBlocks, s
  <2>1. /\ g.zones = t /\ j + 1 \in DOMAIN t /\ 1 # j + 1
        /\ c \in t[1].blocks /\ c \in t[j + 1].blocks
    BY <1>4, <1>6
  <2> HIDE DEF g
  <2>2. c \in Chunks(g.zones[1]) /\ c \in Chunks(g.zones[j + 1])
    BY <2>1 DEF Chunks
  <2> QED
    BY <1>7, <1>15, <2>1, <2>2, AddressIsChunk
<1> QED
  BY <1>14, <1>15, <1>16 DEF s, t

(* A LARGE zone is unlinked and given back with the block it held.         *)
LEMMA DropZoneSound ==
  ASSUME NEW h, SoundHeap(h), NEW i \in DOMAIN h.zones,
         h.zones[i].type = "LARGE", NEW b \in h.zones[i].blocks
  PROVE  LET g == free_large_zone(h, i) IN
         SoundHeap(g) /\ HeapBlocks(g) = HeapBlocks(h) \ {b}
<1> DEFINE s == h.zones
           z == s[i]
           t == RemoveAt(s, i)
           g == free_large_zone(h, i)
<1>1. /\ SoundZone(z) /\ z.blocks = {b} /\ PagesUnder(z) \subseteq h.mapped
      /\ h.mapped = UNION {PagesUnder(s[j]) : j \in DOMAIN s}
  BY DEF SoundHeap, SoundZone, HoldsOne
<1>2. s \in Seq(GoodZones) /\ h \in GoodHeaps
  BY DEF SoundHeap, GoodHeaps
<1>3. g.zones = t /\ g.mapped = h.mapped \ PagesUnder(z)
  <2>1. z.total_space + ZONE_HEADER_SIZE = z.end - z.start
    BY <1>1, ZonePlaced, SizesFacts DEF SoundZone, Placed
  <2> QED
    BY <1>2, <2>1 DEF free_large_zone, munmap, PagesUnder, GoodHeaps
<1>4. g \in GoodHeaps
  <2>1. ReleaseBlock(h, i, b) = g
    BY DEF ReleaseBlock
  <2> QED
    BY <1>2, <2>1, ReleaseBlockGood
<1>5. /\ Len(s) \in Nat /\ DOMAIN s = 1 .. Len(s) /\ i \in 1 .. Len(s)
      /\ DOMAIN t = 1 .. Len(s) - 1
      /\ \A j \in 1 .. i - 1 : t[j] = s[j]
      /\ \A j \in i .. Len(s) - 1 : t[j] = s[j + 1]
  <2> HIDE DEF s
  <2> DEFINE p == SubSeq(s, 1, i - 1)
             q == SubSeq(s, i + 1, Len(s))
  <2>1. Len(s) \in Nat /\ DOMAIN s = 1 .. Len(s) /\ i \in 1 .. Len(s)
    BY <1>2, LenProperties DEF s
  <2>2. \A j \in 1 .. Len(s) : s[j] \in GoodZones
    BY <1>2, ElementOfSeq
  <2>3. /\ p \in Seq(GoodZones) /\ Len(p) = i - 1
        /\ \A j \in 1 .. i - 1 : p[j] = s[j]
    <3>1. /\ p \in Seq(GoodZones)
          /\ Len(p) = IF 1 <= i - 1 THEN i - 1 - 1 + 1 ELSE 0
          /\ \A j \in 1 .. i - 1 - 1 + 1 : p[j] = s[1 + j - 1]
      BY <1>2, <2>1, <2>2, SubSeqProperties
    <3> HIDE DEF p
    <3> QED
      BY <2>1, <3>1
  <2>4. /\ q \in Seq(GoodZones) /\ Len(q) = Len(s) - i
        /\ \A j \in 1 .. Len(s) - i : q[j] = s[i + j]
    <3>1. /\ q \in Seq(GoodZones)
          /\ Len(q) = IF i + 1 <= Len(s) THEN Len(s) - (i + 1) + 1 ELSE 0
          /\ \A j \in 1 .. Len(s) - (i + 1) + 1 : q[j] = s[(i + 1) + j - 1]
      BY <1>2, <2>1, <2>2, SubSeqProperties
    <3> HIDE DEF q
    <3>2. Len(q) = Len(s) - i /\ Len(s) - (i + 1) + 1 = Len(s) - i
      BY <2>1, <3>1
    <3>3. ASSUME NEW j \in 1 .. Len(s) - i
          PROVE  q[j] = s[i + j]
      <4>1. (i + 1) + j - 1 = i + j
        BY <2>1
      <4> QED
        BY <3>1, <3>2, <4>1
    <3> QED
      BY <3>1, <3>2, <3>3
  <2>5. t = p \o q
    BY DEF RemoveAt
  <2> HIDE DEF p, q, t
  <2>6. /\ t \in Seq(GoodZones) /\ Len(t) = Len(p) + Len(q)
        /\ \A k \in 1 .. Len(p) + Len(q) :
             t[k] = IF k <= Len(p) THEN p[k] ELSE q[k - Len(p)]
    BY <2>3, <2>4, <2>5, ConcatProperties
  <2>7. DOMAIN t = 1 .. Len(s) - 1
    BY <2>1, <2>3, <2>4, <2>6, LenProperties
  <2>8. \A j \in 1 .. i - 1 : t[j] = s[j]
    BY <2>1, <2>3, <2>4, <2>6
  <2>9. \A j \in i .. Len(s) - 1 : t[j] = s[j + 1]
    <3>1. TAKE j \in i .. Len(s) - 1
    <3>2. t[j] = q[j - (i - 1)] /\ j - (i - 1) \in 1 .. Len(s) - i
      BY <2>1, <2>3, <2>4, <2>6
    <3>3. q[j - (i - 1)] = s[i + (j - (i - 1))]
      BY <2>4, <3>2
    <3>4. i + (j - (i - 1)) = j + 1
      BY <2>1
    <3> QED
      BY <3>2, <3>3, <3>4
  <2> QED
    BY <2>1, <2>7, <2>8, <2>9
<1> HIDE DEF t, g
(* from(k) is the index that the k-th of the zones that stay had.          *)
<1> DEFINE from(k) == IF k < i THEN k ELSE k + 1
<1>6. \A k \in DOMAIN t : /\ from(k) \in DOMAIN s /\ from(k) # i
                          /\ t[k] = s[from(k)]
  BY <1>5
<1>7. \A k, l \in DOMAIN t : k # l => from(k) # from(l)
  BY <1>5
<1>8. \A j \in DOMAIN s : j # i => \E k \in DOMAIN t : j = from(k)
  <2> SUFFICES ASSUME NEW j \in DOMAIN s, j # i
               PROVE  \E k \in DOMAIN t : j = from(k)
    OBVIOUS
  <2>1. CASE j < i
    BY <1>5, <2>1
  <2>2. CASE ~(j < i)
    <3>1. j - 1 \in DOMAIN t /\ j = from(j - 1)
      BY <1>5, <2>2
    <3> QED
      BY <3>1
  <2> QED
    BY <2>1, <2>2
<1> HIDE DEF from
<1>9. /\ \A j \in DOMAIN s : SoundZone(s[j])
      /\ \A j, k \in DOMAIN s : j # k => RangesApart(s[j], s[k])
  BY DEF SoundHeap
<1>10. \A k \in DOMAIN t : SoundZone(t[k])
  BY <1>6, <1>9
<1>11. \A k, l \in DOMAIN t : k # l => RangesApart(t[k], t[l])
  BY <1>6, <1>7, <1>9
<1>12. \A j \in DOMAIN s : j # i => /\ PagesUnder(s[j]) \cap PagesUnder(z) = {}
                                    /\ s[j].blocks \cap {b} = {}
  <2> SUFFICES ASSUME NEW j \in DOMAIN s, j # i
               PROVE  /\ PagesUnder(s[j]) \cap PagesUnder(z) = {}
                      /\ s[j].blocks \cap {b} = {}
    OBVIOUS
  <2>1. b \notin s[j].blocks
    BY AddressIsChunk DEF Chunks
  <2>2. RangesApart(s[j], z) /\ SoundZone(s[j])
    BY <1>9
  <2>3. /\ s[j].start \in Nat /\ s[j].end \in Nat /\ z.start \in Nat /\ z.end \in Nat
    BY <1>1, <2>2, ZonePlaced
  <2>4. \A p \in PageAddrs : p \in Nat
    BY SizesAssumption, HeapAssumption DEF PageAddrs
  <2>5. PagesUnder(s[j]) \cap PagesUnder(z) = {}
    <3> HIDE DEF s, z
    <3> QED
      BY <2>2, <2>3, <2>4 DEF RangesApart, PagesUnder, PagesOf
  <2> QED
    BY <2>1, <2>5
<1>13. g.mapped = UNION {PagesUnder(t[k]) : k \in DOMAIN t}
  <2>1. g.mapped = (UNION {PagesUnder(s[j]) : j \in DOMAIN s}) \ PagesUnder(z)
    BY <1>1, <1>3
  <2>2. \A pg : pg \in g.mapped <=>
                  \E j \in DOMAIN s : j # i /\ pg \in PagesUnder(s[j])
    BY <1>12, <2>1
  <2>3. \A pg : pg \in g.mapped <=> \E k \in DOMAIN t : pg \in PagesUnder(t[k])
    BY <1>6, <1>8, <2>2
  <2> QED
    BY <2>3
<1>14. HeapBlocks(g) = HeapBlocks(h) \ {b}
  <2>1. \A c : c \in HeapBlocks(h) \ {b} <=>
                 \E j \in DOMAIN s : j # i /\ c \in s[j].blocks
    BY <1>1, <1>12 DEF HeapBlocks
  <2>2. \A c : c \in HeapBlocks(g) <=> \E k \in DOMAIN t : c \in t[k].blocks
    BY <1>3 DEF HeapBlocks
  <2>3. \A c : c \in HeapBlocks(g) <=> c \in HeapBlocks(h) \ {b}
    BY <1>6, <1>8, <2>1, <2>2
  <2> QED
    BY <2>3
<1> QED
  BY <1>3, <1>4, <1>10, <1>11, <1>13, <1>14 DEF SoundHeap, g

------------------------------------------------------------------------------
(* What callers hold follows the blocks.                                   *)

(* The payload of a block tells which one it is.                           *)
LEMMA PayloadIsBlock ==
  ASSUME NEW h, SoundHeap(h), NEW b \in HeapBlocks(h), NEW c \in HeapBlocks(h),
         block_payload(b) = block_payload(c)
  PROVE  b = c
<1>1. /\ b.addr \in Nat /\ c.addr \in Nat
      /\ block_payload(b) = b.addr + HEADER_SIZE
      /\ block_payload(c) = c.addr + HEADER_SIZE
      /\ b.addr < block_end(b) /\ c.addr < block_end(c)
  BY BlockPlaced, SizesFacts DEF Chunk, block_end
<1>2. b.addr = c.addr
  <2>1. HEADER_SIZE \in Nat /\ b.addr + HEADER_SIZE = c.addr + HEADER_SIZE
    BY <1>1, SizesFacts
  <2> QED
    BY <1>1, <2>1
<1>3. /\ block_end(b) \in Nat /\ block_end(c) \in Nat
      /\ b # c => block_end(b) <= c.addr \/ block_end(c) <= b.addr
  BY BlockPlaced
<1> QED
  BY <1>1, <1>2, <1>3

(* The pointers callers hold are not NULL.                                 *)
LEMMA HeldPointers ==
  ASSUME NEW h, SoundHeap(h), NEW own, Held(HeapBlocks(h), own), NEW p \in DOMAIN own
  PROVE  p \in Nat /\ p # NULL /\ own[p] \in 1 .. SIZE_MAX
  BY BlockPlaced, HeapAssumption DEF Held, NULL

(* A pointer that nobody holds cannot be given back.                       *)
LEMMA ReturnedUnheld ==
  ASSUME NEW B, NEW own, Held(B, own), NEW ptr, ptr \notin DOMAIN own
  PROVE  Returned(own, ptr) = own
  BY DEF Held, Returned

(* A block goes, and its pointer is given back.                            *)
LEMMA HeldReturned ==
  ASSUME NEW h, SoundHeap(h), NEW own, Held(HeapBlocks(h), own),
         NEW b \in HeapBlocks(h)
  PROVE  Held(HeapBlocks(h) \ {b}, Returned(own, block_payload(b)))
<1>1. \A c \in HeapBlocks(h) : block_payload(c) = block_payload(b) => c = b
  BY PayloadIsBlock
<1> QED
  BY <1>1 DEF Held, Returned

(* A block appears, and its pointer is handed out.                         *)
LEMMA HeldGiven ==
  ASSUME NEW g, SoundHeap(g), NEW B, NEW own, Held(B, own), NEW c, c \notin B,
         HeapBlocks(g) = B \cup {c},
         NEW n \in 1 .. SIZE_MAX, Snug(c, align_size(n))
  PROVE  /\ block_payload(c) \notin DOMAIN own
         /\ Held(HeapBlocks(g), Given(own, block_payload(c), n))
<1>1. \A d \in B : block_payload(d) # block_payload(c)
  BY PayloadIsBlock
<1> QED
  BY <1>1 DEF Held, Given

(* What a call that hands out a new block leaves behind.                   *)
HandsOut(h, own, n, result) ==
  /\ SoundHeap(result.heap)
  /\ result.ptr \in 1 .. MEM_END - 1
  /\ IsMultiple(result.ptr, ALIGNMENT)
  /\ result.ptr \notin DOMAIN own
  /\ \A m \in 1 .. SIZE_MAX : align_size(m) = align_size(n)
       => Held(HeapBlocks(result.heap), Given(own, result.ptr, m))

(* A call hands out a block that was not there before.                     *)
LEMMA BlockAppears ==
  ASSUME NEW h, NEW own, Held(HeapBlocks(h), own), NEW n \in 1 .. SIZE_MAX,
         NEW result, SoundHeap(result.heap),
         NEW c, result.ptr = block_payload(c),
         HeapBlocks(result.heap) = HeapBlocks(h) \cup {c},
         c \notin HeapBlocks(h), Snug(c, align_size(n))
  PROVE  HandsOut(h, own, n, result)
<1>1. c \in HeapBlocks(result.heap)
  OBVIOUS
<1>2. result.ptr \in 1 .. MEM_END - 1 /\ IsMultiple(result.ptr, ALIGNMENT)
  BY <1>1, BlockPlaced
<1>3. \A m \in 1 .. SIZE_MAX : align_size(m) = align_size(n)
        => Held(HeapBlocks(result.heap), Given(own, result.ptr, m))
  BY HeldGiven
<1>4. result.ptr \notin DOMAIN own
  BY HeldGiven
<1> QED
  BY <1>2, <1>3, <1>4 DEF HandsOut

------------------------------------------------------------------------------
(* malloc                                                                  *)

(* A size that fits in a chunk of a heap is on the grid.                   *)
LEMMA ServedOnGrid ==
  ASSUME NEW n \in Nat,
         align_size(n) <= SIZE_MAX - ZONE_HEADER_SIZE - HEADER_SIZE
  PROVE  /\ align_size(n) <= SIZE_MAX - ALIGNMENT
         /\ IsMultiple(align_size(n), ALIGNMENT)
<1>1. HEADER_SIZE >= ALIGNMENT
  BY SizesAssumption, MultipleIsLarge DEF IsMultiple
<1> QED
  BY <1>1, AlignBounds, SizesFacts, SizesAssumption

(* A zone that is not LARGE serves a request, or has no room after all.    *)
LEMMA AllocateInZone ==
  ASSUME NEW h, SoundHeap(h), NEW own, Held(HeapBlocks(h), own),
         NEW n \in 1 .. SIZE_MAX,
         NEW i \in DOMAIN h.zones, h.zones[i].type # "LARGE",
         NEW result \in allocate_block(h, i, align_size(n))
  PROVE  \/ result = [heap |-> h, ptr |-> NULL]
         \/ HandsOut(h, own, n, result)
<1> DEFINE z == h.zones[i]
           size == align_size(n)
<1>1. SoundZone(z) /\ WellFormed(z)
  BY DEF SoundHeap, SoundZone
<1>2. size \in Nat /\ size >= ALIGNMENT
  BY AlignFacts
<1>3. ASSUME NEW x \in find_empty_space(z, size),
             result = [heap |-> [h EXCEPT !.zones[i] = allocate_from_empty(z, x, size)],
                       ptr  |-> block_payload(x)]
      PROVE  HandsOut(h, own, n, result)
  <2> DEFINE w == allocate_from_empty(z, x, size)
  <2>1. /\ x \in z.empty_spaces /\ x \in Chunks(z) /\ x \notin z.blocks
        /\ x.data_size >= size
    BY <1>1 DEF find_empty_space, Chunks, WellFormed, LaidOut, Layout
  <2>2. IsMultiple(size, ALIGNMENT)
    BY <1>1, <1>2, <2>1, ChunkPlaced, ServedOnGrid, SizesFacts, SizesAssumption
  <2> HIDE DEF z, size
  <2>3. PICK c \in Chunk : /\ c.addr = x.addr /\ Snug(c, size)
                           /\ w.blocks = z.blocks \cup {c}
    BY <1>1, <1>2, AllocateEffect
  <2>4. SameFrame(z, w) /\ Honest(w) /\ WellFormed(w) /\ AllOnGrid(w)
    BY <1>1, <1>2, <2>2, AllocateEffect, AllocateWellFormed DEF SoundZone
  <2> HIDE DEF w
  <2>5. SoundZone(w)
    BY <1>1, <2>4 DEF SoundZone, SameFrame, Placed, HoldsOne, z
  <2> DEFINE gone == {}
             new == {c}
  <2>6. gone \in SUBSET z.blocks /\ w.blocks = (z.blocks \ gone) \cup new
    BY <2>3
  <2>7. /\ SoundHeap(SetZone(h, i, w))
        /\ HeapBlocks(SetZone(h, i, w)) = (HeapBlocks(h) \ gone) \cup new
    <3> HIDE DEF gone, new
    <3> QED
      BY <2>4, <2>5, <2>6, SetZoneSound DEF z
  <2>8. c \notin HeapBlocks(h)
    <3> SUFFICES ASSUME NEW j \in DOMAIN h.zones, c \in h.zones[j].blocks
                 PROVE  FALSE
      BY DEF HeapBlocks
    <3>1. c \in Chunks(h.zones[j])
      BY DEF Chunks
    <3> QED
      BY <2>1, <2>3, <3>1, AddressIsChunk DEF z
  <2>9. result.heap = SetZone(h, i, w) /\ result.ptr = block_payload(c)
    BY <1>3, <2>3 DEF SetZone, w, block_payload
  <2>10. HeapBlocks(result.heap) = HeapBlocks(h) \cup {c}
    BY <2>7, <2>9
  <2> QED
    BY <2>3, <2>7, <2>8, <2>9, <2>10, BlockAppears DEF size
<1> QED
  BY <1>3 DEF allocate_block

(* The pages are on the grid.                                              *)
LEMMA PageOnGrid ==
  ASSUME NEW p \in PageAddrs
  PROVE  p \in Nat /\ p > 0 /\ IsMultiple(p, ALIGNMENT)
<1>1. /\ PAGESIZE \in Nat \ {0} /\ IsMultiple(PAGESIZE, ALIGNMENT)
      /\ ALIGNMENT \in Nat \ {0}
  BY SizesAssumption
<1>2. p \in Nat /\ p > 0 /\ IsMultiple(p, PAGESIZE)
  BY <1>1, HeapAssumption DEF PageAddrs
<1>3. IsMultiple(p, ALIGNMENT)
  BY <1>1, <1>2, MultipleOfMultiple
<1> QED
  BY <1>2, <1>3

(* A zone that was just put in front is changed in place.                  *)
LEMMA ChangeHead ==
  ASSUME NEW S, NEW s \in Seq(S), NEW z, NEW w
  PROVE  [<<z>> \o s EXCEPT ![1] = w] = <<w>> \o s
<1> DEFINE T == S \cup {z, w}
<1>1. s \in Seq(T) /\ Len(s) \in Nat
  <2>1. S \subseteq T
    OBVIOUS
  <2> HIDE DEF T
  <2> QED
    BY <2>1, SeqMonotonic, LenProperties
<1>2. <<z>> \in Seq(T) /\ <<w>> \in Seq(T) /\ Len(<<z>>) = 1 /\ Len(<<w>>) = 1
  OBVIOUS
<1> HIDE DEF T
<1> DEFINE u == <<z>> \o s
           v == <<w>> \o s
<1>3. /\ u \in Seq(T) /\ Len(u) = 1 + Len(s)
      /\ \A k \in 1 .. 1 + Len(s) : u[k] = IF k <= 1 THEN <<z>>[k] ELSE s[k - 1]
  BY <1>1, <1>2, ConcatProperties
<1>4. /\ v \in Seq(T) /\ Len(v) = 1 + Len(s)
      /\ \A k \in 1 .. 1 + Len(s) : v[k] = IF k <= 1 THEN <<w>>[k] ELSE s[k - 1]
  BY <1>1, <1>2, ConcatProperties
<1> HIDE DEF u, v
<1>5. /\ u \in [1 .. 1 + Len(s) -> T] /\ v \in [1 .. 1 + Len(s) -> T]
  BY <1>3, <1>4, LenProperties
<1>6. \A k \in 1 .. 1 + Len(s) : [u EXCEPT ![1] = w][k] = v[k]
  <2> SUFFICES ASSUME NEW k \in 1 .. 1 + Len(s)
               PROVE  [u EXCEPT ![1] = w][k] = v[k]
    OBVIOUS
  <2>1. CASE k = 1
    BY <1>1, <1>4, <1>5, <2>1
  <2>2. CASE k # 1
    <3>1. ~(k <= 1)
      BY <1>1, <2>2
    <3> QED
      BY <1>3, <1>4, <1>5, <2>2, <3>1
  <2> QED
    BY <2>1, <2>2
<1> QED
  BY <1>5, <1>6 DEF u, v

(* So is the heap that starts with it.                                     *)
LEMMA SetHead ==
  ASSUME NEW S, NEW s \in Seq(S), NEW z, NEW w, NEW m
  PROVE  SetZone([zones |-> <<z>> \o s, mapped |-> m], 1, w) =
           [zones |-> <<w>> \o s, mapped |-> m]
<1> DEFINE t == <<z>> \o s
           g == [zones |-> t, mapped |-> m]
<1>1. [t EXCEPT ![1] = w] = <<w>> \o s
  BY ChangeHead
<1> HIDE DEF t
<1>2. g \in [zones : {t}, mapped : {m}] /\ g.zones = t /\ g.mapped = m
  OBVIOUS
<1> HIDE DEF g
<1>3. [g EXCEPT !.zones[1] = w] =
        [zones |-> [g.zones EXCEPT ![1] = w], mapped |-> g.mapped]
  BY <1>2
<1>4. [g EXCEPT !.zones[1] = w] = [zones |-> [t EXCEPT ![1] = w], mapped |-> m]
  BY <1>2, <1>3, Zenon
<1>5. SetZone(g, 1, w) = [zones |-> <<w>> \o s, mapped |-> m]
  BY <1>1, <1>4, Zenon DEF SetZone
<1> QED
  BY <1>5 DEF g, t

(* A fresh zone with room for a request serves it.                         *)
LEMMA AllocateInFresh ==
  ASSUME NEW h, SoundHeap(h), NEW own, Held(HeapBlocks(h), own),
         NEW n \in 1 .. SIZE_MAX, NEW type \in ZoneTypes,
         NEW len \in Nat, len <= SIZE_MAX,
         len >= ZONE_HEADER_SIZE + HEADER_SIZE + align_size(n),
         IsMultiple(len - ZONE_HEADER_SIZE - HEADER_SIZE, ALIGNMENT),
         NEW base \in mmap(h, len),
         NEW g, g = [zones  |-> <<zone_init(base, type, len)>> \o h.zones,
                     mapped |-> h.mapped \cup PagesOf(base, len)],
         NEW result \in allocate_block(g, 1, align_size(n))
  PROVE  HandsOut(h, own, n, result)
<1> DEFINE z == zone_init(base, type, len)
           size == align_size(n)
           e == [addr      |-> base + ZONE_HEADER_SIZE,
                 data_size |-> len - ZONE_HEADER_SIZE - HEADER_SIZE]
           w == allocate_from_empty(z, e, size)
           pages == h.mapped \cup PagesOf(base, len)
<1>1. /\ size \in Nat /\ size >= ALIGNMENT
      /\ size <= SIZE_MAX - ZONE_HEADER_SIZE - HEADER_SIZE
      /\ IsMultiple(size, ALIGNMENT)
  <2>1. size \in Nat /\ size >= ALIGNMENT
    BY AlignFacts
  <2>2. size <= SIZE_MAX - ZONE_HEADER_SIZE - HEADER_SIZE
    BY <2>1, SizesFacts, SizesAssumption
  <2> QED
    BY <2>1, <2>2, ServedOnGrid
<1>2. base \in PageAddrs /\ base \in Nat /\ base + len <= MEM_END
  BY PageOnGrid DEF mmap
<1>3. /\ z.start = base /\ z.end = base + len /\ z.type = type
      /\ z.total_space = len - ZONE_HEADER_SIZE
      /\ z.blocks = {} /\ z.empty_spaces = {e}
  BY DEF zone_init
<1>4. WellFormed(z)
  BY <1>1, <1>2, InitWellFormed, SizesFacts
<1>5. OnGrid(e)
  <2>1. /\ IsMultiple(base, ALIGNMENT) /\ base \in Int
        /\ ZONE_HEADER_SIZE \in Int /\ IsMultiple(ZONE_HEADER_SIZE, ALIGNMENT)
    BY <1>2, PageOnGrid, SizesAssumption
  <2>2. IsMultiple(base + ZONE_HEADER_SIZE, ALIGNMENT)
    BY <2>1, GridFacts
  <2> QED
    BY <2>2 DEF OnGrid
<1>6. find_empty_space(z, size) = {e}
  <2>1. e.data_size >= size /\ e.addr <= e.addr
    BY <1>1, <1>2, SizesFacts
  <2> HIDE DEF e, z, size
  <2> QED
    BY <1>3, <2>1 DEF find_empty_space
<1>7. AllOnGrid(z)
  BY <1>3, <1>5 DEF AllOnGrid, Chunks
<1>8. e.addr = z.start + ZONE_HEADER_SIZE
  BY <1>3
<1> HIDE DEF z, size, e
<1>15. e \in find_empty_space(z, size)
  BY <1>6
<1>9. PICK c \in Chunk : c.addr = e.addr /\ Snug(c, size) /\ w.blocks = z.blocks \cup {c}
  BY <1>1, <1>4, <1>15, AllocateEffect
<1>10. SameFrame(z, w) /\ Honest(w) /\ WellFormed(w) /\ AllOnGrid(w)
  BY <1>1, <1>4, <1>6, <1>7, AllocateEffect, AllocateWellFormed
<1> HIDE DEF w
<1>11. SoundZone(w) /\ w.start = base /\ w.end = base + len /\ w.blocks = {c}
  <2>1. w.start = base /\ w.end = base + len /\ w.blocks = {c}
    BY <1>3, <1>9, <1>10 DEF SameFrame
  <2>2. Placed(w)
    BY <1>2, <1>3, <1>10, <2>1 DEF Placed, SameFrame
  <2>3. HoldsOne(w)
    BY <1>8, <1>9, <1>10, <2>1 DEF HoldsOne, SameFrame
  <2> QED
    BY <1>10, <2>1, <2>2, <2>3 DEF SoundZone
<1>12. result = [heap |-> [zones |-> <<w>> \o h.zones, mapped |-> pages],
                 ptr  |-> block_payload(e)]
  <2> DEFINE s == <<z>> \o h.zones
  <2>1. h.zones \in Seq(GoodZones)
    BY DEF SoundHeap, GoodHeaps
  <2>3. s[1] = z
    BY <2>1
  <2>4. g = [zones |-> s, mapped |-> pages]
    BY DEF z
  <2> HIDE DEF s, pages
  <2>5. g.zones[1] = z /\ find_empty_space(g.zones[1], size) = {e}
    BY <1>6, <2>3, <2>4
  <2>6. result = [heap |-> SetZone(g, 1, w), ptr |-> block_payload(e)]
    BY <2>5 DEF allocate_block, size, w, SetZone
  <2>7. SetZone(g, 1, w) = [zones |-> <<w>> \o h.zones, mapped |-> pages]
    <3>1. \A r \in Seq(GoodZones) : \A x, y, m :
            SetZone([zones |-> <<x>> \o r, mapped |-> m], 1, y) =
              [zones |-> <<y>> \o r, mapped |-> m]
      BY SetHead
    <3>2. \A x, y, m :
            SetZone([zones |-> <<x>> \o h.zones, mapped |-> m], 1, y) =
              [zones |-> <<y>> \o h.zones, mapped |-> m]
      BY <2>1, <3>1, Zenon
    <3>3. SetZone([zones |-> s, mapped |-> pages], 1, w) =
            [zones |-> <<w>> \o h.zones, mapped |-> pages]
      BY <3>2, Zenon DEF s
    <3> QED
      BY <2>4, <3>3, Zenon
  <2> QED
    BY <2>6, <2>7
<1>13. /\ SoundHeap(result.heap)
       /\ HeapBlocks(result.heap) = HeapBlocks(h) \cup {c}
       /\ c \notin HeapBlocks(h)
  <2>1. /\ SoundHeap([zones |-> <<w>> \o h.zones, mapped |-> pages])
        /\ HeapBlocks([zones |-> <<w>> \o h.zones, mapped |-> pages]) =
             HeapBlocks(h) \cup w.blocks
        /\ HeapBlocks(h) \cap w.blocks = {}
    BY <1>11, PushZoneSound
  <2> QED
    BY <1>11, <1>12, <2>1
<1>14. result.ptr = block_payload(c)
  BY <1>9, <1>12 DEF block_payload
<1> QED
  BY <1>9, <1>13, <1>14, BlockAppears DEF size

(* A request that was served or refused: a refusal changes nothing.        *)
Served(h, own, n, result) ==
  result = [heap |-> h, ptr |-> NULL] \/ HandsOut(h, own, n, result)

(* A zone that is mapped for a request serves it; a failed mapping refuses *)
(* it.                                                                     *)
LEMMA MapZoneServes ==
  ASSUME NEW h, SoundHeap(h), NEW own, Held(HeapBlocks(h), own),
         NEW n \in 1 .. SIZE_MAX, NEW type \in ZoneTypes,
         NEW len \in Nat, len <= SIZE_MAX,
         len >= ZONE_HEADER_SIZE + HEADER_SIZE + align_size(n),
         IsMultiple(len - ZONE_HEADER_SIZE - HEADER_SIZE, ALIGNMENT),
         NEW found \in MapZone(h, type, len),
         NEW result \in IF found.at = 0
                        THEN {[heap |-> found.heap, ptr |-> NULL]}
                        ELSE allocate_block(found.heap, found.at, align_size(n))
  PROVE  Served(h, own, n, result)
<1>1. CASE found \in NoZone(h)
  BY <1>1 DEF NoZone, Served
<1>2. ASSUME NEW base \in mmap(h, len),
             found = [heap |-> [zones  |-> <<zone_init(base, type, len)>> \o h.zones,
                                mapped |-> h.mapped \cup PagesOf(base, len)],
                      at   |-> 1]
      PROVE  Served(h, own, n, result)
  <2> DEFINE g == [zones  |-> <<zone_init(base, type, len)>> \o h.zones,
                   mapped |-> h.mapped \cup PagesOf(base, len)]
  <2>1. found = [heap |-> g, at |-> 1]
    BY <1>2
  <2>2. g = [zones  |-> <<zone_init(base, type, len)>> \o h.zones,
             mapped |-> h.mapped \cup PagesOf(base, len)]
    OBVIOUS
  <2> HIDE DEF g
  <2>3. result \in allocate_block(g, 1, align_size(n))
    BY <2>1
  <2>4. HandsOut(h, own, n, result)
    BY <2>2, <2>3, AllocateInFresh
  <2> QED
    BY <2>4 DEF Served
<1> QED
  BY <1>1, <1>2 DEF MapZone

(* malloc: every request is served or refused.                             *)
LEMMA AllocateSound ==
  ASSUME NEW h, SoundHeap(h), NEW own, Held(HeapBlocks(h), own),
         NEW n \in Nat, NEW result \in Allocate(h, n)
  PROVE  /\ Served(h, own, n, result)
         /\ result.ptr # NULL => n \in 1 .. SIZE_MAX
<1>1. CASE n = 0 \/ n > MAX_ALLOC_SIZE
  BY <1>1 DEF Allocate, Served
<1>2. CASE ~(n = 0 \/ n > MAX_ALLOC_SIZE)
  <2> DEFINE size == align_size(n)
             type == get_zone_type(size)
             Outcome(found) == IF found.at = 0
                               THEN {[heap |-> found.heap, ptr |-> NULL]}
                               ELSE allocate_block(found.heap, found.at, size)
  <2>1. n \in 1 .. SIZE_MAX /\ size \in Nat /\ size >= ALIGNMENT
    BY <1>2, AlignFacts, SizesAssumption
  <2> SUFFICES Served(h, own, n, result)
    BY <2>1
  <2>2. /\ type \in ZoneTypes
        /\ type = "TINY" => size <= TINY_DATA_MAX
        /\ type = "SMALL" => size <= SMALL_DATA_MAX
    <3> HIDE DEF size
    <3> QED
      BY <2>1, SizesAssumption DEF get_zone_type, ZoneTypes
  <2> HIDE DEF size, type
  <2>3. PICK found \in find_zone(h, type, size) : result \in Outcome(found)
    BY <1>2 DEF Allocate, size, type
  <2>4. ASSUME NEW len \in Nat, found \in MapZone(h, type, len), len <= SIZE_MAX,
               len >= ZONE_HEADER_SIZE + HEADER_SIZE + size,
               IsMultiple(len - ZONE_HEADER_SIZE - HEADER_SIZE, ALIGNMENT)
        PROVE  Served(h, own, n, result)
    BY <2>1, <2>2, <2>3, <2>4, MapZoneServes DEF size
  <2>5. CASE type = "LARGE"
    <3> DEFINE len == size + HEADER_SIZE + ZONE_HEADER_SIZE
    <3>1. found \in create_large_zone(h, size)
      BY <2>3, <2>5 DEF find_zone
    <3>2. CASE size > SIZE_MAX - HEADER_SIZE - ZONE_HEADER_SIZE
      BY <2>3, <3>1, <3>2 DEF create_large_zone, NoZone, Served
    <3>3. CASE ~(size > SIZE_MAX - HEADER_SIZE - ZONE_HEADER_SIZE)
      <4>1. /\ len \in Nat /\ len < SIZE_MAX + 1 /\ SIZE_MAX \in Nat
            /\ len >= ZONE_HEADER_SIZE + HEADER_SIZE + size
            /\ len - ZONE_HEADER_SIZE - HEADER_SIZE = size
            /\ size <= SIZE_MAX - ZONE_HEADER_SIZE - HEADER_SIZE
        BY <2>1, <3>3, SizesFacts, SizesAssumption
      <4>2. IsMultiple(size, ALIGNMENT)
        BY <4>1, ServedOnGrid DEF size
      <4> HIDE DEF len
      <4>3. Wrap(len) = len
        BY <4>1 DEF Wrap
      <4>4. found \in MapZone(h, type, len)
        BY <2>5, <3>1, <3>3, <4>3 DEF create_large_zone, len
      <4> QED
        BY <2>4, <4>1, <4>2, <4>4
    <3> QED
      BY <3>2, <3>3
  <2>6. CASE type # "LARGE" /\ found \in create_zone(h, type)
    <3> DEFINE len == IF type = "TINY" THEN TINY_ZONE_SIZE ELSE SMALL_ZONE_SIZE
    <3>1. /\ len \in Nat /\ len <= SIZE_MAX /\ IsMultiple(len, PAGESIZE)
          /\ len >= ZONE_HEADER_SIZE + HEADER_SIZE + size
          /\ found \in MapZone(h, type, len)
      BY <2>1, <2>2, <2>6, SizesAssumption DEF create_zone, ZoneTypes
    <3> HIDE DEF len
    <3>2. IsMultiple(len, ALIGNMENT)
      BY <3>1, SizesAssumption, MultipleOfMultiple
    <3>3. /\ len \in Int /\ ZONE_HEADER_SIZE \in Int /\ HEADER_SIZE \in Int
          /\ IsMultiple(ZONE_HEADER_SIZE, ALIGNMENT)
          /\ IsMultiple(HEADER_SIZE, ALIGNMENT)
      BY <3>1, SizesAssumption
    <3>4. /\ len - ZONE_HEADER_SIZE \in Int
          /\ IsMultiple(len - ZONE_HEADER_SIZE, ALIGNMENT)
      BY <3>2, <3>3, GridFacts
    <3>5. IsMultiple(len - ZONE_HEADER_SIZE - HEADER_SIZE, ALIGNMENT)
      BY <3>3, <3>4, GridFacts
    <3> QED
      BY <2>4, <3>1, <3>5
  <2>7. CASE type # "LARGE" /\ \E i \in FittingZone(h, type, size) :
                                  found = [heap |-> h, at |-> i]
    <3>1. PICK i \in FittingZone(h, type, size) : found = [heap |-> h, at |-> i]
      BY <2>7
    <3>2. i \in DOMAIN h.zones /\ h.zones[i].type # "LARGE" /\ i # 0
      BY <2>7, LenProperties DEF FittingZone, SoundHeap, GoodHeaps
    <3>3. result \in allocate_block(h, i, align_size(n))
      BY <2>3, <3>1, <3>2 DEF size
    <3>4. result = [heap |-> h, ptr |-> NULL] \/ HandsOut(h, own, n, result)
      BY <2>1, <3>2, <3>3, AllocateInZone
    <3> QED
      BY <3>4 DEF Served
  <2> QED
    BY <2>1, <2>3, <2>5, <2>6, <2>7 DEF find_zone
<1> QED
  BY <1>1, <1>2

------------------------------------------------------------------------------
(* free                                                                    *)

(* The look-up of a pointer finds its block if a caller holds the pointer, *)
(* and nothing if not.                                                     *)
LEMMA BlockOfHeld ==
  ASSUME NEW h, SoundHeap(h), NEW own, Held(HeapBlocks(h), own), NEW ptr \in Nat
  PROVE  /\ \A f \in BlockOf(h, ptr) :
              /\ f.at \in DOMAIN h.zones /\ f.block \in h.zones[f.at].blocks
              /\ f.block \in HeapBlocks(h) /\ block_payload(f.block) = ptr
              /\ ptr \in DOMAIN own
         /\ ptr \in DOMAIN own => BlockOf(h, ptr) # {}
<1>1. ASSUME NEW f \in BlockOf(h, ptr)
      PROVE  /\ f.at \in DOMAIN h.zones /\ f.block \in h.zones[f.at].blocks
             /\ f.block \in HeapBlocks(h) /\ block_payload(f.block) = ptr
             /\ ptr \in DOMAIN own
  <2>1. /\ f.at \in DOMAIN h.zones /\ f.block \in h.zones[f.at].blocks
        /\ f.block.addr = ptr - HEADER_SIZE
    BY DEF BlockOf, find_zone_for_ptr, is_valid_block, block_from_payload
  <2>2. f.block \in HeapBlocks(h)
    BY <2>1 DEF HeapBlocks
  <2>3. block_payload(f.block) = ptr
    BY <2>1, SizesFacts DEF block_payload
  <2> QED
    BY <2>1, <2>2, <2>3 DEF Held
<1>2. ASSUME ptr \in DOMAIN own
      PROVE  BlockOf(h, ptr) # {}
  <2>1. PICK b \in HeapBlocks(h) : block_payload(b) = ptr
    BY <1>2 DEF Held
  <2>2. PICK i \in DOMAIN h.zones : b \in h.zones[i].blocks
    BY DEF HeapBlocks
  <2>3. SoundZone(h.zones[i]) /\ b \in Chunks(h.zones[i])
    BY <2>2 DEF SoundHeap, Chunks
  <2>4. /\ h.zones[i].start \in Nat /\ h.zones[i].end \in Nat
        /\ h.zones[i].start <= ptr /\ ptr < h.zones[i].end /\ ptr # NULL
    BY <2>1, <2>3, ZonePlaced, ChunkPlaced, SizesFacts DEF NULL
  <2>5. \A j \in DOMAIN h.zones : j # i =>
          ~(h.zones[j].start <= ptr /\ ptr < h.zones[j].end)
    <3> SUFFICES ASSUME NEW j \in DOMAIN h.zones, j # i
                 PROVE  ~(h.zones[j].start <= ptr /\ ptr < h.zones[j].end)
      OBVIOUS
    <3>1. SoundZone(h.zones[j]) /\ RangesApart(h.zones[j], h.zones[i])
      BY DEF SoundHeap
    <3>2. h.zones[j].start \in Nat /\ h.zones[j].end \in Nat
      BY <3>1, ZonePlaced
    <3> QED
      BY <2>4, <3>1, <3>2 DEF RangesApart
  <2>6. /\ DOMAIN h.zones = 1 .. Len(h.zones) /\ Len(h.zones) \in Nat
    BY LenProperties DEF SoundHeap, GoodHeaps
  <2>7. \A j \in 1 .. i - 1 : j \in DOMAIN h.zones /\ j # i
    BY <2>6
  <2>8. i \in find_zone_for_ptr(h, ptr)
    BY <2>4, <2>5, <2>7 DEF find_zone_for_ptr
  <2>9. b.addr = block_from_payload(ptr)
    BY <2>1, <2>3, ChunkPlaced, SizesFacts DEF block_payload, block_from_payload
  <2>10. b \in is_valid_block(block_from_payload(ptr), h.zones[i])
    BY <2>2, <2>9 DEF is_valid_block
  <2> DEFINE Found(k) ==
        {[at |-> k, block |-> c] :
           c \in is_valid_block(block_from_payload(ptr), h.zones[k])}
  <2>11. BlockOf(h, ptr) = UNION {Found(k) : k \in find_zone_for_ptr(h, ptr)}
    BY DEF BlockOf
  <2>12. [at |-> i, block |-> b] \in Found(i)
    BY <2>10
  <2> HIDE DEF Found
  <2> QED
    BY <2>8, <2>11, <2>12
<1> QED
  BY <1>1, <1>2

(* Giving a block back removes it from the heap, and nothing else.         *)
LEMMA ReleaseBlockSound ==
  ASSUME NEW h, SoundHeap(h), NEW i \in DOMAIN h.zones,
         NEW b \in h.zones[i].blocks
  PROVE  /\ SoundHeap(ReleaseBlock(h, i, b))
         /\ HeapBlocks(ReleaseBlock(h, i, b)) = HeapBlocks(h) \ {b}
<1>1. CASE h.zones[i].type = "LARGE"
  BY <1>1, DropZoneSound DEF ReleaseBlock
<1>2. CASE h.zones[i].type # "LARGE"
  <2> DEFINE z == h.zones[i]
             w == convert_block_to_empty(z, b)
             gone == {b}
             new == {}
  <2>1. SoundZone(z) /\ WellFormed(z)
    BY DEF SoundHeap, SoundZone
  <2> HIDE DEF z
  <2>2. /\ SameFrame(z, w) /\ w.blocks = z.blocks \ {b} /\ Honest(w)
        /\ AllOnGrid(w) /\ WellFormed(w)
    BY <2>1, ConvertEffect, ConvertWellFormed DEF SoundZone, z
  <2> HIDE DEF w
  <2>3. SoundZone(w)
    BY <1>2, <2>1, <2>2 DEF SoundZone, SameFrame, Placed, HoldsOne, z
  <2>4. /\ gone \in SUBSET h.zones[i].blocks
        /\ w.blocks = (h.zones[i].blocks \ gone) \cup new
    BY <2>2 DEF z
  <2>5. /\ SoundHeap(SetZone(h, i, w))
        /\ HeapBlocks(SetZone(h, i, w)) = (HeapBlocks(h) \ gone) \cup new
    <3> HIDE DEF gone, new
    <3> QED
      BY <2>2, <2>3, <2>4, SetZoneSound DEF z
  <2>6. ReleaseBlock(h, i, b) = SetZone(h, i, w)
    BY <1>2 DEF ReleaseBlock, w, z
  <2> QED
    BY <2>5, <2>6
<1> QED
  BY <1>1, <1>2

(* free: a pointer that callers hold is given back with its block, any     *)
(* other is ignored.                                                       *)
LEMMA ReleaseSound ==
  ASSUME NEW h, SoundHeap(h), NEW own, Held(HeapBlocks(h), own),
         NEW ptr \in Nat, NEW r \in Release(h, ptr)
  PROVE  /\ SoundHeap(r) /\ Held(HeapBlocks(r), Returned(own, ptr))
         /\ ptr \notin DOMAIN own => r = h
<1>1. CASE BlockOf(h, ptr) = {}
  <2>1. r = h /\ ptr \notin DOMAIN own
    BY <1>1, BlockOfHeld DEF Release
  <2>2. Held(HeapBlocks(h), Returned(own, ptr))
    BY <2>1, ReturnedUnheld
  <2> QED
    BY <2>1, <2>2
<1>2. CASE BlockOf(h, ptr) # {}
  <2>1. PICK f \in BlockOf(h, ptr) : r = ReleaseBlock(h, f.at, f.block)
    BY <1>2 DEF Release
  <2>2. /\ f.at \in DOMAIN h.zones /\ f.block \in h.zones[f.at].blocks
        /\ f.block \in HeapBlocks(h) /\ block_payload(f.block) = ptr
        /\ ptr \in DOMAIN own
    BY BlockOfHeld
  <2>3. SoundHeap(r) /\ HeapBlocks(r) = HeapBlocks(h) \ {f.block}
    BY <2>1, <2>2, ReleaseBlockSound
  <2>4. Held(HeapBlocks(h) \ {f.block}, Returned(own, block_payload(f.block)))
    BY <2>2, HeldReturned
  <2> QED
    BY <2>2, <2>3, <2>4
<1> QED
  BY <1>1, <1>2

------------------------------------------------------------------------------
(* realloc                                                                 *)

(* Handing a pointer out again is handing it out after it was given back.  *)
LEMMA GivenAgain ==
  ASSUME NEW own, NEW ptr, NEW n
  PROVE  Given(Returned(own, ptr), ptr, n) = Given(own, ptr, n)
  BY DEF Given, Returned

(* A chunk of a zone of the length of a size_t leaves room for the headers. *)
LEMMA ChunkFits ==
  ASSUME NEW z, WellFormed(z), z.end - z.start <= SIZE_MAX, NEW c \in Chunks(z)
  PROVE  c.data_size <= SIZE_MAX - ZONE_HEADER_SIZE - HEADER_SIZE
<1>1. /\ Tiling(z.start, z.end, Chunks(z)) /\ z.start \in Nat /\ z.end \in Nat
  BY DEF WellFormed, LaidOut, Layout, Chunks, ZoneRecord
<1>2. /\ c \in Chunk /\ z.start + ZONE_HEADER_SIZE <= c.addr
      /\ block_end(c) <= z.end
  BY <1>1 DEF Tiling
<1> QED
  BY <1>1, <1>2, SizesFacts, SizesAssumption DEF Chunk, block_end

(* In a zone, a block takes the place of another: it starts where that one *)
(* did, or where the space in front of it did.                             *)
LEMMA BlockReplaced ==
  ASSUME NEW h, SoundHeap(h), NEW own, Held(HeapBlocks(h), own),
         NEW i \in DOMAIN h.zones, NEW b \in h.zones[i].blocks,
         NEW n \in 1 .. SIZE_MAX,
         NEW w, WellFormed(w), SameFrame(h.zones[i], w), Honest(w),
         IsMultiple(align_size(n), ALIGNMENT) => AllOnGrid(w),
         NEW c \in Chunk, Snug(c, align_size(n)),
         w.blocks = (h.zones[i].blocks \ {b}) \cup {c},
         \/ c.addr = b.addr
         \/ \E x \in h.zones[i].empty_spaces :
              c.addr = x.addr /\ block_end(x) = b.addr
  PROVE  /\ SoundHeap(SetZone(h, i, w))
         /\ Held(HeapBlocks(SetZone(h, i, w)),
                 Given(Returned(own, block_payload(b)), block_payload(c), n))
         /\ block_payload(c) \in 1 .. MEM_END - 1
         /\ IsMultiple(block_payload(c), ALIGNMENT)
         /\ block_payload(c) # block_payload(b) => block_payload(c) \notin DOMAIN own
<1> DEFINE z == h.zones[i]
           g == SetZone(h, i, w)
           gone == {b}
           new == {c}
<1>1. /\ SoundZone(z) /\ b \in z.blocks /\ b \in Chunks(z) /\ b \in HeapBlocks(h)
      /\ z.blocks \cap z.empty_spaces = {}
  BY DEF SoundHeap, Chunks, HeapBlocks, SoundZone, WellFormed, LaidOut, Layout
<1>2. /\ w.start = z.start /\ w.end = z.end /\ w.type = z.type
      /\ w.total_space = z.total_space
  BY DEF SameFrame
<1>3. c \in Chunks(w) /\ w.blocks = (z.blocks \ {b}) \cup {c}
  BY DEF Chunks
<1> HIDE DEF z
<1>4. AllOnGrid(w)
  <2>1. c.data_size <= SIZE_MAX - ZONE_HEADER_SIZE - HEADER_SIZE
    BY <1>1, <1>2, <1>3, ChunkFits, ZonePlaced
  <2>2. align_size(n) <= SIZE_MAX - ZONE_HEADER_SIZE - HEADER_SIZE
    BY <2>1, AlignFacts, SizesFacts, SizesAssumption DEF Snug, Chunk
  <2> QED
    BY <2>2, ServedOnGrid
<1>5. ASSUME NEW x \in z.empty_spaces, block_end(x) = b.addr
      PROVE  /\ x \in Chunks(z) /\ x.addr < b.addr
             /\ z.start + ZONE_HEADER_SIZE < b.addr
  <2>1. x \in Chunks(z)
    BY DEF Chunks
  <2>2. /\ z.start + ZONE_HEADER_SIZE <= x.addr /\ x.addr \in Nat
        /\ x.addr < block_payload(x) /\ block_payload(x) < block_end(x)
        /\ block_payload(x) \in Nat /\ block_end(x) \in Nat
        /\ z.start \in Nat /\ ZONE_HEADER_SIZE \in Nat
    BY <1>1, <2>1, ChunkPlaced, ZonePlaced, SizesFacts
  <2> QED
    BY <1>5, <2>1, <2>2
<1>6. HoldsOne(w)
  <2> SUFFICES ASSUME w.type = "LARGE"
               PROVE  w.blocks = {c} /\ c.addr = w.start + ZONE_HEADER_SIZE
    BY DEF HoldsOne
  <2>1. z.blocks = {b} /\ b.addr = z.start + ZONE_HEADER_SIZE
    BY <1>1, <1>2 DEF SoundZone, HoldsOne
  <2>2. c.addr = b.addr
    <3>1. z.start \in Nat /\ ZONE_HEADER_SIZE \in Nat
      BY <1>1, ZonePlaced, SizesFacts
    <3>2. ~(z.start + ZONE_HEADER_SIZE < b.addr)
      BY <2>1, <3>1
    <3> QED
      BY <1>5, <3>2 DEF z
  <2> QED
    BY <1>2, <1>3, <2>1, <2>2
<1>7. SoundZone(w)
  BY <1>1, <1>2, <1>4, <1>6 DEF SoundZone, Placed
<1>8. gone \in SUBSET z.blocks /\ w.blocks = (z.blocks \ gone) \cup new
  BY <1>3 DEF z
<1>9. SoundHeap(g) /\ HeapBlocks(g) = (HeapBlocks(h) \ gone) \cup new
  <2> HIDE DEF gone, new
  <2> QED
    BY <1>7, <1>8, SetZoneSound DEF z
<1>10. c \notin HeapBlocks(h) \ {b}
  <2> SUFFICES ASSUME NEW j \in DOMAIN h.zones, c \in h.zones[j].blocks, c # b
               PROVE  FALSE
    BY DEF HeapBlocks
  <2>1. c \in Chunks(h.zones[j])
    BY DEF Chunks
  <2>2. CASE c.addr = b.addr
    BY <1>1, <2>1, <2>2, AddressIsChunk DEF z
  <2>3. ASSUME NEW x \in z.empty_spaces, c.addr = x.addr, block_end(x) = b.addr
        PROVE  FALSE
    <3>1. x \in Chunks(z)
      BY <1>5, <2>3
    <3>2. i = j /\ x = c
      BY <2>1, <2>3, <3>1, AddressIsChunk DEF z
    <3> QED
      BY <1>1, <2>3, <3>2 DEF z
  <2> QED
    BY <2>2, <2>3 DEF z
<1> DEFINE B == HeapBlocks(h) \ {b}
           back == Returned(own, block_payload(b))
<1>11. Held(B, back) /\ c \notin B /\ HeapBlocks(g) = B \cup {c}
  BY <1>1, <1>9, <1>10, HeldReturned
<1>12. c \in HeapBlocks(g)
  BY <1>9
<1> HIDE DEF B, back, g
<1>13. /\ Held(HeapBlocks(g), Given(back, block_payload(c), n))
       /\ block_payload(c) \notin DOMAIN back
  BY <1>9, <1>11, HeldGiven
<1>14. /\ block_payload(c) \in 1 .. MEM_END - 1
       /\ IsMultiple(block_payload(c), ALIGNMENT)
  BY <1>9, <1>12, BlockPlaced
<1>15. block_payload(c) # block_payload(b) => block_payload(c) \notin DOMAIN own
  BY <1>13 DEF back, Returned
<1> QED
  BY <1>9, <1>13, <1>14, <1>15 DEF g, back

(* The block is long enough: it is made snug where it is.                  *)
LEMMA SplitSound ==
  ASSUME NEW h, SoundHeap(h), NEW own, Held(HeapBlocks(h), own),
         NEW i \in DOMAIN h.zones, NEW b \in h.zones[i].blocks,
         NEW n \in 1 .. SIZE_MAX, b.data_size >= align_size(n)
  PROVE  LET g == SetZone(h, i, split_block(h.zones[i], b, align_size(n))) IN
         /\ SoundHeap(g)
         /\ Held(HeapBlocks(g), Given(own, block_payload(b), n))
<1> DEFINE z == h.zones[i]
           size == align_size(n)
           w == split_block(z, b, size)
<1>1. WellFormed(z) /\ AllOnGrid(z) /\ Honest(z)
  BY DEF SoundHeap, SoundZone
<1>2. size \in Nat /\ size >= ALIGNMENT
  BY AlignFacts
<1> HIDE DEF z, size
<1>3. /\ SameFrame(z, w) /\ Honest(w)
      /\ IsMultiple(size, ALIGNMENT) => AllOnGrid(w)
      /\ \E c \in Chunk : /\ c.addr = b.addr /\ Snug(c, size)
                          /\ w.blocks = (z.blocks \ {b}) \cup {c}
  BY <1>1, <1>2, SplitEffect DEF z, size
<1>4. WellFormed(w)
  BY <1>1, <1>2, SplitWellFormed DEF z
<1>5. PICK c \in Chunk : /\ c.addr = b.addr /\ Snug(c, size)
                         /\ w.blocks = (z.blocks \ {b}) \cup {c}
  BY <1>3
<1> HIDE DEF w
<1>6. /\ SoundHeap(SetZone(h, i, w))
      /\ Held(HeapBlocks(SetZone(h, i, w)),
              Given(Returned(own, block_payload(b)), block_payload(c), n))
  BY <1>3, <1>4, <1>5, BlockReplaced DEF z, size
<1>7. Given(Returned(own, block_payload(b)), block_payload(c), n) =
        Given(own, block_payload(b), n)
  BY <1>5, GivenAgain DEF block_payload
<1> QED
  BY <1>6, <1>7 DEF w, z, size

(* It grows into a neighbour: its pointer stays, or a new one is handed    *)
(* out.                                                                    *)
LEMMA ExtendedSound ==
  ASSUME NEW h, SoundHeap(h), NEW own, Held(HeapBlocks(h), own),
         NEW i \in DOMAIN h.zones, NEW b \in h.zones[i].blocks,
         NEW n \in 1 .. SIZE_MAX,
         NEW result \in Extended(h, i, b, align_size(n))
  PROVE  /\ SoundHeap(result.heap)
         /\ Held(HeapBlocks(result.heap),
                 Given(Returned(own, block_payload(b)), result.ptr, n))
         /\ result.ptr \in 1 .. MEM_END - 1 /\ IsMultiple(result.ptr, ALIGNMENT)
         /\ result.ptr # block_payload(b) => result.ptr \notin DOMAIN own
<1> DEFINE z == h.zones[i]
           size == align_size(n)
<1>1. WellFormed(z) /\ AllOnGrid(z)
  BY DEF SoundHeap, SoundZone
<1>2. size \in Nat /\ size >= ALIGNMENT
  BY AlignFacts
<1> HIDE DEF z, size
<1>3. PICK r \in try_to_extend_block(z, b, size) :
        result = [heap |-> SetZone(h, i, r.zone), ptr |-> r.ptr]
  BY DEF Extended, z, size
<1> DEFINE w == r.zone
<1>4. b \in z.blocks
  BY DEF z
<1>5. /\ SameFrame(z, w) /\ Honest(w)
      /\ IsMultiple(size, ALIGNMENT) => AllOnGrid(w)
      /\ \E c \in Chunk :
           /\ Snug(c, size) /\ w.blocks = (z.blocks \ {b}) \cup {c}
           /\ r.ptr = block_payload(c)
           /\ \/ c.addr = b.addr
              \/ \E x \in z.empty_spaces : c.addr = x.addr /\ block_end(x) = b.addr
  BY <1>1, <1>2, <1>4, ExtendEffect
<1>6. WellFormed(w)
  BY <1>1, <1>2, <1>4, ExtendWellFormed
<1>7. PICK c \in Chunk :
        /\ Snug(c, size) /\ w.blocks = (z.blocks \ {b}) \cup {c}
        /\ r.ptr = block_payload(c)
        /\ \/ c.addr = b.addr
           \/ \E x \in z.empty_spaces : c.addr = x.addr /\ block_end(x) = b.addr
  BY <1>5
<1>8. result.heap = SetZone(h, i, w) /\ result.ptr = block_payload(c)
  BY <1>3, <1>7
<1> HIDE DEF w
<1> QED
  BY <1>5, <1>6, <1>7, <1>8, BlockReplaced DEF z, size

(* Handing one pointer out and taking another back are independent.        *)
LEMMA GivenReturned ==
  ASSUME NEW own, NEW ptr, NEW new, new # ptr, NEW n
  PROVE  Returned(Given(own, new, n), ptr) = Given(Returned(own, ptr), new, n)
  BY DEF Given, Returned

(* It moves: a new block is handed out, then the old one is given back.    *)
(* realloc_malloc rounds the size a second time, which changes nothing.    *)
LEMMA MovedSound ==
  ASSUME NEW h, SoundHeap(h), NEW own, Held(HeapBlocks(h), own),
         NEW ptr \in DOMAIN own, NEW n \in 1 .. SIZE_MAX,
         NEW result \in Moved(h, ptr, align_size(n))
  PROVE  \/ result = [heap |-> h, ptr |-> NULL]
         \/ /\ SoundHeap(result.heap)
            /\ Held(HeapBlocks(result.heap),
                    Given(Returned(own, ptr), result.ptr, n))
            /\ result.ptr \in 1 .. MEM_END - 1 /\ IsMultiple(result.ptr, ALIGNMENT)
            /\ result.ptr \notin DOMAIN own
<1> DEFINE size == align_size(n)
<1>1. size \in Nat /\ align_size(size) = size
  BY AlignBounds
<1>2. align_size(n) = align_size(size)
  BY <1>1
<1> HIDE DEF size
<1>3. PICK new \in Allocate(h, size) :
        result \in IF new.ptr = NULL
                   THEN {new}
                   ELSE {[heap |-> r, ptr |-> new.ptr] : r \in Release(new.heap, ptr)}
  BY DEF Moved, size
<1>4. Served(h, own, size, new)
  BY <1>1, <1>3, AllocateSound
<1>5. CASE new = [heap |-> h, ptr |-> NULL]
  BY <1>3, <1>5
<1>6. CASE HandsOut(h, own, size, new)
  <2>1. /\ SoundHeap(new.heap) /\ new.ptr \in 1 .. MEM_END - 1
        /\ IsMultiple(new.ptr, ALIGNMENT) /\ new.ptr \notin DOMAIN own
        /\ Held(HeapBlocks(new.heap), Given(own, new.ptr, n))
    BY <1>2, <1>6 DEF HandsOut
  <2>2. new.ptr # NULL /\ ptr # new.ptr
    BY <2>1, HeapAssumption DEF NULL
  <2>3. PICK r \in Release(new.heap, ptr) : result = [heap |-> r, ptr |-> new.ptr]
    BY <1>3, <2>2
  <2>4. ptr \in Nat
    BY BlockPlaced DEF Held
  <2>5. SoundHeap(r) /\ Held(HeapBlocks(r), Returned(Given(own, new.ptr, n), ptr))
    BY <2>1, <2>3, <2>4, ReleaseSound
  <2>6. Returned(Given(own, new.ptr, n), ptr) = Given(Returned(own, ptr), new.ptr, n)
    BY <2>2, GivenReturned
  <2> QED
    BY <2>1, <2>3, <2>5, <2>6
<1> QED
  BY <1>4, <1>5, <1>6 DEF Served

(* A block that is too short for a request held a shorter one.             *)
LEMMA Grows ==
  ASSUME NEW h, SoundHeap(h), NEW own, Held(HeapBlocks(h), own),
         NEW b \in HeapBlocks(h), NEW n \in 1 .. SIZE_MAX,
         b.data_size < align_size(n)
  PROVE  own[block_payload(b)] < n
<1> DEFINE m == own[block_payload(b)]
<1>1. /\ m \in 1 .. SIZE_MAX /\ b.data_size >= align_size(m)
      /\ b.data_size \in Nat
      /\ b.data_size <= SIZE_MAX - ZONE_HEADER_SIZE - HEADER_SIZE
  BY BlockPlaced DEF Held, Snug
<1> HIDE DEF m
<1>2. /\ m \in Nat /\ n \in Nat /\ align_size(m) \in Nat /\ align_size(n) \in Nat
      /\ align_size(m) <= SIZE_MAX - ZONE_HEADER_SIZE - HEADER_SIZE
  BY <1>1, AlignBounds, SizesAssumption
<1>3. align_size(m) <= SIZE_MAX - ALIGNMENT
  BY <1>2, ServedOnGrid
<1>4. n <= m => align_size(n) <= align_size(m)
  BY <1>2, <1>3, AlignKeepsOrder
<1>5. m < n
  BY <1>1, <1>2, <1>4
<1> QED
  BY <1>5 DEF m
=============================================================================

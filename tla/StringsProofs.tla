---------------------------- MODULE StringsProofs ----------------------------
(***************************************************************************)
(* For a memory of any size and any bytes in it: the calls of the memory   *)
(* and string functions copy, search, compare and make strings as the      *)
(* properties of Strings say.                                              *)
(*                                                                         *)
(* A loop is a fold, that is, a function of the set of the turns taken,    *)
(* which FoldsAgree compares with a closed form, Filled: the memory after  *)
(* any set of turns.  Each function is then a statement about strings at   *)
(* addresses: StringAt, PutString, Appended, StandsAt, Fresh.              *)
(***************************************************************************)
EXTENDS Strings, TLAPS, FiniteSetTheorems, WellFoundedInduction, NaturalsInduction,
        SequenceTheorems

------------------------------------------------------------------------------
(* Sets of numbers.                                                        *)

LEMMA LeastOf ==
  ASSUME NEW S \in SUBSET Nat, S # {}
  PROVE  \E a \in S : \A x \in S : a <= x
<1>1. PICK a \in S : \A x \in S : ~(<<x, a>> \in OpToRel(<, Nat))
  BY WFMin, NatLessThanWellFounded
<1>2. OpToRel(<, Nat) = {ss \in Nat \X Nat : ss[1] < ss[2]}
  BY DEF OpToRel
<1>3. \A x \in S : a <= x
  <2> TAKE x \in S
  <2>1. x \in Nat /\ a \in Nat
    OBVIOUS
  <2>2. <<x, a>> \notin {ss \in Nat \X Nat : ss[1] < ss[2]}
    BY <1>1, <1>2
  <2> QED
    BY <2>1, <2>2
<1> QED
  BY <1>3

(* The least and the greatest element, once they are known.                *)
LEMMA MinIs ==
  ASSUME NEW S \in SUBSET Int, NEW a \in S, \A x \in S : a <= x
  PROVE  Min(S) = a
<1>1. \A x \in S : x <= a => x = a
  OBVIOUS
<1>2. Min(S) = CHOOSE x \in S : \A y \in S : x <= y
  BY DEF Min
<1> QED
  BY <1>1, <1>2

LEMMA MaxIs ==
  ASSUME NEW S \in SUBSET Int, NEW a \in S, \A x \in S : x <= a
  PROVE  Max(S) = a
<1>1. \A x \in S : a <= x => x = a
  OBVIOUS
<1>2. Max(S) = CHOOSE x \in S : \A y \in S : x >= y
  BY DEF Max
<1> QED
  BY <1>1, <1>2

LEMMA MinOfTwo ==
  ASSUME NEW a \in Int, NEW b \in Int
  PROVE  /\ a <= b => Min({a, b}) = a
         /\ b <= a => Min({a, b}) = b
<1>1. {a, b} \in SUBSET Int /\ a \in {a, b} /\ b \in {a, b}
  OBVIOUS
<1>2. ASSUME a <= b PROVE Min({a, b}) = a
  BY <1>1, <1>2, MinIs
<1>3. ASSUME b <= a PROVE Min({a, b}) = b
  BY <1>1, <1>3, MinIs
<1> QED
  BY <1>2, <1>3

(* Numbers between two bounds have a least and a greatest one.             *)
LEMMA LeastBetween ==
  ASSUME NEW p \in Int, NEW q \in Int, NEW S \in SUBSET (p .. q), S # {}
  PROVE  Min(S) \in S /\ \A x \in S : Min(S) <= x
<1> DEFINE T == {x - p : x \in S}
<1>1. T \in SUBSET Nat /\ T # {}
  <2>1. \A x \in S : x \in Int /\ p <= x /\ x <= q
    OBVIOUS
  <2>2. \A x \in S : x - p \in Nat
    BY <2>1
  <2> QED
    BY <2>2
<1>2. PICK t \in T : \A x \in T : t <= x
  <2> HIDE DEF T
  <2> QED
    BY <1>1, LeastOf
<1>3. PICK a \in S : t = a - p
  OBVIOUS
<1>4. \A x \in S : a <= x
  <2> TAKE x \in S
  <2>1. x - p \in T
    OBVIOUS
  <2>2. t <= x - p
    BY <1>2, <2>1
  <2> QED
    BY <1>3, <2>2
<1>5. S \in SUBSET Int
  OBVIOUS
<1>6. Min(S) = a
  BY <1>4, <1>5, MinIs
<1> QED
  BY <1>4, <1>6

LEMMA GreatestBetween ==
  ASSUME NEW p \in Int, NEW q \in Int, NEW S \in SUBSET (p .. q), S # {}
  PROVE  Max(S) \in S /\ \A x \in S : x <= Max(S)
<1> DEFINE T == {q - x : x \in S}
<1>1. T \in SUBSET Nat /\ T # {}
  <2>1. \A x \in S : x \in Int /\ p <= x /\ x <= q
    OBVIOUS
  <2>2. \A x \in S : q - x \in Nat
    BY <2>1
  <2> QED
    BY <2>2
<1>2. PICK t \in T : \A x \in T : t <= x
  <2> HIDE DEF T
  <2> QED
    BY <1>1, LeastOf
<1>3. PICK a \in S : t = q - a
  OBVIOUS
<1>4. \A x \in S : x <= a
  <2> TAKE x \in S
  <2>1. q - x \in T
    OBVIOUS
  <2>2. t <= q - x
    BY <1>2, <2>1
  <2> QED
    BY <1>3, <2>2
<1>5. S \in SUBSET Int
  OBVIOUS
<1>6. Max(S) = a
  BY <1>4, <1>5, MaxIs
<1> QED
  BY <1>4, <1>6

------------------------------------------------------------------------------
(* Folds over the indices of a sequence.                                   *)

(* Two functions that give what a fold has after its first turns, by the   *)
(* set of these turns, agree when each turn does the same to both.         *)
LEMMA FoldsAgree ==
  ASSUME NEW n \in Nat, NEW g, NEW h, g[{}] = h[{}],
         \A t \in SUBSET (1 .. n) :
           t # {} /\ g[t \ {Max(t)}] = h[t \ {Max(t)}] => g[t] = h[t]
  PROVE  g[1 .. n] = h[1 .. n]
<1> DEFINE D == 1 .. n
           Bad == {t \in SUBSET D : g[t] # h[t]}
<1> SUFFICES ASSUME Bad # {}
             PROVE  FALSE
  BY DEF D
<1>1. IsFiniteSet(D)
  BY FS_Interval
<1>2. \A s \in SUBSET D : IsFiniteSet(s)
  BY <1>1, FS_Subset
<1>3. Bad \subseteq FiniteSubsetsOf(D)
  BY <1>2 DEF FiniteSubsetsOf
<1>4. PICK t \in Bad : \A u \in Bad : ~(<<u, t>> \in StrictSubsetOrdering(D))
  <2> HIDE DEF Bad
  <2> QED
    BY <1>1, <1>3, FS_StrictSubsetOrderingWellFounded, WFMin
<1>5. t \in SUBSET (1 .. n) /\ t # {} /\ g[t] # h[t]
  OBVIOUS
<1>6. Max(t) \in t
  <2>1. 1 \in Int /\ n \in Int
    OBVIOUS
  <2> QED
    BY <1>5, <2>1, GreatestBetween
<1> DEFINE u == t \ {Max(t)}
<1>7. u \subseteq t /\ u # t /\ u \in SUBSET D
  BY <1>5, <1>6
<1>8. <<u, t>> \in StrictSubsetOrdering(D)
  <2> HIDE DEF u
  <2> QED
    BY <1>5, <1>7 DEF StrictSubsetOrdering
<1>9. u \notin Bad
  <2> HIDE DEF u, Bad
  <2> QED
    BY <1>4, <1>8
<1>10. g[u] = h[u]
  BY <1>7, <1>9
<1> QED
  BY <1>5, <1>10

(* b after some bytes were stored behind dest: v[i] at dest + i, for the   *)
(* i in I.                                                                 *)
Filled(b, dest, v, I) ==
  [x \in DOMAIN b \cup {dest + i : i \in I} |->
     IF x - dest \in I THEN v[x - dest] ELSE b[x]]

(* A memory: its addresses are numbers.                                    *)
IsMem(b) == DOMAIN b \subseteq Int /\ b = [x \in DOMAIN b |-> b[x]]

LEMMA FilledNone ==
  ASSUME NEW b, IsMem(b), NEW dest, NEW v
  PROVE  Filled(b, dest, v, {}) = b
BY DEF Filled, IsMem

(* f is b after that.                                                      *)
IsFilled(f, b, dest, v, I) ==
  /\ IsMem(f) /\ DOMAIN f = DOMAIN b \cup {dest + i : i \in I}
  /\ \A i \in I : f[dest + i] = v[i]
  /\ \A x \in DOMAIN b : x - dest \notin I => f[x] = b[x]

LEMMA FilledMem ==
  ASSUME NEW b, IsMem(b), NEW dest \in Int, NEW v, NEW I \in SUBSET Int,
         NEW f, f = Filled(b, dest, v, I)
  PROVE  IsFilled(f, b, dest, v, I)
<1>1. IsMem(f)
  BY DEF Filled, IsMem
<1>2. \A i \in I : (dest + i) - dest = i
  OBVIOUS
<1>3. \A i \in I : f[dest + i] = v[i]
  BY <1>2 DEF Filled
<1>4. DOMAIN f = DOMAIN b \cup {dest + i : i \in I}
  BY DEF Filled
<1>5. \A x \in DOMAIN b : x - dest \notin I => f[x] = b[x]
  BY DEF Filled
<1> QED
  BY <1>1, <1>3, <1>4, <1>5 DEF IsFilled

LEMMA FilledMore ==
  ASSUME NEW b, IsMem(b), NEW dest \in Int, NEW v, NEW I \in SUBSET Int, NEW i \in Int
  PROVE  Store(Filled(b, dest, v, I), dest + i, v[i]) = Filled(b, dest, v, I \cup {i})
<1> DEFINE f == Filled(b, dest, v, I)
           J == I \cup {i}
           E == DOMAIN b \cup {dest + j : j \in J}
<1>1. DOMAIN f \cup {dest + i} = E
  BY DEF Filled
<1>2. \A x \in E : (IF x = dest + i THEN v[i] ELSE f[x])
                     = (IF x - dest \in J THEN v[x - dest] ELSE b[x])
  <2> TAKE x \in E
  <2>1. x \in Int
    BY DEF IsMem
  <2>2. CASE x = dest + i
    BY <2>1, <2>2
  <2>3. CASE x # dest + i
    <3>1. x - dest # i
      BY <2>1, <2>3
    <3>2. x \in DOMAIN b \cup {dest + j : j \in I}
      BY <2>3
    <3>3. f[x] = IF x - dest \in I THEN v[x - dest] ELSE b[x]
      BY <3>2 DEF Filled
    <3> QED
      BY <2>3, <3>1, <3>3
  <2> QED
    BY <2>2, <2>3
<1>3. Store(f, dest + i, v[i]) = [x \in E |-> IF x = dest + i THEN v[i] ELSE f[x]]
  BY <1>1 DEF Store
<1>4. Filled(b, dest, v, J) = [x \in E |-> IF x - dest \in J THEN v[x - dest] ELSE b[x]]
  BY DEF Filled
<1> HIDE DEF f, E, J
<1> QED
  BY <1>2, <1>3, <1>4 DEF f, J

(* The indices a loop has gone through after the turns in t.               *)
Turns(s, t) == {s[k] : k \in t}

(* s goes through the n indices in I.                                      *)
Through(s, n, I) ==
  /\ DOMAIN s = 1 .. n /\ I = Turns(s, 1 .. n) /\ I \subseteq Int
  /\ \A j, k \in 1 .. n : s[j] = s[k] => j = k

LEMMA UpThrough ==
  ASSUME NEW n \in Nat
  PROVE  /\ Through(Upwards(n), n, 0 .. n - 1)
         /\ \A k \in 1 .. n : Upwards(n)[k] = k - 1
<1> DEFINE s == Upwards(n)
<1>1. DOMAIN s = 1 .. n /\ \A k \in 1 .. n : s[k] = k - 1
  BY DEF Upwards
<1> HIDE DEF s
<1>2. \A i \in 0 .. n - 1 : i + 1 \in 1 .. n /\ s[i + 1] = i
  BY <1>1
<1>3. Turns(s, 1 .. n) = 0 .. n - 1
  BY <1>1, <1>2 DEF Turns
<1>4. \A j, k \in 1 .. n : s[j] = s[k] => j = k
  BY <1>1
<1>5. Through(s, n, 0 .. n - 1)
  BY <1>1, <1>3, <1>4 DEF Through
<1> QED
  BY <1>1, <1>5 DEF s

LEMMA DownThrough ==
  ASSUME NEW n \in Nat
  PROVE  /\ Through(Downwards(n), n, 0 .. n - 1)
         /\ \A k \in 1 .. n : Downwards(n)[k] = n - k
<1> DEFINE s == Downwards(n)
<1>1. DOMAIN s = 1 .. n /\ \A k \in 1 .. n : s[k] = n - k
  BY DEF Downwards
<1> HIDE DEF s
<1>2. \A i \in 0 .. n - 1 : n - i \in 1 .. n /\ s[n - i] = i
  BY <1>1
<1>3. Turns(s, 1 .. n) = 0 .. n - 1
  BY <1>1, <1>2 DEF Turns
<1>4. \A j, k \in 1 .. n : s[j] = s[k] => j = k
  BY <1>1
<1>5. Through(s, n, 0 .. n - 1)
  BY <1>1, <1>3, <1>4 DEF Through
<1> QED
  BY <1>1, <1>5 DEF s

(* One turn more.                                                          *)
LEMMA TurnsMore ==
  ASSUME NEW s, NEW n \in Nat, NEW I, Through(s, n, I),
         NEW t \in SUBSET (1 .. n), t # {}
  PROVE  /\ Max(t) \in t /\ t \ {Max(t)} \in SUBSET (1 .. n)
         /\ \A k \in t : k <= Max(t)
         /\ Turns(s, t) = Turns(s, t \ {Max(t)}) \cup {s[Max(t)]}
         /\ s[Max(t)] \in Int /\ s[Max(t)] \in I
         /\ s[Max(t)] \notin Turns(s, t \ {Max(t)})
         /\ Turns(s, t \ {Max(t)}) \in SUBSET Int
<1> DEFINE x == Max(t)
<1>1. x \in t /\ \A k \in t : k <= x
  <2>1. 1 \in Int /\ n \in Int
    OBVIOUS
  <2> QED
    BY <2>1, GreatestBetween
<1> HIDE DEF x
<1>2. Turns(s, t) = Turns(s, t \ {x}) \cup {s[x]}
  BY <1>1 DEF Turns
<1>3. s[x] \in I /\ Turns(s, t \ {x}) \subseteq I /\ I \subseteq Int
  BY <1>1 DEF Turns, Through
<1>4. s[x] \notin Turns(s, t \ {x})
  BY <1>1 DEF Turns, Through
<1> QED
  BY <1>1, <1>2, <1>3, <1>4 DEF x

(* Copying, when no turn overwrites what a later one reads.                *)
LEMMA CopyBytesIs ==
  ASSUME NEW b, IsMem(b), NEW dest \in Int, NEW src \in Int, NEW n \in Nat,
         NEW s, NEW I, Through(s, n, I), NEW v,
         \A i \in I : src + i \in DOMAIN b /\ v[i] = b[src + i],
         \A j, k \in 1 .. n : j < k => dest + s[j] # src + s[k]
  PROVE  CopyBytes(b, dest, src, s) = Filled(b, dest, v, I)
<1> DEFINE D == 1 .. n
           V(t) == Filled(b, dest, v, Turns(s, t))
           Is(g) == g = [t \in SUBSET D |->
                           IF t = {} THEN b
                           ELSE LET x == Max(t) IN CopyByte(g[t \ {x}], dest + s[x], src + s[x])]
           Vs == [t \in SUBSET D |-> V(t)]
<1>1. V({}) = b
  <2>1. Turns(s, {}) = {}
    BY DEF Turns
  <2> QED
    BY <2>1, FilledNone
<1>2. ASSUME NEW t \in SUBSET D, t # {}
      PROVE  V(t) = CopyByte(V(t \ {Max(t)}), dest + s[Max(t)], src + s[Max(t)])
  <2> DEFINE x == Max(t)
             T == Turns(s, t \ {x})
             f == Filled(b, dest, v, T)
  <2>1. /\ x \in t /\ \A k \in t : k <= x
        /\ Turns(s, t) = T \cup {s[x]} /\ s[x] \in Int /\ s[x] \in I
        /\ T \in SUBSET Int
    BY <1>2, TurnsMore
  <2> HIDE DEF x
  <2>2. \A k \in t \ {x} : k \in 1 .. n /\ x \in 1 .. n /\ k < x
    BY <2>1
  <2>3. \A i \in T : dest + i # src + s[x]
    BY <2>2 DEF Turns
  <2>4. src + s[x] \in DOMAIN b /\ v[s[x]] = b[src + s[x]]
    BY <2>1
  <2> HIDE DEF T
  <2>5. (src + s[x]) - dest \notin T
    <3>1. ASSUME (src + s[x]) - dest \in T PROVE FALSE
      <4>1. dest + ((src + s[x]) - dest) = src + s[x]
        BY <2>1
      <4> QED
        BY <2>3, <3>1, <4>1
    <3> QED
      BY <3>1
  <2> DEFINE i == s[x]
  <2>6. /\ IsMem(b) /\ dest \in Int /\ T \in SUBSET Int /\ i \in Int
        /\ f = Filled(b, dest, v, T)
    BY <2>1
  <2> HIDE DEF i, f
  <2>7. IsFilled(f, b, dest, v, T)
    BY <2>6, FilledMem
  <2>8. /\ DOMAIN f = DOMAIN b \cup {dest + j : j \in T}
        /\ \A a \in DOMAIN b : a - dest \notin T => f[a] = b[a]
    BY <2>7 DEF IsFilled
  <2>9. src + s[x] \in DOMAIN f /\ f[src + s[x]] = v[s[x]]
    BY <2>4, <2>5, <2>8
  <2>10. Store(f, dest + i, v[i]) = Filled(b, dest, v, T \cup {i})
    BY <2>6, FilledMore
  <2>11. CopyByte(f, dest + s[x], src + s[x]) = Store(f, dest + s[x], v[s[x]])
    BY <2>9 DEF CopyByte
  <2> QED
    BY <2>1, <2>10, <2>11 DEF x, T, f, i
<1>3. Is(Vs)
  <2>1. ASSUME NEW t \in SUBSET D
        PROVE  V(t) = IF t = {} THEN b
                      ELSE LET x == Max(t) IN CopyByte(Vs[t \ {x}], dest + s[x], src + s[x])
    <3>1. Vs[t \ {Max(t)}] = V(t \ {Max(t)})
      OBVIOUS
    <3> HIDE DEF V, Vs
    <3> QED
      BY <1>1, <1>2, <3>1
  <2> HIDE DEF V
  <2> QED
    BY <2>1
<1>4. CopyBytes(b, dest, src, s) = (CHOOSE g : Is(g))[D]
  BY DEF CopyBytes, FoldLeft, MapThenFoldSet, Through
<1> DEFINE g == CHOOSE h : Is(h)
<1>5. Is(g)
  <2> HIDE DEF Is, Vs
  <2> QED
    BY <1>3
<1> HIDE DEF g
<1>6. g[{}] = Vs[{}]
  <2>1. g[{}] = b
    BY <1>5
  <2>2. Vs[{}] = V({})
    OBVIOUS
  <2> QED
    BY <1>1, <2>1, <2>2
<1>7. ASSUME NEW t \in SUBSET (1 .. n), t # {},
             g[t \ {Max(t)}] = Vs[t \ {Max(t)}]
      PROVE  g[t] = Vs[t]
  <2>1. g[t] = CopyByte(g[t \ {Max(t)}], dest + s[Max(t)], src + s[Max(t)])
    BY <1>5, <1>7
  <2>2. Vs[t] = V(t) /\ Vs[t \ {Max(t)}] = V(t \ {Max(t)})
    OBVIOUS
  <2> HIDE DEF V, Vs, Is
  <2> QED
    BY <1>2, <1>7, <2>1, <2>2
<1>8. Vs[D] = Filled(b, dest, v, I)
  BY DEF Through
<1>9. g[D] = Vs[D]
  <2> HIDE DEF Vs, Is, V
  <2> QED
    BY <1>6, <1>7, FoldsAgree
<1> QED
  BY <1>4, <1>8, <1>9 DEF g

(* The loops that store what depends on the index alone.                   *)
SetBytes(b, dest, c, s) ==
  FoldLeft(LAMBDA mem, i : Store(mem, dest + i, UChar(c)), b, s)

MapBytes(b, dest, m, a, s) ==
  FoldLeft(LAMBDA str, i : Store(str, dest + i, change(i, m[a + i])), b, s)

LEMMA SetBytesIs ==
  ASSUME NEW b, IsMem(b), NEW dest \in Int, NEW c, NEW n \in Nat,
         NEW s, NEW I, Through(s, n, I), NEW v, \A i \in I : v[i] = UChar(c)
  PROVE  SetBytes(b, dest, c, s) = Filled(b, dest, v, I)
<1> DEFINE D == 1 .. n
           V(t) == Filled(b, dest, v, Turns(s, t))
           Is(g) == g = [t \in SUBSET D |->
                           IF t = {} THEN b
                           ELSE LET x == Max(t) IN Store(g[t \ {x}], dest + s[x], UChar(c))]
           Vs == [t \in SUBSET D |-> V(t)]
<1>1. V({}) = b
  <2>1. Turns(s, {}) = {}
    BY DEF Turns
  <2> QED
    BY <2>1, FilledNone
<1>2. ASSUME NEW t \in SUBSET D, t # {}
      PROVE  V(t) = Store(V(t \ {Max(t)}), dest + s[Max(t)], UChar(c))
  <2> DEFINE x == Max(t)
             T == Turns(s, t \ {x})
  <2>1. /\ Turns(s, t) = T \cup {s[x]} /\ s[x] \in Int /\ s[x] \in I
        /\ T \in SUBSET Int
    BY <1>2, TurnsMore
  <2> HIDE DEF x, T
  <2> DEFINE i == s[x]
  <2>2. IsMem(b) /\ dest \in Int /\ T \in SUBSET Int /\ i \in Int
    BY <2>1
  <2> HIDE DEF i
  <2>3. Store(Filled(b, dest, v, T), dest + i, v[i]) = Filled(b, dest, v, T \cup {i})
    BY <2>2, FilledMore
  <2> QED
    BY <2>1, <2>3 DEF x, T, i
<1>3. Is(Vs)
  <2>1. ASSUME NEW t \in SUBSET D
        PROVE  V(t) = IF t = {} THEN b
                      ELSE LET x == Max(t) IN Store(Vs[t \ {x}], dest + s[x], UChar(c))
    <3>1. Vs[t \ {Max(t)}] = V(t \ {Max(t)})
      OBVIOUS
    <3> HIDE DEF V, Vs
    <3> QED
      BY <1>1, <1>2, <3>1
  <2> HIDE DEF V
  <2> QED
    BY <2>1
<1>4. SetBytes(b, dest, c, s) = (CHOOSE g : Is(g))[D]
  BY DEF SetBytes, FoldLeft, MapThenFoldSet, Through
<1> DEFINE g == CHOOSE h : Is(h)
<1>5. Is(g)
  <2> HIDE DEF Is, Vs
  <2> QED
    BY <1>3
<1> HIDE DEF g
<1>6. g[{}] = Vs[{}]
  <2>1. g[{}] = b
    BY <1>5
  <2>2. Vs[{}] = V({})
    OBVIOUS
  <2> QED
    BY <1>1, <2>1, <2>2
<1>7. ASSUME NEW t \in SUBSET (1 .. n), t # {},
             g[t \ {Max(t)}] = Vs[t \ {Max(t)}]
      PROVE  g[t] = Vs[t]
  <2>1. g[t] = Store(g[t \ {Max(t)}], dest + s[Max(t)], UChar(c))
    BY <1>5, <1>7
  <2>2. Vs[t] = V(t) /\ Vs[t \ {Max(t)}] = V(t \ {Max(t)})
    OBVIOUS
  <2> HIDE DEF V, Vs, Is
  <2> QED
    BY <1>2, <1>7, <2>1, <2>2
<1>8. Vs[D] = Filled(b, dest, v, I)
  BY DEF Through
<1>9. g[D] = Vs[D]
  <2> HIDE DEF Vs, Is, V
  <2> QED
    BY <1>6, <1>7, FoldsAgree
<1> QED
  BY <1>4, <1>8, <1>9 DEF g

LEMMA MapBytesIs ==
  ASSUME NEW b, IsMem(b), NEW dest \in Int, NEW m, NEW a, NEW n \in Nat,
         NEW s, NEW I, Through(s, n, I), NEW v,
         \A i \in I : v[i] = change(i, m[a + i])
  PROVE  MapBytes(b, dest, m, a, s) = Filled(b, dest, v, I)
<1> DEFINE D == 1 .. n
           V(t) == Filled(b, dest, v, Turns(s, t))
           Is(g) == g = [t \in SUBSET D |->
                           IF t = {} THEN b
                           ELSE LET x == Max(t) IN Store(g[t \ {x}], dest + s[x], change(s[x], m[a + s[x]]))]
           Vs == [t \in SUBSET D |-> V(t)]
<1>1. V({}) = b
  <2>1. Turns(s, {}) = {}
    BY DEF Turns
  <2> QED
    BY <2>1, FilledNone
<1>2. ASSUME NEW t \in SUBSET D, t # {}
      PROVE  V(t) = Store(V(t \ {Max(t)}), dest + s[Max(t)], change(s[Max(t)], m[a + s[Max(t)]]))
  <2> DEFINE x == Max(t)
             T == Turns(s, t \ {x})
  <2>1. /\ Turns(s, t) = T \cup {s[x]} /\ s[x] \in Int /\ s[x] \in I
        /\ T \in SUBSET Int
    BY <1>2, TurnsMore
  <2> HIDE DEF x, T
  <2> DEFINE i == s[x]
  <2>2. IsMem(b) /\ dest \in Int /\ T \in SUBSET Int /\ i \in Int
    BY <2>1
  <2> HIDE DEF i
  <2>3. Store(Filled(b, dest, v, T), dest + i, v[i]) = Filled(b, dest, v, T \cup {i})
    BY <2>2, FilledMore
  <2> QED
    BY <2>1, <2>3 DEF x, T, i
<1>3. Is(Vs)
  <2>1. ASSUME NEW t \in SUBSET D
        PROVE  V(t) = IF t = {} THEN b
                      ELSE LET x == Max(t) IN Store(Vs[t \ {x}], dest + s[x], change(s[x], m[a + s[x]]))
    <3>1. Vs[t \ {Max(t)}] = V(t \ {Max(t)})
      OBVIOUS
    <3> HIDE DEF V, Vs
    <3> QED
      BY <1>1, <1>2, <3>1
  <2> HIDE DEF V
  <2> QED
    BY <2>1
<1>4. MapBytes(b, dest, m, a, s) = (CHOOSE g : Is(g))[D]
  BY DEF MapBytes, FoldLeft, MapThenFoldSet, Through
<1> DEFINE g == CHOOSE h : Is(h)
<1>5. Is(g)
  <2> HIDE DEF Is, Vs
  <2> QED
    BY <1>3
<1> HIDE DEF g
<1>6. g[{}] = Vs[{}]
  <2>1. g[{}] = b
    BY <1>5
  <2>2. Vs[{}] = V({})
    OBVIOUS
  <2> QED
    BY <1>1, <2>1, <2>2
<1>7. ASSUME NEW t \in SUBSET (1 .. n), t # {},
             g[t \ {Max(t)}] = Vs[t \ {Max(t)}]
      PROVE  g[t] = Vs[t]
  <2>1. g[t] = Store(g[t \ {Max(t)}], dest + s[Max(t)], change(s[Max(t)], m[a + s[Max(t)]]))
    BY <1>5, <1>7
  <2>2. Vs[t] = V(t) /\ Vs[t \ {Max(t)}] = V(t \ {Max(t)})
    OBVIOUS
  <2> HIDE DEF V, Vs, Is
  <2> QED
    BY <1>2, <1>7, <2>1, <2>2
<1>8. Vs[D] = Filled(b, dest, v, I)
  BY DEF Through
<1>9. g[D] = Vs[D]
  <2> HIDE DEF Vs, Is, V
  <2> QED
    BY <1>6, <1>7, FoldsAgree
<1> QED
  BY <1>4, <1>8, <1>9 DEF g

------------------------------------------------------------------------------
(* Strings.                                                                *)

(* A string of length n is at s.                                           *)
StringAt(m, s, n) ==
  /\ IsMem(m) /\ s \in Int /\ s # NULL /\ n \in Nat
  /\ \A k \in 0 .. n : s + k \in DOMAIN m
  /\ m[s + n] = NUL
  /\ \A k \in 0 .. n - 1 : m[s + k] # NUL

LEMMA StrlenIs ==
  ASSUME NEW m, NEW s, NEW n, StringAt(m, s, n)
  PROVE  ft_strlen(m, s) = n
<1> DEFINE P(a) == /\ a >= s /\ m[a] = NUL
                   /\ \A b \in s .. a - 1 : m[b] # NUL
<1>0. s \in Int /\ n \in Nat /\ s # NULL /\ DOMAIN m \subseteq Int
  BY DEF StringAt, IsMem
<1>1. s + n \in DOMAIN m /\ m[s + n] = NUL
  BY <1>0 DEF StringAt
<1>2. \A b \in s .. s + n - 1 : m[b] # NUL
  <2> TAKE b \in s .. s + n - 1
  <2>1. b - s \in 0 .. n - 1 /\ s + (b - s) = b
    BY <1>0
  <2> QED
    BY <2>1 DEF StringAt
<1>3. P(s + n)
  BY <1>0, <1>1, <1>2
<1>4. ASSUME NEW a \in DOMAIN m, P(a)
      PROVE  a = s + n
  <2>1. a \in Int
    BY <1>0
  <2>2. ~(a < s + n)
    BY <1>2, <1>4, <2>1, <1>0
  <2>3. ~(s + n < a)
    <3>1. s + n < a => s + n \in s .. a - 1
      BY <1>0, <2>1
    <3> QED
      BY <1>1, <1>4, <3>1
  <2> QED
    BY <1>0, <2>1, <2>2, <2>3
<1>5. ft_strlen(m, s) = (CHOOSE a \in DOMAIN m : P(a)) - s
  BY <1>0 DEF ft_strlen
<1> DEFINE c == CHOOSE a \in DOMAIN m : P(a)
<1> HIDE DEF P
<1>6. c \in DOMAIN m /\ P(c)
  BY <1>1, <1>3
<1>7. c = s + n
  BY <1>4, <1>6
<1>8. ft_strlen(m, s) = c - s
  BY <1>5
<1> HIDE DEF c
<1> QED
  BY <1>0, <1>7, <1>8

(* Constants.                                                              *)
LEMMA Layout ==
  /\ LAST \in Nat \ {0} /\ BLOCK \in Nat /\ BLOCK = LAST + 1 /\ STACK = -2
  /\ NUL = 0 /\ NULL = 0 /\ NUL \in Bytes /\ Bytes \subseteq 0 .. 255
  /\ Callers = 1 .. LAST /\ LAST \in Callers
BY StringsAssumption DEF BLOCK, STACK, NUL, NULL, Callers

LEMMA MemoryFacts ==
  ASSUME NEW m \in Memories
  PROVE  /\ IsMem(m) /\ DOMAIN m = Callers
         /\ \A a \in Callers : m[a] \in Bytes /\ m[a] \in 0 .. 255
         /\ m[LAST] = NUL
<1>1. m \in [Callers -> Bytes] /\ m[LAST] = NUL
  BY DEF Memories
<1>2. DOMAIN m = Callers /\ m = [x \in DOMAIN m |-> m[x]]
  BY <1>1
<1>3. IsMem(m)
  BY <1>2, Layout DEF IsMem
<1>4. \A a \in Callers : m[a] \in Bytes /\ m[a] \in 0 .. 255
  BY <1>1, Layout
<1> QED
  BY <1>1, <1>2, <1>3, <1>4

(* Every address of the caller's memory is that of a string.               *)
LEMMA CallersString ==
  ASSUME NEW m \in Memories, NEW s \in Callers
  PROVE  /\ StringAt(m, s, ft_strlen(m, s))
         /\ ft_strlen(m, s) \in 0 .. LAST - s
         /\ \A k \in 0 .. ft_strlen(m, s) : s + k \in Callers
<1> DEFINE S == {a \in s .. LAST : m[a] = NUL}
<1>1. S \in SUBSET (s .. LAST) /\ S # {} /\ s \in 1 .. LAST /\ LAST \in Nat \ {0}
  BY Layout, MemoryFacts
<1>2. PICK a \in S : \A x \in S : a <= x
  <2> HIDE DEF S
  <2>1. s \in Int /\ LAST \in Int
    BY <1>1
  <2>2. Min(S) \in S /\ \A x \in S : Min(S) <= x
    BY <1>1, <2>1, LeastBetween
  <2> QED
    BY <2>2
<1> DEFINE n == a - s
<1>3. a \in s .. LAST /\ m[a] = NUL /\ n \in Nat /\ s + n = a
  BY <1>1
<1>4. \A k \in 0 .. n : s + k \in Callers
  BY <1>1, <1>3, Layout
<1>5. \A k \in 0 .. n - 1 : m[s + k] # NUL
  <2> TAKE k \in 0 .. n - 1
  <2>1. s + k \in s .. LAST /\ s + k < a
    BY <1>1, <1>3
  <2> QED
    BY <1>2, <2>1
<1>6. StringAt(m, s, n)
  <2>1. IsMem(m) /\ DOMAIN m = Callers
    BY MemoryFacts
  <2>2. s \in Int /\ s # NULL
    BY <1>1, Layout
  <2> HIDE DEF n
  <2> QED
    BY <1>3, <1>4, <1>5, <2>1, <2>2 DEF StringAt
<1> HIDE DEF n
<1>7. ft_strlen(m, s) = n
  BY <1>6, StrlenIs
<1>8. n \in 0 .. LAST - s
  BY <1>1, <1>3
<1> QED
  BY <1>4, <1>6, <1>7, <1>8

(* A string that other bytes were stored beside.                           *)
LEMMA StringSame ==
  ASSUME NEW m, NEW s, NEW n, StringAt(m, s, n), NEW g, IsMem(g),
         \A k \in 0 .. n : s + k \in DOMAIN g /\ g[s + k] = m[s + k]
  PROVE  StringAt(g, s, n)
BY DEF StringAt

(* The text of a string.                                                   *)
LEMMA TextIs ==
  ASSUME NEW m, NEW s, NEW n, StringAt(m, s, n)
  PROVE  Text(m, s) = [k \in 1 .. n |-> m[s + k - 1]]
BY StrlenIs DEF Text

LEMMA TextLen ==
  ASSUME NEW m, NEW s, NEW n, StringAt(m, s, n)
  PROVE  Len(Text(m, s)) = n /\ \A k \in 1 .. n : Text(m, s)[k] = m[s + k - 1]
<1> DEFINE T == [k \in 1 .. n |-> m[s + k - 1]]
<1>1. n \in Nat
  BY DEF StringAt
<1>2. Text(m, s) = T
  BY TextIs
<1>3. Len(T) = n /\ \A k \in 1 .. n : T[k] = m[s + k - 1]
  BY <1>1
<1> HIDE DEF T
<1> QED
  BY <1>2, <1>3

LEMMA TextSeq ==
  ASSUME NEW m, NEW s, NEW n, StringAt(m, s, n), NEW S, \A k \in 0 .. n - 1 : m[s + k] \in S
  PROVE  Text(m, s) \in Seq(S)
<1>1. n \in Nat /\ s \in Int
  BY DEF StringAt
<1>2. \A k \in 1 .. n : m[s + k - 1] \in S
  <2> TAKE k \in 1 .. n
  <2>1. k - 1 \in 0 .. n - 1 /\ s + (k - 1) = s + k - 1
    BY <1>1
  <2> QED
    BY <2>1
<1>3. [k \in 1 .. n |-> m[s + k - 1]] \in [1 .. n -> S]
  BY <1>2
<1>4. Text(m, s) \in [1 .. n -> S]
  BY <1>3, TextIs
<1> QED
  BY <1>1, <1>4, SeqDef

(* g is b after c bytes of the string at src were copied to dest and       *)
(* terminated there.                                                       *)
PutString(b, g, dest, src, c) ==
  /\ IsMem(g) /\ DOMAIN g = DOMAIN b \cup (dest .. dest + c)
  /\ \A x \in DOMAIN b : x < dest \/ dest + c < x => g[x] = b[x]
  /\ \A k \in 0 .. c - 1 : g[dest + k] = b[src + k]
  /\ g[dest + c] = NUL

(* No turn of the loop overwrites what a later one reads.                  *)
Unread(dest, src, c) == \A j, k \in 0 .. c - 1 : j < k => dest + j # src + k

(* g is b after byte was stored at a.                                      *)
IsStored(g, b, a, byte) ==
  /\ IsMem(g) /\ DOMAIN g = DOMAIN b \cup {a} /\ g[a] = byte
  /\ \A x \in DOMAIN b : x # a => g[x] = b[x]

LEMMA StoreMem ==
  ASSUME NEW b, IsMem(b), NEW a \in Int, NEW byte, NEW g, g = Store(b, a, byte)
  PROVE  IsStored(g, b, a, byte)
BY DEF Store, IsMem, IsStored

LEMMA PutStringGives ==
  ASSUME NEW b, NEW dest \in Int, NEW src, NEW n, NEW c \in Nat, c <= n,
         StringAt(b, src, n), Unread(dest, src, c),
         NEW g, g = Store(CopyBytes(b, dest, src, Upwards(c)), dest + c, NUL)
  PROVE  PutString(b, g, dest, src, c)
<1> DEFINE I == 0 .. c - 1
           v == [i \in I |-> b[src + i]]
           s == Upwards(c)
           f == Filled(b, dest, v, I)
<1>0. IsMem(b) /\ src \in Int /\ n \in Nat /\ (\A k \in 0 .. n : src + k \in DOMAIN b)
      /\ DOMAIN b \subseteq Int
  BY DEF StringAt, IsMem
<1>1. Through(s, c, I) /\ \A k \in 1 .. c : s[k] = k - 1
  BY UpThrough
<1>2. \A i \in I : src + i \in DOMAIN b /\ v[i] = b[src + i]
  BY <1>0
<1> HIDE DEF s, v
<1>3. \A j, k \in 1 .. c : j < k => dest + s[j] # src + s[k]
  <2> TAKE j, k \in 1 .. c
  <2>1. s[j] \in 0 .. c - 1 /\ s[k] \in 0 .. c - 1 /\ (j < k => s[j] < s[k])
    BY <1>1
  <2> QED
    BY <2>1 DEF Unread
<1> HIDE DEF I
<1>4. CopyBytes(b, dest, src, s) = f
  BY <1>0, <1>1, <1>2, <1>3, CopyBytesIs
<1>5. I \in SUBSET Int /\ I = 0 .. c - 1
  BY DEF I
<1>6. /\ IsMem(f) /\ DOMAIN f = DOMAIN b \cup {dest + i : i \in I}
      /\ \A i \in I : f[dest + i] = v[i]
      /\ \A x \in DOMAIN b : x - dest \notin I => f[x] = b[x]
  <2>1. f = Filled(b, dest, v, I)
    OBVIOUS
  <2> HIDE DEF f
  <2>2. IsFilled(f, b, dest, v, I)
    BY <1>0, <1>5, <2>1, FilledMem
  <2> QED
    BY <2>2 DEF IsFilled
<1> HIDE DEF f
<1>7. g = Store(f, dest + c, NUL) /\ dest + c \in Int
  BY <1>4 DEF s
<1>8. /\ IsMem(g) /\ DOMAIN g = DOMAIN f \cup {dest + c} /\ g[dest + c] = NUL
      /\ \A x \in DOMAIN f : x # dest + c => g[x] = f[x]
  <2>1. IsStored(g, f, dest + c, NUL)
    BY <1>6, <1>7, StoreMem
  <2> QED
    BY <2>1 DEF IsStored
<1>9. DOMAIN g = DOMAIN b \cup (dest .. dest + c)
  <2>1. {dest + i : i \in I} \cup {dest + c} = dest .. dest + c
    <3>1. \A x \in dest .. dest + c : x = dest + c \/ (x - dest \in I /\ x = dest + (x - dest))
      BY <1>5
    <3>2. \A i \in I : dest + i \in dest .. dest + c
      BY <1>5
    <3>3. dest + c \in dest .. dest + c
      OBVIOUS
    <3> QED
      BY <3>1, <3>2, <3>3
  <2> QED
    BY <1>6, <1>8, <2>1
<1>10. ASSUME NEW x \in DOMAIN b, x < dest \/ dest + c < x
       PROVE  g[x] = b[x]
  <2>1. x \in Int /\ x # dest + c /\ x - dest \notin I
    BY <1>0, <1>5, <1>10
  <2> QED
    BY <1>6, <1>8, <2>1
<1>11. ASSUME NEW k \in 0 .. c - 1
       PROVE  g[dest + k] = b[src + k]
  <2>1. k \in I /\ dest + k # dest + c
    BY <1>5
  <2> QED
    BY <1>2, <1>6, <1>8, <2>1
<1> QED
  BY <1>8, <1>9, <1>10, <1>11 DEF PutString

(* What is at dest then is a string, the first part of the one copied.     *)
LEMMA PutStringText ==
  ASSUME NEW b, NEW g, NEW dest \in Int, dest # NULL, NEW src, NEW n, NEW c \in Nat, c <= n,
         StringAt(b, src, n), PutString(b, g, dest, src, c)
  PROVE  StringAt(g, dest, c)
<1>1. IsMem(g) /\ DOMAIN g = DOMAIN b \cup (dest .. dest + c) /\ g[dest + c] = NUL
      /\ \A k \in 0 .. c - 1 : g[dest + k] = b[src + k]
  BY DEF PutString
<1>2. n \in Nat /\ \A k \in 0 .. n - 1 : b[src + k] # NUL
  BY DEF StringAt
<1>3. \A k \in 0 .. c : dest + k \in DOMAIN g
  BY <1>1
<1>4. \A k \in 0 .. c - 1 : g[dest + k] # NUL
  BY <1>1, <1>2
<1> QED
  BY <1>1, <1>3, <1>4 DEF StringAt

(* The text of a string as a part of another text.                         *)
PartAt(g, dest, c, T, p, q) ==
  /\ StringAt(g, dest, c)
  /\ p \in Nat \ {0} /\ q \in Int /\ q <= Len(T)
  /\ c = IF p <= q THEN q - p + 1 ELSE 0
  /\ \A k \in 0 .. c - 1 : g[dest + k] = T[p + k]

LEMMA TextSub ==
  ASSUME NEW S, NEW T \in Seq(S), NEW g, NEW dest, NEW c, NEW p, NEW q,
         PartAt(g, dest, c, T, p, q)
  PROVE  Text(g, dest) = SubSeq(T, p, q)
<1>0. /\ StringAt(g, dest, c)
      /\ p \in Nat \ {0} /\ q \in Int /\ q <= Len(T)
      /\ c = IF p <= q THEN q - p + 1 ELSE 0
      /\ \A k \in 0 .. c - 1 : g[dest + k] = T[p + k]
  BY DEF PartAt
<1>7. c \in Nat /\ dest \in Int /\ Len(T) \in Nat
  <2>1. StringAt(g, dest, c)
    BY <1>0
  <2> QED
    BY <2>1, LenProperties DEF StringAt
<1>1. Len(Text(g, dest)) = c /\ \A k \in 1 .. c : Text(g, dest)[k] = g[dest + k - 1]
  <2>1. StringAt(g, dest, c)
    BY <1>0
  <2> QED
    BY <2>1, TextLen
<1>2. \A i \in p .. q : i \in 1 .. Len(T) /\ T[i] \in S
  <2> TAKE i \in p .. q
  <2>1. i \in 1 .. Len(T)
    BY <1>0, <1>7
  <2> QED
    BY <2>1, ElementOfSeq
<1>3. /\ SubSeq(T, p, q) \in Seq(S)
      /\ Len(SubSeq(T, p, q)) = IF p <= q THEN q - p + 1 ELSE 0
      /\ \A i \in 1 .. q - p + 1 : SubSeq(T, p, q)[i] = T[p + i - 1]
  <2>1. p \in Int /\ q \in Int /\ \A i \in p .. q : T[i] \in S
    BY <1>0, <1>2
  <2> QED
    BY <2>1, SubSeqProperties
<1>4. \A k \in 0 .. c - 1 : g[dest + k] \in S
  <2> TAKE k \in 0 .. c - 1
  <2>1. p + k \in p .. q
    BY <1>0, <1>7
  <2>2. g[dest + k] = T[p + k]
    BY <1>0
  <2> QED
    BY <1>2, <2>1, <2>2
<1>5. Text(g, dest) \in Seq(S)
  BY <1>0, <1>4, TextSeq
<1>6. \A k \in 1 .. c : Text(g, dest)[k] = SubSeq(T, p, q)[k]
  <2> TAKE k \in 1 .. c
  <2>1. k - 1 \in 0 .. c - 1 /\ dest + (k - 1) = dest + k - 1 /\ p + (k - 1) = p + k - 1
        /\ k \in 1 .. q - p + 1
    BY <1>0, <1>7
  <2>2. g[dest + k - 1] = T[p + k - 1]
    BY <1>0, <2>1
  <2> QED
    BY <1>1, <1>3, <2>1, <2>2
<1> DEFINE U == Text(g, dest)
           V == SubSeq(T, p, q)
<1> HIDE DEF U, V
<1>8. U \in Seq(S) /\ V \in Seq(S) /\ Len(U) = c /\ \A k \in 1 .. c : U[k] = V[k]
  BY <1>1, <1>3, <1>5, <1>6 DEF U, V
<1>9. Len(V) = c
  BY <1>0, <1>3 DEF V
<1>10. U = V
  BY <1>8, <1>9, SeqEqual
<1> QED
  BY <1>10 DEF U, V

(* The text of a string of the caller's.                                   *)
LEMMA CallersText ==
  ASSUME NEW m \in Memories, NEW s \in Callers
  PROVE  /\ Text(m, s) \in Seq(Bytes \ {NUL})
         /\ Len(Text(m, s)) = ft_strlen(m, s)
         /\ \A k \in 1 .. ft_strlen(m, s) : Text(m, s)[k] = m[s + k - 1]
<1> DEFINE n == ft_strlen(m, s)
<1>1. StringAt(m, s, n) /\ \A k \in 0 .. n : s + k \in Callers
  BY CallersString
<1> HIDE DEF n
<1>2. \A k \in 0 .. n - 1 : m[s + k] \in Bytes \ {NUL}
  <2> TAKE k \in 0 .. n - 1
  <2>1. k \in 0 .. n
    BY <1>1 DEF StringAt
  <2>2. s + k \in Callers /\ m[s + k] # NUL
    BY <1>1, <2>1 DEF StringAt
  <2> QED
    BY <2>2, MemoryFacts
<1>3. Text(m, s) \in Seq(Bytes \ {NUL})
  BY <1>1, <1>2, TextSeq
<1>4. Len(Text(m, s)) = n /\ \A k \in 1 .. n : Text(m, s)[k] = m[s + k - 1]
  BY <1>1, TextLen
<1> QED
  BY <1>3, <1>4 DEF n

(* W is the text at s with the one at t behind it.                         *)
Joins(W, m, s, d, t, n) ==
  /\ Len(W) = d + n
  /\ \A k \in 0 .. d - 1 : W[1 + k] = m[s + k]
  /\ \A k \in 0 .. n - 1 : W[1 + (d + k)] = m[t + k]

LEMMA JoinedText ==
  ASSUME NEW m, NEW s, NEW d, StringAt(m, s, d), NEW t, NEW n, StringAt(m, t, n),
         NEW S, Text(m, s) \in Seq(S), Text(m, t) \in Seq(S)
  PROVE  /\ Text(m, s) \o Text(m, t) \in Seq(S)
         /\ Joins(Text(m, s) \o Text(m, t), m, s, d, t, n)
<1> DEFINE U == Text(m, s)
           T == Text(m, t)
           W == U \o T
<1>1. d \in Nat /\ n \in Nat /\ s \in Int /\ t \in Int
  BY DEF StringAt
<1>2. Len(U) = d /\ \A k \in 1 .. d : U[k] = m[s + k - 1]
  BY TextLen
<1>3. Len(T) = n /\ \A k \in 1 .. n : T[k] = m[t + k - 1]
  BY TextLen
<1>4. U \in Seq(S) /\ T \in Seq(S)
  OBVIOUS
<1> HIDE DEF U, T
<1>5. /\ W \in Seq(S) /\ Len(W) = Len(U) + Len(T)
      /\ \A k \in 1 .. Len(U) + Len(T) : W[k] = IF k <= Len(U) THEN U[k] ELSE T[k - Len(U)]
  BY <1>4, ConcatProperties
<1> HIDE DEF W
<1>6. ASSUME NEW k \in 0 .. d - 1
      PROVE  W[1 + k] = m[s + k]
  <2>1. 1 + k \in 1 .. d /\ s + (1 + k) - 1 = s + k /\ 1 + k \in 1 .. d + n /\ 1 + k <= d
    BY <1>1
  <2>2. W[1 + k] = U[1 + k]
    BY <1>2, <1>3, <1>5, <2>1
  <2> QED
    BY <1>2, <2>1, <2>2
<1>7. ASSUME NEW k \in 0 .. n - 1
      PROVE  W[1 + (d + k)] = m[t + k]
  <2>1. /\ 1 + (d + k) \in 1 .. d + n /\ ~(1 + (d + k) <= d) /\ (1 + (d + k)) - d = 1 + k
        /\ 1 + k \in 1 .. n /\ t + (1 + k) - 1 = t + k
    BY <1>1
  <2>2. W[1 + (d + k)] = T[1 + k]
    BY <1>2, <1>3, <1>5, <2>1
  <2> QED
    BY <1>3, <2>1, <2>2
<1>8. Joins(W, m, s, d, t, n)
  BY <1>2, <1>3, <1>5, <1>6, <1>7 DEF Joins
<1> QED
  BY <1>5, <1>8 DEF W, U, T

LEMMA NoText ==
  ASSUME NEW m
  PROVE  Text(m, NULL) = << >>
<1>1. ft_strlen(m, NULL) = 0
  BY DEF ft_strlen
<1> QED
  BY <1>1 DEF Text

------------------------------------------------------------------------------
(* Copies.                                                                 *)

LEMMA MemmoveIs ==
  ASSUME NEW m \in Memories, NEW dest \in Callers, NEW src \in Callers, NEW n \in 0 .. LAST,
         Inside(dest, n), Inside(src, n),
         NEW a \in Callers
  PROVE  ft_memmove(m, dest, src, n)[a]
           = IF a \in dest .. dest + n - 1 THEN m[src + (a - dest)] ELSE m[a]
<1>0. /\ LAST \in Nat /\ dest \in 1 .. LAST /\ src \in 1 .. LAST /\ a \in 1 .. LAST
      /\ dest + n - 1 <= LAST /\ src + n - 1 <= LAST
      /\ dest # NULL /\ IsMem(m) /\ DOMAIN m = 1 .. LAST /\ n \in Nat
      /\ dest \in Int /\ src \in Int
  BY Layout, MemoryFacts DEF Inside
<1> DEFINE I == 0 .. n - 1
           v == [i \in I |-> m[src + i]]
<1>1. \A i \in I : src + i \in DOMAIN m /\ v[i] = m[src + i]
  BY <1>0
<1> HIDE DEF v
<1>2. ft_memmove(m, dest, src, n) = Filled(m, dest, v, I)
  <2>1. CASE dest < src
    <3> DEFINE s == Upwards(n)
    <3>1. ft_memmove(m, dest, src, n) = CopyBytes(m, dest, src, s)
      BY <1>0, <2>1 DEF ft_memmove, ft_memcpy
    <3>2. Through(s, n, I) /\ \A k \in 1 .. n : s[k] = k - 1
      BY <1>0, UpThrough
    <3> HIDE DEF s, I
    <3>3. \A j, k \in 1 .. n : j < k => dest + s[j] # src + s[k]
      BY <1>0, <2>1, <3>2
    <3>4. IsMem(m) /\ dest \in Int /\ src \in Int /\ n \in Nat
      BY <1>0
    <3>5. CopyBytes(m, dest, src, s) = Filled(m, dest, v, I)
      BY <1>1, <3>2, <3>3, <3>4, CopyBytesIs
    <3> QED
      BY <3>1, <3>5
  <2>2. CASE ~(dest < src)
    <3> DEFINE s == Downwards(n)
    <3>1. ft_memmove(m, dest, src, n) = CopyBytes(m, dest, src, s)
      BY <1>0, <2>2 DEF ft_memmove
    <3>2. Through(s, n, I) /\ \A k \in 1 .. n : s[k] = n - k
      BY <1>0, DownThrough
    <3> HIDE DEF s, I
    <3>3. \A j, k \in 1 .. n : j < k => dest + s[j] # src + s[k]
      BY <1>0, <2>2, <3>2
    <3>4. IsMem(m) /\ dest \in Int /\ src \in Int /\ n \in Nat
      BY <1>0
    <3>5. CopyBytes(m, dest, src, s) = Filled(m, dest, v, I)
      BY <1>1, <3>2, <3>3, <3>4, CopyBytesIs
    <3> QED
      BY <3>1, <3>5
  <2> QED
    BY <2>1, <2>2
<1> DEFINE f == Filled(m, dest, v, I)
<1>3. /\ \A i \in I : f[dest + i] = v[i]
      /\ \A x \in DOMAIN m : x - dest \notin I => f[x] = m[x]
  <2>1. I \in SUBSET Int
    OBVIOUS
  <2>2. f = Filled(m, dest, v, I)
    OBVIOUS
  <2> HIDE DEF I, f
  <2>3. IsFilled(f, m, dest, v, I)
    BY <1>0, <2>1, <2>2, FilledMem
  <2> QED
    BY <2>3 DEF IsFilled
<1> HIDE DEF f
<1>4. CASE a \in dest .. dest + n - 1
  <2>1. a - dest \in I /\ dest + (a - dest) = a
    BY <1>0, <1>4
  <2>2. f[a] = v[a - dest]
    BY <1>3, <2>1
  <2>3. v[a - dest] = m[src + (a - dest)]
    BY <1>1, <2>1
  <2> QED
    BY <1>2, <1>4, <2>2, <2>3 DEF f
<1>5. CASE a \notin dest .. dest + n - 1
  <2>1. a - dest \notin I /\ a \in DOMAIN m
    BY <1>0, <1>5
  <2> QED
    BY <1>2, <1>3, <1>5, <2>1 DEF f
<1> QED
  BY <1>4, <1>5

(* A call of a function on strings, as a step.                             *)
CallStep == before \in Memories /\ call = NoCall("memory") /\ StringCalls

LEMMA MovesRight ==
  ASSUME before \in Memories, Move
  PROVE  CopiesAreExact' /\ call'.fn = "ft_memmove" /\ call'.room = 0
<1>1. PICK dest \in Callers, src \in Callers, n \in 0 .. LAST :
        /\ Inside(dest, n) /\ Inside(src, n)
        /\ StringCall("ft_memmove", dest, src, n, ft_memmove(before, dest, src, n), dest, 0)
  BY DEF Move
<1>2. /\ call' = [fn |-> "ft_memmove", a |-> dest, b |-> src, n |-> n, room |-> 0]
      /\ after' = ft_memmove(before, dest, src, n) /\ before' = before
  BY <1>1 DEF StringCall, Called
<1>3. /\ call'.fn = "ft_memmove" /\ call'.a = dest /\ call'.b = src /\ call'.n = n
      /\ call'.room = 0
  BY <1>2
<1>4. \A a \in Callers :
        after'[a] = IF a \in dest .. dest + n - 1 THEN before[src + (a - dest)] ELSE before[a]
  BY <1>1, <1>2, MemmoveIs
<1>5. MovedBytesAreRight'
  BY <1>2, <1>3, <1>4 DEF MovedBytesAreRight
<1>6. CopiedStringsFit'
  BY <1>3 DEF CopiedStringsFit
<1> QED
  BY <1>3, <1>5, <1>6 DEF CopiesAreExact

(* Strings that do not lie in one another, or bytes, are apart.            *)
LEMMA ApartUnread ==
  ASSUME NEW dest \in Int, NEW src \in Int, NEW c \in Nat, NEW n \in Nat, c <= n,
         src + n < dest \/ dest + c <= src
  PROVE  Unread(dest, src, c)
BY DEF Unread

LEMMA StrlcpyPuts ==
  ASSUME NEW m \in Memories, NEW dest \in Callers, NEW src \in Callers, NEW size \in 1 .. LAST,
         Inside(dest, size),
         src + ft_strlen(m, src) < dest \/ dest + size <= src,
         NEW c, c = Min({size - 1, ft_strlen(m, src)})
  PROVE  /\ c \in Nat /\ c <= size - 1 /\ c <= ft_strlen(m, src)
         /\ c = size - 1 \/ c = ft_strlen(m, src)
         /\ PutString(m, ft_strlcpy(m, dest, src, size), dest, src, c)
<1> DEFINE n == ft_strlen(m, src)
<1>1. StringAt(m, src, n) /\ n \in Nat /\ src \in Int /\ dest \in Int /\ size \in Nat /\ size # 0
  <2>1. StringAt(m, src, n)
    BY CallersString
  <2>2. dest \in Int /\ size \in Nat /\ size # 0
    BY Layout
  <2> QED
    BY <2>1, <2>2 DEF StringAt
<1> HIDE DEF n
<1>2. c \in Nat /\ c <= size - 1 /\ c <= n /\ (c = size - 1 \/ c = n)
  <2>1. /\ size - 1 <= n => Min({size - 1, n}) = size - 1
        /\ n <= size - 1 => Min({size - 1, n}) = n
    BY <1>1, MinOfTwo
  <2> QED
    BY <1>1, <2>1 DEF n
<1>3. Unread(dest, src, c)
  <2>1. src + n < dest \/ dest + c <= src
    BY <1>1, <1>2 DEF n
  <2> QED
    BY <1>1, <1>2, <2>1, ApartUnread
<1> DEFINE g == ft_strlcpy(m, dest, src, size)
<1>4. g = Store(CopyBytes(m, dest, src, Upwards(c)), dest + c, NUL)
  BY <1>1 DEF ft_strlcpy, n
<1> HIDE DEF g
<1>5. PutString(m, g, dest, src, c)
  BY <1>1, <1>2, <1>3, <1>4, PutStringGives
<1> QED
  BY <1>2, <1>5 DEF n, g

(* Nothing outside the size bytes at dest was written, and what of W fits  *)
(* is there.                                                               *)
CutOff(m, g, dest, size, W) ==
  /\ \A a \in DOMAIN m : a \notin dest .. dest + size - 1 => g[a] = m[a]
  /\ Text(g, dest) = SubSeq(W, 1, Min({Len(W), size - 1}))

LEMMA StrlcpyRight ==
  ASSUME NEW m \in Memories, NEW dest \in Callers, NEW src \in Callers, NEW size \in 1 .. LAST,
         Inside(dest, size),
         src + ft_strlen(m, src) < dest \/ dest + size <= src,
         NEW g, g = ft_strlcpy(m, dest, src, size)
  PROVE  CutOff(m, g, dest, size, Text(m, src))
<1> DEFINE n == ft_strlen(m, src)
           c == Min({size - 1, n})
           T == Text(m, src)
<1>0. dest \in Int /\ dest # NULL /\ DOMAIN m = Callers /\ Callers \subseteq Int /\ size \in Nat
      /\ StringAt(m, src, n)
  BY Layout, MemoryFacts, CallersString
<1>1. /\ c \in Nat /\ c <= size - 1 /\ c <= n /\ PutString(m, g, dest, src, c)
      /\ c = size - 1 \/ c = n
  BY StrlcpyPuts
<1>2. T \in Seq(Bytes \ {NUL}) /\ Len(T) = n /\ \A k \in 1 .. n : T[k] = m[src + k - 1]
  BY CallersText
<1>3. n \in Nat /\ src \in Int
  BY <1>0 DEF StringAt
<1>4. Min({Len(T), size - 1}) = c
  <2> HIDE DEF n, T
  <2>1. {Len(T), size - 1} = {size - 1, n}
    BY <1>2
  <2> QED
    BY <2>1
<1> HIDE DEF n, c, T
<1>5. StringAt(g, dest, c)
  BY <1>0, <1>1, PutStringText
<1>6. \A k \in 0 .. c - 1 : g[dest + k] = T[1 + k]
  <2> TAKE k \in 0 .. c - 1
  <2>1. 1 + k \in 1 .. n /\ src + (1 + k) - 1 = src + k
    BY <1>1, <1>3
  <2> QED
    BY <1>1, <1>2, <2>1 DEF PutString
<1>7. Text(g, dest) = SubSeq(T, 1, c)
  <2>1. c \in Int /\ c <= Len(T) /\ c = IF 1 <= c THEN c - 1 + 1 ELSE 0
    BY <1>1, <1>2
  <2>2. PartAt(g, dest, c, T, 1, c)
    BY <1>5, <1>6, <2>1 DEF PartAt
  <2> QED
    BY <1>2, <2>2, TextSub
<1>8. ASSUME NEW a \in DOMAIN m, a \notin dest .. dest + size - 1
      PROVE  g[a] = m[a]
  <2>1. a \in Int /\ dest \in Int /\ size \in Nat /\ c \in Nat /\ c <= size - 1
    BY <1>0, <1>1
  <2>2. a < dest \/ dest + c < a
    BY <1>8, <2>1
  <2> QED
    BY <1>1, <2>2 DEF PutString
<1> QED
  BY <1>4, <1>7, <1>8 DEF T, CutOff

(* ft_strlcat is ft_strlcpy behind what is there.                          *)
Appended(m, g, dest, d, src, c) ==
  /\ StringAt(g, dest, d + c)
  /\ \A k \in 0 .. d - 1 : g[dest + k] = m[dest + k]
  /\ \A k \in 0 .. c - 1 : g[dest + (d + k)] = m[src + k]

LEMMA AppendedString ==
  ASSUME NEW m, NEW g, NEW dest \in Int, NEW d \in Nat, StringAt(m, dest, d),
         NEW src, NEW n \in Nat, StringAt(m, src, n), NEW c \in Nat, c <= n,
         NEW e, e = dest + d, PutString(m, g, e, src, c)
  PROVE  Appended(m, g, dest, d, src, c)
<1>1. /\ IsMem(g) /\ DOMAIN g = DOMAIN m \cup (e .. e + c) /\ g[e + c] = NUL
      /\ \A x \in DOMAIN m : x < e \/ e + c < x => g[x] = m[x]
      /\ \A k \in 0 .. c - 1 : g[e + k] = m[src + k]
  BY DEF PutString
<1>2. /\ \A k \in 0 .. d : dest + k \in DOMAIN m
      /\ \A k \in 0 .. d - 1 : m[dest + k] # NUL
      /\ dest # NULL
  BY DEF StringAt
<1>3. \A k \in 0 .. n - 1 : m[src + k] # NUL
  BY DEF StringAt
<1>4. ASSUME NEW k \in 0 .. d + c
      PROVE  dest + k \in DOMAIN g
  <2>1. k \in 0 .. d \/ dest + k \in e .. e + c
    OBVIOUS
  <2> QED
    BY <1>1, <1>2, <2>1
<1>5. ASSUME NEW k \in 0 .. d - 1
      PROVE  g[dest + k] = m[dest + k]
  <2>1. k \in 0 .. d /\ dest + k < e
    OBVIOUS
  <2> QED
    BY <1>1, <1>2, <2>1
<1>6. ASSUME NEW k \in 0 .. c - 1
      PROVE  g[dest + (d + k)] = m[src + k]
  <2>1. dest + (d + k) = e + k
    OBVIOUS
  <2> QED
    BY <1>1, <2>1
<1>7. ASSUME NEW k \in 0 .. d + c - 1
      PROVE  g[dest + k] # NUL
  <2>1. CASE k < d
    <3>1. k \in 0 .. d - 1
      BY <2>1
    <3> QED
      BY <1>2, <1>5, <3>1
  <2>2. CASE ~(k < d)
    <3>1. k - d \in 0 .. c - 1 /\ k - d \in 0 .. n - 1 /\ d + (k - d) = k
      BY <2>2
    <3>2. g[dest + k] = m[src + (k - d)]
      BY <1>6, <3>1
    <3> QED
      BY <1>3, <3>1, <3>2
  <2> QED
    BY <2>1, <2>2
<1> DEFINE q == d + c
<1>8. q \in Nat /\ dest + q = e + c
  OBVIOUS
<1>9. (\A k \in 0 .. q : dest + k \in DOMAIN g) /\ \A k \in 0 .. q - 1 : g[dest + k] # NUL
  BY <1>4, <1>7
<1> HIDE DEF q
<1>10. StringAt(g, dest, q)
  BY <1>1, <1>2, <1>8, <1>9 DEF StringAt
<1> QED
  BY <1>5, <1>6, <1>10 DEF q, Appended

CatPuts(m, g, dest, src, size, d, n, c) ==
  /\ PutString(m, g, dest + d, src, c)
  /\ c \in Nat /\ c <= size - d - 1 /\ c <= n /\ (c = size - d - 1 \/ c = n)
  /\ ft_strlcat_result(m, dest, src, size) = d + n

LEMMA StrlcatPuts ==
  ASSUME NEW m, NEW dest, NEW src, NEW size \in Nat, NEW d, NEW n, NEW c,
         StringAt(m, dest, d), StringAt(m, src, n), d < size,
         src + n < dest \/ dest + size <= src,
         c = Min({size - d - 1, n}), NEW g, g = ft_strlcat(m, dest, src, size)
  PROVE  CatPuts(m, g, dest, src, size, d, n, c)
<1>1. /\ dest \in Int /\ dest # NULL /\ src \in Int /\ src # NULL
      /\ d \in Nat /\ n \in Nat /\ dest + d \in Int
  BY DEF StringAt
<1>2. ft_strlen(m, dest) = d /\ ft_strlen(m, src) = n
  BY StrlenIs
<1>3. c \in Nat /\ c <= size - d - 1 /\ c <= n /\ (c = size - d - 1 \/ c = n)
  <2>1. /\ size - d - 1 <= n => Min({size - d - 1, n}) = size - d - 1
        /\ n <= size - d - 1 => Min({size - d - 1, n}) = n
    BY <1>1, MinOfTwo
  <2> QED
    BY <1>1, <2>1
<1> DEFINE e == dest + d
<1>4. g = Store(CopyBytes(m, e, src, Upwards(c)), e + c, NUL)
  BY <1>1, <1>2 DEF ft_strlcat
<1>5. ft_strlcat_result(m, dest, src, size) = d + n
  BY <1>1, <1>2 DEF ft_strlcat_result
<1>6. e \in Int /\ (src + n < e \/ e + c <= src)
  BY <1>1, <1>3
<1> HIDE DEF e
<1>7. Unread(e, src, c)
  BY <1>1, <1>3, <1>6, ApartUnread
<1>8. PutString(m, g, e, src, c)
  BY <1>3, <1>4, <1>6, <1>7, PutStringGives
<1> QED
  BY <1>3, <1>5, <1>8 DEF e, CatPuts

CatRight(m, g, dest, src, size, W) ==
  CutOff(m, g, dest, size, W) /\ ft_strlcat_result(m, dest, src, size) = Len(W)

LEMMA StrlcatRight ==
  ASSUME NEW m, NEW dest, NEW src, NEW size \in Nat, NEW d, NEW n, NEW c,
         StringAt(m, dest, d), StringAt(m, src, n), d < size,
         src + n < dest \/ dest + size <= src,
         c = Min({size - d - 1, n}),
         NEW S, NEW W \in Seq(S), Joins(W, m, dest, d, src, n),
         NEW g, g = ft_strlcat(m, dest, src, size)
  PROVE  CatRight(m, g, dest, src, size, W)
<1>1. dest \in Int /\ src \in Int /\ d \in Nat /\ n \in Nat /\ DOMAIN m \subseteq Int
  BY DEF StringAt, IsMem
<1> DEFINE r == ft_strlcat_result(m, dest, src, size)
           e == dest + d
<1>2. /\ PutString(m, g, e, src, c)
      /\ c \in Nat /\ c <= size - d - 1 /\ c <= n /\ (c = size - d - 1 \/ c = n)
      /\ r = d + n
  <2>1. CatPuts(m, g, dest, src, size, d, n, c)
    BY StrlcatPuts
  <2> QED
    BY <2>1 DEF CatPuts
<1>3. e = dest + d /\ e \in Int
  BY <1>1
<1> HIDE DEF r, e
<1>4. /\ StringAt(g, dest, d + c)
      /\ \A k \in 0 .. d - 1 : g[dest + k] = m[dest + k]
      /\ \A k \in 0 .. c - 1 : g[dest + (d + k)] = m[src + k]
  <2>1. Appended(m, g, dest, d, src, c)
    BY <1>1, <1>2, <1>3, AppendedString
  <2> QED
    BY <2>1 DEF Appended
<1>5. /\ Len(W) = d + n
      /\ \A k \in 0 .. d - 1 : W[1 + k] = m[dest + k]
      /\ \A k \in 0 .. n - 1 : W[1 + (d + k)] = m[src + k]
  BY DEF Joins
<1> DEFINE q == d + c
<1>6. q \in Nat /\ q <= Len(W) /\ q <= size - 1 /\ (q = Len(W) \/ q = size - 1)
  BY <1>1, <1>2, <1>5
<1>7. ASSUME NEW k \in 0 .. q - 1
      PROVE  g[dest + k] = W[1 + k]
  <2>1. CASE k < d
    <3>1. k \in 0 .. d - 1
      BY <1>1, <2>1
    <3> QED
      BY <1>4, <1>5, <3>1
  <2>2. CASE ~(k < d)
    <3>1. k - d \in 0 .. c - 1 /\ k - d \in 0 .. n - 1 /\ d + (k - d) = k
      BY <1>1, <1>2, <2>2
    <3> QED
      BY <1>4, <1>5, <3>1
  <2> QED
    BY <2>1, <2>2
<1>8. StringAt(g, dest, q)
  BY <1>4
<1> HIDE DEF q
<1>9. PartAt(g, dest, q, W, 1, q)
  <2>1. q = IF 1 <= q THEN q - 1 + 1 ELSE 0
    BY <1>6
  <2>2. 1 \in Nat \ {0} /\ q \in Int /\ q <= Len(W)
    BY <1>6
  <2> QED
    BY <1>7, <1>8, <2>1, <2>2 DEF PartAt
<1>10. Text(g, dest) = SubSeq(W, 1, q)
  BY <1>9, TextSub
<1>11. Min({Len(W), size - 1}) = q
  <2>1. Len(W) \in Int /\ size - 1 \in Int
    BY <1>1, <1>5
  <2>2. /\ Len(W) <= size - 1 => Min({Len(W), size - 1}) = Len(W)
        /\ size - 1 <= Len(W) => Min({Len(W), size - 1}) = size - 1
    BY <2>1, MinOfTwo
  <2> QED
    BY <1>6, <2>1, <2>2
<1>12. ASSUME NEW a \in DOMAIN m, a \notin dest .. dest + size - 1
       PROVE  g[a] = m[a]
  <2>1. a < e \/ e + c < a
    BY <1>1, <1>2, <1>3, <1>12
  <2> QED
    BY <1>2, <2>1 DEF PutString
<1>13. r = Len(W)
  BY <1>2, <1>5
<1> QED
  BY <1>10, <1>11, <1>12, <1>13 DEF r, CutOff, CatRight

(* What CopiedStringsFit asks of a call: g is the memory after it, r what  *)
(* it returned, old the text that was there and whole what it could make.  *)
Fits(m, g, r, dest, size, old, whole) ==
  /\ \A a \in Callers \ (dest .. dest + size - 1) : g[a] = m[a]
  /\ size > Len(old) =>
       /\ r = Len(whole)
       /\ Text(g, dest) = SubSeq(whole, 1, Min({Len(whole), size - 1}))
  /\ size <= Len(old) => r >= size

LEMMA StrlcpyFits ==
  ASSUME NEW m \in Memories, NEW dest \in Callers, NEW src \in Callers, NEW size \in 0 .. LAST,
         Inside(dest, size),
         src + ft_strlen(m, src) < dest \/ dest + size <= src
  PROVE  Fits(m, ft_strlcpy(m, dest, src, size), ft_strlen(m, src), dest, size,
              << >>, << >> \o Text(m, src))
<1> DEFINE T == Text(m, src)
           g == ft_strlcpy(m, dest, src, size)
           n == ft_strlen(m, src)
<1>1. << >> \o T = T
  <2>1. T \in Seq(Bytes \ {NUL})
    BY CallersText
  <2> HIDE DEF T
  <2> QED
    BY <2>1, ConcatEmptySeq
<1>2. Len(T) = n /\ n \in Nat
  <2>1. StringAt(m, src, n)
    BY CallersString
  <2>2. n \in Nat
    <3> HIDE DEF n
    <3> QED
      BY <2>1 DEF StringAt
  <2> QED
    BY <2>2, CallersText
<1>3. CASE size = 0
  <2>1. g = m
    BY <1>3 DEF ft_strlcpy
  <2> HIDE DEF g, T, n
  <2>2. Fits(m, g, n, dest, size, << >>, T)
    BY <1>2, <1>3, <2>1 DEF Fits
  <2> QED
    BY <1>1, <2>2 DEF g, T, n
<1>4. CASE size # 0
  <2>1. size \in 1 .. LAST
    BY <1>4, Layout
  <2>2. CutOff(m, g, dest, size, T) /\ DOMAIN m = Callers
    BY <2>1, StrlcpyRight, MemoryFacts
  <2> HIDE DEF g, T, n
  <2>3. Fits(m, g, n, dest, size, << >>, T)
    BY <1>2, <2>1, <2>2 DEF Fits, CutOff
  <2> QED
    BY <1>1, <2>3 DEF g, T, n
<1> QED
  BY <1>3, <1>4

LEMMA StrlcatFits ==
  ASSUME NEW m \in Memories, NEW dest \in Callers, NEW src \in Callers, NEW size \in 0 .. LAST,
         src + ft_strlen(m, src) < dest \/ dest + size <= src
  PROVE  Fits(m, ft_strlcat(m, dest, src, size), ft_strlcat_result(m, dest, src, size),
              dest, size, Text(m, dest), Text(m, dest) \o Text(m, src))
<1> DEFINE U == Text(m, dest)
           T == Text(m, src)
           S == Bytes \ {NUL}
           g == ft_strlcat(m, dest, src, size)
           r == ft_strlcat_result(m, dest, src, size)
           d == ft_strlen(m, dest)
           n == ft_strlen(m, src)
           W == U \o T
<1>1. StringAt(m, dest, d) /\ StringAt(m, src, n)
  BY CallersString
<1>2. U \in Seq(S) /\ T \in Seq(S) /\ Len(U) = d
  BY CallersText
<1>3. W \in Seq(S) /\ Joins(W, m, dest, d, src, n)
  <2> HIDE DEF S, d, n
  <2> QED
    BY <1>1, <1>2, JoinedText
<1>4. src + n < dest \/ dest + size <= src
  OBVIOUS
<1>5. DOMAIN m = Callers
  BY MemoryFacts
<1>6. size \in Nat
  BY Layout
<1>7. CASE d < size
  <2> DEFINE c == Min({size - d - 1, n})
  <2>1. c = Min({size - d - 1, n}) /\ g = ft_strlcat(m, dest, src, size)
    OBVIOUS
  <2> HIDE DEF c, W, S, g, U, T, d, n
  <2>2. CutOff(m, g, dest, size, W) /\ ft_strlcat_result(m, dest, src, size) = Len(W)
    <3>1. CatRight(m, g, dest, src, size, W)
      BY <1>1, <1>3, <1>4, <1>6, <1>7, <2>1, StrlcatRight
    <3> QED
      BY <3>1 DEF CatRight
  <2> HIDE DEF r
  <2>3. r = Len(W)
    BY <2>2 DEF r
  <2>4. ~(size <= d)
    BY <1>1, <1>6, <1>7 DEF StringAt
  <2>5. Fits(m, g, r, dest, size, U, W)
    BY <1>2, <1>5, <2>2, <2>3, <2>4 DEF Fits, CutOff
  <2> QED
    BY <2>5 DEF g, r, U, W, T
<1>8. CASE ~(d < size)
  <2> HIDE DEF W, S, U, T, d, n
  <2>1. d \in Nat /\ n \in Nat /\ size <= d /\ dest # NULL /\ src # NULL
        /\ ft_strlen(m, dest) = d /\ ft_strlen(m, src) = n
    BY <1>1, <1>6, <1>8 DEF StringAt, d, n
  <2>2. g = m /\ r = n + size
    BY <2>1 DEF ft_strlcat, ft_strlcat_result
  <2>3. r >= size
    BY <1>6, <2>1, <2>2
  <2> HIDE DEF g, r
  <2>4. ~(size > d) /\ size <= d
    BY <1>6, <2>1
  <2>5. Fits(m, g, r, dest, size, U, W)
    BY <1>2, <2>2, <2>3, <2>4 DEF Fits
  <2> QED
    BY <2>5 DEF g, r, U, W, T
<1> QED
  BY <1>7, <1>8

LEMMA MaxOfTwo ==
  ASSUME NEW a \in Int, NEW b \in Int
  PROVE  Max({a, b}) \in Int /\ a <= Max({a, b}) /\ b <= Max({a, b})
<1>1. {a, b} \in SUBSET Int /\ a \in {a, b} /\ b \in {a, b}
  OBVIOUS
<1>2. CASE a <= b
  BY <1>1, <1>2, MaxIs
<1>3. CASE b <= a
  BY <1>1, <1>3, MaxIs
<1> QED
  BY <1>2, <1>3

LEMMA StringsCopied ==
  ASSUME before \in Memories, CopyString
  PROVE  CopiesAreExact' /\ call'.fn \in {"ft_strlcpy", "ft_strlcat"} /\ call'.room = 0
<1>1. PICK dest \in Callers, src \in Callers, size \in 0 .. LAST :
        /\ Inside(dest, size)
        /\ \/ src + ft_strlen(before, src) < dest
           \/ dest + Max({size, ft_strlen(before, dest) + 1}) <= src
        /\ \/ StringCall("ft_strlcpy", dest, src, size, ft_strlcpy(before, dest, src, size),
                 ft_strlen(before, src), 0)
           \/ StringCall("ft_strlcat", dest, src, size, ft_strlcat(before, dest, src, size),
                 ft_strlcat_result(before, dest, src, size), 0)
  BY DEF CopyString
<1>2. src + ft_strlen(before, src) < dest \/ dest + size <= src
  <2>1. ft_strlen(before, dest) \in 0 .. LAST - dest /\ dest \in Int /\ src \in Int
        /\ size \in Int /\ LAST \in Nat
    BY CallersString, Layout
  <2>2. ft_strlen(before, dest) + 1 \in Int
    BY <2>1
  <2> DEFINE x == Max({size, ft_strlen(before, dest) + 1})
  <2>3. x \in Int /\ size <= x
    BY <2>1, <2>2, MaxOfTwo
  <2> HIDE DEF x
  <2>4. src + ft_strlen(before, src) < dest \/ dest + x <= src
    BY <1>1 DEF x
  <2> QED
    BY <2>1, <2>3, <2>4
<1>3. ASSUME StringCall("ft_strlcpy", dest, src, size, ft_strlcpy(before, dest, src, size),
                 ft_strlen(before, src), 0)
      PROVE  CopiesAreExact' /\ call'.fn \in {"ft_strlcpy", "ft_strlcat"} /\ call'.room = 0
  <2> DEFINE m == before
             g == ft_strlcpy(before, dest, src, size)
             r == ft_strlen(before, src)
  <2>1. /\ call' = [fn |-> "ft_strlcpy", a |-> dest, b |-> src, n |-> size, room |-> 0]
        /\ after' = g /\ ret' = r /\ before' = before
    BY <1>3 DEF StringCall, Called
  <2>2. Fits(before, g, r, dest, size, << >>, << >> \o Text(before, src))
    BY <1>1, <1>2, StrlcpyFits
  <2> HIDE DEF g, r
  <2>3. /\ call'.fn = "ft_strlcpy" /\ call'.a = dest /\ call'.b = src /\ call'.n = size
        /\ call'.room = 0
    BY <2>1
  <2>4. CopiedStringsFit'
    BY <2>1, <2>2, <2>3 DEF CopiedStringsFit, Fits
  <2>5. MovedBytesAreRight'
    BY <2>3 DEF MovedBytesAreRight
  <2> QED
    BY <2>3, <2>4, <2>5 DEF CopiesAreExact
<1>4. ASSUME StringCall("ft_strlcat", dest, src, size, ft_strlcat(before, dest, src, size),
                 ft_strlcat_result(before, dest, src, size), 0)
      PROVE  CopiesAreExact' /\ call'.fn \in {"ft_strlcpy", "ft_strlcat"} /\ call'.room = 0
  <2> DEFINE g == ft_strlcat(before, dest, src, size)
             r == ft_strlcat_result(before, dest, src, size)
  <2>1. /\ call' = [fn |-> "ft_strlcat", a |-> dest, b |-> src, n |-> size, room |-> 0]
        /\ after' = g /\ ret' = r /\ before' = before
    BY <1>4 DEF StringCall, Called
  <2>2. Fits(before, g, r, dest, size, Text(before, dest),
             Text(before, dest) \o Text(before, src))
    BY <1>1, <1>2, StrlcatFits
  <2> HIDE DEF g, r
  <2>3. /\ call'.fn = "ft_strlcat" /\ call'.a = dest /\ call'.b = src /\ call'.n = size
        /\ call'.room = 0
    BY <2>1
  <2>4. CopiedStringsFit'
    BY <2>1, <2>2, <2>3 DEF CopiedStringsFit, Fits
  <2>5. MovedBytesAreRight'
    BY <2>3 DEF MovedBytesAreRight
  <2> QED
    BY <2>3, <2>4, <2>5 DEF CopiesAreExact
<1> QED
  BY <1>1, <1>3, <1>4

------------------------------------------------------------------------------
(* Searches.                                                               *)

(* The bytes of the string at a, which has length n, with the NUL.         *)
Whole(s, m, a, n) ==
  /\ Len(s) = n + 1 /\ DOMAIN s = 1 .. n + 1
  /\ \A k \in 1 .. n + 1 : s[k] = m[a + k - 1]

LEMMA WholeIs ==
  ASSUME NEW m \in Memories, NEW a \in Callers, NEW n, n = ft_strlen(m, a)
  PROVE  /\ Text(m, a) \o <<NUL>> \in Seq(Bytes)
         /\ Whole(Text(m, a) \o <<NUL>>, m, a, n)
<1> DEFINE T == Text(m, a)
           N == <<NUL>>
           s == T \o N
<1>1. T \in Seq(Bytes)
  <2>1. T \in Seq(Bytes \ {NUL})
    BY CallersText
  <2> HIDE DEF T
  <2> QED
    BY <2>1, SeqMonotonic
<1>2. Len(T) = n /\ \A k \in 1 .. n : T[k] = m[a + k - 1]
  BY CallersText
<1>3. N \in Seq(Bytes) /\ Len(N) = 1 /\ N[1] = NUL
  BY Layout
<1>4. StringAt(m, a, n)
  BY CallersString
<1>5. n \in Nat /\ a \in Int /\ m[a + n] = NUL
  BY <1>4 DEF StringAt
<1> HIDE DEF T, N
<1>6. /\ s \in Seq(Bytes) /\ Len(s) = Len(T) + Len(N)
      /\ \A k \in 1 .. Len(T) + Len(N) : s[k] = IF k <= Len(T) THEN T[k] ELSE N[k - Len(T)]
  BY <1>1, <1>3, ConcatProperties
<1> HIDE DEF s
<1>7. Len(s) = n + 1 /\ DOMAIN s = 1 .. n + 1
  <2>1. Len(s) = n + 1
    BY <1>2, <1>3, <1>6
  <2>2. DOMAIN s = 1 .. Len(s)
    BY <1>6, LenProperties
  <2> QED
    BY <2>1, <2>2
<1>8. ASSUME NEW k \in 1 .. n + 1
      PROVE  s[k] = m[a + k - 1]
  <2>1. CASE k <= n
    <3>1. k \in 1 .. n
      BY <1>5, <2>1
    <3>2. s[k] = T[k]
      BY <1>2, <1>3, <1>6, <2>1
    <3> QED
      BY <1>2, <3>1, <3>2
  <2>2. CASE ~(k <= n)
    <3>1. k = n + 1 /\ k - n = 1 /\ a + k - 1 = a + n
      BY <1>5, <2>2
    <3>2. s[k] = N[1]
      BY <1>2, <1>3, <1>6, <2>2, <3>1
    <3> QED
      BY <1>3, <1>5, <3>1, <3>2
  <2> QED
    BY <2>1, <2>2
<1>9. Whole(s, m, a, n)
  BY <1>7, <1>8 DEF Whole
<1> QED
  BY <1>6, <1>9 DEF s, T, N

(* A pointer into the string, and its index from one on: none for NULL.    *)
Place(p, a) == IF p = NULL THEN 0 ELSE p - a + 1

(* The indices of some addresses.                                          *)
SameBut(X, Y, a, n) ==
  /\ X \subseteq a .. a + n
  /\ Y = {k \in 1 .. n + 1 : a + k - 1 \in X}

LEMMA ExtremesShift ==
  ASSUME NEW a \in Nat \ {0}, NEW n \in Nat, NEW X, NEW Y, SameBut(X, Y, a, n)
  PROVE  Place(Lowest(X), a) = Lowest(Y) /\ Place(Highest(X), a) = Highest(Y)
<1>1. X \in SUBSET (a .. a + n) /\ Y \in SUBSET (1 .. n + 1)
      /\ \A k \in 1 .. n + 1 : k \in Y <=> a + k - 1 \in X
  BY DEF SameBut
<1>2. \A x \in X : x \in Int /\ a <= x /\ x - a + 1 \in Y
  <2> TAKE x \in X
  <2>1. x \in a .. a + n
    BY <1>1
  <2>2. x - a + 1 \in 1 .. n + 1 /\ a + (x - a + 1) - 1 = x
    BY <2>1
  <2> QED
    BY <1>1, <2>1, <2>2
<1>3. \A k \in Y : k \in Int /\ a + k - 1 \in X
  BY <1>1
<1>4. CASE X = {}
  <2>1. Y = {}
    BY <1>3, <1>4
  <2> QED
    BY <1>4, <2>1 DEF Place, Lowest, Highest, NULL
<1>5. CASE X # {}
  <2> DEFINE p == Min(X)
             q == Max(X)
  <2>1. p \in X /\ \A x \in X : p <= x
    <3>1. a \in Int /\ a + n \in Int
      OBVIOUS
    <3> QED
      BY <1>1, <1>5, <3>1, LeastBetween
  <2>2. q \in X /\ \A x \in X : x <= q
    <3>1. a \in Int /\ a + n \in Int
      OBVIOUS
    <3> QED
      BY <1>1, <1>5, <3>1, GreatestBetween
  <2> HIDE DEF p, q
  <2>3. Y # {} /\ p # NULL /\ q # NULL
    BY <1>2, <2>1, <2>2 DEF NULL
  <2>4. p - a + 1 \in Y /\ q - a + 1 \in Y /\ p \in Int /\ q \in Int
    BY <1>2, <2>1, <2>2
  <2>5. \A k \in Y : p - a + 1 <= k /\ k <= q - a + 1
    <3> TAKE k \in Y
    <3>1. k \in Int /\ a + k - 1 \in X
      BY <1>3
    <3>2. p <= a + k - 1 /\ a + k - 1 <= q
      BY <2>1, <2>2, <3>1
    <3> QED
      BY <2>4, <3>1, <3>2
  <2>6. Y \in SUBSET Int
    BY <1>3
  <2>7. Min(Y) = p - a + 1 /\ Max(Y) = q - a + 1
    BY <2>4, <2>5, <2>6, MinIs, MaxIs
  <2>8. Lowest(X) = p /\ Highest(X) = q
    BY <1>5 DEF Lowest, Highest, p, q
  <2>9. Lowest(Y) = p - a + 1 /\ Highest(Y) = q - a + 1
    BY <2>3, <2>7 DEF Lowest, Highest
  <2> QED
    BY <2>3, <2>8, <2>9 DEF Place
<1> QED
  BY <1>4, <1>5

(* A character of ASCII is where its byte is.                              *)
LEMMA PlacesAre ==
  ASSUME NEW m \in Memories, NEW a \in Callers, NEW n, n = ft_strlen(m, a),
         NEW c \in Bytes, c < 128
  PROVE  Places(m, a, c) = {x \in a .. a + n : m[x] = c} /\ UChar(c) = c
<1>1. c \in 0 .. 127
  BY Layout
<1>2. UChar(c) = c
  BY <1>1 DEF UChar
<1>3. a \in Int /\ n \in Nat /\ \A k \in 0 .. n : a + k \in Callers
  <2>1. StringAt(m, a, n)
    BY CallersString
  <2> QED
    BY <2>1, CallersString DEF StringAt
<1>4. ASSUME NEW x \in a .. a + n
      PROVE  Char(m[x]) = c <=> m[x] = c
  <2>1. x - a \in 0 .. n /\ a + (x - a) = x
    BY <1>3
  <2>2. x \in Callers
    BY <1>3, <2>1
  <2>3. m[x] \in 0 .. 255
    BY <2>2, MemoryFacts
  <2> QED
    BY <1>1, <2>3 DEF Char
<1>5. Places(m, a, c) = {x \in a .. a + n : m[x] = c}
  BY <1>2, <1>4 DEF Places
<1> QED
  BY <1>2, <1>5

(* ft_strchr and ft_strrchr point to the first and the last c of s, the    *)
(* string at a.                                                            *)
PointsTo(m, a, c, s) ==
  /\ Place(ft_strchr(m, a, c), a) = Lowest({k \in DOMAIN s : s[k] = c})
  /\ Place(ft_strrchr(m, a, c), a) = Highest({k \in DOMAIN s : s[k] = c})

LEMMA CharFound ==
  ASSUME NEW m \in Memories, NEW a \in Callers, NEW c \in Bytes, c < 128,
         NEW s, s = Text(m, a) \o <<NUL>>
  PROVE  PointsTo(m, a, c, s)
<1> DEFINE n == ft_strlen(m, a)
           X == Places(m, a, c)
           Y == {k \in DOMAIN s : s[k] = c}
<1>1. X = {x \in a .. a + n : m[x] = c}
  BY PlacesAre
<1>2. a \in Nat \ {0} /\ a # NULL
  BY Layout
<1>3. n \in Nat
  <2>1. StringAt(m, a, n)
    BY CallersString
  <2> HIDE DEF n
  <2> QED
    BY <2>1 DEF StringAt
<1>4. Whole(s, m, a, n)
  BY WholeIs
<1> HIDE DEF n, X
<1>5. SameBut(X, Y, a, n)
  <2>1. DOMAIN s = 1 .. n + 1 /\ \A k \in 1 .. n + 1 : s[k] = m[a + k - 1]
    BY <1>4 DEF Whole
  <2>2. \A k \in 1 .. n + 1 : a + k - 1 \in a .. a + n
    BY <1>2, <1>3
  <2>3. Y = {k \in 1 .. n + 1 : a + k - 1 \in X}
    BY <1>1, <2>1, <2>2
  <2>4. X \subseteq a .. a + n
    BY <1>1
  <2> HIDE DEF Y
  <2> QED
    BY <2>3, <2>4 DEF SameBut
<1> HIDE DEF Y
<1>6. Place(Lowest(X), a) = Lowest(Y) /\ Place(Highest(X), a) = Highest(Y)
  BY <1>2, <1>3, <1>5, ExtremesShift
<1>7. ft_strchr(m, a, c) = Lowest(X) /\ ft_strrchr(m, a, c) = Highest(X)
  BY <1>2 DEF ft_strchr, ft_strrchr, X
<1> QED
  BY <1>6, <1>7 DEF PointsTo, Y

LEMMA ByteFound ==
  ASSUME NEW m \in Memories, NEW a \in Callers, NEW c \in Bytes, c < 128,
         NEW n, n = Len(Text(m, a) \o <<NUL>>)
  PROVE  ft_memchr(m, a, c, n) = ft_strchr(m, a, c)
<1> DEFINE l == ft_strlen(m, a)
<1>1. Places(m, a, c) = {x \in a .. a + l : m[x] = c} /\ UChar(c) = c
  BY PlacesAre
<1>2. a # NULL /\ a \in Int
  BY Layout
<1>3. n = l + 1
  <2>1. Whole(Text(m, a) \o <<NUL>>, m, a, l)
    BY WholeIs
  <2> HIDE DEF l
  <2> QED
    BY <2>1 DEF Whole
<1>4. l \in Nat
  <2>1. StringAt(m, a, l)
    BY CallersString
  <2> HIDE DEF l
  <2> QED
    BY <2>1 DEF StringAt
<1> HIDE DEF l
<1>5. a + n - 1 = a + l
  BY <1>2, <1>3, <1>4
<1>6. ft_memchr(m, a, c, n) = Lowest({x \in a .. a + l : m[x] = c})
  BY <1>1, <1>5 DEF ft_memchr
<1> QED
  BY <1>1, <1>2, <1>6 DEF ft_strchr

(* Where the inner loop of ft_strnstr ends.                                *)
MatchEnds(m, p, q, i, len, n) ==
  /\ \A k \in 0 .. n - 1 : m[p + i + k] = m[q + k] /\ m[p + i + k] # NUL
  /\ \/ i + n >= len
     \/ m[p + i + n] # m[q + n]
     \/ m[p + i + n] = NUL

LEMMA MatchedIs ==
  ASSUME NEW m, NEW p \in Int, NEW q \in Int, NEW i \in Nat, NEW len \in Nat, i < len,
         NEW n, n = Matched(m, p, q, i, len)
  PROVE  n \in 0 .. len - i /\ MatchEnds(m, p, q, i, len, n)
<1> DEFINE Ends(j) == \/ i + j >= len
                      \/ m[p + i + j] # m[q + j]
                      \/ m[p + i + j] = NUL
           S == {j \in 0 .. len - i : Ends(j)}
           l == Min(S)
<1>1. S \in SUBSET (0 .. len - i) /\ 0 \in Int /\ len - i \in Int
  OBVIOUS
<1>2. S # {}
  <2>1. len - i \in 0 .. len - i /\ i + (len - i) >= len
    OBVIOUS
  <2> QED
    BY <2>1
<1>3. l \in S /\ \A x \in S : l <= x
  <2> HIDE DEF S
  <2> QED
    BY <1>1, <1>2, LeastBetween
<1> HIDE DEF l
<1>4. \A k \in 0 .. l - 1 : m[p + i + k] = m[q + k] /\ m[p + i + k] # NUL
  <2> TAKE k \in 0 .. l - 1
  <2>1. k \in 0 .. len - i /\ ~(l <= k)
    BY <1>1, <1>3
  <2>2. ~Ends(k)
    BY <1>3, <2>1
  <2> QED
    BY <2>2
<1>5. l \in 0 .. len - i /\ MatchEnds(m, p, q, i, len, l)
  BY <1>3, <1>4 DEF MatchEnds
<1>6. n = CHOOSE j \in 0 .. len - i : MatchEnds(m, p, q, i, len, j)
  BY DEF Matched, MatchEnds
<1> QED
  BY <1>5, <1>6

(* All of the string at q, of length t, stands at p + i within len bytes.  *)
StandsAt(m, p, q, i, t, len, l) ==
  /\ i + t <= len /\ i + t <= l
  /\ \A k \in 0 .. t - 1 : m[p + i + k] = m[q + k]

LEMMA StandsWhere ==
  ASSUME NEW m, NEW p, NEW l, StringAt(m, p, l), NEW q, NEW t, StringAt(m, q, t),
         NEW i \in Nat, NEW len \in Nat, i < len, i < l,
         NEW n, n = Matched(m, p, q, i, len)
  PROVE  m[q + n] = NUL <=> StandsAt(m, p, q, i, t, len, l)
<1>1. /\ p \in Int /\ l \in Nat /\ q \in Int /\ t \in Nat
      /\ m[p + l] = NUL /\ \A k \in 0 .. l - 1 : m[p + k] # NUL
      /\ m[q + t] = NUL /\ \A k \in 0 .. t - 1 : m[q + k] # NUL
  BY DEF StringAt
<1>2. n \in 0 .. len - i /\ MatchEnds(m, p, q, i, len, n)
  BY <1>1, MatchedIs
<1>3. /\ \A k \in 0 .. n - 1 : m[p + i + k] = m[q + k] /\ m[p + i + k] # NUL
      /\ \/ i + n >= len
         \/ m[p + i + n] # m[q + n]
         \/ m[p + i + n] = NUL
  BY <1>2 DEF MatchEnds
<1>4. n <= t
  <2> SUFFICES ASSUME t < n PROVE FALSE
    BY <1>1, <1>2
  <2>1. t \in 0 .. n - 1
    BY <1>1, <1>2
  <2> QED
    BY <1>1, <1>3, <2>1
<1>5. i + n <= l
  <2> SUFFICES ASSUME l < i + n PROVE FALSE
    BY <1>1, <1>2
  <2>1. l - i \in 0 .. n - 1 /\ p + i + (l - i) = p + l
    BY <1>1, <1>2
  <2>2. m[p + i + (l - i)] # NUL
    BY <1>3, <2>1
  <2> QED
    BY <1>1, <2>1, <2>2
<1>6. ASSUME m[q + n] = NUL
      PROVE  StandsAt(m, p, q, i, t, len, l)
  <2>1. ~(n < t)
    <3> SUFFICES ASSUME n < t PROVE FALSE
      OBVIOUS
    <3>1. n \in 0 .. t - 1
      BY <1>1, <1>2
    <3> QED
      BY <1>1, <1>6, <3>1
  <2>2. n = t
    BY <1>1, <1>2, <1>4, <2>1
  <2>3. i + t <= len /\ i + t <= l
    BY <1>1, <1>2, <1>5, <2>2
  <2> QED
    BY <1>3, <2>2, <2>3 DEF StandsAt
<1>7. ASSUME StandsAt(m, p, q, i, t, len, l)
      PROVE  m[q + n] = NUL
  <2>1. /\ i + t <= len /\ i + t <= l
        /\ \A k \in 0 .. t - 1 : m[p + i + k] = m[q + k]
    BY <1>7 DEF StandsAt
  <2>2. ~(n < t)
    <3> SUFFICES ASSUME n < t PROVE FALSE
      OBVIOUS
    <3>1. n \in 0 .. t - 1 /\ ~(i + n >= len) /\ i + n \in 0 .. l - 1 /\ p + (i + n) = p + i + n
      BY <1>1, <1>2, <2>1
    <3>2. m[p + i + n] = m[q + n]
      BY <2>1, <3>1
    <3>3. m[p + (i + n)] # NUL
      BY <1>1, <3>1
    <3> QED
      BY <1>3, <3>1, <3>2, <3>3
  <2>3. n = t
    BY <1>1, <1>2, <1>4, <2>2
  <2> QED
    BY <1>1, <2>3
<1> QED
  BY <1>6, <1>7

(* The part of s from k to e is t when they agree byte by byte.            *)
StandsFrom(s, t, k, e) ==
  SubSeq(s, k, e) = t <=> \A j \in 0 .. Len(t) - 1 : s[k + j] = t[1 + j]

LEMMA SubSeqIs ==
  ASSUME NEW S, NEW s \in Seq(S), NEW t \in Seq(S), NEW k \in Nat \ {0},
         NEW e, e = k + Len(t) - 1, e <= Len(s)
  PROVE  StandsFrom(s, t, k, e)
<1>1. Len(s) \in Nat /\ Len(t) \in Nat /\ k \in Int /\ e \in Int
  BY LenProperties
<1>2. \A i \in k .. e : s[i] \in S
  <2> TAKE i \in k .. e
  <2>1. i \in 1 .. Len(s)
    BY <1>1
  <2> QED
    BY <2>1, ElementOfSeq
<1> DEFINE u == SubSeq(s, k, e)
<1>3. /\ u \in Seq(S) /\ Len(u) = IF k <= e THEN e - k + 1 ELSE 0
      /\ \A i \in 1 .. e - k + 1 : u[i] = s[k + i - 1]
  BY <1>1, <1>2, SubSeqProperties
<1> HIDE DEF u
<1>4. Len(u) = Len(t) /\ e - k + 1 = Len(t)
  BY <1>1, <1>3
<1>5. ASSUME u = t, NEW j \in 0 .. Len(t) - 1
      PROVE  s[k + j] = t[1 + j]
  <2>1. 1 + j \in 1 .. e - k + 1 /\ k + (1 + j) - 1 = k + j
    BY <1>1, <1>4
  <2>2. u[1 + j] = s[k + j]
    BY <1>3, <2>1
  <2> QED
    BY <1>5, <2>2
<1>6. ASSUME \A j \in 0 .. Len(t) - 1 : s[k + j] = t[1 + j]
      PROVE  u = t
  <2>1. \A i \in 1 .. Len(u) : u[i] = t[i]
    <3> TAKE i \in 1 .. Len(u)
    <3>1. /\ i \in 1 .. e - k + 1 /\ i - 1 \in 0 .. Len(t) - 1 /\ k + (i - 1) = k + i - 1
          /\ 1 + (i - 1) = i
      BY <1>1, <1>4
    <3>2. s[k + i - 1] = t[i]
      BY <1>6, <3>1
    <3> QED
      BY <1>3, <3>1, <3>2
  <2> QED
    BY <1>3, <1>4, <2>1, SeqEqual
<1> QED
  BY <1>5, <1>6 DEF StandsFrom, u

(* What SearchesAreRight says of ft_strnstr: where t stands in s.          *)
Stand(s, t, len) ==
  {k \in DOMAIN s : /\ k + Len(t) - 1 <= Min({len, Len(s) - 1})
                    /\ SubSeq(s, k, k + Len(t) - 1) = t}

LEMMA StandMeans ==
  ASSUME NEW m \in Memories, NEW a \in Callers, NEW b \in Callers, NEW len \in Nat,
         NEW l, l = ft_strlen(m, a), NEW s, s = Text(m, a) \o <<NUL>>,
         NEW n, n = ft_strlen(m, b),
         NEW k \in 1 .. l + 1
  PROVE  k \in Stand(s, Text(m, b), len)
           <=> StandsAt(m, a, b, k - 1, n, len, l)
<1> DEFINE t == Text(m, b)
           e == k + Len(t) - 1
<1>1. /\ s \in Seq(Bytes) /\ Len(s) = l + 1 /\ DOMAIN s = 1 .. l + 1
      /\ \A i \in 1 .. l + 1 : s[i] = m[a + i - 1]
  <2>1. s \in Seq(Bytes) /\ Whole(s, m, a, l)
    BY WholeIs
  <2> QED
    BY <2>1 DEF Whole
<1>2. t \in Seq(Bytes)
  <2>1. t \in Seq(Bytes \ {NUL})
    BY CallersText
  <2> HIDE DEF t
  <2> QED
    BY <2>1, SeqMonotonic
<1>3. StringAt(m, a, l) /\ StringAt(m, b, n)
  BY CallersString
<1>4. a \in Int /\ l \in Nat /\ b \in Int /\ n \in Nat
  BY <1>3 DEF StringAt
<1>5. Len(t) = n /\ \A i \in 1 .. n : t[i] = m[b + i - 1]
  BY CallersText
<1> HIDE DEF t
<1>6. e = k - 1 + n /\ e \in Int /\ k \in Nat \ {0}
  BY <1>4, <1>5
<1> HIDE DEF e
<1>7. e <= Min({len, Len(s) - 1}) <=> (k - 1) + n <= len /\ (k - 1) + n <= l
  <2>1. Len(s) - 1 = l
    BY <1>1, <1>4
  <2>2. /\ len <= l => Min({len, l}) = len
        /\ l <= len => Min({len, l}) = l
    BY <1>4, MinOfTwo
  <2>3. e \in Int /\ len \in Int /\ l \in Int /\ e = (k - 1) + n
    BY <1>4, <1>6
  <2>4. ASSUME len <= l PROVE e <= Min({len, l}) <=> e <= len /\ e <= l
    BY <2>2, <2>3, <2>4
  <2>5. ASSUME l <= len PROVE e <= Min({len, l}) <=> e <= len /\ e <= l
    BY <2>2, <2>3, <2>5
  <2>6. e <= Min({len, l}) <=> e <= len /\ e <= l
    BY <2>3, <2>4, <2>5
  <2> QED
    BY <2>1, <2>3, <2>6
<1>8. ASSUME (k - 1) + n <= l
      PROVE  SubSeq(s, k, e) = t
               <=> \A j \in 0 .. n - 1 : m[a + (k - 1) + j] = m[b + j]
  <2>1. e = k + Len(t) - 1 /\ e <= Len(s)
    BY <1>1, <1>4, <1>5, <1>6, <1>8
  <2>2. StandsFrom(s, t, k, e)
    <3>1. s \in Seq(Bytes)
      BY <1>1
    <3>2. k \in Nat \ {0}
      BY <1>6
    <3> QED
      BY <1>2, <2>1, <3>1, <3>2, SubSeqIs
  <2>3. ASSUME NEW j \in 0 .. n - 1
        PROVE  s[k + j] = m[a + (k - 1) + j] /\ t[1 + j] = m[b + j]
    <3>1. /\ k + j \in 1 .. l + 1 /\ a + (k + j) - 1 = a + (k - 1) + j
          /\ 1 + j \in 1 .. n /\ b + (1 + j) - 1 = b + j
      BY <1>4, <1>8
    <3> QED
      BY <1>1, <1>5, <3>1
  <2> QED
    BY <1>5, <2>2, <2>3 DEF StandsFrom
<1>9. k \in Stand(s, t, len) <=> e <= Min({len, Len(s) - 1}) /\ SubSeq(s, k, e) = t
  BY <1>1 DEF Stand, e
<1> QED
  BY <1>7, <1>8, <1>9 DEF StandsAt, t

(* ft_strnstr points to the first place where the string at b stands.      *)
FirstStand(m, a, b, len, s) ==
  Place(ft_strnstr(m, a, b, len), a) = Lowest(Stand(s, Text(m, b), len))

LEMMA StrnstrFound ==
  ASSUME NEW m \in Memories, NEW a \in Callers, NEW b \in Callers, NEW len \in Nat,
         NEW s, s = Text(m, a) \o <<NUL>>
  PROVE  FirstStand(m, a, b, len, s)
<1> DEFINE l == ft_strlen(m, a)
           n == ft_strlen(m, b)
           Y == Stand(s, Text(m, b), len)
<1>1. StringAt(m, a, l) /\ StringAt(m, b, n)
  BY CallersString
<1>2. DOMAIN s = 1 .. l + 1
  <2>1. Whole(s, m, a, l)
    BY WholeIs
  <2> QED
    BY <2>1 DEF Whole
<1>3. \A k \in 1 .. l + 1 : k \in Y <=> StandsAt(m, a, b, k - 1, n, len, l)
  BY StandMeans
<1>4. Y \subseteq 1 .. l + 1
  BY <1>2 DEF Stand
<1> HIDE DEF l, n, Y
<1>5. /\ a \in Int /\ l \in Nat /\ b \in Int /\ n \in Nat /\ m[b + n] = NUL
      /\ \A k \in 0 .. n - 1 : m[b + k] # NUL
  BY <1>1 DEF StringAt
<1>6. a \in Nat \ {0}
  BY Layout
<1>7. CASE m[b] = NUL
  <2>1. n = 0
    <3>1. 0 < n => 0 \in 0 .. n - 1 /\ b + 0 = b
      BY <1>5
    <3>2. n = 0 \/ 0 < n
      BY <1>5
    <3>3. ASSUME 0 < n PROVE FALSE
      <4>1. m[b + 0] # NUL
        BY <1>5, <3>1, <3>3
      <4> QED
        BY <1>7, <3>1, <3>3, <4>1
    <3> QED
      BY <3>2, <3>3
  <2>2. 1 \in 1 .. l + 1 /\ StandsAt(m, a, b, 1 - 1, n, len, l)
    BY <1>5, <2>1 DEF StandsAt
  <2>3. 1 \in Y /\ Y \in SUBSET Int /\ \A k \in Y : 1 <= k
    BY <1>3, <1>4, <2>2
  <2>4. Lowest(Y) = 1
    BY <2>3, MinIs DEF Lowest
  <2>5. ft_strnstr(m, a, b, len) = a
    BY <1>7 DEF ft_strnstr
  <2>6. Place(a, a) = 1
    BY <1>6 DEF Place, NULL
  <2> QED
    BY <2>4, <2>5, <2>6 DEF Y, FirstStand
<1>8. CASE m[b] # NUL
  <2>1. n # 0
    BY <1>5, <1>8
  <2> DEFINE u == Min({len, l})
             I == {i \in 0 .. u - 1 : m[b + Matched(m, a, b, i, len)] = NUL}
             X == {a + i : i \in I}
  <2>2. ft_strnstr(m, a, b, len) = Lowest(X)
    BY <1>8 DEF ft_strnstr, l
  <2>3. u \in Int /\ \A i \in Nat : i < u <=> i < len /\ i < l
    <3>1. /\ len <= l => Min({len, l}) = len
          /\ l <= len => Min({len, l}) = l
      BY <1>5, MinOfTwo
    <3>2. len \in Int /\ l \in Int /\ (len <= l \/ l <= len)
      BY <1>5
    <3>3. ASSUME len <= l PROVE u \in Int /\ \A i \in Nat : i < u <=> i < len /\ i < l
      <4>1. u = len
        BY <3>1, <3>3
      <4> HIDE DEF u
      <4> QED
        BY <3>2, <3>3, <4>1
    <3>4. ASSUME l <= len PROVE u \in Int /\ \A i \in Nat : i < u <=> i < len /\ i < l
      <4>1. u = l
        BY <3>1, <3>4
      <4> HIDE DEF u
      <4> QED
        BY <3>2, <3>4, <4>1
    <3> QED
      BY <3>2, <3>3, <3>4
  <2> HIDE DEF u
  <2>4. ASSUME NEW i \in 0 .. u - 1
        PROVE  i \in I <=> StandsAt(m, a, b, i, n, len, l)
    <3>1. i \in Nat /\ i < len /\ i < l
      BY <2>3
    <3> DEFINE x == Matched(m, a, b, i, len)
    <3>2. x = Matched(m, a, b, i, len)
      OBVIOUS
    <3> HIDE DEF x
    <3>3. m[b + x] = NUL <=> StandsAt(m, a, b, i, n, len, l)
      BY <1>1, <3>1, <3>2, StandsWhere
    <3> QED
      BY <3>2, <3>3
  <2>5. I \subseteq 0 .. u - 1
    OBVIOUS
  <2> HIDE DEF I
  <2>6. X \subseteq a .. a + l
    <3>1. \A i \in I : i \in Nat /\ i < l
      BY <2>3, <2>5
    <3> QED
      BY <1>5, <3>1
  <2>7. ASSUME NEW k \in 1 .. l + 1
        PROVE  k \in Y <=> a + k - 1 \in X
    <3>1. k - 1 \in Nat /\ a + (k - 1) = a + k - 1
      BY <1>5
    <3>2. a + k - 1 \in X <=> k - 1 \in I
      <4>1. \A i \in I : i \in Int /\ (a + i = a + k - 1 => i = k - 1)
        BY <1>5, <2>3, <2>5
      <4> QED
        BY <3>1, <4>1
    <3>3. StandsAt(m, a, b, k - 1, n, len, l) => k - 1 < len /\ k - 1 < l
      BY <1>5, <2>1, <3>1 DEF StandsAt
    <3>4. k - 1 < len /\ k - 1 < l => k - 1 \in 0 .. u - 1
      BY <2>3, <3>1
    <3>5. k - 1 \in I <=> StandsAt(m, a, b, k - 1, n, len, l)
      BY <2>4, <2>5, <3>3, <3>4
    <3> QED
      BY <1>3, <3>2, <3>5
  <2>8. SameBut(X, Y, a, l)
    <3> HIDE DEF X
    <3>1. Y = {k \in 1 .. l + 1 : a + k - 1 \in X}
      BY <1>4, <2>7
    <3> QED
      BY <2>6, <3>1 DEF SameBut
  <2> HIDE DEF X
  <2>9. Place(Lowest(X), a) = Lowest(Y)
    BY <1>5, <1>6, <2>8, ExtremesShift
  <2> QED
    BY <2>2, <2>9 DEF Y, FirstStand
<1> QED
  BY <1>7, <1>8

(* What SearchesAreRight asks of a call on m: s is the string searched,    *)
(* t the text looked for, r what was returned.                             *)
Finds(m, fn, a, b, n, r, s, t) ==
  /\ fn = "ft_strnstr" => Place(r, a) = Lowest(Stand(s, t, n))
  /\ fn = "ft_strchr" /\ n < 128 => Place(r, a) = Lowest({k \in DOMAIN s : s[k] = n})
  /\ fn = "ft_strrchr" /\ n < 128 => Place(r, a) = Highest({k \in DOMAIN s : s[k] = n})
  /\ fn = "ft_memchr" /\ n = Len(s) /\ b < 128 => r = ft_strchr(m, a, b)

LEMMA LookedFinds ==
  ASSUME NEW fn, NEW a, NEW b, NEW n, NEW r, Looked(fn, a, b, n, r),
         Finds(before, fn, a, b, n, r, Text(before, a) \o <<NUL>>, Text(before, b))
  PROVE  SearchesAreRight' /\ call'.fn = fn /\ call'.room = 0
<1>1. /\ call' = [fn |-> fn, a |-> a, b |-> b, n |-> n, room |-> 0]
      /\ ret' = r /\ before' = before
  BY DEF Looked, StringCall, Called
<1>2. /\ call'.fn = fn /\ call'.a = a /\ call'.b = b /\ call'.n = n /\ call'.room = 0
  BY <1>1
<1>3. SearchesAreRight'
  BY <1>1, <1>2 DEF SearchesAreRight, Finds, Place, Stand
<1> QED
  BY <1>2, <1>3

LEMMA SearchesFind ==
  ASSUME before \in Memories, Search
  PROVE  /\ SearchesAreRight' /\ call'.room = 0
         /\ call'.fn \in {"ft_strchr", "ft_strrchr", "ft_memchr", "ft_strnstr"}
<1> DEFINE Done == /\ SearchesAreRight' /\ call'.room = 0
                   /\ call'.fn \in {"ft_strchr", "ft_strrchr", "ft_memchr", "ft_strnstr"}
<1>1. PICK str \in Callers :
        \/ \E c \in Bytes :
             \/ Looked("ft_strchr", str, NULL, c, ft_strchr(before, str, c))
             \/ Looked("ft_strrchr", str, NULL, c, ft_strrchr(before, str, c))
        \/ \E c \in Bytes, n \in 0 .. LAST :
             /\ Inside(str, n)
             /\ Looked("ft_memchr", str, c, n, ft_memchr(before, str, c, n))
        \/ \E str2 \in Callers, len \in 0 .. LAST :
             Looked("ft_strnstr", str, str2, len, ft_strnstr(before, str, str2, len))
  BY DEF Search
<1> DEFINE s == Text(before, str) \o <<NUL>>
<1>0. s = Text(before, str) \o <<NUL>>
  OBVIOUS
<1> HIDE DEF s
<1>2. ASSUME NEW c \in Bytes,
             Looked("ft_strchr", str, NULL, c, ft_strchr(before, str, c))
      PROVE  Done
  <2> DEFINE r == ft_strchr(before, str, c)
  <2>1. c < 128 => Place(r, str) = Lowest({k \in DOMAIN s : s[k] = c})
    <3>1. c < 128 => PointsTo(before, str, c, s)
      BY <1>0, CharFound
    <3> QED
      BY <3>1 DEF PointsTo
  <2> HIDE DEF r
  <2>2. Finds(before, "ft_strchr", str, NULL, c, r, s, Text(before, NULL))
    BY <2>1 DEF Finds
  <2> QED
    BY <1>2, <2>2, LookedFinds DEF s, r
<1>3. ASSUME NEW c \in Bytes,
             Looked("ft_strrchr", str, NULL, c, ft_strrchr(before, str, c))
      PROVE  Done
  <2> DEFINE r == ft_strrchr(before, str, c)
  <2>1. c < 128 => Place(r, str) = Highest({k \in DOMAIN s : s[k] = c})
    <3>1. c < 128 => PointsTo(before, str, c, s)
      BY <1>0, CharFound
    <3> QED
      BY <3>1 DEF PointsTo
  <2> HIDE DEF r
  <2>2. Finds(before, "ft_strrchr", str, NULL, c, r, s, Text(before, NULL))
    BY <2>1 DEF Finds
  <2> QED
    BY <1>3, <2>2, LookedFinds DEF s, r
<1>4. ASSUME NEW c \in Bytes, NEW n \in 0 .. LAST,
             Looked("ft_memchr", str, c, n, ft_memchr(before, str, c, n))
      PROVE  Done
  <2> DEFINE r == ft_memchr(before, str, c, n)
  <2>1. n = Len(s) /\ c < 128 => r = ft_strchr(before, str, c)
    BY <1>0, ByteFound
  <2> HIDE DEF r
  <2>2. Finds(before, "ft_memchr", str, c, n, r, s, Text(before, c))
    BY <2>1 DEF Finds
  <2> QED
    BY <1>4, <2>2, LookedFinds DEF s, r
<1>5. ASSUME NEW str2 \in Callers, NEW len \in 0 .. LAST,
             Looked("ft_strnstr", str, str2, len, ft_strnstr(before, str, str2, len))
      PROVE  Done
  <2> DEFINE r == ft_strnstr(before, str, str2, len)
             t == Text(before, str2)
  <2>1. Place(r, str) = Lowest(Stand(s, t, len))
    <3>1. len \in Nat
      BY Layout
    <3>2. FirstStand(before, str, str2, len, s)
      BY <1>0, <3>1, StrnstrFound
    <3> QED
      BY <3>2 DEF FirstStand
  <2> HIDE DEF r, t
  <2>2. Finds(before, "ft_strnstr", str, str2, len, r, s, t)
    BY <2>1 DEF Finds
  <2> QED
    BY <1>5, <2>2, LookedFinds DEF s, r, t
<1> HIDE DEF Done
<1>6. Done
  BY <1>1, <1>2, <1>3, <1>4, <1>5
<1> QED
  BY <1>6 DEF Done

------------------------------------------------------------------------------
(* Comparisons.                                                            *)

(* x and y come of comparing n bytes at a and b, and the other way round.  *)
Opposed(x, y, m, a, b, n) ==
  x = -y /\ (x = 0 <=> \A i \in 0 .. n - 1 : m[a + i] = m[b + i])

LEMMA FirstDifferenceTurns ==
  ASSUME NEW m, NEW a \in Int, NEW b \in Int, NEW n \in Int,
         \A i \in 0 .. n - 1 : m[a + i] \in Int /\ m[b + i] \in Int,
         NEW f, f = FirstDifference(m, a, b, 0 .. n - 1),
         NEW g, g = FirstDifference(m, b, a, 0 .. n - 1)
  PROVE  Opposed(f, g, m, a, b, n)
<1> DEFINE D == {i \in 0 .. n - 1 : m[a + i] # m[b + i]}
           x == Min(D)
<1>1. D = {i \in 0 .. n - 1 : m[b + i] # m[a + i]}
  OBVIOUS
<1>2. D \in SUBSET (0 .. n - 1) /\ \A i \in D : m[a + i] # m[b + i]
  OBVIOUS
<1>3. D = {} <=> \A i \in 0 .. n - 1 : m[a + i] = m[b + i]
  OBVIOUS
<1>4. f = IF D = {} THEN 0 ELSE m[a + x] - m[b + x]
  BY DEF FirstDifference
<1>5. g = IF D = {} THEN 0 ELSE m[b + x] - m[a + x]
  BY <1>1 DEF FirstDifference
<1> HIDE DEF D
<1>6. CASE D = {}
  BY <1>3, <1>4, <1>5, <1>6 DEF Opposed
<1>7. CASE D # {}
  <2>1. 0 \in Int /\ n - 1 \in Int
    OBVIOUS
  <2>2. x \in D
    BY <1>2, <1>7, <2>1, LeastBetween
  <2> HIDE DEF x
  <2>3. m[a + x] \in Int /\ m[b + x] \in Int /\ m[a + x] # m[b + x]
    BY <1>2, <2>2
  <2>4. m[a + x] - m[b + x] = -(m[b + x] - m[a + x]) /\ m[a + x] - m[b + x] # 0
    <3> DEFINE u == m[a + x]
               v == m[b + x]
    <3> HIDE DEF u, v
    <3>1. u \in Int /\ v \in Int /\ u # v
      BY <2>3 DEF u, v
    <3>2. u - v = -(v - u) /\ u - v # 0
      BY <3>1
    <3> QED
      BY <3>2 DEF u, v
  <2> QED
    BY <1>3, <1>4, <1>5, <1>7, <2>4 DEF Opposed
<1> QED
  BY <1>6, <1>7

(* x is the lesser of p and q.                                             *)
Lesser(x, p, q) == x \in Int /\ x <= p /\ x <= q /\ (x = p \/ x = q)

LEMMA LesserIs ==
  ASSUME NEW p \in Int, NEW q \in Int, NEW x, x = Min({p, q})
  PROVE  Lesser(x, p, q)
<1>1. /\ p <= q => x = p
      /\ q <= p => x = q
  BY MinOfTwo
<1> QED
  BY <1>1 DEF Lesser

(* The first n bytes of a text.                                           *)
UpTo(text, n) == SubSeq(text, 1, Min({n, Len(text)}))

(* u is the first p bytes at a.                                            *)
Prefix(u, m, a, p) ==
  u \in Seq(Bytes) /\ Len(u) = p /\ \A i \in 0 .. p - 1 : u[1 + i] = m[a + i]

LEMMA PrefixIs ==
  ASSUME NEW m \in Memories, NEW a \in Callers, NEW n \in Nat,
         NEW p, p = Min({n, ft_strlen(m, a)}),
         NEW u, u = UpTo(Text(m, a), n)
  PROVE  Prefix(u, m, a, p)
<1> DEFINE l == ft_strlen(m, a)
           T == Text(m, a)
<1>1. StringAt(m, a, l)
  BY CallersString
<1>2. Len(T) = l /\ \A k \in 1 .. l : T[k] = m[a + k - 1]
  BY CallersText
<1>3. T \in Seq(Bytes)
  <2>1. T \in Seq(Bytes \ {NUL})
    BY CallersText
  <2> HIDE DEF T
  <2> QED
    BY <2>1, SeqMonotonic
<1>4. u = SubSeq(T, 1, p)
  BY <1>2 DEF UpTo
<1> HIDE DEF l, T
<1>5. l \in Nat /\ a \in Int
  BY <1>1 DEF StringAt
<1>6. p \in Nat /\ p <= l
  <2>1. Lesser(p, n, l)
    BY <1>5, LesserIs DEF l
  <2> QED
    BY <1>5, <2>1 DEF Lesser
<1>7. \A i \in 1 .. p : T[i] \in Bytes
  <2> TAKE i \in 1 .. p
  <2>1. i \in 1 .. Len(T)
    BY <1>2, <1>5, <1>6
  <2> QED
    BY <1>3, <2>1, ElementOfSeq
<1>8. /\ u \in Seq(Bytes) /\ Len(u) = IF 1 <= p THEN p - 1 + 1 ELSE 0
      /\ \A i \in 1 .. p - 1 + 1 : u[i] = T[1 + i - 1]
  <2>1. 1 \in Int /\ p \in Int
    BY <1>6
  <2> DEFINE w == SubSeq(T, 1, p)
  <2>2. /\ w \in Seq(Bytes) /\ Len(w) = IF 1 <= p THEN p - 1 + 1 ELSE 0
        /\ \A i \in 1 .. p - 1 + 1 : w[i] = T[1 + i - 1]
    BY <1>7, <2>1, SubSeqProperties
  <2> HIDE DEF w
  <2>3. u = w
    BY <1>4 DEF w
  <2> QED
    BY <2>2, <2>3
<1>9. Len(u) = p
  <2>1. Len(u) = IF 1 <= p THEN p - 1 + 1 ELSE 0
    BY <1>8
  <2> QED
    BY <1>6, <2>1
<1>10. ASSUME NEW i \in 0 .. p - 1
       PROVE  u[1 + i] = m[a + i]
  <2>1. /\ 1 + i \in 1 .. p - 1 + 1 /\ 1 + (1 + i) - 1 = 1 + i /\ 1 + i \in 1 .. l
        /\ a + (1 + i) - 1 = a + i
    BY <1>5, <1>6
  <2> QED
    BY <1>2, <1>8, <2>1
<1> QED
  BY <1>8, <1>9, <1>10 DEF Prefix

(* The prefixes of two strings are the same when ft_strncmp sees no        *)
(* difference.                                                             *)
LEMMA SamePrefixes ==
  ASSUME NEW m, NEW a, NEW l, StringAt(m, a, l), NEW b, NEW k, StringAt(m, b, k),
         NEW n \in Nat, NEW p, Lesser(p, n, l), NEW q, Lesser(q, n, k),
         NEW c, Lesser(c, l, k), NEW e, Lesser(e, n, 1 + c),
         NEW u, Prefix(u, m, a, p), NEW v, Prefix(v, m, b, q)
  PROVE  (\A i \in 0 .. e - 1 : m[a + i] = m[b + i]) <=> u = v
<1>1. /\ a \in Int /\ l \in Nat /\ b \in Int /\ k \in Nat
      /\ m[a + l] = NUL /\ \A i \in 0 .. l - 1 : m[a + i] # NUL
      /\ m[b + k] = NUL /\ \A i \in 0 .. k - 1 : m[b + i] # NUL
  BY DEF StringAt
<1>2. /\ p \in Int /\ p <= n /\ p <= l /\ (p = n \/ p = l)
      /\ q \in Int /\ q <= n /\ q <= k /\ (q = n \/ q = k)
      /\ c \in Int /\ c <= l /\ c <= k /\ (c = l \/ c = k)
      /\ e \in Int /\ e <= n /\ e <= 1 + c /\ (e = n \/ e = 1 + c)
  BY DEF Lesser
<1>3. /\ u \in Seq(Bytes) /\ Len(u) = p /\ \A i \in 0 .. p - 1 : u[1 + i] = m[a + i]
      /\ v \in Seq(Bytes) /\ Len(v) = q /\ \A i \in 0 .. q - 1 : v[1 + i] = m[b + i]
  BY DEF Prefix
<1>4. p \in Nat /\ q \in Nat
  BY <1>1, <1>2
<1>5. ASSUME \A i \in 0 .. e - 1 : m[a + i] = m[b + i]
      PROVE  u = v
  <2>1. p = q
    <3>1. CASE l < n /\ l <= k
      <4>1. l \in 0 .. e - 1
        BY <1>1, <1>2, <3>1
      <4>2. ~(l < k)
        <5> SUFFICES ASSUME l < k PROVE FALSE
          OBVIOUS
        <5>1. l \in 0 .. k - 1
          BY <1>1
        <5> QED
          BY <1>1, <1>5, <4>1, <5>1
      <4> QED
        BY <1>1, <1>2, <3>1, <4>2
    <3>2. CASE k < n /\ k < l
      <4>1. k \in 0 .. e - 1 /\ k \in 0 .. l - 1
        BY <1>1, <1>2, <3>2
      <4> QED
        BY <1>1, <1>5, <4>1
    <3>3. CASE ~(l < n) /\ ~(k < n)
      BY <1>1, <1>2, <3>3
    <3> QED
      BY <1>1, <3>1, <3>2, <3>3
  <2>2. p <= e
    BY <1>1, <1>2, <2>1
  <2>3. \A i \in 1 .. p : u[i] = v[i]
    <3> TAKE i \in 1 .. p
    <3>1. i - 1 \in 0 .. p - 1 /\ i - 1 \in 0 .. e - 1 /\ 1 + (i - 1) = i
      BY <1>2, <2>2
    <3>2. u[i] = m[a + (i - 1)] /\ v[i] = m[b + (i - 1)]
      BY <1>3, <2>1, <3>1
    <3> QED
      BY <1>5, <3>1, <3>2
  <2> QED
    BY <1>3, <2>1, <2>3, SeqEqual
<1>6. ASSUME u = v, NEW i \in 0 .. e - 1
      PROVE  m[a + i] = m[b + i]
  <2>1. p = q
    BY <1>3, <1>6
  <2>2. CASE i < p
    <3>1. i \in 0 .. p - 1
      BY <1>2, <2>2
    <3> QED
      BY <1>3, <1>6, <2>1, <3>1
  <2>3. CASE ~(i < p)
    <3>1. i \in Int /\ 0 <= i /\ i <= e - 1
      BY <1>2
    <3>2. p = l /\ q = k
      BY <1>1, <1>2, <2>1, <2>3, <3>1
    <3>3. i = l /\ i = k
      BY <1>1, <1>2, <2>1, <2>3, <3>1, <3>2
    <3> QED
      BY <1>1, <3>3
  <2> QED
    BY <2>2, <2>3
<1> QED
  BY <1>5, <1>6

(* What ComparisonsAreOrders asks of a call on m that returned r; s and t  *)
(* are the prefixes compared.                                              *)
Orders(m, fn, a, b, n, r, s, t) ==
  /\ fn = "ft_strncmp" =>
       /\ r = 0 <=> s = t
       /\ r = -ft_strncmp(m, b, a, n)
  /\ fn = "ft_memcmp" =>
       /\ r = -ft_memcmp(m, b, a, n)
       /\ s = t /\ Len(s) = n => r = 0

LEMMA ComparedOrders ==
  ASSUME NEW fn, NEW a, NEW b, NEW n, NEW r, Looked(fn, a, b, n, r),
         Orders(before, fn, a, b, n, r, UpTo(Text(before, a), n), UpTo(Text(before, b), n))
  PROVE  ComparisonsAreOrders' /\ call'.fn = fn /\ call'.room = 0
<1>1. /\ call' = [fn |-> fn, a |-> a, b |-> b, n |-> n, room |-> 0]
      /\ ret' = r /\ before' = before
  BY DEF Looked, StringCall, Called
<1>2. /\ call'.fn = fn /\ call'.a = a /\ call'.b = b /\ call'.n = n /\ call'.room = 0
  BY <1>1
<1>3. ComparisonsAreOrders'
  BY <1>1, <1>2 DEF ComparisonsAreOrders, Orders, UpTo
<1> QED
  BY <1>2, <1>3

(* Both kinds of comparison look at addresses of the caller's.             *)
LEMMA StrncmpOrders ==
  ASSUME NEW m \in Memories, NEW a \in Callers, NEW b \in Callers, NEW n \in Nat,
         NEW s, s = UpTo(Text(m, a), n), NEW t, t = UpTo(Text(m, b), n),
         NEW r, r = ft_strncmp(m, a, b, n)
  PROVE  Orders(m, "ft_strncmp", a, b, n, r, s, t)
<1> DEFINE l == ft_strlen(m, a)
           k == ft_strlen(m, b)
           c == Min({l, k})
           e == Min({n, 1 + c})
           p == Min({n, l})
           q == Min({n, k})
<1>1. StringAt(m, a, l) /\ StringAt(m, b, k)
  BY CallersString
<1>2. Prefix(s, m, a, p) /\ Prefix(t, m, b, q)
  BY PrefixIs
<1>3. /\ r = FirstDifference(m, a, b, 0 .. e - 1)
      /\ ft_strncmp(m, b, a, n) = FirstDifference(m, b, a, 0 .. e - 1)
  <2>1. {ft_strlen(m, b), ft_strlen(m, a)} = {l, k}
    OBVIOUS
  <2> QED
    BY <2>1 DEF ft_strncmp
<1>4. \A i \in Callers : m[i] \in Int
  BY MemoryFacts
<1>5. (\A i \in 0 .. l : a + i \in Callers) /\ \A i \in 0 .. k : b + i \in Callers
  BY CallersString
<1> HIDE DEF l, k
<1>6. a \in Int /\ b \in Int /\ l \in Nat /\ k \in Nat
  BY <1>1 DEF StringAt
<1>7. Lesser(c, l, k) /\ Lesser(p, n, l) /\ Lesser(q, n, k)
  BY <1>6, LesserIs
<1> HIDE DEF c, p, q
<1>8. c \in Int /\ c <= l /\ c <= k
  BY <1>7 DEF Lesser
<1>9. Lesser(e, n, 1 + c)
  BY <1>8, LesserIs
<1> HIDE DEF e
<1>10. e \in Int /\ e <= 1 + c
  BY <1>9 DEF Lesser
<1>11. \A i \in 0 .. e - 1 : m[a + i] \in Int /\ m[b + i] \in Int
  <2> TAKE i \in 0 .. e - 1
  <2>1. i \in 0 .. l /\ i \in 0 .. k
    BY <1>6, <1>8, <1>10
  <2> QED
    BY <1>4, <1>5, <2>1
<1>12. (\A i \in 0 .. e - 1 : m[a + i] = m[b + i]) <=> s = t
  BY <1>1, <1>2, <1>7, <1>9, SamePrefixes
<1> DEFINE x == FirstDifference(m, a, b, 0 .. e - 1)
           y == FirstDifference(m, b, a, 0 .. e - 1)
<1>13. x = -y /\ (x = 0 <=> \A i \in 0 .. e - 1 : m[a + i] = m[b + i])
  <2>1. x = FirstDifference(m, a, b, 0 .. e - 1) /\ y = FirstDifference(m, b, a, 0 .. e - 1)
    OBVIOUS
  <2> HIDE DEF x, y
  <2>2. Opposed(x, y, m, a, b, e)
    BY <1>6, <1>10, <1>11, <2>1, FirstDifferenceTurns
  <2> QED
    BY <2>2 DEF Opposed
<1> HIDE DEF x, y
<1>14. r = x /\ ft_strncmp(m, b, a, n) = y
  BY <1>3 DEF x, y
<1> QED
  BY <1>12, <1>13, <1>14 DEF Orders

LEMMA MemcmpOrders ==
  ASSUME NEW m \in Memories, NEW a \in Callers, NEW b \in Callers, NEW n \in Nat,
         Inside(a, n), Inside(b, n),
         NEW s, s = UpTo(Text(m, a), n), NEW t, t = UpTo(Text(m, b), n),
         NEW r, r = ft_memcmp(m, a, b, n)
  PROVE  Orders(m, "ft_memcmp", a, b, n, r, s, t)
<1> DEFINE x == FirstDifference(m, a, b, 0 .. n - 1)
           y == FirstDifference(m, b, a, 0 .. n - 1)
           p == Min({n, ft_strlen(m, a)})
           q == Min({n, ft_strlen(m, b)})
<1>1. a \in 1 .. LAST /\ b \in 1 .. LAST /\ LAST \in Nat
      /\ a + n - 1 <= LAST /\ b + n - 1 <= LAST
  BY Layout DEF Inside
<1>2. \A i \in 0 .. n - 1 : m[a + i] \in Int /\ m[b + i] \in Int
  <2> TAKE i \in 0 .. n - 1
  <2>1. a + i \in 1 .. LAST /\ b + i \in 1 .. LAST
    BY <1>1
  <2>2. a + i \in Callers /\ b + i \in Callers
    BY <2>1 DEF Callers
  <2> QED
    BY <2>2, MemoryFacts
<1>3. x = -y /\ (x = 0 <=> \A i \in 0 .. n - 1 : m[a + i] = m[b + i])
  <2>1. x = FirstDifference(m, a, b, 0 .. n - 1) /\ y = FirstDifference(m, b, a, 0 .. n - 1)
    OBVIOUS
  <2> HIDE DEF x, y
  <2>2. n \in Int /\ a \in Int /\ b \in Int
    BY <1>1
  <2>3. Opposed(x, y, m, a, b, n)
    BY <1>2, <2>1, <2>2, FirstDifferenceTurns
  <2> QED
    BY <2>3 DEF Opposed
<1>4. r = x /\ ft_memcmp(m, b, a, n) = y
  BY DEF ft_memcmp
<1>5. Prefix(s, m, a, p) /\ Prefix(t, m, b, q)
  BY PrefixIs
<1> HIDE DEF x, y, p, q
<1>6. ASSUME s = t, Len(s) = n
      PROVE  x = 0
  <2>1. p = n /\ q = n
    BY <1>5, <1>6 DEF Prefix
  <2>2. \A i \in 0 .. n - 1 : m[a + i] = m[b + i]
    BY <1>5, <1>6, <2>1 DEF Prefix
  <2> QED
    BY <1>3, <2>2
<1> QED
  BY <1>3, <1>4, <1>6 DEF Orders

LEMMA ComparesRight ==
  ASSUME before \in Memories, Compare
  PROVE  ComparisonsAreOrders' /\ call'.room = 0 /\ call'.fn \in {"ft_strncmp", "ft_memcmp"}
<1>1. PICK a \in Callers, b \in Callers, n \in 0 .. LAST :
        \/ Looked("ft_strncmp", a, b, n, ft_strncmp(before, a, b, n))
        \/ /\ Inside(a, n) /\ Inside(b, n)
           /\ Looked("ft_memcmp", a, b, n, ft_memcmp(before, a, b, n))
  BY DEF Compare
<1>2. n \in Nat
  BY Layout
<1>3. Orders(before, "ft_strncmp", a, b, n, ft_strncmp(before, a, b, n),
             UpTo(Text(before, a), n), UpTo(Text(before, b), n))
  BY <1>2, StrncmpOrders
<1>4. ASSUME Inside(a, n), Inside(b, n)
      PROVE  Orders(before, "ft_memcmp", a, b, n, ft_memcmp(before, a, b, n),
                    UpTo(Text(before, a), n), UpTo(Text(before, b), n))
  BY <1>2, <1>4, MemcmpOrders
<1> QED
  BY <1>1, <1>3, <1>4, ComparedOrders

------------------------------------------------------------------------------
(* New strings.                                                            *)

(* A text is known by its length and its bytes.                            *)
LEMMA TextIsSeq ==
  ASSUME NEW g, NEW dest, NEW c, StringAt(g, dest, c),
         NEW S, NEW W \in Seq(S), Len(W) = c,
         \A k \in 0 .. c - 1 : g[dest + k] = W[1 + k]
  PROVE  Text(g, dest) = W
<1> DEFINE T == Text(g, dest)
<1>1. dest \in Int /\ c \in Nat
  BY DEF StringAt
<1>2. \A k \in 0 .. c - 1 : g[dest + k] \in S
  <2> TAKE k \in 0 .. c - 1
  <2>1. 1 + k \in 1 .. Len(W)
    BY <1>1
  <2>2. W[1 + k] \in S
    BY <2>1, ElementOfSeq
  <2> QED
    BY <2>2
<1>3. T \in Seq(S)
  BY <1>2, TextSeq
<1>4. Len(T) = c /\ \A k \in 1 .. c : T[k] = g[dest + k - 1]
  BY TextLen
<1> HIDE DEF T
<1>5. \A k \in 1 .. c : T[k] = W[k]
  <2> TAKE k \in 1 .. c
  <2>1. k - 1 \in 0 .. c - 1 /\ dest + (k - 1) = dest + k - 1 /\ 1 + (k - 1) = k
    BY <1>1
  <2>2. g[dest + (k - 1)] = W[1 + (k - 1)]
    BY <2>1
  <2> QED
    BY <1>4, <2>1, <2>2
<1>6. T = W
  BY <1>3, <1>4, <1>5, SeqEqual
<1> QED
  BY <1>6 DEF T

(* Two strings with the same bytes have the same text.                     *)
SameText(m, a, g, b) == Text(m, a) = Text(g, b)

LEMMA TextSame ==
  ASSUME NEW m, NEW a, NEW g, NEW b, NEW n, StringAt(m, a, n), StringAt(g, b, n),
         \A k \in 0 .. n - 1 : m[a + k] = g[b + k]
  PROVE  SameText(m, a, g, b)
<1>1. a \in Int /\ b \in Int /\ n \in Nat
  BY DEF StringAt
<1>2. \A k \in 1 .. n : m[a + k - 1] = g[b + k - 1]
  <2> TAKE k \in 1 .. n
  <2>1. k - 1 \in 0 .. n - 1 /\ a + (k - 1) = a + k - 1 /\ b + (k - 1) = b + k - 1
    BY <1>1
  <2> QED
    BY <2>1
<1>3. [k \in 1 .. n |-> m[a + k - 1]] = [k \in 1 .. n |-> g[b + k - 1]]
  BY <1>2
<1>4. Text(m, a) = [k \in 1 .. n |-> m[a + k - 1]]
  BY TextIs
<1>5. Text(g, b) = [k \in 1 .. n |-> g[b + k - 1]]
  BY TextIs
<1> QED
  BY <1>3, <1>4, <1>5 DEF SameText

(* g is m with a string of length c in a block of some bytes.              *)
Fresh(m, g, room, c) ==
  /\ room \in Nat /\ c < room
  /\ DOMAIN g = Callers \cup (BLOCK .. BLOCK + room - 1)
  /\ \A a \in Callers : g[a] = m[a]
  /\ StringAt(g, BLOCK, c)

(* What NewStringsFit asks of a call that returned such a block.           *)
NewFits(m, g, room, exact, expected) ==
  /\ \A a \in Callers : g[a] = m[a]
  /\ DOMAIN g = Callers \cup (BLOCK .. BLOCK + room - 1)
  /\ ft_strlen(g, BLOCK) < room
  /\ exact => Text(g, BLOCK) = expected

LEMMA FreshFits ==
  ASSUME NEW m, NEW g, NEW room, NEW c, Fresh(m, g, room, c), NEW exact, NEW expected,
         exact => Text(g, BLOCK) = expected
  PROVE  NewFits(m, g, room, exact, expected)
<1>1. ft_strlen(g, BLOCK) = c
  BY StrlenIs DEF Fresh
<1> QED
  BY <1>1 DEF Fresh, NewFits

(* The block of n bytes is zero.                                           *)
Zeroed(m, z, n) ==
  /\ IsMem(z) /\ DOMAIN z = Callers \cup (BLOCK .. BLOCK + n - 1)
  /\ \A a \in Callers : z[a] = m[a]
  /\ \A i \in 0 .. n - 1 : z[BLOCK + i] = NUL

LEMMA BehindCaller ==
  /\ \A i \in Nat : BLOCK + i \notin Callers
  /\ Callers \subseteq Int /\ BLOCK \in Int /\ BLOCK # NULL
  /\ \A a \in Callers : a < BLOCK
BY Layout

LEMMA ZeroedIs ==
  ASSUME NEW m \in Memories, NEW n \in Nat, NEW z, z = ft_bzero(m, BLOCK, n)
  PROVE  Zeroed(m, z, n)
<1> DEFINE I == 0 .. n - 1
           v == [i \in I |-> NUL]
           s == Upwards(n)
           f == Filled(m, BLOCK, v, I)
<1>1. IsMem(m) /\ DOMAIN m = Callers /\ BLOCK \in Int
  BY MemoryFacts, BehindCaller
<1>2. Through(s, n, I)
  BY UpThrough
<1>3. \A i \in I : v[i] = UChar(NUL) /\ v[i] = NUL
  BY DEF UChar, NUL
<1>4. z = SetBytes(m, BLOCK, NUL, s)
  BY DEF ft_bzero, ft_memset, SetBytes
<1> HIDE DEF s, v
<1>5. SetBytes(m, BLOCK, NUL, s) = f
  <2> HIDE DEF I
  <2> QED
    BY <1>1, <1>2, <1>3, SetBytesIs
<1>6. I \in SUBSET Int /\ f = Filled(m, BLOCK, v, I)
  OBVIOUS
<1> HIDE DEF f
<1>7. IsFilled(f, m, BLOCK, v, I)
  BY <1>1, <1>6, FilledMem
<1>8. /\ IsMem(f) /\ DOMAIN f = DOMAIN m \cup {BLOCK + i : i \in I}
      /\ \A i \in I : f[BLOCK + i] = v[i]
      /\ \A x \in DOMAIN m : x - BLOCK \notin I => f[x] = m[x]
  BY <1>7 DEF IsFilled
<1>9. {BLOCK + i : i \in I} = BLOCK .. BLOCK + n - 1
  <2>1. \A x \in BLOCK .. BLOCK + n - 1 : x - BLOCK \in I /\ x = BLOCK + (x - BLOCK)
    BY <1>1
  <2>2. \A i \in I : BLOCK + i \in BLOCK .. BLOCK + n - 1
    BY <1>1
  <2> QED
    BY <2>1, <2>2
<1>10. \A x \in Callers : x - BLOCK \notin I
  BY BehindCaller
<1>11. z = f
  BY <1>4, <1>5
<1> QED
  BY <1>1, <1>3, <1>8, <1>9, <1>10, <1>11 DEF Zeroed

LEMMA ZeroedFits ==
  ASSUME NEW m, NEW n \in Nat \ {0}, NEW z, Zeroed(m, z, n), NEW exact
  PROVE  NewFits(m, z, n, exact, << >>)
<1>1. 0 \in 0 .. n - 1 /\ BLOCK + 0 = BLOCK /\ BLOCK \in BLOCK .. BLOCK + n - 1
  BY BehindCaller
<1>2. StringAt(z, BLOCK, 0)
  BY <1>1, BehindCaller DEF Zeroed, StringAt
<1>3. Fresh(m, z, n, 0)
  BY <1>2 DEF Fresh, Zeroed
<1>4. Text(z, BLOCK) = << >>
  <2>1. Len(Text(z, BLOCK)) = 0
    BY <1>2, TextLen
  <2>2. Text(z, BLOCK) = [k \in 1 .. 0 |-> z[BLOCK + k - 1]]
    BY <1>2, TextIs
  <2> QED
    BY <2>2
<1> QED
  BY <1>3, <1>4, FreshFits

(* A whole string is copied.                                               *)
LEMMA StrlcpyWhole ==
  ASSUME NEW m, NEW src, NEW n, StringAt(m, src, n), NEW dest \in Int, src + n < dest,
         NEW g, g = ft_strlcpy(m, dest, src, n + 1)
  PROVE  PutString(m, g, dest, src, n)
<1>1. n \in Nat /\ src \in Int
  BY DEF StringAt
<1>2. ft_strlen(m, src) = n
  BY StrlenIs
<1>3. Min({n, n}) = n
  BY <1>1, MinOfTwo
<1>4. n + 1 # 0
  BY <1>1
<1>5. g = Store(CopyBytes(m, dest, src, Upwards(n)), dest + n, NUL)
  <2> DEFINE size == n + 1
             c == Min({size - 1, ft_strlen(m, src)})
  <2>1. size # 0 /\ g = ft_strlcpy(m, dest, src, size)
    BY <1>4
  <2>2. c = n
    <3>1. size - 1 = n
      BY <1>1
    <3> HIDE DEF size
    <3>2. c = Min({n, n})
      BY <1>2, <3>1
    <3> QED
      BY <1>3, <3>2
  <2> HIDE DEF size
  <2>3. g = Store(CopyBytes(m, dest, src, Upwards(c)), dest + c, NUL)
    BY <2>1 DEF ft_strlcpy
  <2> HIDE DEF c
  <2> QED
    BY <2>2, <2>3
<1>6. Unread(dest, src, n)
  BY <1>1, ApartUnread
<1> QED
  BY <1>1, <1>5, <1>6, PutStringGives

LEMMA StrdupFits ==
  ASSUME NEW m \in Memories, NEW s \in Callers, NEW n, n = ft_strlen(m, s) + 1,
         NEW g, g = ft_strlcpy(m, BLOCK, s, n)
  PROVE  NewFits(m, g, n, TRUE, Text(m, s))
<1> DEFINE l == ft_strlen(m, s)
<1>1. StringAt(m, s, l) /\ \A k \in 0 .. l : s + k \in Callers
  BY CallersString
<1>2. n = l + 1
  OBVIOUS
<1> HIDE DEF l
<1>3. l \in Nat /\ s + l < BLOCK /\ s \in Int
  <2>1. l \in Nat /\ s \in Int
    BY <1>1 DEF StringAt
  <2>2. s + l \in Callers
    BY <1>1, <2>1
  <2> QED
    BY <2>1, <2>2, BehindCaller
<1>4. PutString(m, g, BLOCK, s, l)
  BY <1>1, <1>2, <1>3, BehindCaller, StrlcpyWhole
<1>5. StringAt(g, BLOCK, l)
  BY <1>1, <1>3, <1>4, BehindCaller, PutStringText
<1>6. /\ DOMAIN g = Callers \cup (BLOCK .. BLOCK + l)
      /\ \A x \in Callers : g[x] = m[x]
      /\ \A k \in 0 .. l - 1 : m[s + k] = g[BLOCK + k]
  BY <1>4, MemoryFacts, BehindCaller DEF PutString
<1>7. Text(m, s) = Text(g, BLOCK)
  <2>1. SameText(m, s, g, BLOCK)
    BY <1>1, <1>5, <1>6, TextSame
  <2> QED
    BY <2>1 DEF SameText
<1>8. Fresh(m, g, n, l)
  <2>1. BLOCK + n - 1 = BLOCK + l /\ n \in Nat /\ l < n
    BY <1>2, <1>3, BehindCaller
  <2> QED
    BY <1>5, <1>6, <2>1 DEF Fresh
<1> QED
  BY <1>7, <1>8, FreshFits

(* The strings at s and t, which lie before the block, are joined in it.   *)
JoinedAt(b, g, c, W) ==
  /\ DOMAIN g = DOMAIN b \cup (BLOCK .. BLOCK + c)
  /\ \A x \in DOMAIN b : x < BLOCK => g[x] = b[x]
  /\ StringAt(g, BLOCK, c)
  /\ Text(g, BLOCK) = W

LEMMA StrjoinIs ==
  ASSUME NEW b, NEW s, NEW p, StringAt(b, s, p), s + p < BLOCK,
         NEW t, NEW q, StringAt(b, t, q), t + q < BLOCK,
         NEW S, NEW W \in Seq(S), Joins(W, b, s, p, t, q),
         NEW f, f = ft_strlcpy(b, BLOCK, s, p + 1),
         NEW g, g = ft_strlcpy(f, BLOCK + p, t, q + 1)
  PROVE  JoinedAt(b, g, p + q, W)
<1>1. /\ s \in Int /\ p \in Nat /\ t \in Int /\ q \in Nat /\ BLOCK \in Int /\ BLOCK # NULL
      /\ \A k \in 0 .. q : t + k \in DOMAIN b
      /\ IsMem(b) /\ DOMAIN b \subseteq Int
  BY BehindCaller DEF StringAt, IsMem
<1>2. PutString(b, f, BLOCK, s, p)
  BY <1>1, StrlcpyWhole
<1>3. StringAt(f, BLOCK, p)
  BY <1>1, <1>2, PutStringText
<1>4. /\ IsMem(f) /\ DOMAIN f = DOMAIN b \cup (BLOCK .. BLOCK + p)
      /\ \A x \in DOMAIN b : x < BLOCK \/ BLOCK + p < x => f[x] = b[x]
      /\ \A k \in 0 .. p - 1 : f[BLOCK + k] = b[s + k]
  BY <1>2 DEF PutString
<1>5. \A k \in 0 .. q : t + k \in DOMAIN f /\ f[t + k] = b[t + k]
  <2> TAKE k \in 0 .. q
  <2>1. t + k < BLOCK
    <3>1. t \in Int /\ q \in Nat /\ BLOCK \in Int
      BY <1>1
    <3>2. t + k <= t + q /\ t + k \in Int /\ t + q \in Int
      BY <3>1
    <3> QED
      BY <3>1, <3>2
  <2>2. t + k \in DOMAIN b
    BY <1>1
  <2> QED
    BY <1>4, <2>1, <2>2
<1>6. StringAt(f, t, q)
  BY <1>4, <1>5, StringSame
<1> DEFINE e == BLOCK + p
<1>7. e \in Int /\ t + q < e /\ e = BLOCK + p
  BY <1>1
<1>8. g = ft_strlcpy(f, e, t, q + 1)
  OBVIOUS
<1> HIDE DEF e
<1>9. PutString(f, g, e, t, q)
  BY <1>6, <1>7, <1>8, StrlcpyWhole
<1>10. Appended(f, g, BLOCK, p, t, q)
  <2>1. q <= q
    BY <1>1
  <2> QED
    BY <1>1, <1>3, <1>6, <1>7, <1>9, <2>1, AppendedString
<1> DEFINE c == p + q
<1>11. /\ StringAt(g, BLOCK, c)
       /\ \A k \in 0 .. p - 1 : g[BLOCK + k] = f[BLOCK + k]
       /\ \A k \in 0 .. q - 1 : g[BLOCK + (p + k)] = f[t + k]
  BY <1>10 DEF Appended
<1>12. /\ Len(W) = c
       /\ \A k \in 0 .. p - 1 : W[1 + k] = b[s + k]
       /\ \A k \in 0 .. q - 1 : W[1 + (p + k)] = b[t + k]
  BY DEF Joins
<1>13. ASSUME NEW k \in 0 .. c - 1
       PROVE  g[BLOCK + k] = W[1 + k]
  <2>1. CASE k < p
    <3>1. k \in 0 .. p - 1
      BY <1>1, <2>1
    <3> QED
      BY <1>4, <1>11, <1>12, <3>1
  <2>2. CASE ~(k < p)
    <3>1. k - p \in 0 .. q - 1 /\ k - p \in 0 .. q /\ p + (k - p) = k
      BY <1>1, <2>2
    <3>2. g[BLOCK + k] = f[t + (k - p)] /\ W[1 + k] = b[t + (k - p)]
      BY <1>11, <1>12, <3>1
    <3> QED
      BY <1>5, <3>1, <3>2
  <2> QED
    BY <2>1, <2>2
<1>14. /\ DOMAIN g = DOMAIN f \cup (e .. e + q)
       /\ \A x \in DOMAIN f : x < e => g[x] = f[x]
  BY <1>9 DEF PutString
<1>15. DOMAIN g = DOMAIN b \cup (BLOCK .. BLOCK + c)
  <2>1. (BLOCK .. BLOCK + p) \cup (e .. e + q) = BLOCK .. BLOCK + c
    BY <1>1, <1>7
  <2> QED
    BY <1>4, <1>14, <2>1
<1>16. ASSUME NEW x \in DOMAIN b, x < BLOCK
       PROVE  g[x] = b[x]
  <2>1. x < e /\ x \in DOMAIN f
    BY <1>1, <1>4, <1>7, <1>16
  <2> QED
    BY <1>4, <1>14, <1>16, <2>1
<1> HIDE DEF c
<1>17. Text(g, BLOCK) = W
  <2>1. StringAt(g, BLOCK, c)
    BY <1>11
  <2> QED
    BY <1>12, <1>13, <2>1, TextIsSeq
<1> QED
  BY <1>11, <1>15, <1>16, <1>17 DEF c, JoinedAt

(* A string of the caller's ends before the block.                         *)
LEMMA CallersEnd ==
  ASSUME NEW m \in Memories, NEW s \in Callers, NEW n, n = ft_strlen(m, s)
  PROVE  StringAt(m, s, n) /\ n \in Nat /\ s \in Int /\ s + n < BLOCK
<1>1. StringAt(m, s, n) /\ \A k \in 0 .. n : s + k \in Callers
  BY CallersString
<1>2. n \in Nat /\ s \in Int
  BY <1>1 DEF StringAt
<1>3. s + n \in Callers
  BY <1>1, <1>2
<1> QED
  BY <1>1, <1>2, <1>3, BehindCaller

LEMMA JoinedFresh ==
  ASSUME NEW m \in Memories, NEW g, NEW c \in Nat, NEW W, JoinedAt(m, g, c, W), NEW exact
  PROVE  NewFits(m, g, c + 1, exact, W)
<1>1. BLOCK + (c + 1) - 1 = BLOCK + c /\ c + 1 \in Nat /\ c < c + 1
  BY BehindCaller
<1>2. DOMAIN m = Callers
  BY MemoryFacts
<1>3. Fresh(m, g, c + 1, c)
  <2>1. \A x \in Callers : g[x] = m[x]
    BY <1>2, BehindCaller DEF JoinedAt
  <2>2. DOMAIN g = Callers \cup (BLOCK .. BLOCK + (c + 1) - 1)
    BY <1>1, <1>2 DEF JoinedAt
  <2> QED
    BY <1>1, <2>1, <2>2 DEF Fresh, JoinedAt
<1>4. Text(g, BLOCK) = W
  BY DEF JoinedAt
<1> QED
  BY <1>3, <1>4, FreshFits

(* What ft_strjoin stores, had it the memory.                              *)
Join(m, s1, s2) ==
  ft_strlcpy(ft_strlcpy(m, BLOCK, s1, ft_strlen(m, s1) + 1), BLOCK + ft_strlen(m, s1), s2,
             ft_strlen(m, s2) + 1)

LEMMA StrjoinFits ==
  ASSUME NEW m \in Memories, NEW s \in Callers, NEW t \in Callers,
         NEW n, n = ft_strlen(m, s) + ft_strlen(m, t) + 1, NEW g, g = Join(m, s, t),
         NEW exact
  PROVE  NewFits(m, g, n, exact, Text(m, s) \o Text(m, t))
<1> DEFINE p == ft_strlen(m, s)
           q == ft_strlen(m, t)
           W == Text(m, s) \o Text(m, t)
           f == ft_strlcpy(m, BLOCK, s, p + 1)
           S == Bytes \ {NUL}
<1>1. g = ft_strlcpy(f, BLOCK + p, t, q + 1) /\ f = ft_strlcpy(m, BLOCK, s, p + 1)
  BY DEF Join
<1>2. /\ StringAt(m, s, p) /\ p \in Nat /\ s \in Int /\ s + p < BLOCK
      /\ StringAt(m, t, q) /\ q \in Nat /\ t \in Int /\ t + q < BLOCK
  BY CallersEnd
<1>3. Text(m, s) \in Seq(S) /\ Text(m, t) \in Seq(S)
  BY CallersText
<1>4. n = p + q + 1
  OBVIOUS
<1> HIDE DEF p, q, f, S
<1>5. W \in Seq(S) /\ Joins(W, m, s, p, t, q)
  BY <1>2, <1>3, JoinedText
<1> HIDE DEF W
<1>6. JoinedAt(m, g, p + q, W)
  BY <1>1, <1>2, <1>5, StrjoinIs
<1> DEFINE c == p + q
<1>7. c \in Nat /\ n = c + 1 /\ JoinedAt(m, g, c, W)
  BY <1>2, <1>4, <1>6
<1> HIDE DEF c
<1>8. NewFits(m, g, n, exact, W)
  BY <1>7, JoinedFresh
<1> QED
  BY <1>8 DEF W

(* charjoin: the memory with the character and a NUL on the stack.         *)
WithChar(m, c) == Store(Store(m, STACK, c), STACK + 1, NUL)

(* The memory without the stack again.                                     *)
Returned(g) == [a \in DOMAIN g \ {STACK, STACK + 1} |-> g[a]]

HasChar(b, m, c) ==
  /\ IsMem(b) /\ DOMAIN b = Callers \cup {STACK, STACK + 1}
  /\ \A a \in Callers : b[a] = m[a]
  /\ b[STACK] = c /\ b[STACK + 1] = NUL

LEMMA OnStack ==
  ASSUME NEW m \in Memories, NEW c \in Bytes, NEW b, b = WithChar(m, c)
  PROVE  HasChar(b, m, c)
<1> DEFINE f == Store(m, STACK, c)
<1>1. IsMem(m) /\ DOMAIN m = Callers
  BY MemoryFacts
<1>2. STACK \in Int /\ STACK + 1 \in Int /\ STACK # STACK + 1
      /\ STACK \notin Callers /\ STACK + 1 \notin Callers
  BY Layout
<1>3. b = Store(f, STACK + 1, NUL) /\ f = Store(m, STACK, c)
  BY DEF WithChar
<1> HIDE DEF f
<1>4. IsStored(f, m, STACK, c)
  BY <1>1, <1>2, <1>3, StoreMem
<1>5. IsMem(f)
  BY <1>4 DEF IsStored
<1>6. IsStored(b, f, STACK + 1, NUL)
  BY <1>2, <1>3, <1>5, StoreMem
<1> QED
  BY <1>1, <1>2, <1>4, <1>6 DEF IsStored, HasChar

(* The string that is on the stack.                                        *)
CharText(c) == IF c = NUL THEN << >> ELSE <<c>>

LEMMA CharString ==
  ASSUME NEW m \in Memories, NEW c \in Bytes, NEW b, b = WithChar(m, c),
         NEW q, q = Len(CharText(c))
  PROVE  /\ StringAt(b, STACK, q) /\ q \in 0 .. 1
         /\ CharText(c) \in Seq(Bytes \ {NUL}) /\ Text(b, STACK) = CharText(c)
<1>1. /\ IsMem(b) /\ DOMAIN b = Callers \cup {STACK, STACK + 1}
      /\ b[STACK] = c /\ b[STACK + 1] = NUL
  <2>1. HasChar(b, m, c)
    BY OnStack
  <2> QED
    BY <2>1 DEF HasChar
<1>2. STACK \in Int /\ STACK # NULL /\ STACK + 0 = STACK
  BY Layout
<1> DEFINE N == CharText(c)
<1>3. CASE c = NUL
  <2>1. q = 0 /\ N = << >>
    BY <1>3 DEF CharText
  <2>2. StringAt(b, STACK, 0)
    BY <1>1, <1>2, <1>3 DEF StringAt
  <2>3. Text(b, STACK) = [k \in 1 .. 0 |-> b[STACK + k - 1]]
    BY <2>2, TextIs
  <2>4. Text(b, STACK) = << >>
    BY <2>3
  <2> QED
    BY <2>1, <2>2, <2>4
<1>4. CASE c # NUL
  <2>1. N = <<c>>
    BY <1>4 DEF CharText
  <2>2. N \in Seq(Bytes \ {NUL}) /\ Len(N) = 1 /\ N[1] = c
    BY <1>4, <2>1
  <2>3. q = 1
    BY <2>2
  <2> HIDE DEF N
  <2>4. \A k \in 0 .. q : STACK + k \in DOMAIN b
    BY <1>1, <1>2, <2>3
  <2>5. (\A k \in 0 .. q - 1 : k = 0) /\ 1 + 0 = 1 /\ q \in Nat
    BY <2>3
  <2>6. StringAt(b, STACK, q)
    <3>1. b[STACK + q] = NUL /\ \A k \in 0 .. q - 1 : b[STACK + k] # NUL
      BY <1>1, <1>2, <1>4, <2>3, <2>5
    <3> QED
      BY <1>1, <1>2, <2>4, <2>5, <3>1 DEF StringAt
  <2>7. \A k \in 0 .. q - 1 : b[STACK + k] = N[1 + k]
    BY <1>1, <1>2, <2>2, <2>5
  <2>8. Len(N) = q
    BY <2>2, <2>3
  <2>9. Text(b, STACK) = N
    BY <2>2, <2>6, <2>7, <2>8, TextIsSeq
  <2> QED
    BY <2>2, <2>3, <2>6, <2>9 DEF N
<1> QED
  BY <1>3, <1>4

LEMMA CharjoinFits ==
  ASSUME NEW m \in Memories, NEW s \in Callers, NEW c \in Bytes,
         NEW b, b = WithChar(m, c),
         NEW n, n = ft_strlen(b, s) + ft_strlen(b, STACK) + 1,
         NEW g, g = Join(b, s, STACK)
  PROVE  NewFits(m, Returned(g), n, TRUE, Text(m, s) \o CharText(c))
<1> DEFINE p == ft_strlen(m, s)
           q == Len(CharText(c))
           S == Bytes \ {NUL}
           W == Text(m, s) \o CharText(c)
           h == Returned(g)
<1>1. /\ IsMem(b) /\ DOMAIN b = Callers \cup {STACK, STACK + 1}
      /\ \A a \in Callers : b[a] = m[a]
  <2>1. HasChar(b, m, c)
    BY OnStack
  <2> QED
    BY <2>1 DEF HasChar
<1>2. /\ StringAt(b, STACK, q) /\ q \in 0 .. 1
      /\ CharText(c) \in Seq(S) /\ Text(b, STACK) = CharText(c)
  BY CharString
<1>3. StringAt(m, s, p) /\ p \in Nat /\ s \in Int /\ s + p < BLOCK
      /\ \A k \in 0 .. p : s + k \in Callers
  BY CallersEnd, CallersString
<1>4. Text(m, s) \in Seq(S)
  BY CallersText
<1> HIDE DEF p, q, S, h
<1>5. \A k \in 0 .. p : s + k \in DOMAIN b /\ b[s + k] = m[s + k]
  BY <1>1, <1>3
<1>6. StringAt(b, s, p)
  BY <1>1, <1>3, <1>5, StringSame
<1>7. Text(b, s) = Text(m, s)
  <2>1. \A k \in 0 .. p - 1 : b[s + k] = m[s + k]
    BY <1>3, <1>5
  <2>2. SameText(b, s, m, s)
    BY <1>3, <1>6, <2>1, TextSame
  <2> QED
    BY <2>2 DEF SameText
<1>8. ft_strlen(b, s) = p /\ ft_strlen(b, STACK) = q
  BY <1>2, <1>6, StrlenIs
<1>9. W \in Seq(S) /\ Joins(W, b, s, p, STACK, q)
  <2>1. Text(b, s) \in Seq(S) /\ Text(b, STACK) \in Seq(S)
    BY <1>2, <1>4, <1>7
  <2>2. /\ Text(b, s) \o Text(b, STACK) \in Seq(S)
        /\ Joins(Text(b, s) \o Text(b, STACK), b, s, p, STACK, q)
    BY <1>2, <1>6, <2>1, JoinedText
  <2> QED
    BY <1>2, <1>7, <2>2
<1>10. /\ STACK \in Int /\ STACK + q < BLOCK /\ STACK < BLOCK /\ STACK + 1 < BLOCK
       /\ STACK \notin Callers /\ STACK + 1 \notin Callers /\ BLOCK \in Nat
  BY <1>2, Layout
<1> HIDE DEF W
<1>11. JoinedAt(b, g, p + q, W)
  <2> DEFINE f == ft_strlcpy(b, BLOCK, s, p + 1)
  <2>1. f = ft_strlcpy(b, BLOCK, s, p + 1) /\ g = ft_strlcpy(f, BLOCK + p, STACK, q + 1)
    BY <1>8 DEF Join
  <2> HIDE DEF f
  <2> QED
    BY <1>2, <1>3, <1>6, <1>9, <1>10, <2>1, StrjoinIs
<1> DEFINE l == p + q
<1>12. l \in Nat /\ n = l + 1 /\ l < n /\ n \in Nat /\ BLOCK + n - 1 = BLOCK + l
  BY <1>2, <1>3, <1>8, <1>10
<1>13. /\ DOMAIN g = DOMAIN b \cup (BLOCK .. BLOCK + l)
       /\ \A x \in DOMAIN b : x < BLOCK => g[x] = b[x]
       /\ StringAt(g, BLOCK, l) /\ Text(g, BLOCK) = W
  BY <1>11 DEF JoinedAt
<1> HIDE DEF l
<1>14. STACK \notin BLOCK .. BLOCK + l /\ STACK + 1 \notin BLOCK .. BLOCK + l
  BY <1>10
<1>15. /\ DOMAIN h = DOMAIN g \ {STACK, STACK + 1}
       /\ \A x \in DOMAIN h : h[x] = g[x]
       /\ h = [x \in DOMAIN h |-> h[x]]
  BY DEF h, Returned
<1>16. DOMAIN h = Callers \cup (BLOCK .. BLOCK + l)
  BY <1>1, <1>10, <1>13, <1>14, <1>15
<1>17. IsMem(h)
  BY <1>10, <1>15, <1>16, BehindCaller DEF IsMem
<1>18. \A k \in 0 .. l : BLOCK + k \in DOMAIN h /\ h[BLOCK + k] = g[BLOCK + k]
  <2> TAKE k \in 0 .. l
  <2>1. BLOCK + k \in BLOCK .. BLOCK + l
    BY <1>10, <1>12
  <2> QED
    BY <1>15, <1>16, <2>1
<1>19. StringAt(h, BLOCK, l)
  BY <1>13, <1>17, <1>18, StringSame
<1>20. Text(h, BLOCK) = W
  <2>1. \A k \in 0 .. l - 1 : h[BLOCK + k] = g[BLOCK + k]
    BY <1>12, <1>18
  <2>2. SameText(h, BLOCK, g, BLOCK)
    BY <1>13, <1>19, <2>1, TextSame
  <2> QED
    BY <1>13, <2>2 DEF SameText
<1>21. \A a \in Callers : h[a] = m[a]
  <2> TAKE a \in Callers
  <2>1. a \in DOMAIN h /\ a \in DOMAIN b /\ a < BLOCK
    BY <1>1, <1>16, BehindCaller
  <2> QED
    BY <1>1, <1>13, <1>15, <2>1
<1>22. Fresh(m, h, n, l)
  BY <1>12, <1>16, <1>19, <1>21 DEF Fresh
<1>23. NewFits(m, h, n, TRUE, W)
  BY <1>20, <1>22, FreshFits
<1> QED
  BY <1>23 DEF h, W

(* Behind dest, n bytes of b were stored.                                  *)
StoredRange(b, g, dest, v, n) ==
  /\ IsMem(g) /\ DOMAIN g = DOMAIN b \cup (dest .. dest + n - 1)
  /\ \A i \in 0 .. n - 1 : g[dest + i] = v[i]
  /\ \A x \in DOMAIN b : x < dest \/ dest + n - 1 < x => g[x] = b[x]

LEMMA FilledRange ==
  ASSUME NEW b, IsMem(b), NEW dest \in Int, NEW v, NEW n \in Nat,
         NEW I, I = 0 .. n - 1, NEW g, g = Filled(b, dest, v, I)
  PROVE  StoredRange(b, g, dest, v, n)
<1>1. I \in SUBSET Int
  OBVIOUS
<1>2. IsFilled(g, b, dest, v, I)
  BY <1>1, FilledMem
<1>3. /\ IsMem(g) /\ DOMAIN g = DOMAIN b \cup {dest + i : i \in I}
      /\ \A i \in I : g[dest + i] = v[i]
      /\ \A x \in DOMAIN b : x - dest \notin I => g[x] = b[x]
  BY <1>2 DEF IsFilled
<1>4. {dest + i : i \in I} = dest .. dest + n - 1
  <2>1. \A x \in dest .. dest + n - 1 : x - dest \in I /\ x = dest + (x - dest)
    OBVIOUS
  <2>2. \A i \in I : dest + i \in dest .. dest + n - 1
    OBVIOUS
  <2> QED
    BY <2>1, <2>2
<1>5. ASSUME NEW x \in DOMAIN b, x < dest \/ dest + n - 1 < x
      PROVE  g[x] = b[x]
  <2>1. x \in Int
    BY DEF IsMem
  <2>2. x - dest \notin I
    BY <1>5, <2>1
  <2> QED
    BY <1>3, <2>2
<1> QED
  BY <1>3, <1>4, <1>5 DEF StoredRange

(* What the caller's function makes of the bytes at a.                     *)
Changed(m, a, n) == [i \in 0 .. n - 1 |-> change(i, m[a + i])]

LEMMA MapIs ==
  ASSUME NEW b, IsMem(b), NEW dest \in Int, NEW m, NEW a, NEW n \in Nat,
         NEW g, g = MapBytes(b, dest, m, a, Upwards(n))
  PROVE  StoredRange(b, g, dest, Changed(m, a, n), n)
<1> DEFINE I == 0 .. n - 1
           s == Upwards(n)
           v == Changed(m, a, n)
<1>1. Through(s, n, I)
  BY UpThrough
<1>2. \A i \in I : v[i] = change(i, m[a + i])
  BY DEF Changed
<1>3. g = MapBytes(b, dest, m, a, s) /\ I = 0 .. n - 1
  OBVIOUS
<1> HIDE DEF I, s, v
<1>4. MapBytes(b, dest, m, a, s) = Filled(b, dest, v, I)
  BY <1>1, <1>2, MapBytesIs
<1>5. g = Filled(b, dest, v, I)
  BY <1>3, <1>4
<1>6. StoredRange(b, g, dest, v, n)
  BY <1>3, <1>5, FilledRange
<1> QED
  BY <1>6 DEF v

LEMMA ChangedText ==
  ASSUME NEW m, NEW a, NEW n, StringAt(m, a, n), NEW i \in 0 .. n - 1
  PROVE  Changed(m, a, n)[i] # NUL
<1>1. m[a + i] # NUL
  BY DEF StringAt
<1>2. change(i, m[a + i]) # NUL
  BY <1>1 DEF change, NUL
<1> QED
  BY <1>2 DEF Changed

(* The memory after ft_striteri has the changed string in its place.       *)
LEMMA StriteriIs ==
  ASSUME NEW m \in Memories, NEW s \in Callers, NEW n, n = ft_strlen(m, s),
         NEW g, g = ft_striteri(m, s)
  PROVE  StringAt(g, s, n) /\ \A i \in 0 .. n - 1 : g[s + i] = Changed(m, s, n)[i]
<1> DEFINE v == Changed(m, s, n)
<1>1. StringAt(m, s, n) /\ n \in Nat /\ s \in Int
  BY CallersEnd
<1>2. /\ IsMem(m) /\ s # NULL /\ m[s + n] = NUL
      /\ \A k \in 0 .. n : s + k \in DOMAIN m
  BY <1>1 DEF StringAt
<1>3. g = MapBytes(m, s, m, s, Upwards(n))
  BY DEF ft_striteri, MapBytes
<1>4. StoredRange(m, g, s, v, n)
  BY <1>1, <1>2, <1>3, MapIs
<1>5. \A i \in 0 .. n - 1 : v[i] # NUL
  BY <1>1, ChangedText
<1> HIDE DEF v
<1>6. /\ IsMem(g) /\ DOMAIN g = DOMAIN m \cup (s .. s + n - 1)
      /\ \A i \in 0 .. n - 1 : g[s + i] = v[i]
      /\ \A x \in DOMAIN m : x < s \/ s + n - 1 < x => g[x] = m[x]
  BY <1>4 DEF StoredRange
<1>7. g[s + n] = NUL
  <2>1. n \in 0 .. n /\ s + n - 1 < s + n
    BY <1>1
  <2>2. s + n \in DOMAIN m
    BY <1>2, <2>1
  <2> QED
    BY <1>2, <1>6, <2>1, <2>2
<1>8. \A k \in 0 .. n : s + k \in DOMAIN g
  BY <1>2, <1>6
<1>9. \A k \in 0 .. n - 1 : g[s + k] # NUL
  BY <1>5, <1>6
<1>10. StringAt(g, s, n)
  BY <1>1, <1>2, <1>6, <1>7, <1>8, <1>9 DEF StringAt
<1> QED
  BY <1>6, <1>10 DEF v

LEMMA StrmapiFits ==
  ASSUME NEW m \in Memories, NEW s \in Callers, NEW l, l = ft_strlen(m, s),
         NEW n, n = l + 1, NEW z, z = ft_bzero(m, BLOCK, n),
         NEW g, g = MapBytes(z, BLOCK, m, s, Upwards(l))
  PROVE  NewFits(m, g, n, TRUE, Text(ft_striteri(m, s), s))
<1> DEFINE v == Changed(m, s, l)
           h == ft_striteri(m, s)
<1>1. StringAt(m, s, l) /\ l \in Nat /\ s \in Int
  BY CallersEnd
<1>2. BLOCK \in Int /\ BLOCK # NULL /\ Callers \subseteq Int /\ \A a \in Callers : a < BLOCK
  BY BehindCaller
<1>3. n \in Nat /\ l < n /\ BLOCK + n - 1 = BLOCK + l /\ l \in 0 .. n - 1
  BY <1>1, <1>2
<1>4. /\ IsMem(z) /\ DOMAIN z = Callers \cup (BLOCK .. BLOCK + n - 1)
      /\ \A a \in Callers : z[a] = m[a]
      /\ \A i \in 0 .. n - 1 : z[BLOCK + i] = NUL
  <2>1. Zeroed(m, z, n)
    BY <1>3, ZeroedIs
  <2> QED
    BY <2>1 DEF Zeroed
<1>5. StoredRange(z, g, BLOCK, v, l)
  BY <1>1, <1>2, <1>4, MapIs
<1>6. \A i \in 0 .. l - 1 : v[i] # NUL
  BY <1>1, ChangedText
<1>7. StringAt(h, s, l) /\ \A i \in 0 .. l - 1 : h[s + i] = v[i]
  BY StriteriIs
<1> HIDE DEF v, h
<1>8. /\ IsMem(g) /\ DOMAIN g = DOMAIN z \cup (BLOCK .. BLOCK + l - 1)
      /\ \A i \in 0 .. l - 1 : g[BLOCK + i] = v[i]
      /\ \A x \in DOMAIN z : x < BLOCK \/ BLOCK + l - 1 < x => g[x] = z[x]
  BY <1>5 DEF StoredRange
<1>9. DOMAIN g = Callers \cup (BLOCK .. BLOCK + n - 1)
  <2>1. BLOCK .. BLOCK + l - 1 \subseteq BLOCK .. BLOCK + n - 1
    BY <1>1, <1>2, <1>3
  <2> QED
    BY <1>4, <1>8, <2>1
<1>10. \A a \in Callers : g[a] = m[a]
  BY <1>2, <1>4, <1>8
<1>11. g[BLOCK + l] = NUL
  <2>1. BLOCK + l \in DOMAIN z /\ BLOCK + l - 1 < BLOCK + l
    BY <1>1, <1>2, <1>3, <1>4
  <2> QED
    BY <1>3, <1>4, <1>8, <2>1
<1>12. \A k \in 0 .. l : BLOCK + k \in DOMAIN g
  <2>1. \A k \in 0 .. l : BLOCK + k \in BLOCK .. BLOCK + n - 1
    BY <1>1, <1>2, <1>3
  <2> QED
    BY <1>9, <2>1
<1>13. \A k \in 0 .. l - 1 : g[BLOCK + k] # NUL /\ h[s + k] = g[BLOCK + k]
  BY <1>6, <1>7, <1>8
<1>14. StringAt(g, BLOCK, l)
  BY <1>1, <1>2, <1>8, <1>11, <1>12, <1>13 DEF StringAt
<1>15. SameText(h, s, g, BLOCK)
  BY <1>7, <1>13, <1>14, TextSame
<1>16. Fresh(m, g, n, l)
  BY <1>3, <1>9, <1>10, <1>14 DEF Fresh
<1> QED
  BY <1>15, <1>16, FreshFits DEF SameText, h

(* What ft_substr stores, had it the memory: size bytes of the string at   *)
(* from, in zeros.                                                         *)
Part(m, from, size) ==
  CopyBytes(ft_bzero(m, BLOCK, size + 1), BLOCK, from, Upwards(size))

LEMMA PartIs ==
  ASSUME NEW m \in Memories, NEW from \in Callers, NEW size \in Nat,
         NEW l, l = ft_strlen(m, from), size <= l,
         NEW n, n = size + 1, NEW g, g = Part(m, from, size)
  PROVE  Fresh(m, g, n, size) /\ \A k \in 0 .. size - 1 : g[BLOCK + k] = m[from + k]
<1> DEFINE z == ft_bzero(m, BLOCK, n)
           I == 0 .. size - 1
           v == [i \in I |-> m[from + i]]
           s == Upwards(size)
<1>1. StringAt(m, from, l) /\ l \in Nat /\ from \in Int /\ from + l < BLOCK
      /\ \A k \in 0 .. l : from + k \in Callers
  BY CallersEnd, CallersString
<1>2. BLOCK \in Int /\ BLOCK # NULL /\ Callers \subseteq Int /\ \A a \in Callers : a < BLOCK
  BY BehindCaller
<1>3. n \in Nat /\ size < n /\ BLOCK + n - 1 = BLOCK + size /\ size \in 0 .. n - 1
  BY <1>2
<1>4. /\ IsMem(z) /\ DOMAIN z = Callers \cup (BLOCK .. BLOCK + n - 1)
      /\ \A a \in Callers : z[a] = m[a]
      /\ \A i \in 0 .. n - 1 : z[BLOCK + i] = NUL
  <2>1. Zeroed(m, z, n)
    BY <1>3, ZeroedIs
  <2> QED
    BY <2>1 DEF Zeroed
<1>5. Through(s, size, I) /\ \A k \in 1 .. size : s[k] \in I
  <2>1. Through(s, size, I) /\ \A k \in 1 .. size : s[k] = k - 1
    BY UpThrough
  <2> HIDE DEF s
  <2> QED
    BY <2>1
<1>6. \A i \in I : v[i] = m[from + i] /\ i \in 0 .. l /\ BLOCK + i \in Int
  BY <1>1, <1>2
<1>7. g = CopyBytes(z, BLOCK, from, s) /\ I = 0 .. size - 1
  BY DEF Part
<1> HIDE DEF v, s, z
<1>8. \A i \in I : from + i \in DOMAIN z /\ v[i] = z[from + i]
  BY <1>1, <1>4, <1>6
<1>9. \A j, k \in 1 .. size : j < k => BLOCK + s[j] # from + s[k]
  <2> TAKE j, k \in 1 .. size
  <2>1. s[j] \in Nat /\ s[k] \in 0 .. l
    BY <1>5, <1>6
  <2> QED
    BY <1>1, <1>2, <2>1
<1> HIDE DEF I
<1>10. CopyBytes(z, BLOCK, from, s) = Filled(z, BLOCK, v, I)
  BY <1>1, <1>2, <1>4, <1>5, <1>8, <1>9, CopyBytesIs
<1>11. g = Filled(z, BLOCK, v, I)
  BY <1>7, <1>10
<1>12. StoredRange(z, g, BLOCK, v, size)
  BY <1>2, <1>4, <1>7, <1>11, FilledRange
<1>13. /\ IsMem(g) /\ DOMAIN g = DOMAIN z \cup (BLOCK .. BLOCK + size - 1)
       /\ \A i \in 0 .. size - 1 : g[BLOCK + i] = v[i]
       /\ \A x \in DOMAIN z : x < BLOCK \/ BLOCK + size - 1 < x => g[x] = z[x]
  BY <1>12 DEF StoredRange
<1>14. \A k \in 0 .. size - 1 : g[BLOCK + k] = m[from + k]
  BY <1>6, <1>7, <1>13
<1>15. DOMAIN g = Callers \cup (BLOCK .. BLOCK + n - 1)
  <2>1. BLOCK .. BLOCK + size - 1 \subseteq BLOCK .. BLOCK + n - 1
    BY <1>2, <1>3
  <2> QED
    BY <1>4, <1>13, <2>1
<1>16. \A a \in Callers : g[a] = m[a]
  BY <1>2, <1>4, <1>13
<1>17. g[BLOCK + size] = NUL
  <2>1. BLOCK + size \in DOMAIN z /\ BLOCK + size - 1 < BLOCK + size
    BY <1>2, <1>3, <1>4
  <2> QED
    BY <1>3, <1>4, <1>13, <2>1
<1>18. \A k \in 0 .. size : BLOCK + k \in DOMAIN g
  <2>1. \A k \in 0 .. size : BLOCK + k \in BLOCK .. BLOCK + n - 1
    BY <1>2, <1>3
  <2> QED
    BY <1>15, <2>1
<1>19. \A k \in 0 .. size - 1 : g[BLOCK + k] # NUL
  <2> TAKE k \in 0 .. size - 1
  <2>1. k \in 0 .. l - 1
    BY <1>1
  <2>2. m[from + k] # NUL
    BY <1>1, <2>1 DEF StringAt
  <2> QED
    BY <1>14, <2>2
<1>20. StringAt(g, BLOCK, size)
  BY <1>2, <1>13, <1>17, <1>18, <1>19 DEF StringAt
<1>21. Fresh(m, g, n, size)
  BY <1>3, <1>15, <1>16, <1>20 DEF Fresh
<1> QED
  BY <1>14, <1>21

(* What follows a character of a string is a string.                       *)
LEMMA StringTail ==
  ASSUME NEW m \in Memories, NEW s \in Callers, NEW l, l = ft_strlen(m, s),
         NEW d \in 0 .. l, NEW from, from = s + d
  PROVE  from \in Callers /\ ft_strlen(m, from) = l - d /\ l - d \in Nat
<1>1. StringAt(m, s, l) /\ l \in Nat /\ s \in Int /\ \A k \in 0 .. l : s + k \in Callers
  BY CallersEnd, CallersString
<1>2. from \in Callers /\ from # NULL
  BY <1>1, Layout
<1>3. IsMem(m) /\ DOMAIN m = Callers
  BY MemoryFacts
<1> DEFINE n == l - d
<1>4. n \in Nat /\ from \in Int /\ from + n = s + l
  BY <1>1
<1>5. \A k \in 0 .. n : d + k \in 0 .. l /\ s + (d + k) = from + k
  BY <1>1
<1>6. \A k \in 0 .. n - 1 : d + k \in 0 .. l - 1 /\ s + (d + k) = from + k
  BY <1>1
<1> HIDE DEF n
<1>7. \A k \in 0 .. n : from + k \in DOMAIN m
  BY <1>1, <1>3, <1>5
<1>8. m[from + n] = NUL /\ \A k \in 0 .. l - 1 : m[s + k] # NUL
  BY <1>1, <1>4 DEF StringAt
<1>9. \A k \in 0 .. n - 1 : m[from + k] # NUL
  BY <1>6, <1>8
<1>10. StringAt(m, from, n)
  BY <1>2, <1>3, <1>4, <1>7, <1>8, <1>9 DEF StringAt
<1>11. ft_strlen(m, from) = n
  BY <1>10, StrlenIs
<1> QED
  BY <1>2, <1>4, <1>11 DEF n

(* That is a part of the text of a string.                                 *)
LEMMA PartText ==
  ASSUME NEW m \in Memories, NEW s \in Callers, NEW start \in Nat, NEW size \in Nat,
         NEW e, e = start + size, e <= ft_strlen(m, s),
         NEW from, from = s + start, NEW n, n = size + 1, NEW g, g = Part(m, from, size),
         NEW exact
  PROVE  NewFits(m, g, n, exact, SubSeq(Text(m, s), start + 1, e))
<1> DEFINE l == ft_strlen(m, s)
           T == Text(m, s)
<1>1. StringAt(m, s, l) /\ l \in Nat /\ s \in Int /\ \A k \in 0 .. l : s + k \in Callers
  BY CallersEnd, CallersString
<1>2. T \in Seq(Bytes \ {NUL}) /\ Len(T) = l /\ \A k \in 1 .. l : T[k] = m[s + k - 1]
  BY CallersText
<1>3. from \in Callers
  <2>1. start \in 0 .. l
    BY <1>1
  <2> QED
    BY <1>1, <2>1
<1> HIDE DEF T
<1>4. ft_strlen(m, from) = l - start
  <2>1. start \in 0 .. l
    BY <1>1
  <2> QED
    BY <2>1, StringTail
<1> DEFINE r == ft_strlen(m, from)
<1>5. r = ft_strlen(m, from) /\ size <= r /\ size \in Nat
  BY <1>1, <1>4
<1> HIDE DEF r
<1>6. Fresh(m, g, n, size) /\ \A k \in 0 .. size - 1 : g[BLOCK + k] = m[from + k]
  BY <1>3, <1>5, PartIs
<1>7. StringAt(g, BLOCK, size)
  BY <1>6 DEF Fresh
<1> DEFINE p == start + 1
<1>8. p \in Nat \ {0} /\ e \in Int /\ e <= Len(T) /\ size = IF p <= e THEN e - p + 1 ELSE 0
  BY <1>1, <1>2
<1>9. \A k \in 0 .. size - 1 : g[BLOCK + k] = T[p + k]
  <2> TAKE k \in 0 .. size - 1
  <2>1. p + k \in 1 .. l /\ s + (p + k) - 1 = from + k
    BY <1>1
  <2> QED
    BY <1>2, <1>6, <2>1
<1> HIDE DEF p
<1>10. PartAt(g, BLOCK, size, T, p, e)
  BY <1>7, <1>8, <1>9 DEF PartAt
<1>11. Text(g, BLOCK) = SubSeq(T, p, e)
  BY <1>2, <1>10, TextSub
<1>12. NewFits(m, g, n, exact, SubSeq(T, p, e))
  BY <1>6, <1>11, FreshFits
<1> QED
  BY <1>12 DEF T, p

(* An outcome of a function that allocates is right.                       *)
Right(m, o, exact, W) ==
  o.ptr = BLOCK /\ o.room > 0 => NewFits(m, o.mem, o.room, exact, W)

LEMMA AllocatedRight ==
  ASSUME NEW m, NEW g, NEW n, NEW exact, NEW W, NewFits(m, g, n, exact, W),
         NEW o \in Allocated(m, n, g)
  PROVE  Right(m, o, exact, W)
<1>1. CASE o = Outcome(m, NULL, 0)
  <2>1. o.ptr = NULL
    BY <1>1 DEF Outcome
  <2> QED
    BY <2>1, BehindCaller DEF Right
<1>2. CASE o = Outcome(g, BLOCK, n)
  <2>1. o.mem = g /\ o.room = n
    BY <1>2 DEF Outcome
  <2> QED
    BY <2>1 DEF Right
<1> QED
  BY <1>1, <1>2 DEF Allocated

LEMMA SubstrNothing ==
  ASSUME NEW m \in Memories, NEW s \in Callers, NEW start \in Nat, NEW len \in Nat,
         ft_strlen(m, s) <= start
  PROVE  ft_substr(m, s, start, len) = Allocated(m, 1, ft_bzero(m, BLOCK, 1))
<1> DEFINE l == ft_strlen(m, s)
<1>1. l \in Nat
  BY CallersEnd
<1>2. start >= l
  BY <1>1
<1>3. Min({len, 0}) = 0
  <2>1. len \in Int /\ 0 \in Int /\ 0 <= len
    OBVIOUS
  <2> QED
    BY <2>1, MinOfTwo
<1>4. 0 + 1 = 1
  OBVIOUS
<1> QED
  BY <1>2, <1>3, <1>4 DEF ft_substr

LEMMA SubstrPart ==
  ASSUME NEW m \in Memories, NEW s \in Callers, NEW start \in Nat, NEW len \in Nat,
         NEW l, l = ft_strlen(m, s), start < l, NEW size, size = Min({len, l - start})
  PROVE  ft_substr(m, s, start, len) = Allocated(m, size + 1, Part(m, s + start, size))
<1>1. l \in Nat
  BY CallersEnd
<1>2. ~(start >= l) /\ l - start # 0
  BY <1>1
<1> QED
  BY <1>2 DEF ft_substr, Part

LEMMA SubstrFits ==
  ASSUME NEW m \in Memories, NEW s \in Callers, NEW start \in Nat, NEW len \in Nat,
         NEW exact, NEW e, e = Min({ft_strlen(m, s), start + len}),
         NEW o \in ft_substr(m, s, start, len)
  PROVE  Right(m, o, exact, SubSeq(Text(m, s), start + 1, e))
<1> DEFINE l == ft_strlen(m, s)
           T == Text(m, s)
<1>1. l \in Nat
  BY CallersEnd
<1>2. T \in Seq(Bytes \ {NUL})
  BY CallersText
<1>3. /\ l <= start + len => e = l
      /\ start + len <= l => e = start + len
  <2>1. start + len \in Int
    OBVIOUS
  <2> HIDE DEF l
  <2>2. e = Min({l, start + len})
    BY DEF l
  <2> QED
    BY <1>1, <2>1, <2>2, MinOfTwo
<1>4. l <= start \/ start < l
  BY <1>1
<1>5. CASE l <= start
  <2>1. e = l /\ e \in Int /\ e < start + 1 /\ start + 1 \in Int
    BY <1>1, <1>3, <1>5
  <2> HIDE DEF T
  <2>2. SubSeq(T, start + 1, e) = << >>
    BY <2>1, SubSeqEmpty
  <2>3. Zeroed(m, ft_bzero(m, BLOCK, 1), 1)
    BY ZeroedIs
  <2>4. NewFits(m, ft_bzero(m, BLOCK, 1), 1, exact, << >>)
    BY <2>3, ZeroedFits
  <2>5. ft_substr(m, s, start, len) = Allocated(m, 1, ft_bzero(m, BLOCK, 1))
    BY <1>5, SubstrNothing
  <2>6. Right(m, o, exact, << >>)
    BY <2>4, <2>5, AllocatedRight
  <2> QED
    BY <2>2, <2>6 DEF T
<1>6. CASE start < l
  <2> DEFINE size == Min({len, l - start})
             g == Part(m, s + start, size)
             n == size + 1
  <2>1. size = Min({len, l - start})
    OBVIOUS
  <2>2. ft_substr(m, s, start, len) = Allocated(m, n, g)
    BY <1>6, SubstrPart
  <2> HIDE DEF size, l
  <2>3. Lesser(size, len, l - start)
    <3>1. len \in Int /\ l - start \in Int
      BY <1>1
    <3> QED
      BY <2>1, <3>1, LesserIs
  <2>4. size \in Nat /\ e = start + size /\ e <= l
    BY <1>1, <1>3, <1>6, <2>3 DEF Lesser
  <2>5. g = Part(m, s + start, size) /\ n = size + 1
    OBVIOUS
  <2> HIDE DEF g, n, T
  <2>6. NewFits(m, g, n, exact, SubSeq(Text(m, s), start + 1, e))
    BY <2>4, <2>5, PartText DEF l
  <2> QED
    BY <2>2, <2>6, AllocatedRight
<1> QED
  BY <1>4, <1>5, <1>6

(* A character that ft_strtrim keeps is one not in the set.                *)
Kept(m, set, a) == ft_strchr(m, set, m[a]) = NULL

LEMMA KeptIs ==
  ASSUME NEW m \in Memories, NEW set \in Callers, NEW a \in Callers, m[a] # NUL,
         NEW t, t = Text(m, set), Ascii(t)
  PROVE  Kept(m, set, a) <=> m[a] \notin ToSet(t)
<1> DEFINE c == m[a]
           n == ft_strlen(m, set)
           P == Places(m, set, c)
<1>1. c \in Bytes /\ c \in 0 .. 255
  BY MemoryFacts
<1>2. StringAt(m, set, n) /\ n \in Nat /\ set \in Int
  BY CallersEnd
<1>3. \A k \in 0 .. n : set + k \in Callers
  BY CallersString
<1>4. Len(t) = n /\ DOMAIN t = 1 .. n /\ \A k \in 1 .. n : t[k] = m[set + k - 1]
  <2>1. Len(t) = n /\ \A k \in 1 .. n : t[k] = m[set + k - 1]
    BY CallersText
  <2>2. DOMAIN t = 1 .. n
    BY DEF Text
  <2> QED
    BY <2>1, <2>2
<1>5. set \in Nat \ {0} /\ set # NULL
  BY Layout
<1>6. Kept(m, set, a) <=> Lowest(P) = NULL
  BY <1>5 DEF Kept, ft_strchr
<1>7. P \in SUBSET (set .. set + n)
  BY DEF Places
<1>8. ToSet(t) = {t[k] : k \in 1 .. n}
  BY <1>4 DEF ToSet
<1>9. m[set + n] = NUL
  BY <1>2 DEF StringAt
<1> HIDE DEF n, P
<1>10. Lowest(P) = NULL <=> P = {}
  <2>1. ASSUME P # {}
        PROVE  Lowest(P) # NULL
    <3>1. set \in Int /\ set + n \in Int
      BY <1>2
    <3>2. Min(P) \in P
      BY <1>7, <2>1, <3>1, LeastBetween
    <3> DEFINE x == Min(P)
    <3>3. Lowest(P) = x
      BY <2>1 DEF Lowest
    <3>4. x \in set .. set + n
      BY <1>7, <3>2
    <3> HIDE DEF x
    <3>5. x # 0
      BY <1>2, <1>5, <3>4
    <3> QED
      BY <3>3, <3>5 DEF NULL
  <2>2. P = {} => Lowest(P) = NULL
    BY DEF Lowest
  <2> QED
    BY <2>1, <2>2
<1>11. P = {} <=> c \notin ToSet(t)
  <2>1. CASE c < 128
    <3>1. P = {x \in set .. set + n : m[x] = c}
      BY <1>1, <2>1, PlacesAre DEF P, n
    <3> HIDE DEF c
    <3>2. ASSUME NEW x \in set .. set + n, m[x] = c
          PROVE  c \in ToSet(t)
      <4>1. x # set + n
        BY <1>9, <3>2 DEF c
      <4>2. x - set + 1 \in 1 .. n /\ set + (x - set + 1) - 1 = x
        BY <1>2, <4>1
      <4>3. t[x - set + 1] = c
        BY <1>4, <3>2, <4>2
      <4> QED
        BY <1>8, <4>2, <4>3
    <3>3. ASSUME c \in ToSet(t)
          PROVE  \E x \in set .. set + n : m[x] = c
      <4>1. PICK k \in 1 .. n : t[k] = c
        BY <1>8, <3>3
      <4>2. set + k - 1 \in set .. set + n
        BY <1>2
      <4> QED
        BY <1>4, <4>1, <4>2
    <3> QED
      BY <3>1, <3>2, <3>3
  <2>2. CASE ~(c < 128)
    <3>1. UChar(c) = c
      BY <1>1 DEF UChar
    <3>2. \A x \in set .. set + n : Char(m[x]) # c
      <4> TAKE x \in set .. set + n
      <4>1. x - set \in 0 .. n /\ set + (x - set) = x
        BY <1>2
      <4>2. m[x] \in 0 .. 255
        BY <1>3, <4>1, MemoryFacts
      <4> QED
        BY <1>1, <2>2, <4>2 DEF Char
    <3>3. P = {}
      BY <3>1, <3>2 DEF P, Places, n
    <3>4. c \notin ToSet(t)
      BY <1>4, <1>8, <2>2 DEF Ascii
    <3> QED
      BY <3>3, <3>4
  <2> QED
    BY <2>1, <2>2
<1> QED
  BY <1>6, <1>10, <1>11

(* The characters of s that are kept, and what is left of s.               *)
KeptIn(s, t) == {k \in DOMAIN s : s[k] \notin ToSet(t)}

Trimmed(s, t) ==
  IF KeptIn(s, t) = {} THEN << >> ELSE SubSeq(s, Min(KeptIn(s, t)), Max(KeptIn(s, t)))

(* Where ft_strtrim begins, and how far from there the last character is.  *)
FirstKept(m, s1, set) ==
  Min({a \in s1 .. s1 + ft_strlen(m, s1) : m[a] = NUL \/ Kept(m, set, a)})

LastKept(m, set, first) ==
  Max({0} \cup {k \in 1 .. ft_strlen(m, first) - 1 : Kept(m, set, first + k)})

LEMMA StrtrimIs ==
  ASSUME NEW m, NEW s \in Callers, NEW set \in Callers,
         NEW first, first = FirstKept(m, s, set), NEW i, i = LastKept(m, set, first)
  PROVE  ft_strtrim(m, s, set) = ft_substr(m, first, 0, i + 1)
<1>1. s # NULL /\ set # NULL
  BY Layout
<1> QED
  BY <1>1 DEF ft_strtrim, FirstKept, LastKept, Kept

(* first is the first character that is kept, or the end.                  *)
Begins(m, s, set, l, first) ==
  /\ first \in s .. s + l /\ (m[first] = NUL \/ Kept(m, set, first))
  /\ \A a \in s .. s + l : m[a] = NUL \/ Kept(m, set, a) => first <= a

LEMMA FirstIs ==
  ASSUME NEW m \in Memories, NEW s \in Callers, NEW set, NEW l, l = ft_strlen(m, s),
         NEW first, first = FirstKept(m, s, set)
  PROVE  Begins(m, s, set, l, first)
<1> DEFINE A == {a \in s .. s + l : m[a] = NUL \/ Kept(m, set, a)}
<1>1. StringAt(m, s, l) /\ l \in Nat /\ s \in Int
  BY CallersEnd
<1>2. m[s + l] = NUL /\ s + l \in s .. s + l /\ s + l \in Int
  BY <1>1 DEF StringAt
<1>3. first = Min(A) /\ A \in SUBSET (s .. s + l) /\ A # {}
  BY <1>2 DEF FirstKept
<1> HIDE DEF A
<1>4. first \in A /\ \A x \in A : first <= x
  <2> DEFINE q == s + l
  <2>1. s \in Int /\ q \in Int /\ A \in SUBSET (s .. q)
    BY <1>1, <1>2, <1>3
  <2> HIDE DEF q
  <2>2. Min(A) \in A /\ \A x \in A : Min(A) <= x
    BY <1>3, <2>1, LeastBetween
  <2> QED
    BY <1>3, <2>2
<1> QED
  BY <1>4 DEF A, Begins

(* i is how far the last character that is kept is behind the first.       *)
Ends(m, set, first, f, i) ==
  /\ i = 0 \/ (i \in 1 .. f - 1 /\ Kept(m, set, first + i))
  /\ i \in Nat /\ \A k \in 1 .. f - 1 : Kept(m, set, first + k) => k <= i

LEMMA LastIs ==
  ASSUME NEW m, NEW set, NEW first, NEW f \in Nat, f = ft_strlen(m, first),
         NEW i, i = LastKept(m, set, first)
  PROVE  Ends(m, set, first, f, i)
<1> DEFINE B == {k \in 1 .. f - 1 : Kept(m, set, first + k)}
           C == {0} \cup B
<1>1. B \subseteq 1 .. f - 1 /\ \A k \in 1 .. f - 1 : k \in B <=> Kept(m, set, first + k)
  OBVIOUS
<1>2. i = Max(C)
  BY DEF LastKept
<1> HIDE DEF B
<1>3. C \in SUBSET (0 .. f) /\ C # {} /\ 0 \in Int /\ f \in Int
  BY <1>1
<1> HIDE DEF C
<1>4. i \in C /\ \A x \in C : x <= i
  BY <1>2, <1>3, GreatestBetween
<1> QED
  BY <1>1, <1>3, <1>4 DEF C, Ends

(* Right when the set is not of ASCII, too, but for the text.              *)
LEMMA RightWeaker ==
  ASSUME NEW m, NEW o, NEW V, Right(m, o, TRUE, V), NEW exact, NEW W, exact => W = V
  PROVE  Right(m, o, exact, W)
BY DEF Right, NewFits

LEMMA StrtrimFits ==
  ASSUME NEW m \in Memories, NEW s1 \in Callers, NEW set \in Callers,
         NEW s, s = Text(m, s1), NEW t, t = Text(m, set),
         NEW exact, exact => Ascii(t),
         NEW o \in ft_strtrim(m, s1, set)
  PROVE  Right(m, o, exact, Trimmed(s, t))
<1> DEFINE l == ft_strlen(m, s1)
           first == FirstKept(m, s1, set)
           f == ft_strlen(m, first)
           i == LastKept(m, set, first)
           K == KeptIn(s, t)
<1>1. StringAt(m, s1, l) /\ l \in Nat /\ s1 \in Int /\ \A k \in 0 .. l : s1 + k \in Callers
  BY CallersEnd, CallersString
<1>2. DOMAIN s = 1 .. l /\ \A k \in 1 .. l : s[k] = m[s1 + k - 1]
  BY DEF Text
<1>3. o \in ft_substr(m, first, 0, i + 1)
  BY StrtrimIs
<1>4. Begins(m, s1, set, l, first)
  BY FirstIs
<1> HIDE DEF l, first
<1>5. /\ first \in s1 .. s1 + l /\ (m[first] = NUL \/ Kept(m, set, first))
      /\ \A a \in s1 .. s1 + l : m[a] = NUL \/ Kept(m, set, a) => first <= a
  BY <1>4 DEF Begins
<1> DEFINE d == first - s1
<1>6. d \in 0 .. l /\ first = s1 + d
  BY <1>1, <1>5
<1> HIDE DEF d
<1>7. first \in Callers /\ f = l - d /\ f \in Nat
  BY <1>6, StringTail DEF l
<1>8. Ends(m, set, first, f, i)
  <2>1. f = ft_strlen(m, first) /\ i = LastKept(m, set, first)
    OBVIOUS
  <2> HIDE DEF f, i
  <2> QED
    BY <1>7, <2>1, LastIs
<1>9. i \in Nat /\ i + 1 \in Nat
  <2> HIDE DEF i, f
  <2>1. i \in Nat
    BY <1>8 DEF Ends
  <2> QED
    BY <2>1
<1> DEFINE e == Min({ft_strlen(m, first), 0 + (i + 1)})
           V == SubSeq(Text(m, first), 0 + 1, e)
<1>10. Right(m, o, TRUE, V)
  <2>1. e = Min({ft_strlen(m, first), 0 + (i + 1)})
    OBVIOUS
  <2> HIDE DEF e, i
  <2> QED
    BY <1>3, <1>7, <1>9, <2>1, SubstrFits
<1>11. CASE ~exact
  <2> HIDE DEF V
  <2> QED
    BY <1>10, <1>11, RightWeaker
<1>12. CASE exact
  <2>1. \A k \in 1 .. l : s1 + k - 1 \in Callers /\ s1 + k - 1 \in s1 .. s1 + l
                          /\ m[s1 + k - 1] # NUL
    <3> TAKE k \in 1 .. l
    <3>1. k - 1 \in 0 .. l - 1 /\ k - 1 \in 0 .. l /\ s1 + (k - 1) = s1 + k - 1
      BY <1>1
    <3>2. s1 + k - 1 \in s1 .. s1 + l
      BY <1>1
    <3>3. m[s1 + (k - 1)] # NUL
      BY <1>1, <3>1 DEF StringAt
    <3> QED
      BY <1>1, <3>1, <3>2, <3>3
  <2>2. \A k \in 1 .. l : Kept(m, set, s1 + k - 1) <=> k \in K
    <3> TAKE k \in 1 .. l
    <3> DEFINE a == s1 + k - 1
    <3>1. a \in Callers /\ m[a] # NUL /\ s[k] = m[a]
      BY <1>2, <2>1
    <3> HIDE DEF a
    <3>2. Kept(m, set, a) <=> m[a] \notin ToSet(t)
      BY <1>12, <3>1, KeptIs
    <3>3. k \in K <=> s[k] \notin ToSet(t)
      BY <1>2 DEF KeptIn
    <3> QED
      BY <3>1, <3>2, <3>3 DEF a
  <2>3. K \subseteq 1 .. l
    BY <1>2 DEF KeptIn
  <2>4. Trimmed(s, t) = IF K = {} THEN << >> ELSE SubSeq(s, Min(K), Max(K))
    BY DEF Trimmed
  <2> HIDE DEF K
  <2>5. d < l => d + 1 \in K
    <3> SUFFICES ASSUME d < l PROVE d + 1 \in K
      OBVIOUS
    <3>1. d + 1 \in 1 .. l /\ s1 + (d + 1) - 1 = first
      BY <1>1, <1>6
    <3> QED
      BY <1>5, <2>1, <2>2, <3>1
  <2>6. \A k \in K : d + 1 <= k
    <3> TAKE k \in K
    <3>1. first <= s1 + k - 1
      BY <1>5, <2>1, <2>2, <2>3
    <3>2. k \in Int
      BY <2>3
    <3> QED
      BY <1>1, <1>6, <3>1, <3>2
  <2>7. CASE K = {}
    <3>1. f = 0
      BY <1>1, <1>6, <1>7, <2>5, <2>7
    <3>2. e = 0
      <4>1. f <= i + 1 /\ 0 + (i + 1) = i + 1 /\ f \in Int /\ i + 1 \in Int
        BY <1>9, <3>1
      <4> DEFINE j == i + 1
      <4>2. e = Min({f, j})
        BY <4>1
      <4> HIDE DEF f, j, e
      <4> QED
        BY <3>1, <4>1, <4>2, MinOfTwo DEF j
    <3>3. Text(m, first) \in Seq(Bytes \ {NUL})
      BY <1>7, CallersText
    <3> HIDE DEF e
    <3>4. V = << >>
      <4>1. 0 + 1 = 1 /\ 1 \in Int /\ e \in Int /\ e < 1
        BY <3>2
      <4> QED
        BY <4>1, SubSeqEmpty
    <3> HIDE DEF V
    <3>5. Trimmed(s, t) = V
      BY <2>4, <2>7, <3>4
    <3> QED
      BY <1>10, <3>5, RightWeaker
  <2>8. CASE K # {}
    <3> DEFINE p == Min(K)
               q == Max(K)
    <3>1. p \in K /\ (\A k \in K : p <= k) /\ q \in K /\ (\A k \in K : k <= q)
      <4>1. 1 \in Int /\ l \in Int /\ K \in SUBSET (1 .. l)
        BY <1>1, <2>3
      <4> QED
        BY <2>8, <4>1, LeastBetween, GreatestBetween
    <3>2. Trimmed(s, t) = SubSeq(s, p, q)
      BY <2>4, <2>8
    <3> HIDE DEF p, q, f, i
    <3>3. p \in 1 .. l /\ q \in 1 .. l /\ p <= q
      BY <2>3, <3>1
    <3>4. p = d + 1
      <4>1. d < l
        BY <1>1, <1>6, <2>6, <3>1, <3>3
      <4>2. d + 1 \in K
        BY <2>5, <4>1
      <4>3. p <= d + 1 /\ d + 1 <= p
        BY <2>6, <3>1, <4>2
      <4> QED
        BY <1>6, <3>3, <4>3
    <3>5. \A k \in 1 .. f - 1 : Kept(m, set, first + k) <=> p + k \in K
      <4> TAKE k \in 1 .. f - 1
      <4>1. p + k \in 1 .. l /\ s1 + (p + k) - 1 = first + k
        BY <1>1, <1>6, <1>7, <3>3, <3>4
      <4> QED
        BY <2>2, <4>1
    <3>6. i = q - p
      <4>1. /\ i = 0 \/ (i \in 1 .. f - 1 /\ Kept(m, set, first + i))
            /\ \A k \in 1 .. f - 1 : Kept(m, set, first + k) => k <= i
        BY <1>8 DEF Ends
      <4>2. p + i \in K
        <5>1. i = 0 => p + i = p
          BY <3>3
        <5> QED
          BY <3>1, <3>5, <4>1, <5>1
      <4>3. q - p <= i
        <5>1. CASE q = p
          BY <1>9, <3>3, <5>1
        <5>2. CASE q # p
          <6>1. q - p \in 1 .. f - 1 /\ p + (q - p) = q
            BY <1>1, <1>6, <1>7, <3>3, <3>4, <5>2
          <6> QED
            BY <3>1, <3>5, <4>1, <6>1
        <5> QED
          BY <5>1, <5>2
      <4>4. p + i <= q
        BY <3>1, <4>2
      <4> QED
        BY <1>9, <3>3, <4>3, <4>4
    <3> DEFINE size == i + 1
    <3>7. size \in Nat /\ size <= f /\ 0 < f /\ q = d + size /\ q <= l /\ d \in Nat
      BY <1>1, <1>6, <1>7, <1>9, <3>3, <3>4, <3>6
    <3> HIDE DEF size
    <3>8. ft_substr(m, first, 0, size) = Allocated(m, size + 1, Part(m, first, size))
      <4>1. f - 0 = f /\ first + 0 = first /\ size <= f /\ size \in Int /\ f \in Int
        BY <1>1, <1>6, <1>7, <3>7
      <4>2. Min({size, f - 0}) = size
        BY <4>1, MinOfTwo
      <4>3. f = ft_strlen(m, first) /\ 0 \in Nat
        BY DEF f
      <4>4. ft_substr(m, first, 0, size) = Allocated(m, size + 1, Part(m, first + 0, size))
        BY <1>7, <3>7, <4>2, <4>3, SubstrPart
      <4> QED
        BY <4>1, <4>4
    <3> DEFINE n == size + 1
               g == Part(m, first, size)
    <3>9. n = size + 1 /\ g = Part(m, first, size)
      OBVIOUS
    <3>10. o \in Allocated(m, n, g)
      BY <1>3, <3>8 DEF size
    <3> HIDE DEF n, g
    <3>11. NewFits(m, g, n, exact, SubSeq(Text(m, s1), d + 1, q))
      BY <1>6, <3>7, <3>9, PartText DEF l
    <3>12. NewFits(m, g, n, exact, Trimmed(s, t))
      BY <3>2, <3>4, <3>11
    <3> QED
      BY <3>10, <3>12, AllocatedRight
  <2> QED
    BY <2>7, <2>8
<1> QED
  BY <1>11, <1>12

(* The text NewStringsFit wants of a call of fn on m.                      *)
Wanted(m, fn, a, b, n) ==
  LET s == Text(m, a)
      t == Text(m, b)
  IN CASE fn = "ft_strdup"  -> s
       [] fn = "ft_strmapi" -> Text(ft_striteri(m, a), a)
       [] fn = "ft_strjoin" -> s \o t
       [] fn = "charjoin"   -> s \o CharText(n)
       [] fn = "ft_substr"  -> SubSeq(s, b + 1, Min({Len(s), b + n}))
       [] fn = "ft_strtrim" -> Trimmed(s, t)
       [] fn = "ft_calloc"  -> << >>

(* When it must be that text.                                              *)
Exact(m, fn, b) == fn = "ft_strtrim" => Ascii(Text(m, b))

Makers == {"ft_calloc", "ft_strdup", "ft_strmapi", "ft_strjoin", "ft_strtrim", "charjoin",
           "ft_substr"}

LEMMA MadeFits ==
  ASSUME NEW fn \in Makers, NEW a, NEW b, NEW n, NEW o,
         StringCall(fn, a, b, n, o.mem, o.ptr, o.room),
         Right(before, o, Exact(before, fn, b), Wanted(before, fn, a, b, n))
  PROVE  NewStringsFit' /\ call'.fn \in Makers
<1>1. /\ call' = [fn |-> fn, a |-> a, b |-> b, n |-> n, room |-> o.room]
      /\ after' = o.mem /\ ret' = o.ptr /\ before' = before
  BY DEF StringCall, Called
<1>2. /\ call'.fn = fn /\ call'.a = a /\ call'.b = b /\ call'.n = n /\ call'.room = o.room
  BY <1>1
<1> DEFINE exact == Exact(before, fn, b)
           W == Wanted(before, fn, a, b, n)
<1>3. o.ptr = BLOCK /\ o.room > 0 =>
        /\ \A x \in Callers : o.mem[x] = before[x]
        /\ DOMAIN o.mem = Callers \cup (BLOCK .. BLOCK + o.room - 1)
        /\ ft_strlen(o.mem, BLOCK) < o.room
        /\ exact => Text(o.mem, BLOCK) = W
  <2> HIDE DEF exact, W
  <2>1. Right(before, o, exact, W)
    BY DEF exact, W
  <2> QED
    BY <2>1 DEF Right, NewFits
<1>4. NewStringsFit'
  BY <1>1, <1>2, <1>3 DEF NewStringsFit, Exact, Wanted, CharText, Trimmed, KeptIn
<1> QED
  BY <1>2, <1>4

LEMMA AsWanted ==
  ASSUME NEW fn \in Makers, NEW a, NEW b, NEW n, NEW o, NEW V, Right(before, o, TRUE, V),
         StringCall(fn, a, b, n, o.mem, o.ptr, o.room),
         V = Wanted(before, fn, a, b, n)
  PROVE  NewStringsFit' /\ call'.fn \in Makers
<1> DEFINE exact == Exact(before, fn, b)
           W == Wanted(before, fn, a, b, n)
<1>1. W = V
  OBVIOUS
<1> HIDE DEF W, exact
<1>2. Right(before, o, exact, W)
  BY <1>1, RightWeaker
<1> QED
  BY <1>2, MadeFits DEF W, exact

LEMMA CharjoinRight ==
  ASSUME NEW m \in Memories, NEW s \in Callers, NEW c \in Bytes, NEW o \in charjoin(m, s, c)
  PROVE  Right(m, o, TRUE, Text(m, s) \o CharText(c))
<1> DEFINE b == WithChar(m, c)
           n == ft_strlen(b, s) + ft_strlen(b, STACK) + 1
           g == Join(b, s, STACK)
           W == Text(m, s) \o CharText(c)
           exact == TRUE
<1>1. ft_strjoin(b, s, STACK) = Allocated(b, n, g)
  BY DEF ft_strjoin, Join
<1>2. charjoin(m, s, c) =
        {[o2 EXCEPT !.mem = [a \in DOMAIN @ \ {STACK, STACK + 1} |-> @[a]]]
           : o2 \in ft_strjoin(b, s, STACK)}
  BY DEF charjoin, WithChar
<1>3. NewFits(m, Returned(g), n, exact, W)
  <2>1. b = WithChar(m, c) /\ n = ft_strlen(b, s) + ft_strlen(b, STACK) + 1
        /\ g = Join(b, s, STACK)
    OBVIOUS
  <2> HIDE DEF b, n, g
  <2> QED
    BY <2>1, CharjoinFits
<1> HIDE DEF b, n, g, W, exact
<1>4. PICK o2 \in Allocated(b, n, g) :
        o = [o2 EXCEPT !.mem = [a \in DOMAIN @ \ {STACK, STACK + 1} |-> @[a]]]
  BY <1>1, <1>2
<1>5. ASSUME o2 = Outcome(b, NULL, 0)
      PROVE  Right(m, o, exact, W)
  <2>1. o.ptr = NULL
    BY <1>4, <1>5 DEF Outcome
  <2> QED
    BY <2>1, BehindCaller DEF Right
<1>6. ASSUME o2 = Outcome(g, BLOCK, n)
      PROVE  Right(m, o, exact, W)
  <2>1. o.mem = Returned(g) /\ o.room = n
    BY <1>4, <1>6 DEF Outcome, Returned
  <2> QED
    BY <1>3, <2>1 DEF Right
<1>7. Right(m, o, exact, W)
  BY <1>4, <1>5, <1>6 DEF Allocated
<1> QED
  BY <1>7 DEF W, exact

LEMMA MakesNew ==
  ASSUME before \in Memories, Make
  PROVE  NewStringsFit' /\ call'.fn \in Makers
<1> DEFINE m == before
           Done == NewStringsFit' /\ call'.fn \in Makers
<1>1. ASSUME NEW len \in 1 .. 2, NEW size \in 1 .. 2,
             NewString("ft_calloc", NULL, len, size, ft_calloc(m, len, size))
      PROVE  Done
  <2>1. PICK o \in ft_calloc(m, len, size) :
          StringCall("ft_calloc", NULL, len, size, o.mem, o.ptr, o.room)
    BY <1>1 DEF NewString
  <2> DEFINE n == len * size
             z == ft_bzero(m, BLOCK, n)
  <2>2. n \in Nat \ {0}
    <3>1. (len = 1 \/ len = 2) /\ (size = 1 \/ size = 2)
      OBVIOUS
    <3> QED
      BY <3>1
  <2>3. o \in Allocated(m, n, z)
    BY <2>1 DEF ft_calloc
  <2>4. z = ft_bzero(m, BLOCK, n)
    OBVIOUS
  <2> HIDE DEF n, z
  <2>5. Zeroed(m, z, n)
    BY <2>2, <2>4, ZeroedIs
  <2>6. NewFits(m, z, n, TRUE, << >>)
    BY <2>2, <2>5, ZeroedFits
  <2>7. Right(m, o, TRUE, << >>)
    BY <2>3, <2>6, AllocatedRight
  <2>8. "ft_calloc" \in Makers /\ << >> = Wanted(m, "ft_calloc", NULL, len, size)
    BY DEF Makers, Wanted
  <2> QED
    BY <2>1, <2>7, <2>8, AsWanted
<1>2. ASSUME NEW s \in Callers, NewString("ft_strdup", s, NULL, 0, ft_strdup(m, s))
      PROVE  Done
  <2>1. PICK o \in ft_strdup(m, s) :
          StringCall("ft_strdup", s, NULL, 0, o.mem, o.ptr, o.room)
    BY <1>2 DEF NewString
  <2> DEFINE n == ft_strlen(m, s) + 1
             g == ft_strlcpy(m, BLOCK, s, n)
             V == Text(m, s)
  <2>2. o \in Allocated(m, n, g)
    BY <2>1 DEF ft_strdup
  <2>3. NewFits(m, g, n, TRUE, V)
    BY StrdupFits
  <2>4. "ft_strdup" \in Makers /\ V = Wanted(m, "ft_strdup", s, NULL, 0)
    BY DEF Makers, Wanted
  <2> HIDE DEF n, g, V
  <2>5. Right(m, o, TRUE, V)
    BY <2>2, <2>3, AllocatedRight
  <2> QED
    BY <2>1, <2>4, <2>5, AsWanted
<1>3. ASSUME NEW s \in Callers, NewString("ft_strmapi", s, NULL, 0, ft_strmapi(m, s))
      PROVE  Done
  <2>1. PICK o \in ft_strmapi(m, s) :
          StringCall("ft_strmapi", s, NULL, 0, o.mem, o.ptr, o.room)
    BY <1>3 DEF NewString
  <2> DEFINE l == ft_strlen(m, s)
             n == l + 1
             z == ft_bzero(m, BLOCK, n)
             g == MapBytes(z, BLOCK, m, s, Upwards(l))
             V == Text(ft_striteri(m, s), s)
  <2>2. o \in Allocated(m, n, g)
    BY <2>1 DEF ft_strmapi, MapBytes
  <2>3. NewFits(m, g, n, TRUE, V)
    <3>1. l = ft_strlen(m, s) /\ n = l + 1 /\ z = ft_bzero(m, BLOCK, n)
          /\ g = MapBytes(z, BLOCK, m, s, Upwards(l))
      OBVIOUS
    <3> HIDE DEF l, n, z, g
    <3> QED
      BY <3>1, StrmapiFits
  <2>4. "ft_strmapi" \in Makers /\ V = Wanted(m, "ft_strmapi", s, NULL, 0)
    BY DEF Makers, Wanted
  <2> HIDE DEF n, g, V
  <2>5. Right(m, o, TRUE, V)
    BY <2>2, <2>3, AllocatedRight
  <2> QED
    BY <2>1, <2>4, <2>5, AsWanted
<1>4. ASSUME NEW s \in Callers, NEW t \in Callers,
             NewString("ft_strjoin", s, t, 0, ft_strjoin(m, s, t))
      PROVE  Done
  <2>1. PICK o \in ft_strjoin(m, s, t) :
          StringCall("ft_strjoin", s, t, 0, o.mem, o.ptr, o.room)
    BY <1>4 DEF NewString
  <2> DEFINE n == ft_strlen(m, s) + ft_strlen(m, t) + 1
             g == Join(m, s, t)
             V == Text(m, s) \o Text(m, t)
  <2>2. o \in Allocated(m, n, g)
    BY <2>1 DEF ft_strjoin, Join
  <2>3. NewFits(m, g, n, TRUE, V)
    BY StrjoinFits
  <2>4. "ft_strjoin" \in Makers /\ V = Wanted(m, "ft_strjoin", s, t, 0)
    BY DEF Makers, Wanted
  <2> HIDE DEF n, g, V
  <2>5. Right(m, o, TRUE, V)
    BY <2>2, <2>3, AllocatedRight
  <2> QED
    BY <2>1, <2>4, <2>5, AsWanted
<1>5. ASSUME NEW s \in Callers, NEW t \in Callers,
             NewString("ft_strtrim", s, t, 0, ft_strtrim(m, s, t))
      PROVE  Done
  <2>1. PICK o \in ft_strtrim(m, s, t) :
          StringCall("ft_strtrim", s, t, 0, o.mem, o.ptr, o.room)
    BY <1>5 DEF NewString
  <2> DEFINE exact == Exact(m, "ft_strtrim", t)
             W == Wanted(m, "ft_strtrim", s, t, 0)
             S == Text(m, s)
             T == Text(m, t)
  <2>2. exact => Ascii(T)
    BY DEF Exact
  <2>3. W = Trimmed(S, T) /\ "ft_strtrim" \in Makers
    BY DEF Wanted, Makers
  <2>4. S = Text(m, s) /\ T = Text(m, t)
    OBVIOUS
  <2> HIDE DEF exact, W, S, T
  <2>5. Right(m, o, exact, Trimmed(S, T))
    BY <2>1, <2>2, <2>4, StrtrimFits
  <2>6. Right(m, o, exact, W)
    BY <2>3, <2>5
  <2> QED
    BY <2>1, <2>3, <2>6, MadeFits DEF exact, W
<1>6. ASSUME NEW s \in Callers, NEW c \in Bytes,
             NewString("charjoin", s, NULL, c, charjoin(m, s, c))
      PROVE  Done
  <2>1. PICK o \in charjoin(m, s, c) :
          StringCall("charjoin", s, NULL, c, o.mem, o.ptr, o.room)
    BY <1>6 DEF NewString
  <2> DEFINE V == Text(m, s) \o CharText(c)
  <2>2. Right(m, o, TRUE, V)
    BY <2>1, CharjoinRight
  <2>3. "charjoin" \in Makers /\ V = Wanted(m, "charjoin", s, NULL, c)
    BY DEF Makers, Wanted
  <2> HIDE DEF V
  <2> QED
    BY <2>1, <2>2, <2>3, AsWanted
<1>7. ASSUME NEW s \in Callers, NEW start \in 0 .. LAST, NEW len \in 0 .. LAST,
             NewString("ft_substr", s, start, len, ft_substr(m, s, start, len))
      PROVE  Done
  <2>1. PICK o \in ft_substr(m, s, start, len) :
          StringCall("ft_substr", s, start, len, o.mem, o.ptr, o.room)
    BY <1>7 DEF NewString
  <2> DEFINE e == Min({ft_strlen(m, s), start + len})
             V == SubSeq(Text(m, s), start + 1, e)
  <2>2. start \in Nat /\ len \in Nat
    BY Layout
  <2>3. Right(m, o, TRUE, V)
    <3>1. e = Min({ft_strlen(m, s), start + len})
      OBVIOUS
    <3> HIDE DEF e
    <3> QED
      BY <2>1, <2>2, <3>1, SubstrFits
  <2>4. Len(Text(m, s)) = ft_strlen(m, s)
    BY CallersText
  <2>5. "ft_substr" \in Makers /\ V = Wanted(m, "ft_substr", s, start, len)
    BY <2>4 DEF Makers, Wanted
  <2> HIDE DEF V
  <2> QED
    BY <2>1, <2>3, <2>5, AsWanted
<1> HIDE DEF Done
<1>8. Done
  BY <1>1, <1>2, <1>3, <1>4, <1>5, <1>6, <1>7 DEF Make
<1> QED
  BY <1>8 DEF Done

------------------------------------------------------------------------------
(* The theorems.                                                           *)

(* The part of the specification whose calls work on memory.               *)
StringsSpec == StringsReady /\ [][StringCalls]_vars

StringsInv ==
  /\ before \in Memories
  /\ CopiesAreExact /\ SearchesAreRight /\ ComparisonsAreOrders /\ NewStringsFit

(* A property of the calls of some functions says nothing of the others.   *)
LEMMA OfOthers ==
  /\ call.fn \notin {"ft_memmove", "ft_strlcpy", "ft_strlcat"} => CopiesAreExact
  /\ call.fn \notin {"ft_strchr", "ft_strrchr", "ft_memchr", "ft_strnstr"} => SearchesAreRight
  /\ call.fn \notin {"ft_strncmp", "ft_memcmp"} => ComparisonsAreOrders
  /\ ~("room" \in DOMAIN call /\ call.room > 0) => NewStringsFit
<1>1. call.fn \notin {"ft_memmove", "ft_strlcpy", "ft_strlcat"} => CopiesAreExact
  BY DEF CopiesAreExact, MovedBytesAreRight, CopiedStringsFit
<1>2. call.fn \notin {"ft_strchr", "ft_strrchr", "ft_memchr", "ft_strnstr"} => SearchesAreRight
  BY DEF SearchesAreRight
<1>3. call.fn \notin {"ft_strncmp", "ft_memcmp"} => ComparisonsAreOrders
  BY DEF ComparisonsAreOrders
<1>4. ~("room" \in DOMAIN call /\ call.room > 0) => NewStringsFit
  BY DEF NewStringsFit
<1> QED
  BY <1>1, <1>2, <1>3, <1>4

LEMMA StringsInitially ==
  ASSUME StringsReady
  PROVE  StringsInv
<1>1. before \in Memories /\ call.fn = "none" /\ "room" \notin DOMAIN call
  BY DEF StringsReady, Ready, NoCall
<1> QED
  BY <1>1, OfOthers DEF StringsInv

LEMMA OfOthersNext ==
  /\ call'.fn \notin {"ft_memmove", "ft_strlcpy", "ft_strlcat"} => CopiesAreExact'
  /\ call'.fn \notin {"ft_strchr", "ft_strrchr", "ft_memchr", "ft_strnstr"} => SearchesAreRight'
  /\ call'.fn \notin {"ft_strncmp", "ft_memcmp"} => ComparisonsAreOrders'
  /\ ~("room" \in DOMAIN call' /\ call'.room > 0) => NewStringsFit'
<1>1. call'.fn \notin {"ft_memmove", "ft_strlcpy", "ft_strlcat"} => CopiesAreExact'
  BY DEF CopiesAreExact, MovedBytesAreRight, CopiedStringsFit
<1>2. call'.fn \notin {"ft_strchr", "ft_strrchr", "ft_memchr", "ft_strnstr"} => SearchesAreRight'
  BY DEF SearchesAreRight
<1>3. call'.fn \notin {"ft_strncmp", "ft_memcmp"} => ComparisonsAreOrders'
  BY DEF ComparisonsAreOrders
<1>4. ~("room" \in DOMAIN call' /\ call'.room > 0) => NewStringsFit'
  BY DEF NewStringsFit
<1> QED
  BY <1>1, <1>2, <1>3, <1>4

(* A call leaves what it works on for the properties to look at.           *)
LEMMA BeforeStays ==
  ASSUME StringCalls
  PROVE  before' = before
<1>1. Move => before' = before
  BY DEF Move, StringCall, Called
<1>2. CopyString => before' = before
  BY DEF CopyString, StringCall, Called
<1>3. Search => before' = before
  BY DEF Search, Looked, StringCall, Called
<1>4. Compare => before' = before
  BY DEF Compare, Looked, StringCall, Called
<1>5. Make => before' = before
  BY DEF Make, NewString, StringCall, Called
<1> QED
  BY <1>1, <1>2, <1>3, <1>4, <1>5 DEF StringCalls

LEMMA StringsStep ==
  ASSUME StringsInv, [StringCalls]_vars
  PROVE  StringsInv'
<1>0. before \in Memories
  BY DEF StringsInv
<1>1. CASE UNCHANGED vars
  <2>1. before' = before /\ after' = after /\ call' = call /\ ret' = ret
    BY <1>1 DEF vars
  <2>2. MovedBytesAreRight = MovedBytesAreRight' /\ CopiedStringsFit = CopiedStringsFit'
    BY <2>1 DEF MovedBytesAreRight, CopiedStringsFit
  <2>3. SearchesAreRight = SearchesAreRight'
    BY <2>1 DEF SearchesAreRight
  <2>4. ComparisonsAreOrders = ComparisonsAreOrders'
    BY <2>1 DEF ComparisonsAreOrders
  <2>5. NewStringsFit = NewStringsFit'
    BY <2>1 DEF NewStringsFit
  <2> QED
    BY <2>1, <2>2, <2>3, <2>4, <2>5 DEF StringsInv, CopiesAreExact
<1>2. CASE StringCalls
  <2>0. before' \in Memories
    BY <1>0, <1>2, BeforeStays
  <2>1. ASSUME Move PROVE StringsInv'
    <3>1. CopiesAreExact' /\ call'.fn = "ft_memmove" /\ call'.room = 0
      BY <1>0, <2>1, MovesRight
    <3> QED
      BY <2>0, <3>1, OfOthersNext DEF StringsInv
  <2>2. ASSUME CopyString PROVE StringsInv'
    <3>1. CopiesAreExact' /\ call'.fn \in {"ft_strlcpy", "ft_strlcat"} /\ call'.room = 0
      BY <1>0, <2>2, StringsCopied
    <3> QED
      BY <2>0, <3>1, OfOthersNext DEF StringsInv
  <2>3. ASSUME Search PROVE StringsInv'
    <3>1. /\ SearchesAreRight' /\ call'.room = 0
          /\ call'.fn \in {"ft_strchr", "ft_strrchr", "ft_memchr", "ft_strnstr"}
      BY <1>0, <2>3, SearchesFind
    <3> QED
      BY <2>0, <3>1, OfOthersNext DEF StringsInv
  <2>4. ASSUME Compare PROVE StringsInv'
    <3>1. ComparisonsAreOrders' /\ call'.room = 0 /\ call'.fn \in {"ft_strncmp", "ft_memcmp"}
      BY <1>0, <2>4, ComparesRight
    <3> QED
      BY <2>0, <3>1, OfOthersNext DEF StringsInv
  <2>5. ASSUME Make PROVE StringsInv'
    <3>1. NewStringsFit' /\ call'.fn \in Makers
      BY <1>0, <2>5, MakesNew
    <3> QED
      BY <2>0, <3>1, OfOthersNext DEF StringsInv, Makers
  <2> QED
    BY <1>2, <2>1, <2>2, <2>3, <2>4, <2>5 DEF StringCalls
<1> QED
  BY <1>1, <1>2

(* Each call leaves what the properties say, whatever the memory holds.    *)
THEOREM StringsInvariance == StringsSpec => []StringsInv
<1> QED
  BY StringsInitially, StringsStep, PTL DEF StringsSpec

(* On memory of any size, ft_memmove moves the bytes as they were, however *)
(* the regions overlap; ft_strlcpy and ft_strlcat write within the size    *)
(* given, and their results tell what was cut off.                         *)
THEOREM CopiesStayExact == StringsSpec => []CopiesAreExact
<1>1. StringsInv => CopiesAreExact
  BY DEF StringsInv
<1> QED
  BY <1>1, StringsInvariance, PTL

(* The searches find the first or the last place, or rightly none.         *)
THEOREM SearchesStayRight == StringsSpec => []SearchesAreRight
<1>1. StringsInv => SearchesAreRight
  BY DEF StringsInv
<1> QED
  BY <1>1, StringsInvariance, PTL

(* ft_strncmp is 0 for equal prefixes alone, and both comparisons change   *)
(* their sign with the order of their arguments.                           *)
THEOREM ComparisonsStayOrders == StringsSpec => []ComparisonsAreOrders
<1>1. StringsInv => ComparisonsAreOrders
  BY DEF StringsInv
<1> QED
  BY <1>1, StringsInvariance, PTL

(* Every new string fits what was allocated for it, all of which and       *)
(* nothing else was written, and has the text asked for.                   *)
THEOREM NewStringsStayFit == StringsSpec => []NewStringsFit
<1>1. StringsInv => NewStringsFit
  BY DEF StringsInv
<1> QED
  BY <1>1, StringsInvariance, PTL
=============================================================================

---------------------------- MODULE QuickSortProofs ----------------------------
(***************************************************************************)
(* quick_sort stays inside its list, and sorts it whenever it returns, for *)
(* lists of any length over any integers.  That it need not return is      *)
(* QuickSort!ReturnsAlways.                                                *)
(***************************************************************************)
EXTENDS QuickSort, SequenceTheorems, TLAPS

TypeInv ==
  /\ \E n \in Nat : /\ input \in [0 .. n - 1 -> Int]
                    /\ list \in [0 .. n - 1 -> Int]
  /\ calls \in Seq(Int \X Int)
  /\ pc \in {"call", "split"}
  /\ pivot \in Int /\ i \in Int /\ j \in Int

In(a, c) == c[1] <= a /\ a <= c[2]

(* The range of the first call, and that of a call whose one end is known  *)
(* to be the least or the greatest element in it.                          *)
Whole(f, c) == c[1] = 0 /\ \A a \in DOMAIN f : a <= c[2]

Anchored(f, c) ==
  \/ \A m \in c[1] .. c[2] : f[c[1]] <= f[m]
  \/ \A m \in c[1] .. c[2] : f[m] <= f[c[2]]

Fine(f, c) ==
  /\ c[1] .. c[2] \subseteq DOMAIN f
  /\ Separate(f, c)
  /\ Whole(f, c) \/ Anchored(f, c)

CallsInv == \A k \in DOMAIN calls : Fine(list, calls[k])

(* Two elements out of order are still to be sorted by one call.           *)
OrderInv ==
  Size # 0 .. 1 => \A a, b \in Size :
    a < b => \/ list[a] <= list[b]
             \/ \E k \in DOMAIN calls : In(a, calls[k]) /\ In(b, calls[k])

(* Some element between i and j equals the pivot and stops them both.      *)
SplitInv ==
  pc = "split" =>
    /\ calls # <<>>
    /\ start <= i /\ j <= len
    /\ \E k \in i .. j : list[k] = pivot
    /\ \A a \in start .. i - 1 : list[a] < pivot
    /\ \A a \in j + 1 .. len : pivot < list[a]

ElementsInv == Rearranged(list, input)

IInv == TypeInv /\ CallsInv /\ OrderInv /\ SplitInv /\ ElementsInv

------------------------------------------------------------------------------
(* The first call and the others.                                          *)
LEMMA CallFacts ==
  ASSUME TypeInv, calls # <<>>
  PROVE  /\ Len(calls) \in Nat /\ Len(calls) > 0
         /\ DOMAIN calls = 1 .. Len(calls)
         /\ \A k \in DOMAIN calls : calls[k] \in Int \X Int
         /\ 1 \in DOMAIN calls
         /\ start \in Int /\ len \in Int
         /\ Tail(calls) \in Seq(Int \X Int)
         /\ Len(Tail(calls)) = Len(calls) - 1
         /\ DOMAIN Tail(calls) = 1 .. Len(calls) - 1
         /\ \A k \in 1 .. Len(calls) - 1 : Tail(calls)[k] = calls[k + 1]
         /\ \A k \in 2 .. Len(calls) : Tail(calls)[k - 1] = calls[k]
BY DEF TypeInv, start, len

(* What two elements of a list in the wrong order, swapped, leave as it is. *)
Swapped(f, a, b) == [f EXCEPT ![a] = f[b], ![b] = f[a]]

(* Swapping an element with itself changes nothing.                        *)
LEMMA SwapNothing ==
  ASSUME NEW n \in Nat, NEW f \in [0 .. n - 1 -> Int],
         NEW a \in 0 .. n - 1, NEW b \in 0 .. n - 1, f[a] = f[b]
  PROVE  Swapped(f, a, b) = f
BY DEF Swapped

(* Swapping within a range keeps the ranges separate.                      *)
LEMMA SwapSeparate ==
  ASSUME NEW n \in Nat, NEW f \in [0 .. n - 1 -> Int], NEW c \in Int \X Int,
         c[1] .. c[2] \subseteq 0 .. n - 1, Separate(f, c),
         NEW a \in 0 .. n - 1, NEW b \in 0 .. n - 1, a < b, f[a] > f[b]
  PROVE  Separate(Swapped(f, a, b), c)
<1> DEFINE g == Swapped(f, a, b)
<1>1. /\ g \in [0 .. n - 1 -> Int]
      /\ g[a] = f[b] /\ g[b] = f[a]
      /\ \A k \in 0 .. n - 1 : k # a /\ k # b => g[k] = f[k]
  BY DEF Swapped
<1>2. SUFFICES ASSUME NEW m \in c[1] .. c[2], NEW k \in 0 .. n - 1
               PROVE  /\ k < c[1] => g[k] <= g[m]
                      /\ k > c[2] => g[m] <= g[k]
  BY <1>1 DEF Separate
<1>3. /\ m \in 0 .. n - 1 /\ m \in Int /\ c[1] \in Int /\ c[2] \in Int
      /\ \A x \in 0 .. n - 1, y \in c[1] .. c[2] :
           /\ x < c[1] => f[x] <= f[y]
           /\ x > c[2] => f[y] <= f[x]
  BY DEF Separate
<1> HIDE DEF g
<1>4. CASE In(a, c) /\ In(b, c)
  <2>1. k < c[1] \/ k > c[2] => k # a /\ k # b
    BY <1>3, <1>4 DEF In
  <2>2. \E y \in c[1] .. c[2] : g[m] = f[y]
    BY <1>1, <1>3, <1>4 DEF In
  <2> QED  BY <1>1, <1>3, <2>1, <2>2
<1>5. CASE ~In(a, c) /\ ~In(b, c)
  <2>1. g[m] = f[m]
    BY <1>1, <1>3, <1>5 DEF In
  <2>2. (a < c[1] /\ b < c[1]) \/ (a > c[2] /\ b > c[2]) \/ (a < c[1] /\ b > c[2])
    BY <1>3, <1>5 DEF In
  <2>3. ~(a < c[1] /\ b > c[2])
    BY <1>3
  <2>4. CASE a < c[1] /\ b < c[1]
    <3>1. k < c[1] => \E x \in 0 .. n - 1 : x < c[1] /\ g[k] = f[x]
      BY <1>1, <2>4
    <3>2. k > c[2] => k # a /\ k # b
      BY <1>3, <2>4
    <3> QED  BY <1>1, <1>3, <2>1, <3>1, <3>2
  <2>5. CASE a > c[2] /\ b > c[2]
    <3>1. k > c[2] => \E x \in 0 .. n - 1 : x > c[2] /\ g[k] = f[x]
      BY <1>1, <2>5
    <3>2. k < c[1] => k # a /\ k # b
      BY <1>3, <2>5
    <3> QED  BY <1>1, <1>3, <2>1, <3>1, <3>2
  <2> QED  BY <2>2, <2>3, <2>4, <2>5
<1>6. CASE In(a, c) /\ ~In(b, c)
  <2>1. b > c[2] /\ a \in c[1] .. c[2]
    BY <1>3, <1>6 DEF In
  <2> QED  BY <1>3, <2>1
<1>7. CASE ~In(a, c) /\ In(b, c)
  <2>1. a < c[1] /\ b \in c[1] .. c[2]
    BY <1>3, <1>7 DEF In
  <2> QED  BY <1>3, <2>1
<1> QED  BY <1>4, <1>5, <1>6, <1>7
LEMMA SwapAnchored ==
  ASSUME NEW n \in Nat, NEW f \in [0 .. n - 1 -> Int], NEW c \in Int \X Int,
         c[1] .. c[2] \subseteq 0 .. n - 1, Separate(f, c), Anchored(f, c),
         NEW a \in 0 .. n - 1, NEW b \in 0 .. n - 1, a < b, f[a] > f[b]
  PROVE  Anchored(Swapped(f, a, b), c)
<1> DEFINE g == Swapped(f, a, b)
<1>1. /\ g \in [0 .. n - 1 -> Int]
      /\ g[a] = f[b] /\ g[b] = f[a]
      /\ \A k \in 0 .. n - 1 : k # a /\ k # b => g[k] = f[k]
  BY DEF Swapped
<1>2. /\ c[1] \in Int /\ c[2] \in Int
      /\ \A y \in c[1] .. c[2] : /\ y \in Int /\ y \in 0 .. n - 1
                                /\ c[1] \in c[1] .. c[2] /\ c[2] \in c[1] .. c[2]
      /\ \A x \in 0 .. n - 1, y \in c[1] .. c[2] :
           /\ x < c[1] => f[x] <= f[y]
           /\ x > c[2] => f[y] <= f[x]
  BY DEF Separate
<1>q. SUFFICES Anchored(g, c)
  OBVIOUS
<1> HIDE DEF g
<1>3. CASE In(a, c) /\ In(b, c)
  <2>1. ASSUME NEW m \in c[1] .. c[2]
        PROVE  \E y \in c[1] .. c[2] : g[m] = f[y]
    <3>1. a \in c[1] .. c[2] /\ b \in c[1] .. c[2]
      BY <1>2, <1>3 DEF In
    <3>2. m = a \/ m = b \/ g[m] = f[m]
      BY <1>1, <1>2
    <3> QED  BY <1>1, <3>1, <3>2
  <2>2. a \in c[1] .. c[2] /\ b \in c[1] .. c[2] /\ c[1] # b /\ c[2] # a
    BY <1>2, <1>3 DEF In
  <2>3. CASE \A m \in c[1] .. c[2] : f[c[1]] <= f[m]
    <3>1. c[1] # a
      BY <2>2, <2>3
    <3>2. g[c[1]] = f[c[1]]
      BY <1>1, <1>2, <2>2, <3>1
    <3>3. \A m \in c[1] .. c[2] : g[c[1]] <= g[m]
      BY <2>1, <2>3, <3>2
    <3> QED  BY <3>3 DEF Anchored
  <2>4. CASE \A m \in c[1] .. c[2] : f[m] <= f[c[2]]
    <3>1. c[2] # b
      BY <2>2, <2>4
    <3>2. g[c[2]] = f[c[2]]
      BY <1>1, <1>2, <2>2, <3>1
    <3>3. \A m \in c[1] .. c[2] : g[m] <= g[c[2]]
      BY <2>1, <2>4, <3>2
    <3> QED  BY <3>3 DEF Anchored
  <2> QED  BY <2>3, <2>4 DEF Anchored
<1>4. CASE ~In(a, c) /\ ~In(b, c)
  <2>1. ASSUME NEW m \in c[1] .. c[2]
        PROVE  g[m] = f[m]
    <3>1. In(m, c) /\ m \in 0 .. n - 1
      BY <1>2 DEF In
    <3> QED  BY <1>1, <1>4, <3>1
  <2> QED  BY <1>2, <2>1 DEF Anchored
<1>5. CASE In(a, c) /\ ~In(b, c)
  <2>1. b > c[2] /\ a \in c[1] .. c[2]
    BY <1>2, <1>5 DEF In
  <2> QED  BY <1>2, <2>1
<1>6. CASE ~In(a, c) /\ In(b, c)
  <2>1. a < c[1] /\ b \in c[1] .. c[2]
    BY <1>2, <1>6 DEF In
  <2> QED  BY <1>2, <2>1
<1> QED  BY <1>3, <1>4, <1>5, <1>6

LEMMA SwapElements ==
  ASSUME NEW n \in Nat, NEW f \in [0 .. n - 1 -> Int], NEW g \in [0 .. n - 1 -> Int],
         NEW a \in 0 .. n - 1, NEW b \in 0 .. n - 1,
         Rearranged(f, g)
  PROVE  Rearranged(Swapped(f, a, b), g)
<1>1. PICK p \in [0 .. n - 1 -> 0 .. n - 1] :
        Injective(p) /\ \A k \in 0 .. n - 1 : f[k] = g[p[k]]
  BY DEF Rearranged
<1> DEFINE q == Swapped(p, a, b)
<1>2. /\ q \in [0 .. n - 1 -> 0 .. n - 1]
      /\ q[a] = p[b] /\ q[b] = p[a]
      /\ \A k \in 0 .. n - 1 : k # a /\ k # b => q[k] = p[k]
  BY DEF Swapped
<1>3. /\ Swapped(f, a, b)[a] = f[b] /\ Swapped(f, a, b)[b] = f[a]
      /\ \A k \in 0 .. n - 1 : k # a /\ k # b => Swapped(f, a, b)[k] = f[k]
  BY DEF Swapped
<1> HIDE DEF q
<1>4. Injective(q)
  <2>1. \A k, l \in 0 .. n - 1 : p[k] = p[l] => k = l
    BY <1>1 DEF Injective
  <2>2. \A k \in 0 .. n - 1 :
          \/ k = a /\ q[k] = p[b]
          \/ k = b /\ q[k] = p[a]
          \/ k # a /\ k # b /\ q[k] = p[k]
    BY <1>2
  <2>3. \A k, l \in 0 .. n - 1 : q[k] = q[l] => k = l
    BY <2>1, <2>2
  <2>4. DOMAIN q = 0 .. n - 1
    BY <1>2
  <2> QED  BY <2>3, <2>4 DEF Injective
<1>5. \A k \in 0 .. n - 1 : Swapped(f, a, b)[k] = g[q[k]]
  BY <1>1, <1>2, <1>3
<1> QED  BY <1>2, <1>4, <1>5 DEF Rearranged

(* What a swap of two elements in the wrong order keeps.                   *)
LEMMA SwapOrder ==
  ASSUME NEW n \in Nat, NEW f \in [0 .. n - 1 -> Int], NEW c \in Int \X Int,
         c[1] .. c[2] \subseteq 0 .. n - 1, Separate(f, c),
         NEW a \in c[1] .. c[2], NEW b \in c[1] .. c[2],
         NEW x \in 0 .. n - 1, NEW y \in 0 .. n - 1, x < y,
         ~(In(x, c) /\ In(y, c)), f[x] <= f[y]
  PROVE  Swapped(f, a, b)[x] <= Swapped(f, a, b)[y]
<1> DEFINE g == Swapped(f, a, b)
<1>1. /\ a \in 0 .. n - 1 /\ b \in 0 .. n - 1
      /\ c[1] \in Int /\ c[2] \in Int
      /\ \A k \in 0 .. n - 1, m \in c[1] .. c[2] :
           /\ k < c[1] => f[k] <= f[m]
           /\ k > c[2] => f[m] <= f[k]
  BY DEF Separate
<1>2. /\ g[a] = f[b] /\ g[b] = f[a]
      /\ \A k \in 0 .. n - 1 : k # a /\ k # b => g[k] = f[k]
  BY <1>1 DEF Swapped
<1>q. SUFFICES g[x] <= g[y]
  OBVIOUS
<1> HIDE DEF g
<1>3. CASE ~In(x, c) /\ ~In(y, c)
  <2>1. In(a, c) /\ In(b, c)
    BY <1>1 DEF In
  <2>2. x # a /\ x # b /\ y # a /\ y # b
    BY <1>3, <2>1
  <2> QED  BY <1>2, <2>2
<1>4. CASE In(x, c) /\ ~In(y, c)
  <2>1. y > c[2] /\ y # a /\ y # b /\ x \in c[1] .. c[2]
    BY <1>1, <1>4 DEF In
  <2>2. \E m \in c[1] .. c[2] : g[x] = f[m]
    BY <1>2, <2>1
  <2> QED  BY <1>1, <1>2, <2>1, <2>2
<1>5. CASE ~In(x, c) /\ In(y, c)
  <2>1. x < c[1] /\ x # a /\ x # b /\ y \in c[1] .. c[2]
    BY <1>1, <1>5 DEF In
  <2>2. \E m \in c[1] .. c[2] : g[y] = f[m]
    BY <1>2, <2>1
  <2> QED  BY <1>1, <1>2, <2>1, <2>2
<1> QED  BY <1>3, <1>4, <1>5

------------------------------------------------------------------------------
LEMMA InitIInv == Init => IInv
<1> SUFFICES ASSUME Init PROVE IInv
  OBVIOUS
<1>1. PICK n \in 0 .. MaxLength : Size = 0 .. n - 1 /\ calls = <<<<0, n - 1>>>>
  BY DEF Init
<1>2. n \in Nat /\ n \in Int /\ list = input /\ DOMAIN input = 0 .. n - 1
  BY <1>1, QuickSortAssumption DEF Init, Size
<1>3. \E q \in 0 .. MaxLength : input \in [0 .. q - 1 -> Values]
  BY DEF Init, Lists
<1>4. input \in [0 .. n - 1 -> Int]
  BY <1>2, <1>3, QuickSortAssumption
<1>5. /\ DOMAIN calls = {1} /\ calls \in Seq(Int \X Int)
      /\ calls[1] = <<0, n - 1>> /\ calls[1][1] = 0 /\ calls[1][2] = n - 1
  BY <1>1, <1>2
<1>6. TypeInv
  <2>1. input \in [0 .. n - 1 -> Int] /\ list \in [0 .. n - 1 -> Int]
    BY <1>2, <1>4
  <2>2. pc \in {"call", "split"} /\ pivot \in Int /\ i \in Int /\ j \in Int
    BY DEF Init
  <2> QED  BY <1>2, <1>5, <2>1, <2>2 DEF TypeInv
<1>7. CallsInv
  BY <1>1, <1>2, <1>5 DEF CallsInv, Fine, Whole, Separate
<1>8. OrderInv
  BY <1>1, <1>2, <1>5 DEF OrderInv, In
<1>9. SplitInv
  BY DEF Init, SplitInv
<1>10. ElementsInv
  <2> DEFINE p == [a \in 0 .. n - 1 |-> a]
  <2>1. p \in [0 .. n - 1 -> 0 .. n - 1] /\ Injective(p)
    BY DEF Injective
  <2>2. \A a \in 0 .. n - 1 : list[a] = input[p[a]]
    BY <1>2
  <2> QED  BY <1>2, <2>1, <2>2 DEF ElementsInv, Rearranged
<1> QED  BY <1>6, <1>7, <1>8, <1>9, <1>10 DEF IInv

(* The invariant depends on the list and the calls alone but for SplitInv. *)
LEMMA ReturnIInv == IInv /\ Return => IInv'
<1> SUFFICES ASSUME IInv, Return PROVE IInv'
  OBVIOUS
<1> USE DEF IInv
<1>1. /\ calls # <<>> /\ calls' = Tail(calls) /\ len - start <= 1
      /\ input' = input /\ list' = list /\ pc' = "call"
      /\ pivot' = pivot /\ i' = i /\ j' = j
  BY DEF Return, Short
<1>2. /\ calls' \in Seq(Int \X Int)
      /\ \A k \in DOMAIN calls' : k + 1 \in DOMAIN calls /\ calls'[k] = calls[k + 1]
      /\ \A k \in DOMAIN calls : k # 1 => k - 1 \in DOMAIN calls' /\ calls'[k - 1] = calls[k]
  <2>1. TypeInv /\ calls # <<>>
    BY <1>1
  <2>2. /\ Len(calls) \in Nat /\ DOMAIN calls = 1 .. Len(calls)
        /\ calls' \in Seq(Int \X Int)
        /\ DOMAIN calls' = 1 .. Len(calls) - 1
        /\ \A k \in 1 .. Len(calls) - 1 : calls'[k] = calls[k + 1]
        /\ \A k \in 2 .. Len(calls) : calls'[k - 1] = calls[k]
    BY <1>1, <2>1, CallFacts
  <2>3. \A k \in DOMAIN calls : k # 1 => k \in 2 .. Len(calls)
    BY <2>2
  <2>4. \A k \in 2 .. Len(calls) : k - 1 \in DOMAIN calls'
    BY <2>2
  <2>5. \A k \in DOMAIN calls' : k + 1 \in DOMAIN calls
    BY <2>2
  <2> QED  BY <2>2, <2>3, <2>4, <2>5
<1>3. TypeInv'
  BY <1>1, <1>2 DEF TypeInv
<1>4. CallsInv'
  BY <1>1, <1>2 DEF CallsInv
<1>5. OrderInv'
  <2> SUFFICES ASSUME Size # 0 .. 1, NEW a \in Size, NEW b \in Size, a < b
               PROVE  \/ list[a] <= list[b]
                      \/ \E k \in DOMAIN calls' : In(a, calls'[k]) /\ In(b, calls'[k])
    BY <1>1 DEF OrderInv, Size
  <2>1. PICK n \in Nat : list \in [0 .. n - 1 -> Int] /\ Size = 0 .. n - 1
    BY DEF TypeInv, Size
  <2>2. CASE \E k \in DOMAIN calls : k # 1 /\ In(a, calls[k]) /\ In(b, calls[k])
    BY <1>2, <2>2
  <2>3. CASE In(a, calls[1]) /\ In(b, calls[1])
    <3>1. start \in Int /\ len \in Int /\ 1 \in DOMAIN calls
      BY <1>1, CallFacts
    <3>2. start = a /\ len = b /\ b = a + 1
      BY <1>1, <2>1, <2>3, <3>1 DEF In, start, len
    <3>3. ~Whole(list, calls[1])
      BY <2>1, <3>2 DEF Whole, start, len
    <3>4. Anchored(list, calls[1])
      BY <3>1, <3>3 DEF CallsInv, Fine
    <3> QED  BY <2>1, <3>2, <3>4 DEF Anchored, start, len
  <2> QED  BY <2>2, <2>3 DEF OrderInv
<1>6. SplitInv' /\ ElementsInv'
  BY <1>1 DEF SplitInv, ElementsInv, Size
<1> QED  BY <1>3, <1>4, <1>5, <1>6

(* A step that moves neither the list nor the calls.                       *)
LEMMA ScanIInv ==
  ASSUME IInv, UNCHANGED <<input, list, calls>>,
         pc' = "split", pivot' \in Int, i' \in Int, j' \in Int, SplitInv'
  PROVE  IInv'
<1>1. TypeInv'
  BY DEF IInv, TypeInv
<1>2. CallsInv' /\ OrderInv' /\ ElementsInv'
  BY DEF IInv, CallsInv, OrderInv, ElementsInv, Size
<1> QED  BY <1>1, <1>2 DEF IInv

LEMMA EnterSplitIInv == IInv /\ EnterSplit => IInv'
<1> SUFFICES ASSUME IInv, EnterSplit PROVE IInv'
  OBVIOUS
<1>1. /\ calls # <<>> /\ ~Short /\ TypeInv
      /\ UNCHANGED <<input, list, calls>>
      /\ pivot' = list[(start + len) \div 2] /\ i' = start /\ j' = len
      /\ pc' = "split"
  BY DEF EnterSplit, IInv
<1>2. start \in Int /\ len \in Int /\ len - start > 1 /\ 1 \in DOMAIN calls
  BY <1>1, CallFacts DEF Short
<1>3. PICK n \in Nat : list \in [0 .. n - 1 -> Int]
  BY <1>1 DEF TypeInv
<1>4. start .. len \subseteq 0 .. n - 1
  BY <1>2, <1>3 DEF IInv, CallsInv, Fine, start, len
<1>5. (start + len) \div 2 \in start .. len
  BY <1>1, <1>2
<1>6. pivot' \in Int
  BY <1>1, <1>3, <1>4, <1>5
<1>7. SplitInv'
  <2>1. start' = start /\ len' = len /\ list' = list
    BY <1>1 DEF start, len
  <2> QED  BY <1>1, <1>2, <1>5, <2>1 DEF SplitInv
<1> QED  BY <1>1, <1>2, <1>6, <1>7, ScanIInv

(* What the invariant says while a range is scanned.                       *)
LEMMA SplitFacts ==
  ASSUME IInv, pc = "split"
  PROVE  /\ TypeInv /\ calls # <<>> /\ 1 \in DOMAIN calls
         /\ start \in Int /\ len \in Int /\ i \in Int /\ j \in Int /\ pivot \in Int
         /\ start <= i /\ i <= j /\ j <= len
         /\ start .. len \subseteq Size
         /\ \E n \in Nat : Size = 0 .. n - 1 /\ list \in [0 .. n - 1 -> Int]
<1>1. TypeInv /\ calls # <<>> /\ 1 \in DOMAIN calls
  BY CallFacts DEF IInv, SplitInv
<1>2. start \in Int /\ len \in Int /\ i \in Int /\ j \in Int /\ pivot \in Int
  BY <1>1, CallFacts DEF TypeInv
<1>3. start <= i /\ i <= j /\ j <= len
  BY <1>2 DEF IInv, SplitInv
<1>4. PICK n \in Nat : Size = 0 .. n - 1 /\ list \in [0 .. n - 1 -> Int]
  BY <1>1 DEF TypeInv, Size
<1>5. start .. len \subseteq Size
  BY <1>1, <1>4 DEF IInv, CallsInv, Fine, start, len
<1> QED  BY <1>1, <1>2, <1>3, <1>4, <1>5

LEMMA ScansIInv == IInv /\ (ScanUp \/ ScanDown) => IInv'
<1> SUFFICES ASSUME IInv, ScanUp \/ ScanDown PROVE IInv'
  OBVIOUS
<1>1. pc = "split" /\ UNCHANGED <<input, list, calls, pc, pivot>>
  BY DEF ScanUp, ScanDown
<1>2. /\ start \in Int /\ len \in Int /\ i \in Int /\ j \in Int /\ pivot \in Int
      /\ start <= i /\ i <= j /\ j <= len /\ calls # <<>>
      /\ start' = start /\ len' = len
  BY <1>1, SplitFacts DEF start, len
<1>3. PICK k \in i .. j : list[k] = pivot
  BY <1>1 DEF IInv, SplitInv
<1>4. /\ \A a \in start .. i - 1 : list[a] < pivot
      /\ \A a \in j + 1 .. len : pivot < list[a]
  BY <1>1 DEF IInv, SplitInv
<1>5. CASE ScanUp
  <2>1. list[i] < pivot /\ i' = i + 1 /\ j' = j
    BY <1>5 DEF ScanUp
  <2>2. k \in i' .. j' /\ start <= i'
    BY <1>2, <1>3, <2>1
  <2>3. \A a \in start .. i' - 1 : list[a] < pivot
    BY <1>2, <1>4, <2>1
  <2>4. SplitInv'
    BY <1>1, <1>2, <1>3, <1>4, <2>1, <2>2, <2>3 DEF SplitInv
  <2> QED  BY <1>1, <1>2, <2>1, <2>4, ScanIInv
<1>6. CASE ScanDown
  <2>1. list[j] > pivot /\ j' = j - 1 /\ i' = i
    BY <1>6 DEF ScanDown
  <2>2. k \in i' .. j' /\ j' <= len
    BY <1>2, <1>3, <2>1
  <2>3. \A a \in j' + 1 .. len : pivot < list[a]
    <3>1. SUFFICES ASSUME NEW a \in j' + 1 .. len PROVE pivot < list[a]
      OBVIOUS
    <3>2. a = j \/ a \in j + 1 .. len
      BY <1>2, <2>1
    <3>3. list[j] \in Int
      BY <1>1, <1>2, SplitFacts
    <3> QED  BY <1>2, <1>4, <2>1, <3>2, <3>3
  <2>4. SplitInv'
    BY <1>1, <1>2, <1>3, <1>4, <2>1, <2>2, <2>3 DEF SplitInv
  <2> QED  BY <1>1, <1>2, <2>1, <2>4, ScanIInv
<1> QED  BY <1>5, <1>6

LEMMA SwapIInv == IInv /\ Swap => IInv'
<1> SUFFICES ASSUME IInv, Swap PROVE IInv'
  OBVIOUS
<1>1. /\ pc = "split" /\ list[i] >= pivot /\ list[j] <= pivot /\ i < j
      /\ list' = Swapped(list, i, j)
      /\ UNCHANGED <<input, calls, pc, pivot, i, j>>
  BY DEF Swap, BothStopped, Swapped
<1>2. /\ TypeInv /\ calls # <<>> /\ 1 \in DOMAIN calls
      /\ start \in Int /\ len \in Int /\ i \in Int /\ j \in Int /\ pivot \in Int
      /\ start <= i /\ i <= j /\ j <= len /\ start .. len \subseteq Size
      /\ start' = start /\ len' = len
  BY <1>1, SplitFacts DEF start, len
<1>3. PICK n \in Nat : Size = 0 .. n - 1 /\ list \in [0 .. n - 1 -> Int]
  BY <1>1, SplitFacts
<1>4. i \in 0 .. n - 1 /\ j \in 0 .. n - 1 /\ list[i] \in Int /\ list[j] \in Int
  <2>1. i \in start .. len /\ j \in start .. len
    BY <1>2
  <2> QED  BY <1>2, <1>3, <2>1
<1>5. CASE list[i] = list[j]
  <2>1. list' = list
    BY <1>1, <1>3, <1>4, <1>5, SwapNothing
  <2>2. SplitInv'
    BY <1>1, <2>1 DEF SplitInv, IInv, start, len
  <2> QED  BY <1>1, <1>2, <2>1, <2>2, ScanIInv
<1>6. CASE list[i] # list[j]
  <2>1. list[i] > list[j]
    BY <1>1, <1>2, <1>4, <1>6
  <2>2. /\ list' \in [0 .. n - 1 -> Int]
        /\ list'[i] = list[j] /\ list'[j] = list[i]
        /\ \A k \in 0 .. n - 1 : k # i /\ k # j => list'[k] = list[k]
        /\ DOMAIN list' = DOMAIN list
    BY <1>1, <1>3, <1>4 DEF Swapped
  <2>3. TypeInv'
    <3>1. input' \in [0 .. n - 1 -> Int]
      BY <1>1, <1>2, <1>3 DEF TypeInv, Size
    <3> QED  BY <1>1, <1>2, <2>2, <3>1 DEF TypeInv
  <2>4. CallsInv'
    <3>1. ASSUME NEW k \in DOMAIN calls
          PROVE  Fine(list', calls[k])
      <4>1. /\ calls[k] \in Int \X Int /\ Separate(list, calls[k])
            /\ calls[k][1] .. calls[k][2] \subseteq 0 .. n - 1
            /\ Whole(list, calls[k]) \/ Anchored(list, calls[k])
        BY <1>2, <1>3, CallFacts DEF IInv, CallsInv, Fine
      <4>2. Separate(list', calls[k])
        BY <1>1, <1>3, <1>4, <2>1, <4>1, SwapSeparate
      <4>3. Anchored(list, calls[k]) => Anchored(list', calls[k])
        BY <1>1, <1>3, <1>4, <2>1, <4>1, SwapAnchored
      <4>4. Whole(list, calls[k]) => Whole(list', calls[k])
        BY <2>2 DEF Whole
      <4> QED  BY <1>3, <2>2, <4>1, <4>2, <4>3, <4>4 DEF Fine
    <3> QED  BY <1>1, <3>1 DEF CallsInv
  <2>5. OrderInv'
    <3>1. SUFFICES ASSUME Size # 0 .. 1, NEW x \in 0 .. n - 1, NEW y \in 0 .. n - 1,
                          x < y, ~(In(x, calls[1]) /\ In(y, calls[1])),
                          list[x] <= list[y]
                   PROVE  list'[x] <= list'[y]
      BY <1>1, <1>2, <1>3 DEF IInv, OrderInv, Size
    <3>2. /\ calls[1] \in Int \X Int /\ Separate(list, calls[1])
          /\ calls[1][1] .. calls[1][2] \subseteq 0 .. n - 1
      BY <1>2, <1>3, CallFacts DEF IInv, CallsInv, Fine
    <3>3. i \in calls[1][1] .. calls[1][2] /\ j \in calls[1][1] .. calls[1][2]
      BY <1>2 DEF start, len
    <3> QED  BY <1>1, <1>3, <3>1, <3>2, <3>3, SwapOrder
  <2>6. SplitInv'
    <3>1. PICK k \in i .. j : list[k] = pivot
      BY <1>1 DEF IInv, SplitInv
    <3>2. k \in 0 .. n - 1
      BY <1>2, <1>4, <3>1
    <3>3. \E q \in i .. j : list'[q] = pivot
      <4>1. i \in i .. j /\ j \in i .. j
        BY <1>2
      <4> QED  BY <2>2, <3>1, <3>2, <4>1
    <3>4. /\ \A a \in start .. i - 1 : list'[a] < pivot
          /\ \A a \in j + 1 .. len : pivot < list'[a]
      <4>1. \A a \in (start .. i - 1) \cup (j + 1 .. len) :
               a \in start .. len /\ a # i /\ a # j
        BY <1>2
      <4>2. \A a \in (start .. i - 1) \cup (j + 1 .. len) : list'[a] = list[a]
        BY <1>2, <1>3, <2>2, <4>1
      <4> QED  BY <1>1, <4>2 DEF IInv, SplitInv
    <3> QED  BY <1>1, <1>2, <3>3, <3>4 DEF SplitInv
  <2>7. ElementsInv'
    <3>1. input \in [0 .. n - 1 -> Int] /\ input' = input /\ Rearranged(list, input)
      BY <1>1, <1>3, <1>4 DEF IInv, TypeInv, ElementsInv, Size, Swap
    <3>2. Rearranged(list', input)
      BY <1>1, <1>3, <1>4, <3>1, SwapElements
    <3> QED  BY <3>1, <3>2 DEF ElementsInv
  <2> QED  BY <2>3, <2>4, <2>5, <2>6, <2>7 DEF IInv
<1> QED  BY <1>5, <1>6

(* The new calls in front of the other ones.                               *)
LEMMA LeaveCalls ==
  ASSUME TypeInv, calls # <<>>, j \in Int,
         calls' = <<<<start, j>>, <<j, len>>>> \o Tail(calls)
  PROVE  /\ calls' \in Seq(Int \X Int)
         /\ 1 \in DOMAIN calls' /\ calls'[1] = <<start, j>>
         /\ 2 \in DOMAIN calls' /\ calls'[2] = <<j, len>>
         /\ \A k \in DOMAIN calls' :
              k = 1 \/ k = 2 \/ (k - 1 \in DOMAIN calls /\ calls'[k] = calls[k - 1])
         /\ \A k \in DOMAIN calls :
              k # 1 => k + 1 \in DOMAIN calls' /\ calls'[k + 1] = calls[k]
<1> DEFINE new  == <<<<start, j>>, <<j, len>>>>
           rest == Tail(calls)
<1>1. /\ Len(calls) \in Nat /\ Len(calls) > 0 /\ DOMAIN calls = 1 .. Len(calls)
      /\ start \in Int /\ len \in Int
      /\ rest \in Seq(Int \X Int) /\ Len(rest) = Len(calls) - 1
      /\ \A k \in 1 .. Len(calls) - 1 : rest[k] = calls[k + 1]
  BY CallFacts
<1>2. new \in Seq(Int \X Int) /\ Len(new) = 2
      /\ new[1] = <<start, j>> /\ new[2] = <<j, len>>
  BY <1>1
<1> HIDE DEF new, rest
<1>3. /\ calls' \in Seq(Int \X Int) /\ Len(calls') = Len(calls) + 1
      /\ DOMAIN calls' = 1 .. Len(calls) + 1
      /\ calls'[1] = new[1] /\ calls'[2] = new[2]
      /\ \A k \in 3 .. Len(calls) + 1 : calls'[k] = rest[k - 2]
  <2>1. calls' = new \o rest
    BY DEF new, rest
  <2>2. /\ new \o rest \in Seq(Int \X Int)
        /\ Len(new \o rest) = Len(new) + Len(rest)
        /\ \A k \in 1 .. Len(new) + Len(rest) :
             (new \o rest)[k] = IF k <= Len(new) THEN new[k] ELSE rest[k - Len(new)]
    BY <1>1, <1>2, ConcatProperties
  <2>3. Len(new) + Len(rest) = Len(calls) + 1 /\ Len(new) = 2
    BY <1>1, <1>2
  <2>4. DOMAIN (new \o rest) = 1 .. Len(calls) + 1
    BY <2>2, <2>3
  <2>5. ASSUME NEW k \in 3 .. Len(calls) + 1
        PROVE  (new \o rest)[k] = rest[k - 2]
    <3>1. k \in 1 .. Len(calls) + 1 /\ ~(k <= 2)
      BY <1>1
    <3> QED  BY <2>2, <2>3, <3>1
  <2>6. (new \o rest)[1] = new[1] /\ (new \o rest)[2] = new[2]
    BY <1>1, <2>2, <2>3
  <2> QED  BY <2>1, <2>2, <2>3, <2>4, <2>5, <2>6
<1>4. ASSUME NEW k \in 3 .. Len(calls) + 1
      PROVE  k - 1 \in DOMAIN calls /\ calls'[k] = calls[k - 1]
  <2>1. k - 2 \in 1 .. Len(calls) - 1 /\ (k - 2) + 1 = k - 1
    BY <1>1
  <2> QED  BY <1>1, <1>3, <2>1
<1>5. ASSUME NEW k \in 2 .. Len(calls)
      PROVE  k + 1 \in DOMAIN calls' /\ calls'[k + 1] = calls[k]
  <2> DEFINE q == k + 1
  <2>1. q \in 3 .. Len(calls) + 1 /\ q - 1 = k
    BY <1>1
  <2>2. calls'[q] = calls[q - 1]
    BY <1>4, <2>1
  <2> QED  BY <1>1, <1>3, <2>1, <2>2
<1>6. \A k \in DOMAIN calls' : k = 1 \/ k = 2 \/ k \in 3 .. Len(calls) + 1
  <2>1. \A k \in 1 .. Len(calls) + 1 : k = 1 \/ k = 2 \/ k \in 3 .. Len(calls) + 1
    BY <1>1
  <2> QED  BY <1>3, <2>1
<1>7. \A k \in DOMAIN calls : k # 1 => k \in 2 .. Len(calls)
  BY <1>1
<1>8. 1 \in DOMAIN calls' /\ 2 \in DOMAIN calls'
  BY <1>1, <1>3
<1> QED  BY <1>2, <1>3, <1>4, <1>5, <1>6, <1>7, <1>8

LEMMA LeaveSplitIInv == IInv /\ LeaveSplit => IInv'
<1> SUFFICES ASSUME IInv, LeaveSplit PROVE IInv'
  OBVIOUS
<1>1. /\ pc = "split" /\ i >= j /\ pc' = "call"
      /\ calls' = <<<<start, j>>, <<j, len>>>> \o Tail(calls)
      /\ UNCHANGED <<input, list, pivot, i, j>>
  BY DEF LeaveSplit, BothStopped
<1>2. /\ TypeInv /\ calls # <<>> /\ 1 \in DOMAIN calls
      /\ start \in Int /\ len \in Int /\ i \in Int /\ j \in Int /\ pivot \in Int
      /\ start <= i /\ i <= j /\ j <= len
  BY <1>1, SplitFacts
<1>3. PICK n \in Nat : Size = 0 .. n - 1 /\ list \in [0 .. n - 1 -> Int]
  BY <1>1, SplitFacts
<1>4. /\ calls' \in Seq(Int \X Int)
      /\ 1 \in DOMAIN calls' /\ calls'[1] = <<start, j>>
      /\ 2 \in DOMAIN calls' /\ calls'[2] = <<j, len>>
      /\ \A k \in DOMAIN calls' :
           k = 1 \/ k = 2 \/ (k - 1 \in DOMAIN calls /\ calls'[k] = calls[k - 1])
      /\ \A k \in DOMAIN calls :
           k # 1 => k + 1 \in DOMAIN calls' /\ calls'[k + 1] = calls[k]
  BY <1>1, <1>2, LeaveCalls
(* The scans met at the pivot: what is left of it is less, the rest more.  *)
<1>5. /\ list[j] = pivot
      /\ \A a \in start .. j - 1 : list[a] < list[j]
      /\ \A a \in j + 1 .. len : list[j] < list[a]
  <2>1. i = j
    BY <1>1, <1>2
  <2> QED  BY <1>1, <1>2, <2>1 DEF IInv, SplitInv
<1>6. /\ start .. len \subseteq 0 .. n - 1
      /\ \A m \in start .. len, b \in 0 .. n - 1 :
           (b < start => list[b] <= list[m]) /\ (b > len => list[m] <= list[b])
  BY <1>2, <1>3 DEF IInv, CallsInv, Fine, Separate, start, len
<1>7. /\ j \in start .. len
      /\ \A a \in start .. len : a \in Int /\ list[a] \in Int
      /\ \A a \in 0 .. n - 1 : a \in Int /\ list[a] \in Int
      /\ DOMAIN list = 0 .. n - 1
  <2>1. j \in start .. len
    BY <1>2
  <2>2. \A a \in 0 .. n - 1 : a \in Int /\ list[a] \in Int
    BY <1>3
  <2>3. \A a \in start .. len : a \in 0 .. n - 1
    BY <1>6
  <2> QED  BY <1>3, <2>1, <2>2, <2>3
<1>8. Fine(list, <<start, j>>)
  <2>1. start .. j \subseteq 0 .. n - 1 /\ start .. j \subseteq start .. len
    BY <1>2, <1>6
  <2>2. \A m \in start .. j : list[m] <= list[j]
    <3>1. \A m \in start .. j : m = j \/ m \in start .. j - 1
      BY <1>2
    <3> QED  BY <1>5, <1>7, <2>1, <3>1
  <2>3. ASSUME NEW m \in start .. j, NEW b \in 0 .. n - 1
        PROVE  (b < start => list[b] <= list[m]) /\ (b > j => list[m] <= list[b])
    <3>1. b > j => b \in j + 1 .. len \/ b > len
      BY <1>2, <1>7
    <3>2. b \in j + 1 .. len => list[m] <= list[b]
      BY <1>5, <1>6, <1>7, <2>1, <2>2
    <3> QED  BY <1>6, <2>1, <3>1, <3>2
  <2> QED  BY <1>7, <2>1, <2>2, <2>3 DEF Fine, Separate, Anchored
<1>9. Fine(list, <<j, len>>)
  <2>1. j .. len \subseteq 0 .. n - 1 /\ j .. len \subseteq start .. len
    BY <1>2, <1>6
  <2>2. \A m \in j .. len : list[j] <= list[m]
    <3>1. \A m \in j .. len : m = j \/ m \in j + 1 .. len
      BY <1>2
    <3> QED  BY <1>5, <1>7, <2>1, <3>1
  <2>3. ASSUME NEW m \in j .. len, NEW b \in 0 .. n - 1
        PROVE  (b < j => list[b] <= list[m]) /\ (b > len => list[m] <= list[b])
    <3>1. b < j => b \in start .. j - 1 \/ b < start
      BY <1>2, <1>7
    <3>2. b \in start .. j - 1 => list[b] <= list[m]
      BY <1>5, <1>6, <1>7, <2>1, <2>2
    <3> QED  BY <1>6, <2>1, <3>1, <3>2
  <2> QED  BY <1>7, <2>1, <2>2, <2>3 DEF Fine, Separate, Anchored
<1>10. TypeInv'
  BY <1>1, <1>2, <1>4 DEF TypeInv
<1>11. CallsInv'
  <2>1. ASSUME NEW k \in DOMAIN calls'
        PROVE  Fine(list, calls'[k])
    BY <1>4, <1>8, <1>9 DEF IInv, CallsInv
  <2> QED  BY <1>1, <2>1 DEF CallsInv
<1>12. OrderInv'
  <2>1. SUFFICES ASSUME NEW a \in 0 .. n - 1, NEW b \in 0 .. n - 1, a < b,
                        NEW k \in DOMAIN calls, In(a, calls[k]), In(b, calls[k])
                 PROVE  \/ list[a] <= list[b]
                        \/ \E q \in DOMAIN calls' : In(a, calls'[q]) /\ In(b, calls'[q])
    BY <1>1, <1>3 DEF IInv, OrderInv, Size
  <2>2. CASE k # 1
    BY <1>4, <2>1, <2>2
  <2>3. CASE k = 1
    <3>1. start <= a /\ b <= len
      BY <2>1, <2>3 DEF In, start, len
    <3>2. CASE b <= j
      <4>1. In(a, <<start, j>>) /\ In(b, <<start, j>>)
        BY <1>2, <1>7, <2>1, <3>1, <3>2 DEF In
      <4> QED  BY <1>4, <4>1
    <3>3. CASE j <= a
      <4>1. In(a, <<j, len>>) /\ In(b, <<j, len>>)
        BY <1>2, <1>7, <2>1, <3>1, <3>3 DEF In
      <4> QED  BY <1>4, <4>1
    <3>4. CASE a < j /\ j < b
      <4>1. a \in start .. j - 1 /\ b \in j + 1 .. len
        BY <1>2, <1>7, <3>1, <3>4
      <4> QED  BY <1>5, <1>7, <4>1
    <3> QED  BY <1>2, <1>7, <3>2, <3>3, <3>4
  <2> QED  BY <2>2, <2>3
<1>13. SplitInv' /\ ElementsInv'
  BY <1>1 DEF IInv, SplitInv, ElementsInv
<1> QED  BY <1>10, <1>11, <1>12, <1>13 DEF IInv

LEMMA NextIInv == IInv /\ [Next]_vars => IInv'
<1> SUFFICES ASSUME IInv, [Next]_vars PROVE IInv'
  OBVIOUS
<1>1. CASE Return
  BY <1>1, ReturnIInv
<1>2. CASE EnterSplit
  BY <1>2, EnterSplitIInv
<1>3. CASE ScanUp \/ ScanDown
  BY <1>3, ScansIInv
<1>4. CASE Swap
  BY <1>4, SwapIInv
<1>5. CASE LeaveSplit
  BY <1>5, LeaveSplitIInv
<1>6. CASE UNCHANGED vars
  BY <1>6 DEF vars, IInv, TypeInv, CallsInv, OrderInv, SplitInv, ElementsInv,
              Size, start, len
<1> QED  BY <1>1, <1>2, <1>3, <1>4, <1>5, <1>6 DEF Next

------------------------------------------------------------------------------
LEMMA Invariance == Spec => []IInv
BY InitIInv, NextIInv, PTL DEF Spec

(* The scans of quick_split never leave the range they were given, nor the *)
(* list, although nothing in them tests for its ends.                      *)
THEOREM NeverOutside == Spec => []ScansStayInside
<1>1. IInv => ScansStayInside
  <2> SUFFICES ASSUME IInv, pc = "split" PROVE
        /\ {start, len, i, j} \subseteq Size
        /\ start <= i /\ i <= len
        /\ start <= j /\ j <= len
    BY DEF ScansStayInside
  <2>1. /\ start \in Int /\ len \in Int /\ i \in Int /\ j \in Int
        /\ start <= i /\ i <= j /\ j <= len /\ start .. len \subseteq Size
    BY SplitFacts
  <2>2. {start, len, i, j} \subseteq start .. len
    BY <2>1
  <2> QED  BY <2>1, <2>2
<1> QED  BY <1>1, Invariance, PTL

(* The calls still to be made never concern elements that belong apart.    *)
THEOREM AlwaysSeparate == Spec => []RangesSeparate
<1>1. IInv => RangesSeparate
  BY DEF IInv, CallsInv, Fine, RangesSeparate
<1> QED  BY <1>1, Invariance, PTL

(* If quick_sort returns, the list has the elements it had and is in       *)
(* order, whatever it held, unless it has just two elements.               *)
THEOREM AlwaysSorts == Spec => []Sorts
<1>1. IInv => Sorts
  <2> SUFFICES ASSUME IInv, calls = <<>>
               PROVE  /\ Size # 0 .. 1 => Sorted(list)
                      /\ Rearranged(list, input)
    BY DEF Sorts, Done
  <2>1. DOMAIN list = Size
    BY DEF IInv, TypeInv, Size
  <2>2. DOMAIN calls = {}
    OBVIOUS
  <2>3. Size # 0 .. 1 => \A a, b \in Size : a < b => list[a] <= list[b]
    BY <2>2 DEF IInv, OrderInv
  <2> QED  BY <2>1, <2>3 DEF IInv, ElementsInv, Sorted
<1> QED  BY <1>1, Invariance, PTL
=============================================================================

------------------------------- MODULE MergeSort -------------------------------
(***************************************************************************)
(* merge_sort of libft: two arrays that change places at each level of the *)
(* recursion, one read while the other is written.                         *)
(*                                                                         *)
(* An array is a function from indices, from 0; an element that was never  *)
(* written is not in its domain.                                           *)
(***************************************************************************)
EXTENDS MemOps, OneCall

CONSTANTS
  Values,   \* the elements
  MAX_SIZE  \* the length of the longest array

ASSUME MergeSortAssumption == Values \subseteq Int /\ MAX_SIZE \in Nat

(* The next element comes from the left run.                               *)
TakeLeft(from, i, middle, m, end) ==
  i < middle /\ (m >= end \/ from[i] <= from[m])

(* The elements from index j on, from the runs at i and m.                 *)
RECURSIVE MergeRest(_, _, _, _, _, _, _)
MergeRest(from, to, i, middle, m, end, j) ==
  IF j >= end
  THEN to
  ELSE IF TakeLeft(from, i, middle, m, end)
       THEN MergeRest(from, Store(to, j, from[i]), i + 1, middle, m, end, j + 1)
       ELSE MergeRest(from, Store(to, j, from[m]), i, middle, m + 1, end, j + 1)

(* The runs of from before and behind the middle of i .. n - 1 become one  *)
(* run of to.                                                              *)
merge(from, to, i, n) ==
  LET middle == (n + i) \div 2
  IN MergeRest(from, to, i, middle, middle, n, i)

(* Seeded fault: the halves are sorted into the array they are read from.  *)
RECURSIVE merge_split_SameArray(_, _, _, _)
merge_split_SameArray(to, from, i, n) ==
  LET m == (n + i) \div 2
      left == merge_split_SameArray(to, from, i, m)
      right == merge_split_SameArray(left.to, left.from, m, n)
  IN IF n - i <= 1
     THEN [to |-> to, from |-> from]
     ELSE [right EXCEPT !.to = merge(right.from, right.to, i, n)]

(* Both arrays after i .. n - 1 were sorted into the first: the halves are *)
(* sorted into the other one, and merged from there.                       *)
RECURSIVE merge_split(_, _, _, _)
merge_split(to, from, i, n) ==
  LET m == (n + i) \div 2
      left == merge_split(from, to, i, m)
      right == merge_split(left.to, left.from, m, n)
  IN IF n - i <= 1
     THEN [to |-> to, from |-> from]
     ELSE [to |-> merge(right.to, right.from, i, n), from |-> right.to]

Size(array) == Cardinality(DOMAIN array)

Copied(from, to) ==
  [k \in DOMAIN from \cup DOMAIN to |-> IF k \in DOMAIN from THEN from[k] ELSE to[k]]

merge_sort(list, list_temp) ==
  merge_split(list, Copied(list, list_temp), 0, Size(list))

(* The caller's array, and the second one it provides: any.                *)
ArraysReady ==
  Ready("arrays", {[to |-> list, from |-> [k \in {} |-> 0]] :
                     list \in UNION {[0 .. n - 1 -> Values] : n \in 0 .. MAX_SIZE}})

SortCalls ==
  /\ call = NoCall("arrays")
  /\ Called([fn |-> "merge_sort"], merge_sort(before.to, before.from), 0)

------------------------------------------------------------------------------
Count(array, x) == Cardinality({k \in DOMAIN array : array[k] = x})

(* Although the halves are sorted in the other array, the caller's ends up *)
(* with its own elements, each as often as before, in order; the other one *)
(* is not written beyond them.                                             *)
SortsItsElements ==
  call.fn = "merge_sort" =>
    /\ DOMAIN after.to = DOMAIN before.to /\ DOMAIN after.from = DOMAIN before.to
    /\ \A x \in Values : Count(after.to, x) = Count(before.to, x)
    /\ \A k \in DOMAIN after.to : k > 0 => after.to[k - 1] <= after.to[k]
=============================================================================

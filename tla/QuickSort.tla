------------------------------ MODULE QuickSort -------------------------------
(***************************************************************************)
(* quick_sort of libft, step by step.  Its third argument len is the index *)
(* of the last element.  calls holds the calls that have not begun yet or, *)
(* as its first element, the one that is being executed.                   *)
(***************************************************************************)
EXTENDS Integers, Sequences

CONSTANTS
  MaxLength,  \* no list is longer
  Values      \* the elements of the lists

ASSUME QuickSortAssumption == MaxLength \in Nat /\ Values \subseteq Int

VARIABLES
  input,  \* the list as it was passed
  list,   \* the list as it is
  calls,  \* calls to make: <<start, len>>
  pc,     \* "call", or "split" while quick_split scans the first call's range
  pivot, i, j  \* the locals of quick_split

vars == <<input, list, calls, pc, pivot, i, j>>

Lists == UNION {[0 .. n - 1 -> Values] : n \in 0 .. MaxLength}
Size  == DOMAIN input  \* the indices of the list

start == calls[1][1]
len   == calls[1][2]

Init ==
  /\ input \in Lists
  /\ list = input
  /\ \E n \in 0 .. MaxLength :
       Size = 0 .. n - 1 /\ calls = <<<<0, n - 1>>>>
  /\ pc = "call"
  /\ pivot = 0 /\ i = 0 /\ j = 0

(* Seeded fault: a range of two is split. *)
Short_One == len - start < 1

(* Seeded fault: a range of three is left alone. *)
Short_Three == len - start <= 2

(* A range this short is left as it is.                                    *)
Short == len - start <= 1

Return ==
  /\ pc = "call" /\ calls # <<>> /\ Short
  /\ calls' = Tail(calls)
  /\ UNCHANGED <<input, list, pc, pivot, i, j>>

EnterSplit ==
  /\ pc = "call" /\ calls # <<>> /\ ~Short
  /\ pivot' = list[(start + len) \div 2]
  /\ i' = start /\ j' = len
  /\ pc' = "split"
  /\ UNCHANGED <<input, list, calls>>

(* Seeded fault: elements equal to the pivot are passed over, too. *)
ScanUp_Equal ==
  /\ pc = "split" /\ list[i] <= pivot
  /\ i' = i + 1
  /\ UNCHANGED <<input, list, calls, pc, pivot, j>>

(* while (list[i] < pivot) i++                                             *)
ScanUp ==
  /\ pc = "split" /\ list[i] < pivot
  /\ i' = i + 1
  /\ UNCHANGED <<input, list, calls, pc, pivot, j>>

(* while (list[j] > pivot) j--                                             *)
ScanDown ==
  /\ pc = "split" /\ list[i] >= pivot /\ list[j] > pivot
  /\ j' = j - 1
  /\ UNCHANGED <<input, list, calls, pc, pivot, i>>

BothStopped == pc = "split" /\ list[i] >= pivot /\ list[j] <= pivot

Swap ==
  /\ BothStopped /\ i < j
  /\ list' = [list EXCEPT ![i] = list[j], ![j] = list[i]]
  /\ UNCHANGED <<input, calls, pc, pivot, i, j>>

(* Seeded fault: the split is where the pivot was found. *)
LeaveSplit_Middle ==
  /\ BothStopped /\ i >= j
  /\ LET middle == (start + len) \div 2
     IN calls' = <<<<start, middle>>, <<middle, len>>>> \o Tail(calls)
  /\ pc' = "call"
  /\ UNCHANGED <<input, list, pivot, i, j>>

(* The split is part of both calls that follow.                            *)
LeaveSplit ==
  /\ BothStopped /\ i >= j
  /\ calls' = <<<<start, j>>, <<j, len>>>> \o Tail(calls)
  /\ pc' = "call"
  /\ UNCHANGED <<input, list, pivot, i, j>>

Next == Return \/ EnterSplit \/ ScanUp \/ ScanDown \/ Swap \/ LeaveSplit

Spec == Init /\ [][Next]_vars /\ WF_vars(Next)

------------------------------------------------------------------------------
(* Properties.                                                             *)

Done == calls = <<>>

Injective(f) == \A a, b \in DOMAIN f : f[a] = f[b] => a = b
Sorted(f)    == \A a, b \in DOMAIN f : a < b => f[a] <= f[b]

(* f has the elements of g, each as often, in some order.                  *)
Rearranged(f, g) ==
  \E p \in [DOMAIN g -> DOMAIN g] :
    Injective(p) /\ \A a \in DOMAIN g : f[a] = g[p[a]]

(* The two scans have no test for the ends of the range: the pivot, and    *)
(* then the elements swapped, have to stop them inside it, whatever the    *)
(* list holds, duplicates included.                                        *)
ScansStayInside ==
  pc = "split" =>
    /\ {start, len, i, j} \subseteq Size
    /\ start <= i /\ i <= len
    /\ start <= j /\ j <= len

(* The range c is separate in f: nothing before it is greater, and nothing *)
(* behind it less, than what is in it.                                     *)
Separate(f, c) ==
  \A m \in c[1] .. c[2], b \in DOMAIN f :
    /\ b < c[1] => f[b] <= f[m]
    /\ b > c[2] => f[m] <= f[b]

(* What is left to sort can be sorted range by range, although two ranges  *)
(* share the split and the scans move elements equal to the pivot.         *)
RangesSeparate == \A k \in DOMAIN calls : Separate(list, calls[k])

(* Whenever the call returns, the list is in order and has the elements it *)
(* had, duplicates included.  A list of two need not be in order: its      *)
(* range is taken to need no sorting, as is one of two deeper down, which  *)
(* must be in order by then.                                               *)
Sorts ==
  Done => /\ Size # 0 .. 1 => Sorted(list)
          /\ Rearranged(list, input)

(* Without duplicates the recursion comes to an end although each call     *)
(* shares the split with the next one.                                     *)
DistinctListsReturn == Injective(input) => <>Done

(* libft.h:103 declares quick_sort for any list of int.                    *)
ReturnsAlways == <>Done
=============================================================================

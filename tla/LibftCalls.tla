------------------------------ MODULE LibftCalls -------------------------------
(***************************************************************************)
(* One call of one of the functions of libft that keep nothing: on memory, *)
(* on a file, on arrays, or on numbers and texts alone.                    *)
(***************************************************************************)
EXTENDS Strings, Printf, MergeSort

Init == StringsReady \/ NumbersReady \/ OutputsReady \/ ArraysReady

Next == StringCalls \/ NumberCalls \/ OutputCalls \/ SortCalls

Spec == Init /\ [][Next]_vars
=============================================================================

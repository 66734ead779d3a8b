------------------------------ MODULE Containers -------------------------------
(***************************************************************************)
(* A program that keeps lists and arrays of strings, all on the one heap.  *)
(***************************************************************************)
EXTENDS TList, Arrays

vars == <<heap, call, head, numbers, arrays, strings>>

Init == heap = <<>> /\ call = Idle /\ NoLists /\ NoArrays

Next ==
  \/ ListStep /\ UNCHANGED <<arrays, strings>>
  \/ ArrayStep /\ UNCHANGED <<head, numbers>>

Spec == Init /\ [][Next]_vars

------------------------------------------------------------------------------
(* Properties.                                                             *)

(* Between calls every live object is a node or a content of one list, an  *)
(* array, an entry of one, or a string of the caller's, and is no second   *)
(* one of these: nothing is left behind, shared or freed too early,        *)
(* whatever could not be allocated in the middle of a call.                *)
NothingLeaks ==
  LET lists  == SetToSeq(Heads)
      tables == SetToSeq(DOMAIN arrays)
      owned  == FlattenSeq([k \in DOMAIN lists |-> ListParts(lists[k])])
                  \o FlattenSeq([k \in DOMAIN tables |-> ArrayParts(tables[k])])
                  \o SetToSeq(DOMAIN strings)
  IN call = Idle => IsInjective(owned) /\ ToSet(owned) = DOMAIN heap
(* The lists hold the numbers, the arrays the words and the strings the    *)
(* texts they should, in order: nothing that is done to one of them, not   *)
(* even the end of what it was copied from, shows in another.              *)
ContainersHold == ListsHold /\ WordsAreRight /\ StringsAreRight
=============================================================================

-------------------------------- MODULE Objects --------------------------------
(***************************************************************************)
(* What malloc gave out, for the code that uses it: a heap is a function   *)
(* from the pointers that are live to what is stored there.  An address is *)
(* given out again once it is free, so that a stale pointer may come to    *)
(* mean something else.                                                    *)
(***************************************************************************)
EXTENDS Integers, SequencesExt

NULL   == 0
BROKEN == -1  \* live once something was freed that was not

Store(f, x, v) == [y \in DOMAIN f \cup {x} |-> IF y = x THEN v ELSE f[y]]
Drop(f, x)   == [y \in DOMAIN f \ {x} |-> f[y]]

(* The lowest address that is not in use.                                  *)
Fresh(h) == Min((1 .. Cardinality(DOMAIN h) + 1) \ DOMAIN h)

Outcome(h, ptr) == [heap |-> h, ptr |-> ptr]

(* An allocation may fail at any time.                                     *)
malloc(h, value) ==
  {Outcome(h, NULL), Outcome(Store(h, Fresh(h), value), Fresh(h))}

free(h, ptr) ==
  CASE ptr = NULL                       -> h
    [] ptr # NULL /\ ptr \in DOMAIN h    -> Drop(h, ptr)
    [] ptr # NULL /\ ptr \notin DOMAIN h -> Store(h, BROKEN, <<>>)
=============================================================================

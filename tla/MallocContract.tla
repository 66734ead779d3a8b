--------------------------- MODULE MallocContract ----------------------------
(***************************************************************************)
(* What malloc, free and realloc promise a program, with nothing said of   *)
(* how: the regions callers hold never overlap, each is aligned and as     *)
(* long as was asked for, a call touches no region but the one it is       *)
(* about, and realloc leaves a region alone unless it has to grow.         *)
(***************************************************************************)
EXTENDS Integers

CONSTANTS
  ALIGNMENT,  \* every pointer handed out is a multiple of it
  MEM_END,    \* the end of the address space
  SIZE_MAX    \* the largest size a caller can ask for

VARIABLE owned  \* the pointers callers hold, each with the size they asked for

Addresses == {p \in 1 .. MEM_END - 1 : p % ALIGNMENT = 0}

(* The regions are pairwise disjoint and inside the address space.         *)
Separate(own) ==
  \A p \in DOMAIN own :
    /\ own[p] > 0 /\ p + own[p] <= MEM_END
    /\ \A q \in DOMAIN own : p # q => p + own[p] <= q \/ q + own[q] <= p

With(own, ptr, n) ==
  [p \in DOMAIN own \cup {ptr} |-> IF p = ptr THEN n ELSE own[p]]
Without(own, ptr) == [p \in DOMAIN own \ {ptr} |-> own[p]]

Init == owned = [p \in {} |-> 0]

(* A region at a pointer that nobody holds, apart from all the others.     *)
Malloc ==
  \E ptr \in Addresses \ DOMAIN owned :
    /\ ptr \in DOMAIN owned'
    /\ owned' = With(owned, ptr, owned'[ptr])

Free == \E ptr \in DOMAIN owned : owned' = Without(owned, ptr)

ReallocInPlace ==
  \E ptr \in DOMAIN owned :
    /\ ptr \in DOMAIN owned'
    /\ owned' = With(owned, ptr, owned'[ptr])

(* A region only moves when it grows.                                      *)
ReallocMove ==
  \E ptr \in DOMAIN owned, new \in Addresses \ DOMAIN owned :
    /\ new \in DOMAIN owned'
    /\ owned'[new] > owned[ptr]
    /\ owned' = With(Without(owned, ptr), new, owned'[new])

Next == /\ Malloc \/ Free \/ ReallocInPlace \/ ReallocMove
        /\ Separate(owned')

Spec == Init /\ [][Next]_owned
=============================================================================

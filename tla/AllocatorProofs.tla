--------------------------- MODULE AllocatorProofs ---------------------------
(***************************************************************************)
(* Whatever calls a program makes, with any layout constants, any number   *)
(* of zones and any request: the invariants of module Allocator hold, it   *)
(* implements module MallocContract, and its reports add up.               *)
(*                                                                         *)
(* There are two inductive invariants.  IInv looks at each zone alone: the *)
(* state keeps its type, the chunks of each zone tile it, no two empty     *)
(* spaces touch, and the counters are exact.  It is the conjunction of the *)
(* four, because they lean on each other: sizes stay natural numbers       *)
(* because the chunks of a zone are disjoint, merge_empty_spaces leaves no *)
(* touching spaces because the zone is tiled and had none before the block *)
(* was freed, and the bytes that remain are those of the empty spaces      *)
(* because nothing else is between the blocks.                             *)
(*                                                                         *)
(* SoundInv also relates the zones to each other, to the mapped pages and  *)
(* to the pointers callers hold; module HeapProofs has what the steps of   *)
(* the calls do to it.                                                     *)
(***************************************************************************)
EXTENDS ShowAlloc, HeapProofs

------------------------------------------------------------------------------
(* Each zone alone.                                                        *)

GoodOwners(own) == /\ DOMAIN own \subseteq Nat
                   /\ \A p \in DOMAIN own : own[p] \in 1 .. SIZE_MAX

IInv == heap \in GoodHeaps /\ GoodOwners(owned)

(* The inductive invariant is the four invariants together.                *)
LEMMA InductiveInvariantMeans ==
  IInv <=> TypeOK /\ ZonesTiled /\ ZonesCoalesced /\ CountersExact
<1>1. ASSUME IInv
      PROVE  TypeOK /\ ZonesTiled /\ ZonesCoalesced /\ CountersExact
  <2>1. g_zones \in Seq(GoodZones) /\ mapped \subseteq PageAddrs
    BY <1>1 DEF IInv, heap, GoodHeaps
  <2>2. g_zones \in Seq(ZoneRecord)
    BY <2>1, SeqMonotonic DEF GoodZones
  <2>3. \A z \in Zones : z \in ZoneRecord /\ WellFormed(z)
    BY <2>1, LenProperties, ElementOfSeq DEF Zones, GoodZones
  <2> QED
    BY <1>1, <2>1, <2>2, <2>3, WellFormedMeans
    DEF IInv, GoodOwners, TypeOK, ZonesTiled, ZonesCoalesced, CountersExact
<1>2. ASSUME TypeOK, ZonesTiled, ZonesCoalesced, CountersExact
      PROVE  IInv
  <2>1. /\ Len(g_zones) \in Nat /\ g_zones \in [1 .. Len(g_zones) -> ZoneRecord]
        /\ mapped \subseteq PageAddrs
    BY <1>2, LenProperties DEF TypeOK
  <2>2. \A i \in 1 .. Len(g_zones) : g_zones[i] \in GoodZones
    BY <1>2, <2>1, WellFormedMeans
    DEF ZonesTiled, ZonesCoalesced, CountersExact, Zones, GoodZones
  <2>3. g_zones \in Seq(GoodZones)
    BY <2>1, <2>2, SeqDef
  <2> QED
    BY <1>2, <2>1, <2>3 DEF IInv, heap, GoodHeaps, GoodOwners, TypeOK
<1> QED
  BY <1>1, <1>2

(* Handing a pointer out and taking it back keep the types of the owners.  *)
LEMMA OwnersGood ==
  ASSUME NEW own, GoodOwners(own), NEW ptr \in Nat
  PROVE  /\ GoodOwners(Returned(own, ptr))
         /\ \A n \in 1 .. SIZE_MAX : GoodOwners(Given(own, ptr, n))
  BY DEF GoodOwners, Returned, Given

(* No zones and no owners are a good start.                                *)
LEMMA InitGood == Init => IInv
<1>1. <<>> \in Seq(GoodZones)
  BY EmptySeq
<1> QED
  BY <1>1 DEF Init, IInv, heap, GoodHeaps, GoodOwners

(* A heap that is committed is the heap of the next state.                 *)
LEMMA CommitGood ==
  ASSUME NEW h \in GoodHeaps, Commit(h)
  PROVE  heap' \in GoodHeaps
  BY DEF Commit, heap, GoodHeaps

(* malloc keeps the invariant, whatever size is asked for.                 *)
LEMMA MallocGood ==
  ASSUME IInv, NEW n \in 0 .. SIZE_MAX, malloc(n)
  PROVE  IInv'
<1>1. PICK result \in Allocate(heap, n) :
        /\ Commit(result.heap)
        /\ owned' = IF result.ptr = NULL THEN owned ELSE Given(owned, result.ptr, n)
  BY DEF malloc
<1>2. /\ result.heap \in GoodHeaps /\ result.ptr \in Nat
      /\ result.ptr # NULL => n # 0
  BY AllocateGood DEF IInv
<1>3. GoodOwners(owned')
  BY <1>1, <1>2, OwnersGood DEF IInv
<1>4. heap' \in GoodHeaps
  BY <1>1, <1>2, CommitGood
<1> QED
  BY <1>3, <1>4 DEF IInv, GoodOwners

(* free keeps it, whatever pointer it is given.                            *)
LEMMA FreeGood ==
  ASSUME IInv, NEW ptr \in Nat, free(ptr)
  PROVE  IInv'
<1>1. heap' \in GoodHeaps
  BY ReleaseGood, CommitGood DEF IInv, free
<1>2. GoodOwners(owned')
  BY OwnersGood DEF IInv, free
<1> QED
  BY <1>1, <1>2 DEF IInv, GoodOwners

(* realloc keeps it, whichever way it serves the request.                  *)
LEMMA ReallocGood ==
  ASSUME IInv, NEW ptr \in Nat, NEW n \in 0 .. SIZE_MAX, realloc(ptr, n)
  PROVE  IInv'
<1>1. CASE malloc(n)
  BY <1>1, MallocGood
<1>2. CASE free(ptr)
  BY <1>2, FreeGood
<1>3. CASE UNCHANGED vars
  BY <1>3 DEF vars, IInv, heap, GoodOwners
<1>4. ASSUME n # 0, NEW f \in BlockOf(heap, ptr),
             \/ ReallocInPlace(ptr, n, f)
             \/ ReallocExtend(ptr, n, f)
             \/ ReallocMove(ptr, n, f)
      PROVE  IInv'
  <2> DEFINE size == align_size(n)
  <2>1. size \in Nat /\ size >= ALIGNMENT /\ n \in 1 .. SIZE_MAX
    BY <1>4, AlignFacts
  <2>2. /\ heap \in GoodHeaps /\ f.at \in DOMAIN heap.zones
        /\ heap.zones = g_zones
        /\ f.block \in heap.zones[f.at].blocks
    BY BlockOfFound DEF IInv, heap
  <2>3. /\ GoodOwners(owned)
        /\ GoodOwners(Given(owned, ptr, n))
        /\ GoodOwners(Returned(owned, ptr))
        /\ \A p \in Nat : GoodOwners(Given(Returned(owned, ptr), p, n))
    BY <2>1, OwnersGood DEF IInv
  <2> SUFFICES heap' \in GoodHeaps /\ GoodOwners(owned')
    BY DEF IInv, GoodOwners
  <2>4. CASE ReallocInPlace(ptr, n, f)
    <3>1. WellFormed(split_block(heap.zones[f.at], f.block, size))
      BY <2>1, <2>2, GoodZone, SplitWellFormed
    <3>2. SetZone(heap, f.at, split_block(g_zones[f.at], f.block, size)) \in GoodHeaps
      BY <2>2, <3>1, SetZoneGood
    <3> QED
      BY <2>3, <2>4, <3>2, CommitGood DEF ReallocInPlace
  <2>5. CASE ReallocExtend(ptr, n, f)
    <3>1. PICK result \in Extended(heap, f.at, f.block, size) :
            /\ Commit(result.heap)
            /\ owned' = Given(Returned(owned, ptr), result.ptr, n)
      BY <2>5 DEF ReallocExtend
    <3>2. result.heap \in GoodHeaps /\ result.ptr \in Nat
      BY <2>1, <2>2, ExtendedGood
    <3> QED
      BY <2>3, <3>1, <3>2, CommitGood
  <2>6. CASE ReallocMove(ptr, n, f)
    <3>1. PICK result \in Moved(heap, ptr, size) :
            /\ Commit(result.heap)
            /\ owned' = IF result.ptr = NULL
                        THEN owned
                        ELSE Given(Returned(owned, ptr), result.ptr, n)
      BY <2>6 DEF ReallocMove
    <3>2. result.heap \in GoodHeaps /\ result.ptr \in Nat
      BY <2>1, <2>2, MovedGood
    <3> QED
      BY <2>3, <3>1, <3>2, CommitGood
  <2> QED
    BY <1>4, <2>4, <2>5, <2>6
<1> QED
  BY <1>1, <1>2, <1>3, <1>4 DEF realloc

(* Each call, and a step that calls nothing, keeps the invariant.          *)
LEMMA NextGood == IInv /\ [Next]_vars => IInv'
<1> SUFFICES ASSUME IInv, [Next]_vars
             PROVE  IInv'
  OBVIOUS
<1>1. /\ \A n \in RequestSizes : n \in 0 .. SIZE_MAX
      /\ \A ptr \in Ptrs : ptr \in Nat
  BY AllocatorAssumption DEF Ptrs, IInv, GoodOwners
<1>2. ASSUME NEW n \in RequestSizes, malloc(n)
      PROVE  IInv'
  BY <1>1, <1>2, MallocGood
<1>3. ASSUME NEW ptr \in Ptrs, free(ptr)
      PROVE  IInv'
  BY <1>1, <1>3, FreeGood
<1>4. ASSUME NEW ptr \in Ptrs, NEW n \in RequestSizes, realloc(ptr, n)
      PROVE  IInv'
  BY <1>1, <1>4, ReallocGood
<1>5. CASE UNCHANGED vars
  BY <1>5 DEF vars, IInv, heap, GoodOwners
<1> QED
  BY <1>2, <1>3, <1>4, <1>5 DEF Next

(* The invariant always holds.                                             *)
THEOREM Invariance == Spec => []IInv
<1> QED
  BY InitGood, NextGood, PTL DEF Spec

(* The list of zones, the mapped pages and the owners keep their types: no *)
(* computation of malloc, free or realloc leaves a negative address or     *)
(* size, and NULL or nothing is handed out for a size of zero.             *)
THEOREM TypeCorrect == Spec => []TypeOK
<1>1. IInv => TypeOK
  BY InductiveInvariantMeans
<1> QED
  BY <1>1, Invariance, PTL

(* In every zone, blocks and empty spaces always tile the bytes behind the *)
(* zone header: allocation, splitting, merging and growing in place never  *)
(* make two chunks share a byte, and never lose one.                       *)
THEOREM AlwaysTiled == Spec => []ZonesTiled
<1>1. IInv => ZonesTiled
  BY InductiveInvariantMeans
<1> QED
  BY <1>1, Invariance, PTL

(* No two empty spaces ever touch: the one pass of merge_empty_spaces and  *)
(* the growth of a block into a neighbour leave no fragments behind.       *)
THEOREM AlwaysCoalesced == Spec => []ZonesCoalesced
<1>1. IInv => ZonesCoalesced
  BY InductiveInvariantMeans
<1> QED
  BY <1>1, Invariance, PTL

(* The counters of every zone agree with its two lists, whatever was       *)
(* allocated, split, merged or grown in between; they are unsigned, and    *)
(* so never wrapped.                                                       *)
THEOREM AlwaysCounted == Spec => []CountersExact
<1>1. IInv => CountersExact
  BY InductiveInvariantMeans
<1> QED
  BY <1>1, Invariance, PTL

------------------------------------------------------------------------------
(* What callers hold is what the zones say: the pointers handed out are    *)
(* the payloads of the blocks, each block is as long as its request, the   *)
(* zones lie on the pages that are mapped, a call that fails leaves no     *)
(* trace, and the allocator implements module MallocContract.              *)

(* The inductive invariant: between two calls the heap is sound, and       *)
(* callers hold exactly its blocks.                                        *)
SoundInv == SoundHeap(heap) /\ Held(HeapBlocks(heap), owned)

------------------------------------------------------------------------------
(* The steps of the program.                                               *)

(* What a call does to the pointers callers hold: nothing at all, a new    *)
(* one is handed out, one is given back, one gets a new size, or one takes *)
(* the place of another because it has to grow.                            *)
CallEffect ==
  \/ UNCHANGED vars
  \/ \E ptr \in Contract!Addresses \ DOMAIN owned, n \in 1 .. SIZE_MAX :
       owned' = Given(owned, ptr, n)
  \/ \E ptr \in DOMAIN owned : owned' = Returned(owned, ptr)
  \/ \E ptr \in DOMAIN owned, n \in 1 .. SIZE_MAX :
       /\ owned' = Given(owned, ptr, n)
       /\ n = owned[ptr] => UNCHANGED vars
  \/ \E ptr \in DOMAIN owned, new \in Contract!Addresses \ DOMAIN owned,
        n \in 1 .. SIZE_MAX :
       n > owned[ptr] /\ owned' = Given(Returned(owned, ptr), new, n)

(* A heap that is committed is the next heap.                              *)
LEMMA CommitIs ==
  ASSUME NEW h \in GoodHeaps, Commit(h)
  PROVE  heap' = h
  BY DEF Commit, heap, GoodHeaps

(* A sound heap that is committed with its owners keeps the invariant.     *)
LEMMA SoundCommitted ==
  ASSUME NEW h, SoundHeap(h), Commit(h), Held(HeapBlocks(h), owned')
  PROVE  SoundInv'
<1>1. heap' = h
  BY CommitIs DEF SoundHeap
<1>2. SoundHeap(heap') /\ Held(HeapBlocks(heap'), owned')
  BY <1>1
<1> QED
  BY <1>2 DEF SoundInv

(* A pointer in range and on the grid is an address of the contract.       *)
LEMMA IsAddress ==
  ASSUME NEW p \in 1 .. MEM_END - 1, IsMultiple(p, ALIGNMENT)
  PROVE  p \in Contract!Addresses /\ p # NULL
  BY HeapAssumption DEF Contract!Addresses, IsMultiple, NULL

(* malloc hands out a new pointer, or changes nothing.                     *)
LEMMA MallocSound ==
  ASSUME SoundInv, NEW n \in Nat, malloc(n)
  PROVE  SoundInv' /\ CallEffect
<1>1. PICK result \in Allocate(heap, n) :
        /\ Commit(result.heap)
        /\ owned' = IF result.ptr = NULL THEN owned ELSE Given(owned, result.ptr, n)
  BY DEF malloc
<1>2. SoundHeap(heap) /\ Held(HeapBlocks(heap), owned)
  BY DEF SoundInv
<1>3. /\ Served(heap, owned, n, result)
      /\ result.ptr # NULL => n \in 1 .. SIZE_MAX
  BY <1>2, AllocateSound
<1>4. CASE result = [heap |-> heap, ptr |-> NULL]
  <2>1. Commit(heap) /\ owned' = owned
    BY <1>1, <1>4
  <2>2. SoundInv'
    BY <1>2, <2>1, SoundCommitted
  <2>3. UNCHANGED vars
    BY <2>1 DEF Commit, heap, vars
  <2> QED
    BY <2>2, <2>3 DEF CallEffect
<1>5. CASE HandsOut(heap, owned, n, result)
  <2>1. /\ SoundHeap(result.heap) /\ result.ptr \notin DOMAIN owned
        /\ result.ptr \in Contract!Addresses /\ result.ptr # NULL
    BY <1>5, IsAddress DEF HandsOut
  <2>2. n \in 1 .. SIZE_MAX /\ owned' = Given(owned, result.ptr, n)
    BY <1>1, <1>3, <2>1
  <2>3. Held(HeapBlocks(result.heap), owned')
    BY <1>5, <2>2 DEF HandsOut
  <2>4. SoundInv'
    BY <1>1, <2>1, <2>3, SoundCommitted
  <2> QED
    BY <2>1, <2>2, <2>4 DEF CallEffect
<1> QED
  BY <1>3, <1>4, <1>5 DEF Served

(* free takes a pointer back, or changes nothing.                          *)
LEMMA FreeSound ==
  ASSUME SoundInv, NEW ptr \in Nat, free(ptr)
  PROVE  SoundInv' /\ CallEffect
<1>1. PICK h \in Release(heap, ptr) : Commit(h)
  BY DEF free
<1>2. SoundHeap(heap) /\ Held(HeapBlocks(heap), owned) /\ owned' = Returned(owned, ptr)
  BY DEF SoundInv, free
<1>3. /\ SoundHeap(h) /\ Held(HeapBlocks(h), owned')
      /\ ptr \notin DOMAIN owned => h = heap
  BY <1>2, ReleaseSound
<1>4. SoundInv'
  BY <1>1, <1>3, SoundCommitted
<1>5. CASE ptr \in DOMAIN owned
  BY <1>2, <1>4, <1>5 DEF CallEffect
<1>6. CASE ptr \notin DOMAIN owned
  <2>1. g_zones' = g_zones /\ mapped' = mapped
    BY <1>1, <1>3, <1>6 DEF Commit, heap
  <2>2. owned' = owned
    BY <1>2, <1>6, ReturnedUnheld
  <2> QED
    BY <1>4, <2>1, <2>2 DEF CallEffect, vars
<1> QED
  BY <1>5, <1>6

(* realloc in place: the same size again changes nothing at all.           *)
LEMMA InPlaceSound ==
  ASSUME SoundInv, NEW ptr \in Nat, NEW n \in 1 .. SIZE_MAX,
         NEW f \in BlockOf(heap, ptr), ReallocInPlace(ptr, n, f)
  PROVE  SoundInv' /\ CallEffect
<1> DEFINE size == align_size(n)
           z == g_zones[f.at]
           w == split_block(z, f.block, size)
<1>1. SoundHeap(heap) /\ Held(HeapBlocks(heap), owned) /\ heap.zones = g_zones
  BY DEF SoundInv, heap
<1>2. /\ f.at \in DOMAIN heap.zones /\ f.block \in heap.zones[f.at].blocks
      /\ f.block \in HeapBlocks(heap) /\ block_payload(f.block) = ptr
      /\ ptr \in DOMAIN owned
  BY <1>1, BlockOfHeld
<1>3. /\ f.block.data_size >= size /\ Commit(SetZone(heap, f.at, w))
      /\ owned' = Given(owned, ptr, n)
  BY DEF ReallocInPlace
<1>4. /\ SoundHeap(SetZone(heap, f.at, w))
      /\ Held(HeapBlocks(SetZone(heap, f.at, w)), owned')
  BY <1>1, <1>2, <1>3, SplitSound
<1>5. SoundInv'
  BY <1>3, <1>4, SoundCommitted
<1>6. ASSUME n = owned[ptr]
      PROVE  UNCHANGED vars
  <2>1. size \in Nat /\ size >= ALIGNMENT
    BY AlignFacts
  <2>2. Snug(f.block, size) /\ WellFormed(z) /\ f.block \in z.blocks
    BY <1>1, <1>2, <1>6 DEF Held, SoundHeap, SoundZone
  <2> HIDE DEF size
  <2>3. w = z
    BY <1>3, <2>1, <2>2, SplitEffect
  <2>4. SetZone(heap, f.at, w).zones = g_zones
    <3> HIDE DEF w
    <3>1. SetZone(heap, f.at, w).zones = [g_zones EXCEPT ![f.at] = w]
      BY DEF SetZone, heap
    <3>2. g_zones \in Seq(GoodZones)
      BY <1>1 DEF SoundHeap, GoodHeaps
    <3>3. g_zones \in [DOMAIN g_zones -> GoodZones]
      BY <3>2, LenProperties
    <3> QED
      BY <2>3, <3>1, <3>3
  <2>5. SetZone(heap, f.at, w).mapped = mapped
    BY DEF SetZone, heap
  <2>6. owned' = owned
    BY <1>1, <1>2, <1>3, <1>6 DEF Held, Given
  <2> QED
    BY <1>3, <2>4, <2>5, <2>6 DEF Commit, vars
<1> QED
  BY <1>2, <1>3, <1>5, <1>6 DEF CallEffect

(* realloc growing the block in its zone.                                  *)
LEMMA ExtendSound ==
  ASSUME SoundInv, NEW ptr \in Nat, NEW n \in 1 .. SIZE_MAX,
         NEW f \in BlockOf(heap, ptr), ReallocExtend(ptr, n, f)
  PROVE  SoundInv' /\ CallEffect
<1>1. SoundHeap(heap) /\ Held(HeapBlocks(heap), owned)
  BY DEF SoundInv
<1>2. /\ f.at \in DOMAIN heap.zones /\ f.block \in heap.zones[f.at].blocks
      /\ f.block \in HeapBlocks(heap) /\ block_payload(f.block) = ptr
      /\ ptr \in DOMAIN owned
  BY <1>1, BlockOfHeld
<1>3. PICK result \in Extended(heap, f.at, f.block, align_size(n)) :
        /\ Commit(result.heap)
        /\ owned' = Given(Returned(owned, ptr), result.ptr, n)
  BY DEF ReallocExtend
<1>4. /\ SoundHeap(result.heap) /\ Held(HeapBlocks(result.heap), owned')
      /\ result.ptr \in 1 .. MEM_END - 1 /\ IsMultiple(result.ptr, ALIGNMENT)
      /\ result.ptr # ptr => result.ptr \notin DOMAIN owned
  BY <1>1, <1>2, <1>3, ExtendedSound
<1>5. SoundInv'
  BY <1>3, <1>4, SoundCommitted
<1>6. owned[ptr] < n
  BY <1>1, <1>2, Grows DEF ReallocExtend
<1>7. owned[ptr] \in Nat /\ n \in Nat
  BY <1>1, <1>2, HeldPointers, SizesAssumption
<1>8. CASE result.ptr = ptr
  <2>1. owned' = Given(owned, ptr, n) /\ n # owned[ptr]
    BY <1>3, <1>6, <1>7, <1>8, GivenAgain
  <2> QED
    BY <1>2, <1>5, <2>1 DEF CallEffect
<1>9. CASE result.ptr # ptr
  <2>1. result.ptr \in Contract!Addresses \ DOMAIN owned
    BY <1>4, <1>9, IsAddress
  <2>2. n > owned[ptr]
    BY <1>6, <1>7
  <2> QED
    BY <1>2, <1>3, <1>5, <2>1, <2>2 DEF CallEffect
<1> QED
  BY <1>8, <1>9

(* realloc moving the block, or failing to.                                *)
LEMMA MoveSound ==
  ASSUME SoundInv, NEW ptr \in Nat, NEW n \in 1 .. SIZE_MAX,
         NEW f \in BlockOf(heap, ptr), ReallocMove(ptr, n, f)
  PROVE  SoundInv' /\ CallEffect
<1>1. SoundHeap(heap) /\ Held(HeapBlocks(heap), owned)
  BY DEF SoundInv
<1>2. /\ f.block \in HeapBlocks(heap) /\ block_payload(f.block) = ptr
      /\ ptr \in DOMAIN owned
  BY <1>1, BlockOfHeld
<1>3. PICK result \in Moved(heap, ptr, align_size(n)) :
        /\ Commit(result.heap)
        /\ owned' = IF result.ptr = NULL
                    THEN owned
                    ELSE Given(Returned(owned, ptr), result.ptr, n)
  BY DEF ReallocMove
<1>4. CASE result = [heap |-> heap, ptr |-> NULL]
  <2>1. Commit(heap) /\ owned' = owned
    BY <1>3, <1>4
  <2>2. SoundInv'
    BY <1>1, <2>1, SoundCommitted
  <2>3. UNCHANGED vars
    BY <2>1 DEF Commit, heap, vars
  <2> QED
    BY <2>2, <2>3 DEF CallEffect
<1>5. CASE /\ SoundHeap(result.heap)
           /\ Held(HeapBlocks(result.heap),
                   Given(Returned(owned, ptr), result.ptr, n))
           /\ result.ptr \in 1 .. MEM_END - 1 /\ IsMultiple(result.ptr, ALIGNMENT)
           /\ result.ptr \notin DOMAIN owned
  <2>1. result.ptr \in Contract!Addresses \ DOMAIN owned /\ result.ptr # NULL
    BY <1>5, IsAddress
  <2>2. owned' = Given(Returned(owned, ptr), result.ptr, n)
    BY <1>3, <2>1
  <2>3. SoundInv'
    BY <1>3, <1>5, <2>2, SoundCommitted
  <2>4. owned[ptr] < n
    BY <1>1, <1>2, Grows DEF ReallocMove
  <2>5. n > owned[ptr]
    BY <1>1, <1>2, <2>4, HeldPointers, SizesAssumption
  <2> QED
    BY <1>2, <2>1, <2>2, <2>3, <2>5 DEF CallEffect
<1> QED
  BY <1>1, <1>2, <1>3, <1>4, <1>5, MovedSound

(* realloc, whichever way it serves the request.                           *)
LEMMA ReallocSound ==
  ASSUME SoundInv, NEW ptr \in Nat, NEW n \in 0 .. SIZE_MAX, realloc(ptr, n)
  PROVE  SoundInv' /\ CallEffect
<1>1. CASE malloc(n)
  BY <1>1, MallocSound
<1>2. CASE free(ptr)
  BY <1>2, FreeSound
<1>3. CASE UNCHANGED vars
  BY <1>3 DEF vars, SoundInv, heap, CallEffect
<1>4. ASSUME n # 0, NEW f \in BlockOf(heap, ptr),
             \/ ReallocInPlace(ptr, n, f)
             \/ ReallocExtend(ptr, n, f)
             \/ ReallocMove(ptr, n, f)
      PROVE  SoundInv' /\ CallEffect
  <2>1. n \in 1 .. SIZE_MAX
    BY <1>4, SizesAssumption
  <2> QED
    BY <1>4, <2>1, InPlaceSound, ExtendSound, MoveSound
<1> QED
  BY <1>1, <1>2, <1>3, <1>4 DEF realloc

(* No zones and no owners are a sound start.                               *)
LEMMA InitSound == Init => SoundInv
<1> SUFFICES ASSUME Init
             PROVE  SoundInv
  OBVIOUS
<1>1. heap \in GoodHeaps
  BY InitGood DEF IInv
<1>2. heap.zones = <<>> /\ heap.mapped = {} /\ owned = [p \in {} |-> 0]
  BY DEF Init, heap
<1> DEFINE h == heap
<1>3. h \in GoodHeaps /\ h.zones = <<>> /\ h.mapped = {}
  BY <1>1, <1>2
<1> HIDE DEF h
<1>4. SoundHeap(h) /\ HeapBlocks(h) = {}
  BY <1>3 DEF SoundHeap, HeapBlocks
<1>5. Held({}, owned)
  BY <1>2 DEF Held
<1> QED
  BY <1>4, <1>5 DEF SoundInv, h

(* Each call, and a step that calls nothing, keeps the invariant and does  *)
(* one of the five things of CallEffect.                                   *)
LEMMA NextSound == SoundInv /\ [Next]_vars => SoundInv' /\ CallEffect
<1> SUFFICES ASSUME SoundInv, [Next]_vars
             PROVE  SoundInv' /\ CallEffect
  OBVIOUS
<1>1. /\ \A n \in RequestSizes : n \in 0 .. SIZE_MAX /\ n \in Nat
      /\ \A ptr \in Ptrs : ptr \in Nat
  <2>1. SoundHeap(heap) /\ Held(HeapBlocks(heap), owned)
    BY DEF SoundInv
  <2>2. \A p \in DOMAIN owned : p \in Nat
    BY <2>1, HeldPointers
  <2>3. \A n \in RequestSizes : n \in 0 .. SIZE_MAX
    BY AllocatorAssumption
  <2>4. \A n \in 0 .. SIZE_MAX : n \in Nat
    BY SizesAssumption
  <2>5. StrayPtrs \subseteq Nat
    BY AllocatorAssumption
  <2> QED
    BY <2>2, <2>3, <2>4, <2>5, Zenon DEF Ptrs
<1>2. ASSUME NEW n \in RequestSizes, malloc(n)
      PROVE  SoundInv' /\ CallEffect
  BY <1>1, <1>2, MallocSound
<1>3. ASSUME NEW ptr \in Ptrs, free(ptr)
      PROVE  SoundInv' /\ CallEffect
  BY <1>1, <1>3, FreeSound
<1>4. ASSUME NEW ptr \in Ptrs, NEW n \in RequestSizes, realloc(ptr, n)
      PROVE  SoundInv' /\ CallEffect
  BY <1>1, <1>4, ReallocSound
<1>5. CASE UNCHANGED vars
  BY <1>5 DEF vars, SoundInv, heap, CallEffect
<1> QED
  BY <1>2, <1>3, <1>4, <1>5 DEF Next

------------------------------------------------------------------------------
(* The theorems.                                                           *)

(* The invariant always holds, whatever calls a program makes.             *)
THEOREM Soundness == Spec => []SoundInv
<1>1. SoundInv /\ [Next]_vars => SoundInv'
  BY NextSound
<1> QED
  BY <1>1, InitSound, PTL DEF Spec

(* What find_zone concludes from the statistic of a zone that has an empty *)
(* space is always right: update_empty_stats is called wherever the spaces *)
(* changed, so no later step sees a size that is no longer there.          *)
THEOREM StatisticAlwaysHonest == Spec => []StatisticHonest
<1>1. SoundInv => StatisticHonest
  BY DEF SoundInv, SoundHeap, SoundZone, Honest, StatisticHonest, Zones, heap
<1> QED
  BY <1>1, Soundness, PTL

(* The blocks of the zones of the list.                                    *)
LEMMA BlocksOfZones == UNION {z.blocks : z \in Zones} = HeapBlocks(heap)
  BY DEF Zones, HeapBlocks, heap

(* Callers always hold exactly the payloads of the blocks, and each block  *)
(* has the room that was asked for: malloc, free and the three ways of     *)
(* realloc leak no block and let no pointer outlive its block.             *)
THEOREM OwnersAlwaysMatch == Spec => []OwnersMatchBlocks
<1>1. ASSUME SoundInv
      PROVE  OwnersMatchBlocks
  <2> DEFINE B == HeapBlocks(heap)
  <2>1. Held(B, owned) /\ SoundHeap(heap)
    BY <1>1 DEF SoundInv
  <2>2. DOMAIN owned = {block_payload(b) : b \in B}
    BY <2>1 DEF Held
  <2>3. ASSUME NEW b \in B
        PROVE  owned[block_payload(b)] <= b.data_size
    <3> DEFINE n == owned[block_payload(b)]
    <3>1. n \in 1 .. SIZE_MAX /\ Snug(b, align_size(n)) /\ b.data_size \in Nat
      BY <2>1, BlockPlaced DEF Held
    <3> HIDE DEF n
    <3>2. n <= b.data_size
      BY <3>1, AlignBounds, SizesAssumption DEF Snug
    <3> QED
      BY <3>2 DEF n
  <2> HIDE DEF B
  <2> QED
    BY <2>2, <2>3, BlocksOfZones DEF OwnersMatchBlocks, B
<1> QED
  BY <1>1, Soundness, PTL

(* A block is always longer than its rounded request only by a rest that   *)
(* is too short to be a chunk, however often it was shrunk and grown.      *)
THEOREM AlwaysLittleToSpare == Spec => []LittleToSpare
<1>1. ASSUME SoundInv
      PROVE  LittleToSpare
  <2>1. Held(HeapBlocks(heap), owned)
    BY <1>1 DEF SoundInv
  <2>2. \A z \in Zones : \A b \in z.blocks : b \in HeapBlocks(heap)
    BY DEF Zones, HeapBlocks, heap
  <2> QED
    BY <2>1, <2>2 DEF Held, Snug, LittleToSpare
<1> QED
  BY <1>1, Soundness, PTL

(* The zones always lie on disjoint pages, exactly those that are mapped:  *)
(* a failed call leaves no mapping behind, and free unmaps the whole of a  *)
(* LARGE zone and no byte of another.                                      *)
THEOREM ZonesAlwaysMatchMappings == Spec => []ZonesMatchMappings
<1>1. ASSUME SoundInv
      PROVE  ZonesMatchMappings
  <2>1. SoundHeap(heap) /\ heap.zones = g_zones /\ heap.mapped = mapped
    BY <1>1 DEF SoundInv, heap
  <2>2. \A i, j \in DOMAIN g_zones :
          i # j => \/ g_zones[i].end <= g_zones[j].start
                   \/ g_zones[j].end <= g_zones[i].start
    BY <2>1 DEF SoundHeap, RangesApart
  <2>3. mapped = UNION {PagesUnder(g_zones[i]) : i \in DOMAIN g_zones}
    BY <2>1 DEF SoundHeap
  <2>4. {PagesUnder(g_zones[i]) : i \in DOMAIN g_zones} =
          {PagesOf(z.start, z.end - z.start) : z \in Zones}
    BY DEF Zones, PagesUnder
  <2> QED
    BY <2>2, <2>3, <2>4 DEF ZonesMatchMappings
<1> QED
  BY <1>1, Soundness, PTL

(* A LARGE zone always holds the one block it was mapped for, at its       *)
(* front, also after realloc shrank or grew it: free may unmap it whole.   *)
THEOREM LargeZonesAlwaysHoldOne == Spec => []LargeZonesHoldOneBlock
<1>1. SoundInv => LargeZonesHoldOneBlock
  BY DEF SoundInv, SoundHeap, SoundZone, HoldsOne, LargeZonesHoldOneBlock, Zones, heap
<1> QED
  BY <1>1, Soundness, PTL

(* A call that changes what callers hold changes it visibly.               *)
LEMMA ChangeShows ==
  ASSUME NEW own, NEW ptr
  PROVE  /\ \A n : ptr \notin DOMAIN own => Given(own, ptr, n) # own
         /\ ptr \in DOMAIN own => Returned(own, ptr) # own
         /\ \A new, n : ptr \in DOMAIN own /\ new \notin DOMAIN own
              => Given(Returned(own, ptr), new, n) # own
         /\ \A n : Given(own, ptr, n)[ptr] = n
  BY DEF Given, Returned

(* malloc, free and realloc leave no trace when they fail, or are given an *)
(* unknown pointer, or ask for what is already so: a failed mmap in the    *)
(* middle of realloc loses no block and leaves no zone behind.             *)
THEOREM NoTraceOfFailures == Spec => FailuresLeaveNoTrace
<1>1. ASSUME CallEffect, owned' = owned
      PROVE  UNCHANGED vars
  BY <1>1, ChangeShows DEF CallEffect
<1>2. SoundInv /\ [Next]_vars => [owned' = owned => UNCHANGED vars]_vars
  BY <1>1, NextSound
<1> QED
  BY <1>2, Soundness, PTL DEF Spec, FailuresLeaveNoTrace

(* The regions of the callers of a sound heap are disjoint.                *)
LEMMA OwnersSeparate ==
  ASSUME NEW h, SoundHeap(h), NEW own, Held(HeapBlocks(h), own)
  PROVE  Contract!Separate(own)
<1>1. \A p \in DOMAIN own : \E b \in HeapBlocks(h) :
        /\ p = block_payload(b) /\ own[p] \in Nat /\ own[p] > 0
        /\ own[p] <= b.data_size
  <2> SUFFICES ASSUME NEW b \in HeapBlocks(h)
               PROVE  LET n == own[block_payload(b)] IN
                      n \in Nat /\ n > 0 /\ n <= b.data_size
    BY DEF Held
  <2> DEFINE n == own[block_payload(b)]
  <2>1. n \in 1 .. SIZE_MAX /\ Snug(b, align_size(n)) /\ b.data_size \in Nat
    BY BlockPlaced DEF Held
  <2> HIDE DEF n
  <2>2. n \in Nat /\ n > 0 /\ n <= b.data_size
    BY <2>1, AlignBounds, SizesAssumption DEF Snug
  <2> QED
    BY <2>2 DEF n
<1>2. ASSUME NEW p \in DOMAIN own
      PROVE  /\ own[p] > 0 /\ p + own[p] <= MEM_END
             /\ \A q \in DOMAIN own :
                  p # q => p + own[p] <= q \/ q + own[q] <= p
  <2>1. PICK b \in HeapBlocks(h) :
          /\ p = block_payload(b) /\ own[p] \in Nat /\ own[p] > 0
          /\ own[p] <= b.data_size
    BY <1>1
  <2>2. /\ b.data_size \in Nat /\ b.addr \in Nat /\ block_end(b) \in Nat
        /\ p = b.addr + HEADER_SIZE /\ block_end(b) = p + b.data_size
        /\ block_end(b) <= MEM_END
    BY <2>1, BlockPlaced
  <2>3. ASSUME NEW q \in DOMAIN own, p # q
        PROVE  p + own[p] <= q \/ q + own[q] <= p
    <3>1. PICK c \in HeapBlocks(h) :
            /\ q = block_payload(c) /\ own[q] \in Nat /\ own[q] <= c.data_size
      BY <1>1
    <3>2. /\ c.data_size \in Nat /\ c.addr \in Nat /\ block_end(c) \in Nat
          /\ q = c.addr + HEADER_SIZE /\ block_end(c) = q + c.data_size
      BY <3>1, BlockPlaced
    <3>3. block_end(b) <= c.addr \/ block_end(c) <= b.addr
      BY <2>1, <2>3, <3>1, BlockPlaced
    <3> QED
      BY <2>1, <2>2, <3>1, <3>2, <3>3, SizesFacts
  <2> QED
    BY <2>1, <2>2, <2>3, SizesFacts, HeapAssumption
<1> QED
  BY <1>2 DEF Contract!Separate

(* The allocator implements its contract: callers hold regions that are    *)
(* aligned, disjoint and as long as they asked for, each call changes at   *)
(* most the region it is about, and realloc moves one only to grow it.     *)
THEOREM Refinement == Spec => KeepsContract
<1>1. Init => Contract!Init
  BY DEF Init, Contract!Init
<1>2. ASSUME CallEffect, Contract!Separate(owned)'
      PROVE  [Contract!Next]_owned
  <2>1. CASE UNCHANGED vars
    BY <2>1 DEF vars
  <2>2. ASSUME NEW ptr \in Contract!Addresses \ DOMAIN owned,
               NEW n \in 1 .. SIZE_MAX, owned' = Given(owned, ptr, n)
        PROVE  Contract!Malloc
    BY <2>2 DEF Given, Contract!Malloc, Contract!With
  <2>3. ASSUME NEW ptr \in DOMAIN owned, owned' = Returned(owned, ptr)
        PROVE  Contract!Free
    BY <2>3 DEF Returned, Contract!Free, Contract!Without
  <2>4. ASSUME NEW ptr \in DOMAIN owned, NEW n \in 1 .. SIZE_MAX,
               owned' = Given(owned, ptr, n)
        PROVE  Contract!ReallocInPlace
    BY <2>4 DEF Given, Contract!ReallocInPlace, Contract!With
  <2>5. ASSUME NEW ptr \in DOMAIN owned,
               NEW new \in Contract!Addresses \ DOMAIN owned,
               NEW n \in 1 .. SIZE_MAX, n > owned[ptr],
               owned' = Given(Returned(owned, ptr), new, n)
        PROVE  Contract!ReallocMove
    BY <2>5 DEF Given, Returned, Contract!ReallocMove, Contract!With, Contract!Without
  <2> QED
    BY <1>2, <2>1, <2>2, <2>3, <2>4, <2>5 DEF CallEffect, Contract!Next
<1>3. SoundInv' => Contract!Separate(owned)'
  <2> SUFFICES ASSUME SoundInv'
               PROVE  Contract!Separate(owned')
    OBVIOUS
  <2>1. SoundHeap(heap') /\ Held(HeapBlocks(heap'), owned')
    BY DEF SoundInv
  <2> QED
    BY <2>1, OwnersSeparate
<1>4. SoundInv /\ [Next]_vars => [Contract!Next]_owned
  BY <1>2, <1>3, NextSound
<1> QED
  BY <1>1, <1>4, Soundness, PTL DEF Spec, KeepsContract, Contract!Spec

------------------------------------------------------------------------------
(* The reports.                                                            *)

(* What the loop over the list of zones defines: h[s] is the sum of m over *)
(* the places s, taken from the front of the list.                         *)
SumsUp(h, m, I) ==
  h = [s \in SUBSET I |->
         IF s = {} THEN 0 ELSE LET x == Max(s) IN h[s \ {x}] + m[x]]

(* It is the sum of HeapProofs.                                            *)
LEMMA SumsUpTotal ==
  ASSUME NEW I, IsFiniteSet(I), \A s \in SUBSET I : s # {} => Max(s) \in s,
         NEW m \in [I -> Int]
  PROVE  /\ \E h : SumsUp(h, m, I)
         /\ \A h : SumsUp(h, m, I) => h[I] = Total(m, I)
<1> DEFINE t == [s \in SUBSET I |-> Total(m, s)]
<1>1. \A s \in SUBSET I : IsFiniteSet(s)
  BY FS_Subset
<1>2. \A s \in SUBSET I : s # {} =>
        /\ Max(s) \in s /\ s \ {Max(s)} \in SUBSET s
        /\ Total(m, s) = Total(m, s \ {Max(s)}) + m[Max(s)]
  <2> SUFFICES ASSUME NEW s \in SUBSET I, s # {}
               PROVE  /\ Max(s) \in s /\ s \ {Max(s)} \in SUBSET s
                      /\ Total(m, s) = Total(m, s \ {Max(s)}) + m[Max(s)]
    OBVIOUS
  <2> DEFINE x == Max(s)
             r == s \ {x}
  <2>1. x \in s /\ r \in SUBSET s /\ r \in SUBSET I
    OBVIOUS
  <2>2. IsFiniteSet(s) /\ IsFiniteSet(r)
    BY <1>1, <2>1
  <2>3. m[x] \in Int /\ Total(m, r) \in Int /\ Total(m, s) = m[x] + Total(m, r)
    <3> HIDE DEF t, x
    <3> QED
      BY <2>1, <2>2, TotalWithout
  <2> HIDE DEF r, x
  <2> QED
    BY <2>1, <2>3 DEF r, x
<1>3. Total(m, {}) = 0
  <2>1. {} \in SUBSET I /\ IsFiniteSet({})
    BY FS_EmptySet
  <2> QED
    BY <2>1, TotalFacts
<1>4. SumsUp(t, m, I)
  <2> DEFINE F(s) == IF s = {} THEN 0 ELSE LET x == Max(s) IN t[s \ {x}] + m[x]
  <2>1. ASSUME NEW s \in SUBSET I
        PROVE  Total(m, s) = F(s)
    <3>1. CASE s = {}
      BY <1>3, <3>1
    <3>2. CASE s # {}
      <4>1. s \ {Max(s)} \in SUBSET I
        OBVIOUS
      <4>2. t[s \ {Max(s)}] = Total(m, s \ {Max(s)})
        BY <4>1
      <4> HIDE DEF t
      <4> QED
        BY <1>2, <3>2, <4>2
    <3> QED
      BY <3>1, <3>2
  <2>2. t = [s \in SUBSET I |-> F(s)]
    <3> HIDE DEF F
    <3> QED
      BY <2>1
  <2> QED
    BY <2>2 DEF SumsUp
<1>5. ASSUME NEW h, SumsUp(h, m, I)
      PROVE  h[I] = Total(m, I)
  <2> DEFINE F(s) == IF s = {} THEN 0 ELSE LET x == Max(s) IN h[s \ {x}] + m[x]
             Bad == {s \in SUBSET I : h[s] # Total(m, s)}
  <2>1. \A s \in SUBSET I : h[s] = F(s)
    <3>1. h = [s \in SUBSET I |-> F(s)]
      BY <1>5 DEF SumsUp
    <3> HIDE DEF F
    <3> QED
      BY <3>1
  <2>2. ASSUME Bad # {}
        PROVE  FALSE
    <3>1. PICK s \in Bad : \A u \in SUBSET s : u # s => u \notin Bad
      <4> HIDE DEF Bad
      <4>1. Bad \in SUBSET (SUBSET I)
        BY DEF Bad
      <4> QED
        BY <2>2, <4>1, SmallestSet
    <3>2. s \in SUBSET I /\ h[s] # Total(m, s)
      OBVIOUS
    <3>3. s # {}
      <4> HIDE DEF Bad
      <4>1. {} \in SUBSET I
        OBVIOUS
      <4>2. h[{}] = 0
        BY <2>1, <4>1
      <4> QED
        BY <1>3, <3>2, <4>2
    <3> DEFINE x == Max(s)
               r == s \ {x}
    <3>4. /\ x \in s /\ r \in SUBSET s /\ r # s /\ r \in SUBSET I
          /\ Total(m, s) = Total(m, r) + m[x]
      BY <1>2, <3>2, <3>3
    <3>5. h[r] = Total(m, r)
      BY <3>1, <3>4
    <3>6. h[s] = h[r] + m[x]
      BY <2>1, <3>2, <3>3
    <3> QED
      BY <3>2, <3>4, <3>5, <3>6
  <2>3. I \in SUBSET I
    OBVIOUS
  <2> QED
    BY <2>2, <2>3
<1> QED
  BY <1>4, <1>5

(* A sum whose every number is larger than that of another by at most one. *)
LEMMA TotalsClose ==
  ASSUME NEW S, IsFiniteSet(S), NEW v \in [S -> Int], NEW w \in [S -> Int],
         \A x \in S : v[x] <= w[x] + 1
  PROVE  Total(v, S) <= Total(w, S) + Cardinality(S)
<1> DEFINE Bad == {s \in SUBSET S : ~(Total(v, s) <= Total(w, s) + Cardinality(s))}
<1>1. \A s \in SUBSET S : /\ IsFiniteSet(s)
                          /\ Total(v, s) \in Int /\ Total(w, s) \in Int
  <2> TAKE s \in SUBSET S
  <2>1. IsFiniteSet(s)
    BY FS_Subset
  <2>2. Total(v, s) \in Int
    BY <2>1, TotalFacts
  <2>3. Total(w, s) \in Int
    BY <2>1, TotalFacts
  <2> QED
    BY <2>1, <2>2, <2>3
<1>2. ASSUME Bad # {}
      PROVE  FALSE
  <2>1. PICK s \in Bad : \A u \in SUBSET s : u # s => u \notin Bad
    <3> HIDE DEF Bad
    <3>1. Bad \in SUBSET (SUBSET S)
      BY DEF Bad
    <3> QED
      BY <1>2, <3>1, SmallestSet
  <2>2. s \in SUBSET S /\ ~(Total(v, s) <= Total(w, s) + Cardinality(s))
    OBVIOUS
  <2>3. \A u \in SUBSET s : u # s => Total(v, u) <= Total(w, u) + Cardinality(u)
    BY <2>1, <2>2
  <2> HIDE DEF Bad
  <2>4. s # {}
    <3> SUFFICES ASSUME s = {}
                 PROVE  FALSE
      OBVIOUS
    <3>1. Total(v, s) = 0
      BY <1>1, <2>2, TotalFacts
    <3>2. Total(w, s) = 0
      BY <1>1, <2>2, TotalFacts
    <3>3. Cardinality(s) = 0
      BY FS_EmptySet
    <3> QED
      BY <2>2, <3>1, <3>2, <3>3
  <2>5. PICK x \in s : TRUE
    BY <2>4
  <2> DEFINE r == s \ {x}
  <2>6. r \in SUBSET s /\ r # s /\ r \in SUBSET S /\ x \in S
    BY <2>2, <2>5
  <2>7. Total(v, s) = v[x] + Total(v, r)
    BY <1>1, <2>2, <2>5, TotalWithout
  <2>8. Total(w, s) = w[x] + Total(w, r)
    BY <1>1, <2>2, <2>5, TotalWithout
  <2>9. Cardinality(r) = Cardinality(s) - 1 /\ Cardinality(s) \in Nat
    BY <1>1, <2>2, <2>5, FS_RemoveElement, FS_CardinalityType
  <2>10. Total(v, r) <= Total(w, r) + Cardinality(r)
    BY <2>3, <2>6
  <2>11. /\ v[x] \in Int /\ w[x] \in Int /\ v[x] <= w[x] + 1
         /\ Total(v, r) \in Int /\ Total(w, r) \in Int
    BY <1>1, <2>6
  <2> HIDE DEF r
  <2> QED
    BY <2>2, <2>7, <2>8, <2>9, <2>10, <2>11
<1>3. S \in SUBSET S
  OBVIOUS
<1> QED
  BY <1>2, <1>3

(* The lines of the blocks of a zone add up to what they weigh.            *)
LEMMA LinesAreTotal ==
  ASSUME NEW z, LaidOut(z)
  PROVE  PrintedBytes(z) = Total(Weight, z.blocks)
<1> DEFINE S == z.blocks
           Is(g) == g = [s \in SUBSET S |-> IF s = {} THEN 0
                           ELSE LET x == CHOOSE x \in s : TRUE
                                IN (x.data_size + HEADER_SIZE) + g[s \ {x}]]
<1>1. S \in SUBSET Chunk /\ IsFiniteSet(S)
  BY ChunksFinite
<1>2. PrintedBytes(z) = (CHOOSE g : Is(g))[S]
  BY DEF PrintedBytes, LineBytes, MapThenSumSet, MapThenFoldSet
<1> HIDE DEF S
<1>3. \A g : Is(g) <=> AddsUp(g, Weight, S)
  <2> TAKE g
  <2> DEFINE A(s) == IF s = {} THEN 0 ELSE LET x == CHOOSE x \in s : TRUE
                                IN (x.data_size + HEADER_SIZE) + g[s \ {x}]
             B(s) == IF s = {} THEN 0 ELSE Weight[Picked(s)] + g[s \ {Picked(s)}]
  <2>1. \A s \in SUBSET S : A(s) = B(s)
    <3> TAKE s \in SUBSET S
    <3>1. CASE s = {}
      BY <3>1
    <3>2. CASE s # {}
      <4>1. Picked(s) \in Chunk
        BY <1>1, <3>2 DEF Picked
      <4>2. Weight[Picked(s)] = Picked(s).data_size + HEADER_SIZE
        BY <4>1, SizesFacts DEF Weight, Chunk
      <4> QED
        BY <3>2, <4>2 DEF Picked
    <3> QED
      BY <3>1, <3>2
  <2>2. (Is(g) <=> g = [s \in SUBSET S |-> A(s)])
    OBVIOUS
  <2>3. (AddsUp(g, Weight, S) <=> g = [s \in SUBSET S |-> B(s)])
    BY DEF AddsUp
  <2> HIDE DEF A, B, Is
  <2>4. [s \in SUBSET S |-> A(s)] = [s \in SUBSET S |-> B(s)]
    BY <2>1
  <2> QED
    BY <2>2, <2>3, <2>4
<1> HIDE DEF Is
<1>4. PICK g : AddsUp(g, Weight, S)
  BY <1>1, SumsExist
<1> DEFINE h == CHOOSE h : Is(h)
<1>5. Is(h)
  BY <1>3, <1>4
<1> HIDE DEF h
<1>6. AddsUp(h, Weight, S)
  BY <1>3, <1>5
<1> DEFINE k == CHOOSE k : AddsUp(k, Weight, S)
<1>7. AddsUp(k, Weight, S) /\ Total(Weight, S) = k[S]
  BY <1>4 DEF Total
<1> HIDE DEF k
<1>8. h[S] = k[S]
  BY <1>1, <1>6, <1>7, SumsAgree
<1> QED
  BY <1>2, <1>7, <1>8 DEF S, h

(* An empty space that does not reach the end of its zone has a block      *)
(* behind it.                                                              *)
LEMMA FreeBetweenBlocks ==
  ASSUME NEW z, WellFormed(z)
  PROVE  /\ Cardinality(z.blocks) \in Nat /\ Cardinality(z.empty_spaces) \in Nat
         /\ Cardinality(z.empty_spaces) <= Cardinality(z.blocks) + 1
<1> DEFINE B == z.blocks
           E == z.empty_spaces
           C == B \cup E
           P == {e \in E : block_end(e) # z.end}
           next == [e \in P |-> CHOOSE b \in B : b.addr = block_end(e)]
<1>1. /\ z.end \in Nat /\ Tiling(z.start, z.end, C) /\ C \subseteq Chunk
      /\ \A p, q \in E : block_end(p) # q.addr
  BY DEF WellFormed, LaidOut, Layout, Apart, Tiling, ZoneRecord
<1>2. IsFiniteSet(B) /\ IsFiniteSet(E)
  BY ChunksFinite DEF WellFormed
<1>3. Cardinality(B) \in Nat /\ Cardinality(E) \in Nat
  BY <1>2, FS_CardinalityType
<1>4. \A c \in C : /\ c.addr \in Nat /\ block_end(c) \in Nat
                   /\ c.addr < block_end(c)
  BY <1>1, SizesFacts DEF Chunk, block_end
<1>5. \A c, d \in C : block_end(c) = block_end(d) => c = d
  <2>1. \A c, d \in C :
          c # d => block_end(c) <= d.addr \/ block_end(d) <= c.addr
    BY <1>1 DEF Tiling
  <2> HIDE DEF C
  <2> QED
    BY <1>4, <2>1
<1>6. \A e \in P : \E b \in B : b.addr = block_end(e)
  <2>1. \A e \in C : block_end(e) = z.end \/ \E d \in C : d.addr = block_end(e)
    BY <1>1 DEF Tiling
  <2> QED
    BY <1>1, <2>1
<1>7. next \in [P -> B] /\ \A e \in P : next[e].addr = block_end(e)
  BY <1>6
<1>8. \A e, f \in P : next[e] = next[f] => e = f
  <2> SUFFICES ASSUME NEW e \in P, NEW f \in P, next[e] = next[f]
               PROVE  e = f
    OBVIOUS
  <2> HIDE DEF next
  <2>1. block_end(e) = block_end(f)
    BY <1>7
  <2> QED
    BY <1>5, <2>1
<1>9. Cardinality(P) <= Cardinality(B)
  <2>1. next \in Injection(P, B)
    BY <1>7, <1>8 DEF Injection, IsInjective
  <2> HIDE DEF next, P, B
  <2> QED
    BY <1>2, <2>1, FS_Injection
<1>10. CASE \E e \in E : block_end(e) = z.end
  <2>1. PICK e \in E : block_end(e) = z.end
    BY <1>10
  <2>2. P = E \ {e}
    BY <1>5, <2>1
  <2>3. Cardinality(E \ {e}) = Cardinality(E) - 1
    BY <1>2, <2>1, FS_RemoveElement
  <2> HIDE DEF P, E, B
  <2> QED
    BY <1>3, <1>9, <2>2, <2>3 DEF E, B
<1>11. CASE ~\E e \in E : block_end(e) = z.end
  <2>1. P = E
    BY <1>11
  <2> HIDE DEF P, E, B
  <2> QED
    BY <1>3, <1>9, <2>1 DEF E, B
<1> QED
  BY <1>10, <1>11

(* In a list of well-formed zones the reports add up.                      *)
LEMMA GoodReports ==
  ASSUME IInv
  PROVE  ReportsAddUp
<1> DEFINE I == DOMAIN g_zones
           n == Len(g_zones)
           Blocks == [i \in I |-> Cardinality(g_zones[i].blocks)]
           Spaces == [i \in I |-> Cardinality(g_zones[i].empty_spaces)]
           Is1(h) == h = [s \in SUBSET I |-> IF s = {} THEN 0
                            ELSE LET x == Max(s)
                                 IN h[s \ {x}] + g_zones[x].blocks_num]
           Is2(h) == h = [s \in SUBSET I |-> IF s = {} THEN 0
                            ELSE LET x == Max(s)
                                 IN h[s \ {x}] + Cardinality(g_zones[x].blocks)]
           Is3(h) == h = [s \in SUBSET I |-> IF s = {} THEN 0
                            ELSE LET x == Max(s)
                                 IN h[s \ {x}] + Cardinality(g_zones[x].empty_spaces)]
<1>1. n \in Nat /\ I = 1 .. n /\ \A i \in I : g_zones[i] \in GoodZones
  BY LenProperties, ElementOfSeq DEF IInv, heap, GoodHeaps
<1>2. \A i \in I : /\ g_zones[i].blocks_num = Cardinality(g_zones[i].blocks)
                   /\ Cardinality(g_zones[i].blocks) \in Nat
                   /\ Cardinality(g_zones[i].empty_spaces) \in Nat
                   /\ Cardinality(g_zones[i].empty_spaces)
                        <= Cardinality(g_zones[i].blocks) + 1
  BY <1>1, FreeBetweenBlocks DEF GoodZones, WellFormed, Exact
<1>3. IsFiniteSet(I) /\ Cardinality(I) = n
  BY <1>1, FS_Interval
<1>4. \A s \in SUBSET I : s # {} => Max(s) \in s
  <2> SUFFICES ASSUME NEW s \in SUBSET I, s # {}
               PROVE  Max(s) \in s
    OBVIOUS
  <2>1. s \in SUBSET Nat /\ \A x \in s : x <= n
    BY <1>1
  <2> QED
    BY <1>1, <2>1, MaxOfBounded
<1>5. /\ Blocks \in [I -> Int] /\ Spaces \in [I -> Int]
      /\ \A i \in I : Spaces[i] <= Blocks[i] + 1
      /\ \A i \in I : /\ Blocks[i] = g_zones[i].blocks_num
                      /\ Blocks[i] = Cardinality(g_zones[i].blocks)
                      /\ Spaces[i] = Cardinality(g_zones[i].empty_spaces)
  BY <1>2
<1>6. /\ total_blocks = (CHOOSE h : Is1(h))[I]
      /\ SumOfZones(LAMBDA z : Cardinality(z.blocks)) = (CHOOSE h : Is2(h))[I]
      /\ total_empty = (CHOOSE h : Is3(h))[I]
  BY DEF total_blocks, total_empty, SumOfZones, FoldLeft, MapThenFoldSet
<1> HIDE DEF Blocks, Spaces, I
<1>7. \A h : Is1(h) <=> SumsUp(h, Blocks, I)
  <2> TAKE h
  <2> DEFINE A(s) == IF s = {} THEN 0
                     ELSE LET x == Max(s) IN h[s \ {x}] + g_zones[x].blocks_num
             D(s) == IF s = {} THEN 0 ELSE LET x == Max(s) IN h[s \ {x}] + Blocks[x]
  <2>1. \A s \in SUBSET I : A(s) = D(s)
    BY <1>4, <1>5
  <2>2. Is1(h) <=> h = [s \in SUBSET I |-> A(s)]
    OBVIOUS
  <2>3. SumsUp(h, Blocks, I) <=> h = [s \in SUBSET I |-> D(s)]
    BY DEF SumsUp
  <2> HIDE DEF A, D, Is1
  <2>4. [s \in SUBSET I |-> A(s)] = [s \in SUBSET I |-> D(s)]
    BY <2>1
  <2> QED
    BY <2>2, <2>3, <2>4
<1>8. \A h : Is2(h) <=> SumsUp(h, Blocks, I)
  <2> TAKE h
  <2> DEFINE A(s) == IF s = {} THEN 0
                     ELSE LET x == Max(s) IN h[s \ {x}] + Cardinality(g_zones[x].blocks)
             D(s) == IF s = {} THEN 0 ELSE LET x == Max(s) IN h[s \ {x}] + Blocks[x]
  <2>1. \A s \in SUBSET I : A(s) = D(s)
    BY <1>4, <1>5
  <2>2. Is2(h) <=> h = [s \in SUBSET I |-> A(s)]
    OBVIOUS
  <2>3. SumsUp(h, Blocks, I) <=> h = [s \in SUBSET I |-> D(s)]
    BY DEF SumsUp
  <2> HIDE DEF A, D, Is2
  <2>4. [s \in SUBSET I |-> A(s)] = [s \in SUBSET I |-> D(s)]
    BY <2>1
  <2> QED
    BY <2>2, <2>3, <2>4
<1>9. \A h : Is3(h) <=> SumsUp(h, Spaces, I)
  <2> TAKE h
  <2> DEFINE A(s) == IF s = {} THEN 0
                     ELSE LET x == Max(s) IN h[s \ {x}] + Cardinality(g_zones[x].empty_spaces)
             D(s) == IF s = {} THEN 0 ELSE LET x == Max(s) IN h[s \ {x}] + Spaces[x]
  <2>1. \A s \in SUBSET I : A(s) = D(s)
    BY <1>4, <1>5
  <2>2. Is3(h) <=> h = [s \in SUBSET I |-> A(s)]
    OBVIOUS
  <2>3. SumsUp(h, Spaces, I) <=> h = [s \in SUBSET I |-> D(s)]
    BY DEF SumsUp
  <2> HIDE DEF A, D, Is3
  <2>4. [s \in SUBSET I |-> A(s)] = [s \in SUBSET I |-> D(s)]
    BY <2>1
  <2> QED
    BY <2>2, <2>3, <2>4
<1> HIDE DEF Is1, Is2, Is3
<1>10. /\ \E h : SumsUp(h, Blocks, I)
       /\ \A h : SumsUp(h, Blocks, I) => h[I] = Total(Blocks, I)
  BY <1>3, <1>4, <1>5, SumsUpTotal
<1>11. /\ \E h : SumsUp(h, Spaces, I)
       /\ \A h : SumsUp(h, Spaces, I) => h[I] = Total(Spaces, I)
  BY <1>3, <1>4, <1>5, SumsUpTotal
<1>12. /\ total_blocks = Total(Blocks, I)
       /\ SumOfZones(LAMBDA z : Cardinality(z.blocks)) = Total(Blocks, I)
       /\ total_empty = Total(Spaces, I)
  <2> DEFINE h1 == CHOOSE h : Is1(h)
             h2 == CHOOSE h : Is2(h)
             h3 == CHOOSE h : Is3(h)
  <2>1. Is1(h1) /\ Is2(h2) /\ Is3(h3)
    BY <1>7, <1>8, <1>9, <1>10, <1>11
  <2> HIDE DEF h1, h2, h3
  <2>2. /\ h1[I] = Total(Blocks, I) /\ h2[I] = Total(Blocks, I)
        /\ h3[I] = Total(Spaces, I)
    BY <1>7, <1>8, <1>9, <1>10, <1>11, <2>1
  <2> QED
    BY <1>6, <2>2 DEF h1, h2, h3
<1>13. Total(Spaces, I) <= Total(Blocks, I) + n
  BY <1>3, <1>5, TotalsClose
<1>14. \A z \in Zones : PrintedBytes(z) + z.remaining_space = z.total_space
  <2> TAKE z \in Zones
  <2>1. WellFormed(z) /\ LaidOut(z) /\ Exact(z) /\ z \in ZoneRecord
    BY <1>1 DEF Zones, GoodZones, WellFormed, LaidOut, I
  <2>2. PrintedBytes(z) = Total(Weight, z.blocks)
    BY <2>1, LinesAreTotal
  <2>3. Total(Weight, z.blocks) \in Int
    <3>1. Weight \in [Chunk -> Int]
      BY SizesFacts DEF Weight, Chunk
    <3>2. z.blocks \in SUBSET Chunk /\ IsFiniteSet(z.blocks)
      BY <2>1, ChunksFinite
    <3> QED
      BY <3>1, <3>2, TotalFacts
  <2>4. /\ z.total_space \in Nat
        /\ z.remaining_space = z.total_space - Total(Weight, z.blocks)
    BY <2>1 DEF Exact, ZoneRecord
  <2> QED
    BY <2>2, <2>3, <2>4
<1> QED
  BY <1>12, <1>13, <1>14 DEF ReportsAddUp

(* Whatever the program did before, the numbers in the reports agree: the  *)
(* lines of show_alloc_mem with the counts of show_alloc_mem_ex, and the   *)
(* lines of a zone with the counters in its header.                        *)
THEOREM ReportsAlwaysAddUp == Spec => []ReportsAddUp
<1>1. IInv => ReportsAddUp
  BY GoodReports
<1> QED
  BY <1>1, Invariance, PTL
=============================================================================

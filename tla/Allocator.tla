------------------------------ MODULE Allocator ------------------------------
(***************************************************************************)
(* malloc, free and realloc as a program sees them.                        *)
(*                                                                         *)
(* Each public call does its work between one lock and one unlock of       *)
(* g_malloc_lock, so a call is one step here (module Threads takes the     *)
(* calls apart).  An outcome the code does not determine - the address     *)
(* mmap picks, or that it fails - is chosen with \E.                       *)
(***************************************************************************)
EXTENDS Heap

CONSTANTS
  RequestSizes,  \* the sizes callers ask for
  StrayPtrs      \* pointers callers pass beside those they hold: NULL, others

ASSUME AllocatorAssumption ==
  /\ RequestSizes \subseteq 0 .. SIZE_MAX
  /\ StrayPtrs \subseteq Nat

VARIABLES
  g_zones,  \* the list of zones, the newest first
  mapped,   \* the pages the kernel has mapped for the allocator
  owned     \* the pointers callers hold, each with the size they asked for

vars == <<g_zones, mapped, owned>>

heap == [zones |-> g_zones, mapped |-> mapped]

Commit(h) == g_zones' = h.zones /\ mapped' = h.mapped

------------------------------------------------------------------------------
(* void *malloc(size_t size)                                               *)
malloc(n) ==
  \E result \in Allocate(heap, n) :
    /\ Commit(result.heap)
    /\ owned' = IF result.ptr = NULL THEN owned ELSE Given(owned, result.ptr, n)

(* void free(void *ptr)                                                    *)
free(ptr) == /\ \E h \in Release(heap, ptr) : Commit(h)
             /\ owned' = Returned(owned, ptr)

(* void *realloc(void *ptr, size_t size), once ptr was found to be the     *)
(* block f.block of zone number f.at.                                      *)

(* The block is large enough: it stays, and its tail may be split off.     *)
ReallocInPlace(ptr, n, f) ==
  LET size == align_size(n) IN
  /\ f.block.data_size >= size
  /\ Commit(SetZone(heap, f.at, split_block(g_zones[f.at], f.block, size)))
  /\ owned' = Given(owned, ptr, n)

(* It grows into a neighbouring empty space.                               *)
ReallocExtend(ptr, n, f) ==
  LET size == align_size(n) IN
  /\ f.block.data_size < size
  /\ \E result \in Extended(heap, f.at, f.block, size) :
       /\ Commit(result.heap)
       /\ owned' = Given(Returned(owned, ptr), result.ptr, n)

(* It moves to a new block, or stays as it was when there is none.         *)
ReallocMove(ptr, n, f) ==
  LET size == align_size(n) IN
  /\ f.block.data_size < size
  /\ Extended(heap, f.at, f.block, size) = {}
  /\ \E result \in Moved(heap, ptr, size) :
       /\ Commit(result.heap)
       /\ owned' = IF result.ptr = NULL
                   THEN owned
                   ELSE Given(Returned(owned, ptr), result.ptr, n)

realloc(ptr, n) ==
  \/ ptr = NULL /\ malloc(n)
  \/ ptr # NULL /\ n = 0 /\ free(ptr)
  \/ ptr # NULL /\ n # 0 /\ BlockOf(heap, ptr) = {} /\ UNCHANGED vars
  \/ /\ ptr # NULL /\ n # 0
     /\ \E f \in BlockOf(heap, ptr) : \/ ReallocInPlace(ptr, n, f)
                                     \/ ReallocExtend(ptr, n, f)
                                     \/ ReallocMove(ptr, n, f)

------------------------------------------------------------------------------
(* The program: any sequence of calls.                                     *)

Init == /\ g_zones = <<>>
        /\ mapped = {}
        /\ owned = [p \in {} |-> 0]

Ptrs == DOMAIN owned \cup StrayPtrs

Next == \/ \E n \in RequestSizes : malloc(n)
        \/ \E ptr \in Ptrs : free(ptr)
        \/ \E ptr \in Ptrs, n \in RequestSizes : realloc(ptr, n)

Spec == Init /\ [][Next]_vars

------------------------------------------------------------------------------
(* Invariants.                                                             *)

TypeOK ==
  /\ g_zones \in Seq(ZoneRecord)
  /\ mapped \subseteq PageAddrs
  /\ DOMAIN owned \subseteq Nat
  /\ \A p \in DOMAIN owned : owned[p] \in 1 .. SIZE_MAX

Zones == {g_zones[i] : i \in DOMAIN g_zones}

(* The chunks of every zone tile it: whatever splits, merges and in-place  *)
(* growth happened, no byte is in two chunks and none is lost.             *)
ZonesTiled == \A z \in Zones : Tiled(z)

(* free and realloc leave no two neighbouring empty spaces apart.          *)
ZonesCoalesced == \A z \in Zones : Coalesced(z)

(* The counters of a zone agree with its two lists: each chunk is counted  *)
(* with its header.  (They are unsigned, so they also never wrapped.)      *)
CountersExact == \A z \in Zones : Counted(z)

(* What find_zone concludes from the statistic is right for a zone that    *)
(* has an empty space: when it says that a request fits, some space holds  *)
(* it.                                                                     *)
StatisticHonest ==
  \A z \in Zones :
    z.empty_spaces # {} =>
      \E e \in z.empty_spaces : z.max_free_space_size <= e.data_size + HEADER_SIZE

(* Callers hold exactly the payloads of the blocks: no block is leaked, no *)
(* pointer outlives its block, and each block has the room asked for.      *)
OwnersMatchBlocks ==
  LET blocks == UNION {z.blocks : z \in Zones} IN
  /\ DOMAIN owned = {block_payload(b) : b \in blocks}
  /\ \A b \in blocks : owned[block_payload(b)] <= b.data_size

(* Through all shrinking and growing, a block is longer than its rounded   *)
(* request only by a rest that is too short to be a chunk.                 *)
LittleToSpare ==
  \A z \in Zones : \A b \in z.blocks :
    b.data_size - align_size(owned[block_payload(b)]) < MIN_SPLIT_SIZE

(* The zones lie on disjoint pages, exactly those that are mapped: none is *)
(* lost to the allocator, none is used after it was given back.            *)
ZonesMatchMappings ==
  /\ \A i, j \in DOMAIN g_zones :
       i # j => \/ g_zones[i].end <= g_zones[j].start
                \/ g_zones[j].end <= g_zones[i].start
  /\ mapped = UNION {PagesOf(z.start, z.end - z.start) : z \in Zones}

(* A LARGE zone lives exactly as long as the one block it was mapped for.  *)
LargeZonesHoldOneBlock ==
  \A z \in Zones : z.type = "LARGE" =>
    \E b \in z.blocks : /\ z.blocks = {b}
                        /\ b.addr = z.start + ZONE_HEADER_SIZE

(* A call that hands out nothing new and takes nothing back - it failed,   *)
(* was given a pointer it does not know, or asks for what is already so -  *)
(* leaves the heap as it was: a failure maps no zone and loses no block.   *)
FailuresLeaveNoTrace == [][owned' = owned => UNCHANGED vars]_vars

------------------------------------------------------------------------------
(* The allocator keeps the contract: callers see regions of the size they  *)
(* asked for, aligned and disjoint, and each call changes at most its own. *)
Contract == INSTANCE MallocContract
KeepsContract == Contract!Spec
=============================================================================

----------------------------- MODULE MCAllocator -----------------------------
(***************************************************************************)
(* The allocator and its reports on small instances, and two statements of *)
(* malloc.h that do not hold of them.                                      *)
(***************************************************************************)
EXTENDS ShowAlloc

(* The bytes a zone of its own for a rounded request of size takes.        *)
ZoneSizeFor(size) ==
  CASE get_zone_type(size) = "TINY"  -> TINY_ZONE_SIZE
    [] get_zone_type(size) = "SMALL" -> SMALL_ZONE_SIZE
    [] OTHER                         -> size + HEADER_SIZE + ZONE_HEADER_SIZE

(* malloc.h:150, "Allocates size bytes for a memory block and returns a    *)
(* pointer to it": a request that is not beyond the limit is served when   *)
(* the kernel has room for another zone.                                   *)
RequestsAreServed ==
  \A n \in RequestSizes \ {0} :
    /\ n <= MAX_ALLOC_SIZE
    /\ mmap(heap, ZoneSizeFor(align_size(n))) # {}
    => \E result \in Allocate(heap, n) : result.ptr # NULL

(* malloc.h:180, "show_alloc_mem but with extra details": the extended     *)
(* report gives the total that the plain one gives.                        *)
ExtendedTotalAgrees == show_alloc_mem_ex = show_alloc_mem
=============================================================================

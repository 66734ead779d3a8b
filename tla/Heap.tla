-------------------------------- MODULE Heap ---------------------------------
(***************************************************************************)
(* What the allocator keeps between two calls, and what the steps of       *)
(* malloc, free and realloc make of it.                                    *)
(*                                                                         *)
(* A heap is a record: zones is the list g_zones, the newest zone first,   *)
(* and mapped is the set of pages the kernel has mapped for the allocator. *)
(* An operator that depends on the kernel gives the set of its outcomes.   *)
(***************************************************************************)
EXTENDS Zone, SequencesExt

CONSTANT MEM_END  \* the end of the addresses mmap can give out

ASSUME HeapAssumption == MEM_END \in Nat

NULL == 0

EmptyHeap == [zones |-> <<>>, mapped |-> {}]

(* The pointers callers hold, with the size they asked for: own after ptr  *)
(* was handed out, and after it was given back.                            *)
Given(own, ptr, n) ==
  [p \in DOMAIN own \cup {ptr} |-> IF p = ptr THEN n ELSE own[p]]
Returned(own, ptr) == [p \in DOMAIN own \ {ptr} |-> own[p]]

------------------------------------------------------------------------------
(* The kernel: mmap returns any free page-aligned range, or fails.         *)

PageAddrs == {p \in PAGESIZE .. MEM_END - 1 : IsMultiple(p, PAGESIZE)}

(* The pages that len bytes at a page-aligned address lie on.              *)
PagesOf(base, len) == {p \in PageAddrs : base <= p /\ p < base + len}

mmap(heap, len) ==
  {base \in PageAddrs : /\ len > 0
                        /\ base + len <= MEM_END
                        /\ PagesOf(base, len) \cap heap.mapped = {}}

munmap(heap, base, len) == [heap EXCEPT !.mapped = @ \ PagesOf(base, len)]

------------------------------------------------------------------------------
(* malloc                                                                  *)

(* What a search for a zone can end with: the zone is number at of the     *)
(* list, 0 when there is none.                                             *)
NoZone(heap) == {[heap |-> heap, at |-> 0]}

(* A fresh mapping of zone_size bytes becomes the head of the list.        *)
MapZone(heap, type, zone_size) ==
  NoZone(heap) \cup
  {[heap |-> [zones  |-> <<zone_init(base, type, zone_size)>> \o heap.zones,
              mapped |-> heap.mapped \cup PagesOf(base, zone_size)],
    at   |-> 1] : base \in mmap(heap, zone_size)}

(* Seeded fault: the overflow of the sum is not looked for. *)
create_large_zone_Wrap(heap, size) ==
  MapZone(heap, "LARGE", Wrap(size + HEADER_SIZE + ZONE_HEADER_SIZE))

create_large_zone(heap, size) ==
  IF size > SIZE_MAX - HEADER_SIZE - ZONE_HEADER_SIZE
  THEN NoZone(heap)
  ELSE MapZone(heap, "LARGE", Wrap(size + HEADER_SIZE + ZONE_HEADER_SIZE))

create_zone(heap, type) ==
  MapZone(heap, type,
          IF type = "TINY" THEN TINY_ZONE_SIZE ELSE SMALL_ZONE_SIZE)

(* The first zone of the type whose statistic says that size fits; a set   *)
(* that is empty when there is none.                                       *)
FittingZone(heap, type, size) ==
  LET Fits(i) == /\ heap.zones[i].type = type
                 /\ heap.zones[i].max_free_space_size >= size + HEADER_SIZE
  IN {i \in DOMAIN heap.zones : Fits(i) /\ \A j \in 1 .. i - 1 : ~Fits(j)}

(* A LARGE request always gets a zone of its own.                          *)
find_zone(heap, type, size) ==
  CASE type = "LARGE" -> create_large_zone(heap, size)
    [] type # "LARGE" /\ FittingZone(heap, type, size) = {} ->
         create_zone(heap, type)
    [] OTHER ->
         {[heap |-> heap, at |-> i] : i \in FittingZone(heap, type, size)}

(* The zone at index i after a request of size, and the pointer handed     *)
(* out: NULL when find_empty_space finds nothing.                          *)
allocate_block(heap, i, size) ==
  LET z    == heap.zones[i]
      fits == find_empty_space(z, size)
  IN IF fits = {}
     THEN {[heap |-> heap, ptr |-> NULL]}
     ELSE {[heap |-> [heap EXCEPT !.zones[i] = allocate_from_empty(z, e, size)],
            ptr  |-> block_payload(e)] : e \in fits}

(***************************************************************************)
(* The outcomes of a request: what the heap becomes and the pointer handed *)
(* out.  A size of zero or beyond the limit is refused first.  size is     *)
(* rounded up, then a zone and a space in it are found.                    *)
(***************************************************************************)
Allocate(heap, n) ==
  IF n = 0 \/ n > MAX_ALLOC_SIZE
  THEN {[heap |-> heap, ptr |-> NULL]}
  ELSE LET size == align_size(n) IN
       UNION {IF found.at = 0
              THEN {[heap |-> found.heap, ptr |-> NULL]}
              ELSE allocate_block(found.heap, found.at, size)
                : found \in find_zone(heap, get_zone_type(size), size)}

------------------------------------------------------------------------------
(* free                                                                    *)

(* The first zone whose range holds ptr: none or one.                      *)
find_zone_for_ptr(heap, ptr) ==
  LET Holds(i) == heap.zones[i].start <= ptr /\ ptr < heap.zones[i].end
  IN {i \in DOMAIN heap.zones :
        ptr # NULL /\ Holds(i) /\ \A j \in 1 .. i - 1 : ~Holds(j)}

(* The address of the header in front of a payload.                        *)
block_from_payload(ptr) == ptr - HEADER_SIZE

(* The block of the zone with its header at addr: none or one.             *)
is_valid_block(addr, z) == {b \in z.blocks : b.addr = addr}

(* The zone and the block of ptr, none when a look-up rejects it.          *)
BlockOf(heap, ptr) ==
  UNION {{[at |-> i, block |-> b] :
            b \in is_valid_block(block_from_payload(ptr), heap.zones[i])}
           : i \in find_zone_for_ptr(heap, ptr)}

(* Seeded fault: the zone header is left out of the length to unmap. *)
free_large_zone_Short(heap, i) ==
  LET z == heap.zones[i]
  IN munmap([heap EXCEPT !.zones = RemoveAt(@, i)],
            z.start, z.total_space)

(* A LARGE zone is unlinked from the list and given back to the kernel.    *)
free_large_zone(heap, i) ==
  LET z == heap.zones[i]
  IN munmap([heap EXCEPT !.zones = RemoveAt(@, i)],
            z.start, z.total_space + ZONE_HEADER_SIZE)

SetZone(heap, i, z) == [heap EXCEPT !.zones[i] = z]

(* Seeded fault: an emptied LARGE zone stays in the list. *)
ReleaseBlock_KeepLarge(heap, i, block) ==
  SetZone(heap, i, convert_block_to_empty(heap.zones[i], block))

(* A block of zone number i is given back.                                 *)
ReleaseBlock(heap, i, block) ==
  IF heap.zones[i].type = "LARGE"
  THEN free_large_zone(heap, i)
  ELSE SetZone(heap, i, convert_block_to_empty(heap.zones[i], block))

(* The body of free: an unknown pointer is ignored.                        *)
Release(heap, ptr) ==
  IF BlockOf(heap, ptr) = {}
  THEN {heap}
  ELSE {ReleaseBlock(heap, f.at, f.block) : f \in BlockOf(heap, ptr)}

------------------------------------------------------------------------------
(* realloc, for a block of zone number i                                   *)

(* Growing in the zone is tried when the new size still is of its type.    *)
Extended(heap, i, block, size) ==
  IF get_zone_type(size) # heap.zones[i].type
  THEN {}
  ELSE {[heap |-> SetZone(heap, i, r.zone), ptr |-> r.ptr]
          : r \in try_to_extend_block(heap.zones[i], block, size)}

(* A new block is allocated, and the old one freed unless that failed.     *)
(* realloc_malloc sees the rounded size, and rounds it again.              *)
Moved(heap, ptr, size) ==
  UNION {IF new.ptr = NULL
         THEN {new}
         ELSE {[heap |-> h, ptr |-> new.ptr] : h \in Release(new.heap, ptr)}
           : new \in Allocate(heap, size)}
=============================================================================

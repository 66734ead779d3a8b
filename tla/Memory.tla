------------------------------- MODULE Memory --------------------------------
(***************************************************************************)
(* The allocator over memory: the headers of zones and chunks at their     *)
(* addresses, the links between them, and the bytes callers wrote.  Where  *)
(* module Zone has a set of chunks, this module has what the code walks:   *)
(* a head and the prev and next pointers in the headers themselves.        *)
(*                                                                         *)
(* Memory is a record m:                                                   *)
(*   g_zones  the head of the list of zones                                *)
(*   zone     the zone headers, by the address of the zone                 *)
(*   hdr      the headers of chunks, by address                            *)
(*   bytes    the bytes of payloads that hold what the owner of watched    *)
(*            wrote: each of them its index in the payload                 *)
(*   mapped   the mapped pages                                             *)
(* A header lies in memory like any byte: writing one destroys the bytes   *)
(* of payloads under it, and writing a payload destroys headers under it.  *)
(* A header the code is done with, and a byte no caller may rely on, are   *)
(* dropped: reading one later would be an error.                           *)
(***************************************************************************)
EXTENDS Sizes, MemOps

CONSTANTS MEM_END, RequestSizes, StrayPtrs  \* as in Heap and Allocator

ASSUME MemoryAssumption ==
  /\ MEM_END \in Nat
  /\ RequestSizes \subseteq 0 .. SIZE_MAX
  /\ StrayPtrs \subseteq Nat

VARIABLES
  mem,     \* the memory
  owned,   \* the pointers callers hold, each with the size they asked for
  watched, \* one of them, any, whose owner looks after its contents: it has
           \* written the first kept bytes at ptr, and not cut them off since
  zones    \* mem as Allocator sees it, for the refinement

vars == <<mem, owned, watched, zones>>

NotWatched == [ptr |-> NULL, kept |-> 0]

Without(f, a, n) == [x \in DOMAIN f \ (a .. a + n - 1) |-> f[x]]

(* h is written as the header at a.                                        *)
Put(m, a, h) == [m EXCEPT !.hdr   = Store(@, a, h),
                          !.bytes = Without(@, a, HEADER_SIZE)]

Header(a, data_size) == [data_size |-> data_size, prev |-> NULL, next |-> NULL,
                         end       |-> a + HEADER_SIZE + data_size]

(* What stays of the headers when n bytes at a are overwritten.            *)
Intact(hdr, a, n) ==
  [h \in {h \in DOMAIN hdr : h + HEADER_SIZE <= a \/ a + n <= h} |-> hdr[h]]

(* A list as its walk meets the nodes, from the head to the last one.      *)
Behind(nodes, a) == IF a = NULL THEN NULL ELSE nodes[a].next

Walk(nodes, head) ==
  LET node[k \in 1 .. Cardinality(DOMAIN nodes)] ==
        IF k = 1 THEN head ELSE Behind(nodes, node[k - 1])
  IN [k \in 1 .. Cardinality({k \in DOMAIN node : node[k] # NULL}) |-> node[k]]

Blocks(m, z)      == Walk(m.hdr, m.zone[z].blocks)
EmptySpaces(m, z) == Walk(m.hdr, m.zone[z].empty_spaces)
ZoneList(m)       == Walk(m.zone, m.g_zones)

(* The first node of a walk that a test picks, as a set.                   *)
FirstOf(walk, Test(_)) ==
  {walk[i] : i \in {i \in DOMAIN walk :
                     Test(walk[i]) /\ \A j \in 1 .. i - 1 : ~Test(walk[j])}}

------------------------------------------------------------------------------
(* Links.  list is "blocks" or "empty_spaces"; the node before the first   *)
(* is NULL, and its next pointer is the head in the zone header.           *)

SetNext(m, z, list, a, b) ==
  IF a = NULL
  THEN [m EXCEPT !.zone[z][list] = b]
  ELSE Put(m, a, [m.hdr[a] EXCEPT !.next = b])

SetPrev(m, a, p) ==
  IF a = NULL THEN m ELSE Put(m, a, [m.hdr[a] EXCEPT !.prev = p])

(* The node new takes the place of the node whose header was old.          *)
replace_block(m, z, list, old, new) ==
  LET placed == Put(m, new, [m.hdr[new] EXCEPT !.prev = old.prev,
                                               !.next = old.next])
  IN SetPrev(SetNext(placed, z, list, old.prev, new), old.next, new)

(* Seeded fault: the node behind keeps its old prev. *)
remove_block_NoPrev(m, z, list, old) == SetNext(m, z, list, old.prev, old.next)

remove_block(m, z, list, old) ==
  SetPrev(SetNext(m, z, list, old.prev, old.next), old.next, old.prev)

(***************************************************************************)
(* The insertion by address, which the code has three times: in front of   *)
(* the first node, or behind the first whose successor is not before new.  *)
(***************************************************************************)
add_block_to_list(m, z, list, new) ==
  LET first  == m.zone[z][list]
      front  == first = NULL \/ new < first
      behind == FirstOf(Walk(m.hdr, first),
                        LAMBDA a : m.hdr[a].next = NULL \/ m.hdr[a].next >= new)
      prev   == IF front THEN NULL ELSE CHOOSE a \in behind : TRUE
      next   == IF front THEN first ELSE m.hdr[prev].next
      placed == Put(m, new, [m.hdr[new] EXCEPT !.prev = prev, !.next = next])
  IN SetNext(SetPrev(placed, next, new), z, list, prev, new)

------------------------------------------------------------------------------
(* Inside a zone.                                                          *)

Count(m, z, blocks, space) ==
  [m EXCEPT !.zone[z].blocks_num      = @ + blocks,
            !.zone[z].remaining_space = @ + space]

update_empty_stats(m, z) ==
  IF m.zone[z].empty_spaces = NULL
  THEN m
  ELSE [m EXCEPT !.zone[z].max_free_space_size =
          Max({m.hdr[e].data_size : e \in ToSet(EmptySpaces(m, z))})]

allocate_from_empty(m, z, empty, size) ==
  LET old      == m.hdr[empty]
      leftover == old.data_size - size
      splits   == leftover >= MIN_SPLIT_SIZE
      block    == Header(empty, IF splits THEN size ELSE old.data_size)
      taken    == Put(m, empty, block)
      rest     == Put(taken, block.end, Header(block.end, leftover - HEADER_SIZE))
      unlinked == IF splits
                  THEN replace_block(rest, z, "empty_spaces", old, block.end)
                  ELSE remove_block(taken, z, "empty_spaces", old)
      listed   == add_block_to_list(unlinked, z, "blocks", empty)
  IN update_empty_stats(
       Count(listed, z, 1, -(block.data_size + HEADER_SIZE)), z)

(* The header at a is no header any more.                                  *)
Forget(m, a) == [m EXCEPT !.hdr = Without(@, a, 1)]

(* The empty space e takes the next one of its list, and the gap between.  *)
JoinNext(m, e) ==
  LET next_empty == m.hdr[e].next
      n          == m.hdr[next_empty]
      gap        == next_empty - m.hdr[e].end
      joined     == Put(m, e, [m.hdr[e] EXCEPT
                         !.data_size = @ + gap + n.data_size + HEADER_SIZE,
                         !.end       = n.end,
                         !.next      = n.next])
  IN Forget(SetPrev(joined, n.next, e), next_empty)

(* A turn of the loop of merge_empty_spaces, whose current element is s.at. *)
MergeTurn(s) ==
  LET next_empty == s.mem.hdr[s.at].next
  IN CASE s.at = NULL \/ next_empty = NULL -> s
       [] s.at # NULL /\ next_empty # NULL  ->
            IF next_empty - s.mem.hdr[s.at].end < MIN_SPLIT_SIZE
            THEN [s EXCEPT !.mem = JoinNext(@, s.at)]
            ELSE [s EXCEPT !.at = next_empty]

(* The loop.  Each turn leaves one element less to go: there are no more   *)
(* turns than headers.                                                     *)
merge_from(m, e) ==
  LET turns == Cardinality(DOMAIN m.hdr)
      after[k \in 0 .. turns] ==
        IF k = 0 THEN [mem |-> m, at |-> e] ELSE MergeTurn(after[k - 1])
  IN after[turns].mem

merge_empty_spaces(m, z) ==
  update_empty_stats(merge_from(m, m.zone[z].empty_spaces), z)

convert_block_to_empty(m, z, block) ==
  LET unlinked == remove_block(m, z, "blocks", m.hdr[block])
      counted  == Count(unlinked, z, -1, m.hdr[block].data_size + HEADER_SIZE)
  IN merge_empty_spaces(add_block_to_list(counted, z, "empty_spaces", block), z)

split_block(m, z, block, new_size) ==
  LET leftover  == m.hdr[block].data_size - new_size
      new_empty == block + HEADER_SIZE + new_size
      shrunk    == Put(m, block, [m.hdr[block] EXCEPT !.data_size = new_size,
                                                      !.end       = new_empty])
      split     == Put(Count(shrunk, z, 0, leftover), new_empty,
                       Header(new_empty, leftover - HEADER_SIZE))
  IN IF leftover < MIN_SPLIT_SIZE
     THEN m
     ELSE merge_empty_spaces(
            add_block_to_list(split, z, "empty_spaces", new_empty), z)

(* A grown block is cut back to size, or the statistics are refreshed.     *)
CutBack(m, z, block, size) ==
  IF m.hdr[block].data_size - size >= MIN_SPLIT_SIZE
  THEN split_block(m, z, block, size)
  ELSE update_empty_stats(m, z)

(* The empty space that ends where a block begins, or begins where it ends. *)
find_empty_after(m, z, block) ==
  FirstOf(EmptySpaces(m, z), LAMBDA e : m.hdr[block].end = e)
find_empty_before(m, z, block) ==
  FirstOf(EmptySpaces(m, z), LAMBDA e : m.hdr[e].end = block)

available_space(m, block, e) ==
  m.hdr[block].data_size + HEADER_SIZE + m.hdr[e].data_size

(* The empty space e leaves its list, and its bytes the count.             *)
TakeEmpty(m, z, e) ==
  Count(remove_block(m, z, "empty_spaces", m.hdr[e]),
        z, 0, -(HEADER_SIZE + m.hdr[e].data_size))

(* Seeded fault: the end of the grown block is left where it was. *)
GrowForward_OldEnd(m, z, block, e) ==
  Forget(Put(TakeEmpty(m, z, e), block,
             [m.hdr[block] EXCEPT !.data_size = available_space(m, block, e)]), e)

(* The block takes the empty space e behind it.                            *)
GrowForward(m, z, block, e) ==
  LET size == available_space(m, block, e)
  IN Forget(Put(TakeEmpty(m, z, e), block,
                [m.hdr[block] EXCEPT !.data_size = size,
                                     !.end       = block + HEADER_SIZE + size]), e)

extend_block(m, z, block, size) ==
  {[mem |-> CutBack(GrowForward(m, z, block, e), z, block, size),
    ptr |-> block + HEADER_SIZE]
     : e \in {e \in find_empty_after(m, z, block) :
                available_space(m, block, e) >= size}}

(* The header of the empty space e before the block becomes the block's.   *)
GrowBackward(m, z, block, e) ==
  LET header == [m.hdr[e] EXCEPT !.data_size = available_space(m, block, e),
                                 !.end       = m.hdr[block].end]
  IN Forget(replace_block(Put(TakeEmpty(m, z, e), e, header),
                          z, "blocks", m.hdr[block], e), block)

(* n bytes are copied; headers under the destination are gone.             *)
MoveBytes(m, dest, src, n) ==
  [m EXCEPT !.bytes = ft_memmove(@, dest, src, n),
            !.hdr   = Intact(@, dest, n)]

(* Seeded fault: the payload is moved when the block was cut back already. *)
extend_block_back_CutFirst(m, z, block, size) ==
  {[mem |-> MoveBytes(CutBack(GrowBackward(m, z, block, e), z, e, size),
                      e + HEADER_SIZE, block + HEADER_SIZE,
                      m.hdr[block].data_size),
    ptr |-> e + HEADER_SIZE]
     : e \in {e \in find_empty_before(m, z, block) :
                available_space(m, block, e) >= size}}

(* The payload moves down over the old header before the rest is cut off.  *)
extend_block_back(m, z, block, size) ==
  {[mem |-> CutBack(MoveBytes(GrowBackward(m, z, block, e),
                              e + HEADER_SIZE, block + HEADER_SIZE,
                              m.hdr[block].data_size), z, e, size),
    ptr |-> e + HEADER_SIZE]
     : e \in {e \in find_empty_before(m, z, block) :
                available_space(m, block, e) >= size}}

try_to_extend_block(m, z, block, size) ==
  IF extend_block(m, z, block, size) # {}
  THEN extend_block(m, z, block, size)
  ELSE extend_block_back(m, z, block, size)

------------------------------------------------------------------------------
(* The kernel and the list of zones.                                       *)

Pages == {p \in PAGESIZE .. MEM_END - 1 : IsMultiple(p, PAGESIZE)}
PagesIn(base, len) == {p \in Pages : base <= p /\ p < base + len}

mmap(m, len) ==
  {base \in Pages : len > 0 /\ base + len <= MEM_END
                      /\ PagesIn(base, len) \cap m.mapped = {}}

munmap(m, base, len) ==
  [m EXCEPT !.mapped = @ \ PagesIn(base, len),
            !.zone   = Without(@, base, len),
            !.hdr    = Intact(@, base, len),
            !.bytes  = Without(@, base, len)]

(* A fresh mapping as a zone with one empty space, in front of the list.   *)
zone_init(m, base, type, zone_size) ==
  LET space  == zone_size - ZONE_HEADER_SIZE
      first  == base + ZONE_HEADER_SIZE
      new    == [end |-> base + zone_size, type |-> type, blocks_num |-> 0,
                 total_space |-> space, remaining_space |-> space,
                 max_free_space_size |-> space,
                 blocks |-> NULL, empty_spaces |-> first,
                 prev |-> NULL, next |-> m.g_zones]
      linked == IF m.g_zones = NULL
                THEN m.zone
                ELSE [m.zone EXCEPT ![m.g_zones].prev = base]
  IN Put([m EXCEPT !.zone    = Store(linked, base, new),
                   !.mapped  = @ \cup PagesIn(base, zone_size),
                   !.g_zones = base],
         first, Header(first, space - HEADER_SIZE))

free_large_zone(m, z) ==
  LET prev  == m.zone[z].prev
      next  == m.zone[z].next
      ahead == IF prev = NULL
               THEN [m EXCEPT !.g_zones = next]
               ELSE [m EXCEPT !.zone[prev].next = next]
      both  == IF next = NULL
               THEN ahead
               ELSE [ahead EXCEPT !.zone[next].prev = prev]
  IN munmap(both, z, m.zone[z].total_space + ZONE_HEADER_SIZE)

(* The zone a request is served from, NULL when there is none.             *)
MapZone(m, type, zone_size) ==
  {[mem |-> m, zone |-> NULL]} \cup
  {[mem |-> zone_init(m, base, type, zone_size), zone |-> base]
     : base \in mmap(m, zone_size)}

find_zone(m, type, size) ==
  LET fitting == FirstOf(ZoneList(m), LAMBDA z :
                   /\ m.zone[z].type = type
                   /\ m.zone[z].max_free_space_size >= size + HEADER_SIZE)
  IN CASE type = "LARGE" /\ size > SIZE_MAX - HEADER_SIZE - ZONE_HEADER_SIZE ->
            {[mem |-> m, zone |-> NULL]}
       [] type = "LARGE" /\ size <= SIZE_MAX - HEADER_SIZE - ZONE_HEADER_SIZE ->
            MapZone(m, type, size + HEADER_SIZE + ZONE_HEADER_SIZE)
       [] type # "LARGE" /\ fitting # {} ->
            {[mem |-> m, zone |-> z] : z \in fitting}
       [] OTHER ->
            MapZone(m, type, IF type = "TINY" THEN TINY_ZONE_SIZE
                                              ELSE SMALL_ZONE_SIZE)

allocate_block(m, z, size) ==
  LET fits == FirstOf(EmptySpaces(m, z), LAMBDA e : m.hdr[e].data_size >= size)
  IN IF fits = {}
     THEN {[mem |-> m, ptr |-> NULL]}
     ELSE {[mem |-> allocate_from_empty(m, z, e, size), ptr |-> e + HEADER_SIZE]
             : e \in fits}

(* What realloc_malloc, and malloc the same way, makes of a request.       *)
realloc_malloc(m, n) ==
  LET size == align_size(n)
  IN IF n = 0 \/ n > MAX_ALLOC_SIZE
     THEN {[mem |-> m, ptr |-> NULL]}
     ELSE UNION {IF f.zone = NULL
                 THEN {[mem |-> f.mem, ptr |-> NULL]}
                 ELSE allocate_block(f.mem, f.zone, size)
                   : f \in find_zone(m, get_zone_type(size), size)}

(* The zone and the header of a pointer, when both look-ups know it.       *)
BlockOf(m, ptr) ==
  {f \in [zone  : FirstOf(ZoneList(m), LAMBDA z : z <= ptr /\ ptr < m.zone[z].end),
          block : {ptr - HEADER_SIZE}] :
     ptr # NULL /\ f.block \in ToSet(Blocks(m, f.zone))}

(* realloc_free, and free the same way: an unknown pointer is ignored.     *)
realloc_free(m, ptr) ==
  IF BlockOf(m, ptr) = {}
  THEN {m}
  ELSE {IF m.zone[f.zone].type = "LARGE"
        THEN free_large_zone(m, f.zone)
        ELSE convert_block_to_empty(m, f.zone, f.block) : f \in BlockOf(m, ptr)}

------------------------------------------------------------------------------
(* Memory as the heap of Allocator, seen through the walks of its lists.   *)

ChunksOf(m, walk) ==
  {[addr |-> a, data_size |-> m.hdr[a].data_size] : a \in ToSet(walk)}

ZoneView(m, z) ==
  LET h == m.zone[z] IN
  [start |-> z, end |-> h.end, type |-> h.type, blocks_num |-> h.blocks_num,
   total_space |-> h.total_space, remaining_space |-> h.remaining_space,
   max_free_space_size |-> h.max_free_space_size,
   blocks |-> ChunksOf(m, Blocks(m, z)),
   empty_spaces |-> ChunksOf(m, EmptySpaces(m, z))]

ZonesOf(m) == [i \in DOMAIN ZoneList(m) |-> ZoneView(m, ZoneList(m)[i])]

------------------------------------------------------------------------------
(* The calls.                                                              *)

(* The call ends: bytes nobody may rely on any more are dropped.           *)
Leave(m, o, w) ==
  /\ mem' = [m EXCEPT !.bytes = [a \in DOMAIN @ \cap (w.ptr .. w.ptr + w.kept - 1)
                                   |-> @[a]]]
  /\ owned' = o
  /\ watched' = w
  /\ zones' = ZonesOf(m)

Drop(ptr) == [p \in DOMAIN owned \ {ptr} |-> owned[p]]

malloc(n) ==
  \E r \in realloc_malloc(mem, n) :
    Leave(r.mem, IF r.ptr = NULL THEN owned ELSE Store(owned, r.ptr, n), watched)

free(ptr) ==
  \E m \in realloc_free(mem, ptr) :
    Leave(m, Drop(ptr), IF watched.ptr = ptr THEN NotWatched ELSE watched)

(* The owner of ptr holds new_ptr for n bytes now.                         *)
Return(m, ptr, new_ptr, n) ==
  Leave(m, Store(Drop(ptr), new_ptr, n),
        IF watched.ptr = ptr
        THEN [ptr |-> new_ptr, kept |-> Min({watched.kept, n})]
        ELSE watched)

(* A new block, the bytes of the old one copied, the old one freed.        *)
MoveBlock(ptr, n, block) ==
  \E r \in realloc_malloc(mem, align_size(n)) :
    IF r.ptr = NULL
    THEN UNCHANGED vars
    ELSE \E m \in realloc_free(
                  MoveBytes(r.mem, r.ptr, ptr, mem.hdr[block].data_size), ptr) :
           Return(m, ptr, r.ptr, n)

ResizeBlock(ptr, n, f) ==
  LET size  == align_size(n)
      grown == IF get_zone_type(size) = mem.zone[f.zone].type
               THEN try_to_extend_block(mem, f.zone, f.block, size)
               ELSE {}
  IN CASE mem.hdr[f.block].data_size >= size ->
            Return(split_block(mem, f.zone, f.block, size), ptr, ptr, n)
       [] mem.hdr[f.block].data_size < size /\ grown # {} ->
            \E r \in grown : Return(r.mem, ptr, r.ptr, n)
       [] OTHER -> MoveBlock(ptr, n, f.block)

realloc(ptr, n) ==
  CASE ptr = NULL           -> malloc(n)
    [] ptr # NULL /\ n = 0  -> free(ptr)
    [] OTHER                ->
         \/ BlockOf(mem, ptr) = {} /\ UNCHANGED vars
         \/ \E f \in BlockOf(mem, ptr) : ResizeBlock(ptr, n, f)

(* An owner writes all bytes it asked for.  Contents are looked after for  *)
(* one owner at a time, whichever comes first; what others write is        *)
(* different from it.                                                      *)
Write(ptr) ==
  LET range == ptr .. ptr + owned[ptr] - 1
      keeps == watched.ptr \in {NULL, ptr}
      kept  == Without(mem.bytes, ptr, owned[ptr])
  IN /\ mem' = [mem EXCEPT
          !.hdr   = Intact(@, ptr, owned[ptr]),
          !.bytes = IF keeps
                    THEN [a \in DOMAIN kept \cup range |->
                            IF a \in range THEN a - ptr ELSE kept[a]]
                    ELSE kept]
     /\ watched' = IF keeps THEN [ptr |-> ptr, kept |-> owned[ptr]] ELSE watched
     /\ zones' = ZonesOf(mem')
     /\ UNCHANGED owned

Init ==
  /\ mem = [g_zones |-> NULL, zone |-> <<>>, hdr |-> <<>>, bytes |-> <<>>,
            mapped |-> {}]
  /\ owned = <<>>
  /\ watched = NotWatched
  /\ zones = <<>>

Ptrs == DOMAIN owned \cup StrayPtrs

Next ==
  \/ \E n \in RequestSizes : malloc(n)
  \/ \E ptr \in Ptrs : free(ptr)
  \/ \E ptr \in Ptrs, n \in RequestSizes : realloc(ptr, n)
  \/ \E ptr \in DOMAIN owned : Write(ptr)

Spec == Init /\ [][Next]_vars

------------------------------------------------------------------------------
(* Properties.                                                             *)

(* The prev pointers of a list lead back the way its walk came.            *)
WellLinked(nodes, head) ==
  LET walk == Walk(nodes, head) IN
  \A i \in DOMAIN walk :
    nodes[walk[i]].prev = (IF i = 1 THEN NULL ELSE walk[i - 1])

(* The links of every list agree in both directions, also for the          *)
(* neighbours of what was inserted, replaced, removed or merged away; the  *)
(* lists of a zone are in the order of the addresses, on which every       *)
(* search, insertion and merge relies; and end is where a chunk ends.      *)
ListsWellLinked ==
  /\ WellLinked(mem.zone, mem.g_zones)
  /\ \A z \in DOMAIN mem.zone :
       \A head \in {mem.zone[z].blocks, mem.zone[z].empty_spaces} :
         LET walk == Walk(mem.hdr, head) IN
         /\ WellLinked(mem.hdr, head)
         /\ \A i \in 2 .. Len(walk) : walk[i - 1] < walk[i]
         /\ \A a \in ToSet(walk) :
              mem.hdr[a].end = a + HEADER_SIZE + mem.hdr[a].data_size

(* What a caller wrote is there until it writes again or gives the block   *)
(* back: no header is written into a payload, and growing, shrinking and   *)
(* moving a block keep its bytes up to the smaller of the two sizes.       *)
ContentsKept ==
  \A i \in 0 .. watched.kept - 1 :
    /\ watched.ptr + i \in DOMAIN mem.bytes
    /\ mem.bytes[watched.ptr + i] = i

(* The zones of mem are always those in which zones has their chunks: each *)
(* call over pointers does what the same call of Allocator does over sets. *)
Sets == INSTANCE Allocator WITH
  g_zones <- zones,
  mapped  <- mem.mapped

ListsImplementSets == Sets!Spec
=============================================================================

-------------------------------- MODULE Zone ---------------------------------
(***************************************************************************)
(* One zone of the allocator, and the operations malloc, free and realloc  *)
(* perform inside it.                                                      *)
(*                                                                         *)
(* A zone is a mapped range of addresses: a zone header, then chunks.  A   *)
(* chunk is a block header of HEADER_SIZE bytes at addr followed by        *)
(* data_size bytes of payload.  A chunk is either a block (handed out) or  *)
(* an empty space.  The code keeps each kind in a doubly linked list that  *)
(* is sorted by address; here each list is the set of its chunks, because  *)
(* its order is the order of the addresses.  The field end of a header is  *)
(* block_end of the chunk.                                                 *)
(***************************************************************************)
EXTENDS Sizes, FiniteSetsExt

Chunk == [addr : Nat, data_size : Nat]

(* The header of a zone.  Its counters are unsigned in C; that they never  *)
(* wrap follows from what they count (CountersExact in module Allocator).  *)
ZoneRecord == [start : Nat, end : Nat, type : ZoneTypes, blocks_num : Int,
               total_space : Nat, remaining_space : Int,
               max_free_space_size : Nat,
               blocks : SUBSET Chunk, empty_spaces : SUBSET Chunk]

block_payload(c) == c.addr + HEADER_SIZE
block_end(c)     == c.addr + HEADER_SIZE + c.data_size

(* A mapping of zone_size bytes at start, as one zone with one empty space. *)
zone_init(start, type, zone_size) ==
  LET space == zone_size - ZONE_HEADER_SIZE IN
  [start               |-> start,
   end                 |-> start + zone_size,
   type                |-> type,
   blocks_num          |-> 0,
   total_space         |-> space,
   remaining_space     |-> space,
   max_free_space_size |-> space,
   blocks              |-> {},
   empty_spaces        |-> {[addr      |-> start + ZONE_HEADER_SIZE,
                             data_size |-> space - HEADER_SIZE]}]

(* Seeded fault: the statistic only ever grows. *)
update_empty_stats_Grow(z) ==
  IF z.empty_spaces = {}
  THEN z
  ELSE [z EXCEPT !.max_free_space_size =
          Max({@} \cup {e.data_size : e \in z.empty_spaces})]

(***************************************************************************)
(* Recomputes the size of the largest empty space.  Without any empty      *)
(* space the function returns early and the old value stays.               *)
(***************************************************************************)
update_empty_stats(z) ==
  IF z.empty_spaces = {}
  THEN z
  ELSE [z EXCEPT !.max_free_space_size =
          Max({e.data_size : e \in z.empty_spaces})]

------------------------------------------------------------------------------
(* malloc: the first empty space that is large enough, and its use.        *)

(* Seeded fault: a space that fits exactly is passed over. *)
find_empty_space_Strict(z, size) ==
  {e \in z.empty_spaces :
     /\ e.data_size > size
     /\ \A f \in z.empty_spaces : f.data_size > size => e.addr <= f.addr}

find_empty_space(z, size) ==
  {e \in z.empty_spaces :
     /\ e.data_size >= size
     /\ \A f \in z.empty_spaces : f.data_size >= size => e.addr <= f.addr}

(* Seeded fault: the leftover that is too small to split is not absorbed.  *)
allocate_from_empty_Lose(z, empty, size) ==
  LET leftover  == empty.data_size - size
      splits    == leftover >= MIN_SPLIT_SIZE
      new_block == [addr |-> empty.addr, data_size |-> size]
      new_empty == [addr |-> block_end(new_block),
                    data_size |-> leftover - HEADER_SIZE]
  IN update_empty_stats(
       [z EXCEPT !.blocks          = @ \cup {new_block},
                 !.blocks_num      = @ + 1,
                 !.empty_spaces    = (@ \ {empty}) \cup
                                       (IF splits THEN {new_empty} ELSE {}),
                 !.remaining_space = @ - (new_block.data_size + HEADER_SIZE)])

(***************************************************************************)
(* Turns the front of an empty space into a block.  What is left becomes   *)
(* an empty space when it can hold a header and some payload; otherwise    *)
(* the block takes it all.                                                 *)
(***************************************************************************)
allocate_from_empty(z, empty, size) ==
  LET leftover  == empty.data_size - size
      splits    == leftover >= MIN_SPLIT_SIZE
      new_block == [addr |-> empty.addr,
                    data_size |-> IF splits THEN size ELSE empty.data_size]
      new_empty == [addr |-> block_end(new_block),
                    data_size |-> leftover - HEADER_SIZE]
  IN update_empty_stats(
       [z EXCEPT !.blocks          = @ \cup {new_block},
                 !.blocks_num      = @ + 1,
                 !.empty_spaces    = (@ \ {empty}) \cup
                                       (IF splits THEN {new_empty} ELSE {}),
                 !.remaining_space = @ - (new_block.data_size + HEADER_SIZE)])

------------------------------------------------------------------------------
(* free: the block becomes an empty space, merged with its neighbours.     *)

(***************************************************************************)
(* Two empty spaces that merge_empty_spaces joins: e is after p and the    *)
(* gap between them is too small to be a chunk.                            *)
(***************************************************************************)
Joined(p, e) == p.addr < e.addr /\ e.addr - block_end(p) < MIN_SPLIT_SIZE

(***************************************************************************)
(* The runs of empty spaces that one pass over the list merges: a run goes *)
(* from a first space that joins none before it to a last one that joins   *)
(* none after it, and every later member of it joins an earlier one.       *)
(***************************************************************************)
Runs(E) ==
  {r \in E \X E :
     /\ r[1].addr <= r[2].addr
     /\ \A p \in E : ~Joined(p, r[1])
     /\ \A n \in E : ~Joined(r[2], n)
     /\ \A e \in E : r[1].addr < e.addr /\ e.addr <= r[2].addr
                       => \E p \in E : Joined(p, e)}

(* Seeded fault: no merging. *)
merge_empty_spaces_None(z) == update_empty_stats(z)

(* Each run becomes one empty space; then the statistics are refreshed.    *)
merge_empty_spaces(z) ==
  update_empty_stats(
    [z EXCEPT !.empty_spaces =
       {[addr      |-> r[1].addr,
         data_size |-> block_end(r[2]) - r[1].addr - HEADER_SIZE]
          : r \in Runs(@)}])

(* Seeded fault: the count of blocks is left alone. *)
convert_block_to_empty_NoCount(z, block) ==
  merge_empty_spaces(
    [z EXCEPT !.blocks          = @ \ {block},
              !.remaining_space = @ + block.data_size + HEADER_SIZE,
              !.empty_spaces    = @ \cup {block}])

convert_block_to_empty(z, block) ==
  merge_empty_spaces(
    [z EXCEPT !.blocks          = @ \ {block},
              !.blocks_num      = @ - 1,
              !.remaining_space = @ + block.data_size + HEADER_SIZE,
              !.empty_spaces    = @ \cup {block}])

------------------------------------------------------------------------------
(* realloc: shrinking a block in place, or growing it into a neighbour.    *)

(* Gives the tail of a block beyond new_size back as an empty space.       *)
split_block(z, block, new_size) ==
  LET leftover  == block.data_size - new_size
      shrunk    == [block EXCEPT !.data_size = new_size]
      new_empty == [addr      |-> block_end(shrunk),
                    data_size |-> leftover - HEADER_SIZE]
  IN IF leftover < MIN_SPLIT_SIZE
     THEN z
     ELSE merge_empty_spaces(
            [z EXCEPT !.blocks          = (@ \ {block}) \cup {shrunk},
                      !.remaining_space = @ + leftover,
                      !.empty_spaces    = @ \cup {new_empty}])

(* The empty spaces that touch a block (at most one on each side).         *)
find_empty_after(z, block) ==
  {e \in z.empty_spaces : e.addr = block_end(block)}
find_empty_before(z, block) ==
  {e \in z.empty_spaces : block_end(e) = block.addr}

(* What a block and a neighbouring empty space have room for together.     *)
available_space(block, empty) ==
  block.data_size + HEADER_SIZE + empty.data_size

(* Seeded fault: the room left over in the grown block is kept.            *)
Absorb_Whole(z, block, empty, grown, size) ==
  update_empty_stats(
    [z EXCEPT !.blocks          = (@ \ {block}) \cup {grown},
              !.empty_spaces    = @ \ {empty},
              !.remaining_space = @ - (HEADER_SIZE + empty.data_size)])

(* The zone after block and empty became grown, cut back to size.          *)
Absorb(z, block, empty, grown, size) ==
  LET joined == [z EXCEPT !.blocks          = (@ \ {block}) \cup {grown},
                          !.empty_spaces    = @ \ {empty},
                          !.remaining_space = @ - (HEADER_SIZE + empty.data_size)]
  IN IF grown.data_size - size >= MIN_SPLIT_SIZE
     THEN split_block(joined, grown, size)
     ELSE update_empty_stats(joined)

(* The outcomes of an attempt to extend a block are a set of zones and     *)
(* payload pointers: one outcome, or none when the attempt fails.          *)

(* Seeded fault: the room in the space after is not compared with the size. *)
extend_block_Unchecked(z, block, size) ==
  {[zone |-> Absorb(z, block, e,
                    [block EXCEPT !.data_size = available_space(block, e)], size),
    ptr  |-> block_payload(block)] : e \in find_empty_after(z, block)}

(* Forward into the space after the block: the payload stays where it is.  *)
extend_block(z, block, size) ==
  {[zone |-> Absorb(z, block, e,
                    [block EXCEPT !.data_size = available_space(block, e)], size),
    ptr  |-> block_payload(block)]
     : e \in {e \in find_empty_after(z, block) :
                available_space(block, e) >= size}}

(* Backward into the space before it: the payload moves down.              *)
extend_block_back(z, block, size) ==
  {[zone |-> Absorb(z, block, e,
                    [e EXCEPT !.data_size = available_space(block, e)], size),
    ptr  |-> block_payload(e)]
     : e \in {e \in find_empty_before(z, block) :
                available_space(block, e) >= size}}

try_to_extend_block(z, block, size) ==
  IF extend_block(z, block, size) # {}
  THEN extend_block(z, block, size)
  ELSE extend_block_back(z, block, size)

------------------------------------------------------------------------------
(* What makes a zone well formed.                                          *)

Chunks(z) == z.blocks \cup z.empty_spaces

(* Chunks stay inside the zone, behind its header, and hold some payload.  *)
ChunksInside(z) ==
  \A c \in Chunks(z) : /\ z.start + ZONE_HEADER_SIZE <= c.addr
                       /\ block_end(c) <= z.end
                       /\ c.data_size >= ALIGNMENT

(* No two chunks share a byte, and no chunk is both free and in use.       *)
ChunksDisjoint(z) ==
  /\ z.blocks \cap z.empty_spaces = {}
  /\ \A c, d \in Chunks(z) :
       c # d => block_end(c) <= d.addr \/ block_end(d) <= c.addr

(* No byte between the zone header and the end is lost.                    *)
NoByteLost(z) ==
  /\ \E c \in Chunks(z) : c.addr = z.start + ZONE_HEADER_SIZE
  /\ \A c \in Chunks(z) : \/ block_end(c) = z.end
                          \/ \E d \in Chunks(z) : d.addr = block_end(c)

Tiled(z) == ChunksInside(z) /\ ChunksDisjoint(z) /\ NoByteLost(z)

(* Free neighbours have been merged.                                       *)
Coalesced(z) == \A e, f \in z.empty_spaces : block_end(e) # f.addr

(* The counters agree with the two lists: each chunk is counted with its   *)
(* header.                                                                 *)
Counted(z) == /\ z.blocks_num = Cardinality(z.blocks)
              /\ z.remaining_space = MapThenSumSet(
                   LAMBDA e : HEADER_SIZE + e.data_size, z.empty_spaces)
              /\ z.total_space = z.end - z.start - ZONE_HEADER_SIZE
=============================================================================

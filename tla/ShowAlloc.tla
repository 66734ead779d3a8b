------------------------------ MODULE ShowAlloc ------------------------------
(***************************************************************************)
(* The two reports: what show_alloc_mem and show_alloc_mem_ex print of a   *)
(* heap.  Only the numbers are kept: a printed line stands for the chunk   *)
(* it is about.                                                            *)
(***************************************************************************)
EXTENDS Allocator

(* The loops over the list of zones add up a number of each zone.          *)
SumOfZones(Number(_)) ==
  FoldLeft(LAMBDA sum, z : sum + Number(z), 0, g_zones)

Bytes(blocks) == MapThenSumSet(LAMBDA b : b.data_size, blocks)

(* The number on the line of a chunk, in both reports.                     *)
LineBytes(c) == c.data_size + HEADER_SIZE
PrintedBytes(z) == MapThenSumSet(LineBytes, z.blocks)

(* show_alloc_mem: each block is a line, and is counted in the total.      *)
print_zone(z)  == Bytes(z.blocks)
show_alloc_mem == SumOfZones(print_zone)

(***************************************************************************)
(* show_alloc_mem_ex merges the two lists of a zone by address: a block is *)
(* printed while it is before the current empty space.  When no empty      *)
(* space is left the pointer to it is NULL, no block is before it, and the *)
(* loop runs out without printing.                                         *)
(***************************************************************************)
ExBlocks(z) == {b \in z.blocks : \E e \in z.empty_spaces : b.addr < e.addr}

print_zone_ex(z)  == Bytes(ExBlocks(z))
show_alloc_mem_ex == SumOfZones(print_zone_ex)

(* Its statistics: the two counts of the last section.                     *)
total_blocks == SumOfZones(LAMBDA z : z.blocks_num)
total_empty  == SumOfZones(LAMBDA z : Cardinality(z.empty_spaces))

------------------------------------------------------------------------------
(* The reports agree on every heap: there are as many block lines in       *)
(* show_alloc_mem as the statistics of show_alloc_mem_ex count; the bytes  *)
(* on the lines of a zone and its Remaining Space make its Total Space;    *)
(* and free neighbours never show as two empty spaces: between two of them *)
(* there is a block line.                                                  *)
ReportsAddUp ==
  /\ total_blocks = SumOfZones(LAMBDA z : Cardinality(z.blocks))
  /\ \A z \in Zones : PrintedBytes(z) + z.remaining_space = z.total_space
  /\ total_empty <= total_blocks + Len(g_zones)
=============================================================================

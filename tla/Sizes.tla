-------------------------------- MODULE Sizes --------------------------------
(***************************************************************************)
(* The size arithmetic of the allocator: the layout constants of malloc.h, *)
(* the rounding of a request to the alignment and the classification of a  *)
(* rounded request into one of the three kinds of zone.                    *)
(*                                                                         *)
(* Every number is a number of bytes.  size_t arithmetic is modulo         *)
(* SIZE_MAX + 1.                                                           *)
(***************************************************************************)
EXTENDS Integers

CONSTANTS
  ALIGNMENT,         \* alignof(max_align_t)
  HEADER_SIZE,       \* sizeof(t_block): the header in front of each payload
  ZONE_HEADER_SIZE,  \* sizeof(t_zone): the header at the start of each zone
  TINY_DATA_MAX,     \* largest payload of a TINY request
  SMALL_DATA_MIN,    \* smallest payload of a SMALL request, a literal in the code
  SMALL_DATA_MAX,    \* largest payload of a SMALL request
  PAGESIZE,          \* sysconf(_SC_PAGESIZE)
  TINY_ZONE_SIZE,    \* bytes mapped for a TINY zone
  SMALL_ZONE_SIZE,   \* bytes mapped for a SMALL zone
  SIZE_MAX,          \* largest value of a size_t
  MAX_ALLOC_SIZE     \* the RLIMIT_AS limit cached by get_max_alloc_size

TINY_DATA_MIN  == 1
MIN_SPLIT_SIZE == HEADER_SIZE + ALIGNMENT

IsMultiple(x, m) == x % m = 0

(***************************************************************************)
(* What malloc.h requires of its constants ("the size of the headers must  *)
(* be multiple of ALIGNMENT") and what its definitions give: a fresh zone  *)
(* of either kind holds at least one request of its kind.                  *)
(***************************************************************************)
ASSUME SizesAssumption ==
  /\ ALIGNMENT \in Nat \ {0}
  /\ HEADER_SIZE \in Nat \ {0} /\ IsMultiple(HEADER_SIZE, ALIGNMENT)
  /\ ZONE_HEADER_SIZE \in Nat \ {0} /\ IsMultiple(ZONE_HEADER_SIZE, ALIGNMENT)
  /\ TINY_DATA_MAX \in Nat \ {0} /\ IsMultiple(TINY_DATA_MAX, ALIGNMENT)
  /\ SMALL_DATA_MIN \in Nat \ {0}
  /\ SMALL_DATA_MAX \in Nat \ {0} /\ IsMultiple(SMALL_DATA_MAX, ALIGNMENT)
  /\ PAGESIZE \in Nat \ {0} /\ IsMultiple(PAGESIZE, ALIGNMENT)
  /\ TINY_ZONE_SIZE \in Nat /\ IsMultiple(TINY_ZONE_SIZE, PAGESIZE)
  /\ SMALL_ZONE_SIZE \in Nat /\ IsMultiple(SMALL_ZONE_SIZE, PAGESIZE)
  /\ TINY_ZONE_SIZE >= ZONE_HEADER_SIZE + HEADER_SIZE + TINY_DATA_MAX
  /\ SMALL_ZONE_SIZE >= ZONE_HEADER_SIZE + HEADER_SIZE + SMALL_DATA_MAX
  /\ SIZE_MAX \in Nat
  /\ SIZE_MAX >= TINY_ZONE_SIZE /\ SIZE_MAX >= SMALL_ZONE_SIZE
  /\ MAX_ALLOC_SIZE \in 0 .. SIZE_MAX

(* The value a size_t computation of x leaves. *)
Wrap(x) == x % (SIZE_MAX + 1)

(* Seeded fault: rounds down instead of up. *)
align_size_Down(size) == (size \div ALIGNMENT) * ALIGNMENT

(***************************************************************************)
(* A request rounded up to the alignment.  The mask of the code keeps the  *)
(* multiple of the (power of two) ALIGNMENT below size + ALIGNMENT - 1.    *)
(* The last sizes below SIZE_MAX are returned as they are.                 *)
(***************************************************************************)
align_size(size) ==
  IF size > SIZE_MAX - ALIGNMENT
  THEN size
  ELSE ((size + ALIGNMENT - 1) \div ALIGNMENT) * ALIGNMENT

ZoneTypes == {"TINY", "SMALL", "LARGE"}

get_zone_type(size) ==
  CASE size \in TINY_DATA_MIN .. TINY_DATA_MAX   -> "TINY"
    [] size \in SMALL_DATA_MIN .. SMALL_DATA_MAX -> "SMALL"
    [] OTHER                                     -> "LARGE"
=============================================================================

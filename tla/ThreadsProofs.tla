---------------------------- MODULE ThreadsProofs ----------------------------
(***************************************************************************)
(* Any number of threads, any interleaving of the steps of their calls:    *)
(* g_malloc_lock keeps them out of each other's way, a listed zone is      *)
(* always mapped, the calls are atomic for those who make them, and what   *)
(* the threads hold obeys the allocator's contract.                        *)
(*                                                                         *)
(* The inductive invariant says of the one thread that holds the lock how  *)
(* far its call has come: what the heap is now, as a function of the heap  *)
(* when the lock was last free (settled) and of the arguments of the call. *)
(***************************************************************************)
EXTENDS Threads, HeapProofs

(* The places of a call where its thread holds the lock.                   *)
Inside == {"find_zone", "allocate", "look_up", "look_up_old", "release",
           "munmap", "resize", "report", "unlock"}

CallRecord == [pc : Inside \cup {"idle", "lock"},
               op : {"none", "malloc", "free", "realloc", "show", "printf"},
               ptr : Nat, n : Nat, size : Nat, zone : Nat, block : Nat, ret : Nat]

(* What a call is given.                                                   *)
Arguments(c) ==
  /\ c.op # "none"
  /\ c.op \in {"malloc", "printf"}
       => c.ptr = NULL /\ c.n \in RequestSizes /\ c.n \in 1 .. MAX_ALLOC_SIZE
  /\ c.op = "realloc"
       => c.ptr # NULL /\ c.n \in RequestSizes /\ c.n \in 1 .. SIZE_MAX
  /\ c.op = "show" => c.ptr = NULL

(* It has done nothing yet.                                                *)
Fresh(c) == c.ret = NULL /\ c.size = align_size(c.n)

(* The block c.zone and c.block point to, in the heap h.                   *)
Locates(c, h, f) == c.zone = h.zones[f.at].start /\ c.block = f.block.addr

(* realloc found a block that can neither stay nor grow in its zone.       *)
Moving(c, S) ==
  /\ c.op = "realloc"
  /\ \E f \in BlockOf(S, c.ptr) :
       /\ f.block.data_size < align_size(c.n)
       /\ Extended(S, f.at, f.block, align_size(c.n)) = {}

(* The request that find_zone and allocate_block work for.                 *)
Request(c) == IF c.op = "realloc" THEN align_size(c.n) ELSE c.n

Searching(c, S) ==
  /\ c.ret = NULL
  /\ c.size = align_size(Request(c)) /\ Request(c) \in 1 .. MAX_ALLOC_SIZE
  /\ c.op \in {"malloc", "printf"} \/ Moving(c, S)

(* realloc has its new block, and still has the old one.                   *)
Copied(c, S, h) ==
  /\ Moving(c, S)
  /\ c.ret # NULL /\ [heap |-> h, ptr |-> c.ret] \in Allocate(S, align_size(c.n))

Releasing(c, S, h) ==
  (c.op = "free" /\ c.ret = NULL /\ h = S) \/ Copied(c, S, h)

(* What realloc has done when it is about to unlock.                       *)
Resized(c, S, h) ==
  \/ BlockOf(S, c.ptr) = {} /\ c.ret = NULL /\ h = S
  \/ \E f \in BlockOf(S, c.ptr) :
       LET size == align_size(c.n) IN
       \/ /\ f.block.data_size >= size
          /\ h = SetZone(S, f.at, split_block(S.zones[f.at], f.block, size))
          /\ c.ret = c.ptr
       \/ /\ f.block.data_size < size
          /\ [heap |-> h, ptr |-> c.ret] \in Extended(S, f.at, f.block, size)
       \/ /\ f.block.data_size < size
          /\ Extended(S, f.at, f.block, size) = {}
          /\ [heap |-> h, ptr |-> c.ret] \in Moved(S, c.ptr, size)

(* What any call has done then.                                            *)
Finished(c, S, h) ==
  \/ /\ c.op \in {"malloc", "printf"}
     /\ [heap |-> h, ptr |-> c.ret] \in Allocate(S, c.n)
  \/ c.op = "free" /\ h \in Release(S, c.ptr)
  \/ c.op = "show" /\ c.ret = NULL /\ h = S
  \/ c.op = "realloc" /\ Resized(c, S, h)

(* How far a call has come that began with the heap S, when the heap is h. *)
Progress(c, S, h) ==
  \/ c.pc = "find_zone" /\ Searching(c, S) /\ h = S
  \/ /\ c.pc = "allocate" /\ Searching(c, S)
     /\ \E found \in find_zone(S, get_zone_type(c.size), c.size) :
          /\ found.at # 0 /\ h = found.heap
          /\ c.zone = found.heap.zones[found.at].start
  \/ c.pc = "look_up" /\ Fresh(c) /\ c.op \in {"free", "realloc"} /\ h = S
  \/ c.pc = "look_up_old" /\ Copied(c, S, h)
  \/ /\ c.pc = "release" /\ Releasing(c, S, h)
     /\ \E f \in BlockOf(h, c.ptr) : Locates(c, h, f)
  \/ /\ c.pc = "munmap"
     /\ \E g : /\ Releasing(c, S, g)
               /\ \E f \in BlockOf(g, c.ptr) :
                    LET z == g.zones[f.at] IN
                    /\ z.type = "LARGE"
                    /\ h = [zones |-> RemoveAt(g.zones, f.at), mapped |-> g.mapped]
                    /\ c.zone = z.start /\ c.size = z.total_space + ZONE_HEADER_SIZE
  \/ /\ c.pc = "resize" /\ Fresh(c) /\ c.op = "realloc" /\ h = S
     /\ \E f \in BlockOf(S, c.ptr) : Locates(c, S, f)
  \/ c.pc = "report" /\ c.op = "show" /\ c.ret = NULL /\ h = S
  \/ c.pc = "unlock" /\ Finished(c, S, h)

(* A thread is out of every call, or waits for the lock - with the heap    *)
(* settled if it holds the lock itself -, or holds it and has come so far. *)
ThreadOK(t) ==
  LET c == call[t] IN
  \/ c.pc = "idle" /\ g_malloc_lock # t
  \/ /\ c.pc = "lock" /\ Fresh(c) /\ Arguments(c)
     /\ g_malloc_lock = t => heap = settled
  \/ /\ c.pc \in Inside /\ Arguments(c)
     /\ g_malloc_lock = t /\ Progress(c, settled, heap)

ThreadInv ==
  /\ call \in [Threads -> CallRecord]
  /\ SoundHeap(settled) /\ Held(HeapBlocks(settled), owned)
  /\ g_malloc_lock \in Threads \cup {NoThread}
  /\ g_malloc_lock = NoThread => heap = settled
  /\ \A t \in Threads : ThreadOK(t)

------------------------------------------------------------------------------
(* Heaps in the middle of a call.                                          *)

(* A list with a new head.                                                 *)
LEMMA NewHead ==
  ASSUME NEW T, NEW s \in Seq(T), NEW w \in T
  PROVE  LET t == <<w>> \o s IN
         /\ t \in Seq(T) /\ 1 \in DOMAIN t /\ t[1] = w
         /\ \A k \in DOMAIN t : k = 1 \/ \E j \in DOMAIN s : t[k] = s[j] /\ k = j + 1
<1> DEFINE t == <<w>> \o s
<1>1. <<w>> \in Seq(T) /\ Len(<<w>>) = 1 /\ <<w>>[1] = w
  OBVIOUS
<1>2. /\ t \in Seq(T) /\ Len(t) = 1 + Len(s)
      /\ \A k \in 1 .. 1 + Len(s) : t[k] = IF k <= 1 THEN <<w>>[k] ELSE s[k - 1]
  BY <1>1, ConcatProperties
<1> HIDE DEF t
<1>3. /\ Len(s) \in Nat /\ DOMAIN s = 1 .. Len(s) /\ DOMAIN t = 1 .. 1 + Len(s)
  BY <1>2, LenProperties
<1>4. 1 \in DOMAIN t /\ t[1] = w
  BY <1>1, <1>2, <1>3
<1>5. ASSUME NEW k \in DOMAIN t, k # 1
      PROVE  \E j \in DOMAIN s : t[k] = s[j] /\ k = j + 1
  <2>1. k - 1 \in DOMAIN s /\ k = (k - 1) + 1 /\ ~(k <= 1) /\ k \in 1 .. 1 + Len(s)
    BY <1>3, <1>5
  <2>2. t[k] = s[k - 1]
    BY <1>2, <2>1
  <2> QED
    BY <2>1, <2>2
<1> QED
  BY <1>2, <1>4, <1>5 DEF t

(* A list without one of its elements.                                     *)
LEMMA ElementGone ==
  ASSUME NEW T, NEW s \in Seq(T), NEW i \in DOMAIN s
  PROVE  LET t == RemoveAt(s, i) IN
         /\ t \in Seq(T)
         /\ \A k \in DOMAIN t : \E j \in DOMAIN s : t[k] = s[j]
<1> DEFINE a == SubSeq(s, 1, i - 1)
           b == SubSeq(s, i + 1, Len(s))
           t == a \o b
<1>1. Len(s) \in Nat /\ DOMAIN s = 1 .. Len(s) /\ i \in 1 .. Len(s)
  BY LenProperties
<1>2. \A j \in 1 .. Len(s) : s[j] \in T
  BY ElementOfSeq
<1>3. a \in Seq(T) /\ Len(a) = i - 1 /\ \A k \in 1 .. i - 1 : a[k] = s[k]
  <2>1. /\ 1 \in 1 .. Len(s) + 1 /\ i - 1 \in (1 - 1) .. Len(s)
        /\ \A j \in 1 .. i - 1 : s[j] \in T
    BY <1>1, <1>2
  <2> QED
    BY <1>1, <2>1, SubSeqProperties
<1>4. /\ b \in Seq(T) /\ Len(b) = Len(s) - i
      /\ \A k \in 1 .. Len(s) - i : b[k] = s[i + k]
  BY <1>1, <1>2, SubSeqProperties
<1> HIDE DEF a, b
<1>5. /\ t \in Seq(T) /\ Len(t) = Len(a) + Len(b)
      /\ \A k \in 1 .. Len(a) + Len(b) :
           t[k] = IF k <= Len(a) THEN a[k] ELSE b[k - Len(a)]
  BY <1>3, <1>4, ConcatProperties
<1> HIDE DEF t
<1>6. DOMAIN t = 1 .. Len(a) + Len(b)
  BY <1>1, <1>3, <1>4, <1>5, LenProperties
<1>7. \A k \in DOMAIN t : \E j \in DOMAIN s : t[k] = s[j]
  <2> SUFFICES ASSUME NEW k \in DOMAIN t
               PROVE  \E j \in DOMAIN s : t[k] = s[j]
    OBVIOUS
  <2>1. CASE k <= i - 1
    <3>1. k \in DOMAIN s /\ t[k] = s[k]
      BY <1>1, <1>3, <1>4, <1>5, <1>6, <2>1
    <3> QED
      BY <3>1
  <2>2. CASE ~(k <= i - 1)
    <3>1. k + 1 \in DOMAIN s /\ k - (i - 1) \in 1 .. Len(s) - i
          /\ i + (k - (i - 1)) = k + 1
      BY <1>1, <1>3, <1>4, <1>6, <2>2
    <3>2. t[k] = s[k + 1]
      BY <1>1, <1>3, <1>4, <1>5, <1>6, <2>2, <3>1
    <3> QED
      BY <3>1, <3>2
  <2> QED
    BY <2>1, <2>2
<1> QED
  BY <1>5, <1>7 DEF t, a, b, RemoveAt

(* Every zone on the list lies on mapped pages.                            *)
ZonesMapped(h) ==
  \A i \in DOMAIN h.zones :
    PagesOf(h.zones[i].start, h.zones[i].end - h.zones[i].start) \subseteq h.mapped

(* The start of a zone tells which one it is.                              *)
StartsTell(h) ==
  \A i, j \in DOMAIN h.zones : h.zones[i].start = h.zones[j].start => i = j

(* In a sound heap listed zones are mapped, and known by their starts.     *)
LEMMA SoundStarts ==
  ASSUME NEW h, SoundHeap(h)
  PROVE  h \in GoodHeaps /\ ZonesMapped(h) /\ StartsTell(h)
<1>1. ZonesMapped(h)
  BY DEF SoundHeap, ZonesMapped, PagesUnder
<1>2. ASSUME NEW i \in DOMAIN h.zones, NEW j \in DOMAIN h.zones,
             h.zones[i].start = h.zones[j].start
      PROVE  i = j
  <2>1. /\ SoundZone(h.zones[i]) /\ SoundZone(h.zones[j])
        /\ i # j => RangesApart(h.zones[i], h.zones[j])
    BY DEF SoundHeap
  <2>2. /\ h.zones[i].start \in Nat /\ h.zones[i].end \in Nat
        /\ h.zones[j].end \in Nat
        /\ h.zones[i].start < h.zones[i].end /\ h.zones[j].start < h.zones[j].end
    BY <2>1, ZonePlaced, SizesFacts
  <2> QED
    BY <1>2, <2>1, <2>2 DEF RangesApart
<1> QED
  BY <1>1, <1>2 DEF StartsTell, SoundHeap

(* The zone find_zone ends with is on the list, old or new, and the list   *)
(* is as it should be.                                                     *)
LEMMA FoundZone ==
  ASSUME NEW S, SoundHeap(S), NEW type \in ZoneTypes,
         NEW size \in Nat, size >= ALIGNMENT,
         NEW found \in find_zone(S, type, size), found.at # 0
  PROVE  /\ found.heap \in GoodHeaps /\ found.at \in DOMAIN found.heap.zones
         /\ ZonesMapped(found.heap) /\ StartsTell(found.heap)
<1> DEFINE h == found.heap
<1>1. h \in GoodHeaps /\ found.at \in DOMAIN h.zones /\ S \in GoodHeaps
  BY FindZoneGood DEF SoundHeap
<1>2. CASE h = S
  BY <1>1, <1>2, SoundStarts
<1>3. ASSUME NEW kind, NEW len, NEW base \in mmap(S, len),
             found = [heap |-> [zones  |-> <<zone_init(base, kind, len)>> \o S.zones,
                                mapped |-> S.mapped \cup PagesOf(base, len)],
                      at   |-> 1],
             len \in Nat
      PROVE  ZonesMapped(h) /\ StartsTell(h)
  <2> DEFINE w == zone_init(base, kind, len)
             s == S.zones
             t == <<w>> \o s
             T == GoodZones \cup {w}
  <2>1. base \in PageAddrs /\ base \in Nat /\ len > 0
        /\ PagesOf(base, len) \cap S.mapped = {}
    BY PageOnGrid DEF mmap
  <2>2. w.start = base /\ w.end = base + len /\ w.end - w.start = len
    BY <1>3, <2>1 DEF zone_init
  <2>3. s \in Seq(T) /\ w \in T
    <3>1. s \in Seq(GoodZones) /\ GoodZones \subseteq T
      BY <1>1 DEF GoodHeaps
    <3> HIDE DEF T, w
    <3>2. s \in Seq(T)
      BY <3>1, SeqMonotonic
    <3> QED
      BY <3>2 DEF T
  <2>4. h.zones = t /\ h.mapped = S.mapped \cup PagesOf(base, len)
    BY <1>3
  <2> HIDE DEF w, T, s
  <2>5. /\ 1 \in DOMAIN t /\ t[1] = w
        /\ \A k \in DOMAIN t : k = 1 \/ \E j \in DOMAIN s : t[k] = s[j] /\ k = j + 1
    BY <2>3, NewHead
  <2> HIDE DEF t
  <2>6. /\ \A j \in DOMAIN s : PagesOf(s[j].start, s[j].end - s[j].start) \subseteq S.mapped
        /\ \A i, j \in DOMAIN s : s[i].start = s[j].start => i = j
    BY SoundStarts DEF ZonesMapped, StartsTell, s
  <2>7. ZonesMapped(h)
    BY <2>2, <2>4, <2>5, <2>6 DEF ZonesMapped
  <2>8. \A j \in DOMAIN s : s[j].start # base
    <3> SUFFICES ASSUME NEW j \in DOMAIN s, s[j].start = base
                 PROVE  FALSE
      OBVIOUS
    <3>1. SoundZone(s[j])
      BY DEF SoundHeap, s
    <3>2. s[j].start \in Nat /\ s[j].end \in Nat /\ s[j].start < s[j].end
      BY <3>1, ZonePlaced, SizesFacts
    <3>3. base \in PagesOf(s[j].start, s[j].end - s[j].start)
      BY <2>1, <3>2 DEF PagesOf
    <3>4. base \in PagesOf(base, len)
      BY <1>3, <2>1 DEF PagesOf
    <3> QED
      BY <2>1, <2>6, <3>3, <3>4
  <2>9. StartsTell(h)
    BY <2>2, <2>4, <2>5, <2>6, <2>8 DEF StartsTell
  <2> QED
    BY <2>7, <2>9
<1>4. \/ h = S
      \/ \E kind, len : \E base \in mmap(S, len) :
           /\ found = [heap |-> [zones  |-> <<zone_init(base, kind, len)>> \o S.zones,
                                 mapped |-> S.mapped \cup PagesOf(base, len)],
                       at   |-> 1]
           /\ len \in Nat
  <2>1. ASSUME NEW kind, NEW len \in Nat, found \in MapZone(S, kind, len)
        PROVE  \/ h = S
               \/ \E base \in mmap(S, len) :
                    found = [heap |-> [zones  |-> <<zone_init(base, kind, len)>> \o S.zones,
                                       mapped |-> S.mapped \cup PagesOf(base, len)],
                             at   |-> 1]
    BY <2>1 DEF MapZone, NoZone
  <2>2. CASE found \in create_large_zone(S, size)
    <3> DEFINE len == Wrap(size + HEADER_SIZE + ZONE_HEADER_SIZE)
    <3>1. CASE found \in NoZone(S)
      BY <3>1 DEF NoZone
    <3>2. CASE found \in MapZone(S, "LARGE", len)
      <4>1. len \in Nat
        BY SizesFacts, SizesAssumption DEF Wrap
      <4> HIDE DEF len
      <4> QED
        BY <2>1, <3>2, <4>1
    <3> QED
      BY <2>2, <3>1, <3>2 DEF create_large_zone
  <2>3. CASE found \in create_zone(S, type)
    <3> DEFINE len == IF type = "TINY" THEN TINY_ZONE_SIZE ELSE SMALL_ZONE_SIZE
    <3>1. len \in Nat /\ found \in MapZone(S, type, len)
      BY <2>3, SizesAssumption DEF create_zone
    <3> HIDE DEF len
    <3> QED
      BY <2>1, <3>1
  <2>4. CASE \E i \in FittingZone(S, type, size) : found = [heap |-> S, at |-> i]
    BY <2>4
  <2> QED
    BY <2>2, <2>3, <2>4 DEF find_zone
<1> QED
  BY <1>1, <1>2, <1>3, <1>4

------------------------------------------------------------------------------
(* The steps of a call.                                                    *)

(* Commit sets the heap.                                                   *)
LEMMA CommitIs ==
  ASSUME NEW h \in GoodHeaps, Commit(h)
  PROVE  heap' = h
  BY DEF Commit, heap, GoodHeaps

(* What the invariant says of a thread that has the lock: the others are   *)
(* out of their calls, or wait for it.                                     *)
LEMMA Alone ==
  ASSUME ThreadInv, NEW t \in Threads, call[t].pc \in Inside
  PROVE  /\ g_malloc_lock = t /\ Arguments(call[t]) /\ call[t] \in CallRecord
         /\ Progress(call[t], settled, heap)
         /\ SoundHeap(settled) /\ Held(HeapBlocks(settled), owned)
         /\ \A u \in Threads \ {t} :
              \/ call[u].pc = "idle"
              \/ call[u].pc = "lock" /\ Fresh(call[u]) /\ Arguments(call[u])
<1>1. ThreadOK(t) /\ call[t].pc # "idle" /\ call[t].pc # "lock"
  BY DEF ThreadInv, Inside
<1>2. g_malloc_lock = t /\ Arguments(call[t]) /\ Progress(call[t], settled, heap)
  BY <1>1 DEF ThreadOK
<1>3. \A u \in Threads \ {t} : ThreadOK(u)
  BY DEF ThreadInv
<1>4. call[t] \in CallRecord /\ SoundHeap(settled) /\ Held(HeapBlocks(settled), owned)
  BY DEF ThreadInv
<1> QED
  BY <1>2, <1>3, <1>4 DEF ThreadOK

(* A thread that has the lock goes on.                                     *)
LEMMA InsideStep ==
  ASSUME ThreadInv, NEW t \in Threads, call[t].pc \in Inside,
         NEW c \in CallRecord, Arguments(c),
         call' = [call EXCEPT ![t] = c],
         UNCHANGED <<owned, g_malloc_lock, settled>>,
         \/ c.pc \in Inside /\ Progress(c, settled, heap')
         \/ c.pc = "lock" /\ Fresh(c) /\ heap' = settled
  PROVE  ThreadInv'
<1>1. /\ g_malloc_lock = t
      /\ SoundHeap(settled) /\ Held(HeapBlocks(settled), owned)
      /\ \A u \in Threads \ {t} :
           \/ call[u].pc = "idle"
           \/ call[u].pc = "lock" /\ Fresh(call[u]) /\ Arguments(call[u])
  BY Alone
<1>2. call \in [Threads -> CallRecord]
  BY DEF ThreadInv
<1>3. /\ call' \in [Threads -> CallRecord] /\ call'[t] = c
      /\ \A u \in Threads \ {t} : call'[u] = call[u]
  BY <1>2
<1>4. settled' = settled /\ owned' = owned /\ g_malloc_lock' = t
  BY <1>1
<1>5. ThreadOK(t)'
  BY <1>3, <1>4 DEF ThreadOK
<1>6. ASSUME NEW u \in Threads \ {t}
      PROVE  ThreadOK(u)'
  BY <1>1, <1>3, <1>4 DEF ThreadOK
<1>7. t # NoThread
  BY ThreadsAssumption
<1>8. \A u \in Threads : ThreadOK(u)'
  BY <1>5, <1>6
<1>9. SoundHeap(settled') /\ Held(HeapBlocks(settled'), owned')
  BY <1>1, <1>4
<1> QED
  BY <1>3, <1>4, <1>7, <1>8, <1>9 DEF ThreadInv

(* A call begins: its thread waits for the lock, which it does not hold.   *)
LEMMA BeginKeeps ==
  ASSUME ThreadInv, NEW t \in Threads,
         NEW op \in {"malloc", "free", "realloc", "show", "printf"},
         NEW ptr \in Nat, NEW n \in 0 .. SIZE_MAX, Begin(t, op, ptr, n),
         op \in {"malloc", "printf"}
           => ptr = NULL /\ n \in RequestSizes /\ n \in 1 .. MAX_ALLOC_SIZE,
         op = "realloc" => ptr # NULL /\ n \in RequestSizes /\ n # 0,
         op = "show" => ptr = NULL
  PROVE  ThreadInv' /\ UNCHANGED <<owned, settled>>
<1> DEFINE c == [Idle EXCEPT !.pc = "lock", !.op = op, !.ptr = ptr,
                             !.n = n, !.size = align_size(n)]
<1>1. n \in Nat /\ align_size(n) \in Nat /\ SIZE_MAX \in Nat
  BY SizesAssumption, AlignBounds
<1>2. Idle \in CallRecord /\ Idle.ret = NULL
  BY DEF Idle, CallRecord, NULL
<1>3. /\ c \in CallRecord /\ c.pc = "lock" /\ c.op = op /\ c.ptr = ptr /\ c.n = n
      /\ c.size = align_size(n) /\ c.ret = NULL
  BY <1>1, <1>2 DEF CallRecord
<1>4. Fresh(c) /\ Arguments(c) /\ c.pc = "lock"
  BY <1>1, <1>3 DEF Fresh, Arguments
<1> HIDE DEF c
<1>5. /\ call' = [call EXCEPT ![t] = c] /\ call[t].pc = "idle"
      /\ UNCHANGED <<g_zones, mapped, owned, g_malloc_lock, stdout_ready, settled>>
  BY DEF Begin, At, c
<1>6. call \in [Threads -> CallRecord] /\ \A u \in Threads : ThreadOK(u)
  BY DEF ThreadInv
<1>7. /\ call' \in [Threads -> CallRecord] /\ call'[t] = c
      /\ \A u \in Threads \ {t} : call'[u] = call[u]
  BY <1>3, <1>5, <1>6
<1>8. heap' = heap /\ settled' = settled /\ owned' = owned
      /\ g_malloc_lock' = g_malloc_lock
  BY <1>5 DEF heap
<1>9. g_malloc_lock # t
  BY <1>5, <1>6 DEF ThreadOK, Inside
<1>10. ThreadOK(t)'
  BY <1>4, <1>7, <1>8, <1>9 DEF ThreadOK
<1>11. ASSUME NEW u \in Threads \ {t}
       PROVE  ThreadOK(u)'
  <2>1. ThreadOK(u)
    BY <1>6
  <2> QED
    BY <1>7, <1>8, <2>1 DEF ThreadOK
<1>12. \A u \in Threads : ThreadOK(u)'
  BY <1>10, <1>11
<1>13. /\ SoundHeap(settled') /\ Held(HeapBlocks(settled'), owned')
       /\ g_malloc_lock' = NoThread => heap' = settled'
       /\ g_malloc_lock' \in Threads \cup {NoThread}
  BY <1>8 DEF ThreadInv
<1> QED
  BY <1>7, <1>8, <1>12, <1>13 DEF ThreadInv

(* The start of a call touches nothing but what its thread does.           *)
LEMMA CallKeeps ==
  ASSUME ThreadInv, NEW t \in Threads, Call(t)
  PROVE  ThreadInv' /\ UNCHANGED <<owned, settled>>
<1>1. /\ \A n \in RequestSizes : n \in 0 .. SIZE_MAX /\ n \in Nat
      /\ StrayPtrs \subseteq Nat
      /\ PrintfBuffer \in RequestSizes /\ PrintfBuffer # 0
      /\ PrintfBuffer <= MAX_ALLOC_SIZE
  BY ThreadsAssumption, SizesAssumption
<1>2. \A ptr \in Ptrs : ptr \in Nat
  <2>1. SoundHeap(settled) /\ Held(HeapBlocks(settled), owned)
    BY DEF ThreadInv
  <2>2. \A p \in DOMAIN owned : p \in Nat
    BY <2>1, HeldPointers
  <2> QED
    BY <1>1, <2>2, Zenon DEF Ptrs
<1>3. ASSUME NEW n \in RequestSizes, CallMalloc(t, n)
      PROVE  ThreadInv' /\ UNCHANGED <<owned, settled>>
  <2>1. n \in 1 .. MAX_ALLOC_SIZE /\ n \in 0 .. SIZE_MAX /\ NULL \in Nat
    BY <1>1, <1>3, SizesAssumption DEF CallMalloc, NULL
  <2>2. Begin(t, "malloc", NULL, n)
    BY <1>3 DEF CallMalloc
  <2> QED
    BY <2>1, <2>2, BeginKeeps
<1>4. ASSUME NEW ptr \in Ptrs, CallFree(t, ptr)
      PROVE  ThreadInv' /\ UNCHANGED <<owned, settled>>
  <2>1. Begin(t, "free", ptr, 0) /\ 0 \in 0 .. SIZE_MAX /\ ptr \in Nat
    BY <1>2, <1>4, SizesAssumption DEF CallFree
  <2> QED
    BY <2>1, BeginKeeps
<1>5. ASSUME NEW ptr \in Ptrs, NEW n \in RequestSizes, CallRealloc(t, ptr, n)
      PROVE  ThreadInv' /\ UNCHANGED <<owned, settled>>
  <2>1. Begin(t, "realloc", ptr, n) /\ ptr # NULL /\ n # 0
    BY <1>5 DEF CallRealloc
  <2>2. n \in 0 .. SIZE_MAX /\ ptr \in Nat
    BY <1>1, <1>2
  <2> QED
    BY <2>1, <2>2, BeginKeeps
<1>6. ASSUME CallShow(t)
      PROVE  ThreadInv' /\ UNCHANGED <<owned, settled>>
  <2>1. Begin(t, "show", NULL, 0) /\ 0 \in 0 .. SIZE_MAX /\ NULL \in Nat
    BY <1>6, SizesAssumption DEF CallShow, NULL
  <2> QED
    BY <2>1, BeginKeeps
<1>7. ASSUME CallPrintf(t)
      PROVE  ThreadInv' /\ UNCHANGED <<owned, settled>>
  <2>1. /\ PrintfBuffer \in 0 .. SIZE_MAX /\ PrintfBuffer \in 1 .. MAX_ALLOC_SIZE
        /\ NULL \in Nat
    BY <1>1, SizesAssumption DEF NULL
  <2>2. Begin(t, "printf", NULL, PrintfBuffer)
    BY <1>7 DEF CallPrintf
  <2> QED
    BY <1>1, <2>1, <2>2, BeginKeeps
<1> QED
  BY <1>3, <1>4, <1>5, <1>6, <1>7 DEF Call

(* A thread that goes on at another place keeps its local variables.       *)
LEMMA GotoEffect ==
  ASSUME NEW c \in CallRecord, NEW pc \in Inside \cup {"lock"}
  PROVE  LET d == [c EXCEPT !.pc = pc] IN
         /\ d \in CallRecord /\ d.pc = pc
         /\ d.op = c.op /\ d.ptr = c.ptr /\ d.n = c.n /\ d.size = c.size
         /\ d.zone = c.zone /\ d.block = c.block /\ d.ret = c.ret
  BY DEF CallRecord

(* The lock is taken: the heap is settled, and the call begins its work.   *)
LEMMA LockKeeps ==
  ASSUME ThreadInv, NEW t \in Threads, Lock(t)
  PROVE  ThreadInv' /\ UNCHANGED <<owned, settled>>
<1> DEFINE b == call[t]
           pc == CASE b.op \in {"malloc", "printf"} -> "find_zone"
                   [] b.op \in {"free", "realloc"}  -> "look_up"
                   [] b.op = "show"                 -> "report"
           c == [b EXCEPT !.pc = pc]
<1>1. /\ b.pc = "lock" /\ g_malloc_lock = NoThread /\ g_malloc_lock' = t
      /\ call' = [call EXCEPT ![t] = c]
      /\ UNCHANGED <<g_zones, mapped, owned, stdout_ready, settled>>
  BY DEF Lock, At, Goto
<1>2. call \in [Threads -> CallRecord] /\ \A u \in Threads : ThreadOK(u)
  BY DEF ThreadInv
<1>3. b \in CallRecord /\ Fresh(b) /\ Arguments(b)
  <2>1. ThreadOK(t)
    BY <1>2
  <2> QED
    BY <1>1, <1>2, <2>1 DEF ThreadOK, Inside
<1> HIDE DEF b
<1>4. /\ b.op \in {"malloc", "printf", "free", "realloc", "show"}
      /\ pc \in Inside
      /\ b.op \in {"malloc", "printf"} => pc = "find_zone"
      /\ b.op \in {"free", "realloc"} => pc = "look_up"
      /\ b.op = "show" => pc = "report"
  BY <1>3 DEF CallRecord, Arguments, Inside
<1> HIDE DEF pc
<1>5. /\ c \in CallRecord /\ c.pc = pc /\ c.op = b.op /\ c.ptr = b.ptr /\ c.n = b.n
      /\ c.size = b.size /\ c.ret = b.ret
  BY <1>3, <1>4, GotoEffect
<1> HIDE DEF c
<1>6. Fresh(c) /\ Arguments(c)
  BY <1>3, <1>5 DEF Fresh, Arguments
<1>7. Progress(c, settled, settled)
  BY <1>4, <1>5, <1>6 DEF Progress, Fresh, Arguments, Searching, Request
<1>8. /\ call' \in [Threads -> CallRecord] /\ call'[t] = c
      /\ \A u \in Threads \ {t} : call'[u] = call[u]
  BY <1>1, <1>2, <1>5
<1>9. heap' = heap /\ settled' = settled /\ owned' = owned /\ heap = settled
  BY <1>1 DEF heap, ThreadInv
<1>10. ThreadOK(t)'
  BY <1>1, <1>4, <1>5, <1>6, <1>7, <1>8, <1>9 DEF ThreadOK
<1>11. ASSUME NEW u \in Threads \ {t}
       PROVE  ThreadOK(u)'
  <2>1. ThreadOK(u) /\ g_malloc_lock # u
    BY <1>1, <1>2, ThreadsAssumption
  <2>2. \/ call'[u].pc = "idle"
        \/ call'[u].pc = "lock" /\ Fresh(call'[u]) /\ Arguments(call'[u])
    BY <1>8, <2>1 DEF ThreadOK
  <2>3. g_malloc_lock' # u
    BY <1>1
  <2> QED
    BY <2>2, <2>3 DEF ThreadOK
<1>12. \A u \in Threads : ThreadOK(u)'
  BY <1>10, <1>11
<1>13. /\ SoundHeap(settled') /\ Held(HeapBlocks(settled'), owned')
       /\ g_malloc_lock' # NoThread
  BY <1>1, <1>9, ThreadsAssumption DEF ThreadInv
<1> QED
  BY <1>1, <1>8, <1>9, <1>12, <1>13 DEF ThreadInv

(* What find_zone and allocate_block leave behind is what malloc does.     *)
LEMMA AllocateBy ==
  ASSUME NEW S, NEW n \in 1 .. MAX_ALLOC_SIZE,
         NEW found \in find_zone(S, get_zone_type(align_size(n)), align_size(n)),
         NEW result \in IF found.at = 0
                        THEN {[heap |-> found.heap, ptr |-> NULL]}
                        ELSE allocate_block(found.heap, found.at, align_size(n))
  PROVE  result \in Allocate(S, n)
<1>1. ~(n = 0 \/ n > MAX_ALLOC_SIZE)
  BY SizesAssumption
<1> QED
  BY <1>1 DEF Allocate

(* A call is finished when it has its new block, or has none.              *)
LEMMA AllocatedFinishes ==
  ASSUME NEW c, NEW d, NEW S, NEW h, Searching(c, S),
         d.op = c.op, d.ptr = c.ptr, d.n = c.n,
         [heap |-> h, ptr |-> d.ret] \in Allocate(S, Request(c))
  PROVE  /\ c.op # "realloc" \/ d.ret = NULL => Finished(d, S, h)
         /\ c.op = "realloc" /\ d.ret # NULL => Copied(d, S, h)
<1>1. CASE c.op # "realloc"
  BY <1>1 DEF Searching, Moving, Request, Finished
<1>2. CASE c.op = "realloc" /\ d.ret # NULL
  BY <1>2 DEF Searching, Moving, Request, Copied
<1>3. CASE c.op = "realloc" /\ d.ret = NULL
  <2> DEFINE o == [heap |-> h, ptr |-> d.ret]
  <2>1. o \in Allocate(S, align_size(d.n)) /\ o.ptr = NULL
    BY <1>3 DEF Request
  <2> HIDE DEF o
  <2>2. o \in Moved(S, d.ptr, align_size(d.n))
    BY <2>1 DEF Moved
  <2>3. Moving(d, S)
    BY <1>3 DEF Searching, Moving
  <2>4. Resized(d, S, h)
    BY <2>2, <2>3 DEF Moving, Resized, o
  <2> QED
    BY <1>3, <2>4 DEF Finished
<1> QED
  BY <1>1, <1>2, <1>3

(* Sizes that are searched for.                                            *)
LEMMA SearchFacts ==
  ASSUME NEW c \in CallRecord, NEW S, Searching(c, S)
  PROVE  /\ c.size \in Nat /\ c.size >= ALIGNMENT
         /\ get_zone_type(c.size) \in ZoneTypes
<1>1. Request(c) \in Nat \ {0} /\ c.size = align_size(Request(c))
  BY SizesAssumption DEF Searching
<1>2. c.size \in Nat /\ c.size >= ALIGNMENT
  BY <1>1, AlignFacts
<1> QED
  BY <1>2 DEF get_zone_type, ZoneTypes

(* The step from find_zone to allocate_block, or to the end.               *)
LEMMA FindZoneKeeps ==
  ASSUME ThreadInv, NEW t \in Threads, FindZone(t)
  PROVE  ThreadInv' /\ UNCHANGED <<owned, settled>>
<1> DEFINE b == call[t]
           S == settled
<1>1. b.pc = "find_zone" /\ b.pc \in Inside
  BY DEF FindZone, At, Inside
<1>2. /\ Arguments(b) /\ b \in CallRecord /\ Progress(b, S, heap) /\ SoundHeap(S)
  BY <1>1, Alone
<1>3. Searching(b, S) /\ heap = S
  BY <1>1, <1>2 DEF Progress
<1>4. PICK found \in find_zone(S, get_zone_type(b.size), b.size) :
        /\ Commit(found.heap)
        /\ IF found.at = 0
           THEN Goto(t, "unlock", b)
           ELSE Goto(t, "allocate", [b EXCEPT !.zone = found.heap.zones[found.at].start])
  BY <1>3 DEF FindZone
<1>5. UNCHANGED <<owned, g_malloc_lock, settled>>
  BY DEF FindZone
<1>6. /\ b.size \in Nat /\ b.size >= ALIGNMENT /\ get_zone_type(b.size) \in ZoneTypes
      /\ b.size = align_size(Request(b)) /\ Request(b) \in 1 .. MAX_ALLOC_SIZE
  BY <1>2, <1>3, SearchFacts DEF Searching
<1>7. found.heap \in GoodHeaps
  BY <1>2, <1>6, FindZoneGood DEF SoundHeap
<1>8. heap' = found.heap
  BY <1>4, <1>7, CommitIs
<1> HIDE DEF b, S
<1>9. CASE found.at = 0
  <2> DEFINE c == [b EXCEPT !.pc = "unlock"]
  <2>1. call' = [call EXCEPT ![t] = c]
    BY <1>4, <1>9 DEF Goto, b
  <2>2. /\ c \in CallRecord /\ c.pc = "unlock" /\ c.op = b.op /\ c.ptr = b.ptr
        /\ c.n = b.n /\ c.ret = b.ret
    BY <1>2, GotoEffect DEF Inside
  <2> HIDE DEF c
  <2>3. [heap |-> found.heap, ptr |-> c.ret] \in Allocate(S, Request(b))
    <3> DEFINE r == Request(b)
    <3>1. /\ r \in 1 .. MAX_ALLOC_SIZE
          /\ found \in find_zone(S, get_zone_type(align_size(r)), align_size(r))
          /\ c.ret = NULL
      BY <1>3, <1>6, <2>2 DEF Searching
    <3> HIDE DEF r
    <3> QED
      BY <1>9, <3>1, AllocateBy DEF r
  <2>4. Finished(c, S, heap')
    BY <1>3, <1>8, <2>2, <2>3, AllocatedFinishes DEF Searching
  <2>5. Arguments(c) /\ c.pc \in Inside /\ Progress(c, S, heap')
    BY <1>2, <2>2, <2>4 DEF Arguments, Progress, Inside
  <2> QED
    BY <1>1, <1>5, <2>1, <2>2, <2>5, InsideStep DEF S, b
<1>10. CASE found.at # 0
  <2> DEFINE d == [b EXCEPT !.zone = found.heap.zones[found.at].start]
             c == [d EXCEPT !.pc = "allocate"]
  <2>1. found.at \in DOMAIN found.heap.zones
    BY <1>2, <1>6, <1>10, FoundZone
  <2>2. found.heap.zones[found.at].start \in Nat
    BY <1>7, <2>1, GoodZone DEF ZoneRecord
  <2>3. /\ d \in CallRecord /\ d.op = b.op /\ d.ptr = b.ptr /\ d.n = b.n
        /\ d.size = b.size /\ d.ret = b.ret
        /\ d.zone = found.heap.zones[found.at].start
    BY <1>2, <2>2 DEF CallRecord
  <2>4. call' = [call EXCEPT ![t] = c]
    BY <1>4, <1>10 DEF Goto
  <2> HIDE DEF d
  <2>5. /\ c \in CallRecord /\ c.pc = "allocate" /\ c.op = b.op /\ c.ptr = b.ptr
        /\ c.n = b.n /\ c.ret = b.ret /\ c.size = b.size
        /\ c.zone = found.heap.zones[found.at].start
    BY <2>3, GotoEffect DEF Inside
  <2> HIDE DEF c
  <2>6. Searching(c, S)
    BY <1>3, <2>5 DEF Searching, Moving, Request
  <2>7. Arguments(c) /\ c.pc \in Inside
    BY <1>2, <2>5 DEF Arguments, Inside
  <2>8. Progress(c, S, heap')
    BY <1>8, <1>10, <2>5, <2>6 DEF Progress
  <2> QED
    BY <1>1, <1>5, <2>4, <2>5, <2>7, <2>8, InsideStep DEF S, b
<1> QED
  BY <1>9, <1>10

(* A thread with the lock goes on at pc, with the arguments of its call.   *)
LEMMA GoesOn ==
  ASSUME ThreadInv, NEW t \in Threads, call[t].pc \in Inside,
         NEW d \in CallRecord, NEW pc \in Inside, Goto(t, pc, d),
         d.op = call[t].op, d.ptr = call[t].ptr, d.n = call[t].n,
         UNCHANGED <<owned, g_malloc_lock, settled>>,
         NEW c, c = [d EXCEPT !.pc = pc], Progress(c, settled, heap')
  PROVE  ThreadInv'
<1>1. c \in CallRecord /\ c.pc = pc /\ c.op = d.op /\ c.ptr = d.ptr /\ c.n = d.n
  BY GotoEffect
<1>2. Arguments(call[t])
  BY Alone
<1>3. Arguments(c)
  BY <1>1, <1>2 DEF Arguments
<1>4. call' = [call EXCEPT ![t] = c]
  BY DEF Goto
<1> QED
  BY <1>1, <1>3, <1>4, InsideStep

(* allocate_block works in the zone find_zone found, and hands out what    *)
(* malloc hands out, or NULL.                                              *)
LEMMA AllocateBlockKeeps ==
  ASSUME ThreadInv, NEW t \in Threads, AllocateBlock(t)
  PROVE  ThreadInv' /\ UNCHANGED <<owned, settled>>
<1> DEFINE b == call[t]
           S == settled
<1>1. b.pc = "allocate" /\ b.pc \in Inside
  BY DEF AllocateBlock, At, Inside
<1>2. Arguments(b) /\ b \in CallRecord /\ Progress(b, S, heap) /\ SoundHeap(S)
  BY <1>1, Alone
<1>3. Searching(b, S)
  BY <1>1, <1>2 DEF Progress
<1>4. PICK found \in find_zone(S, get_zone_type(b.size), b.size) :
        /\ found.at # 0 /\ heap = found.heap
        /\ b.zone = found.heap.zones[found.at].start
  BY <1>1, <1>2 DEF Progress
<1>5. /\ b.size \in Nat /\ b.size >= ALIGNMENT /\ get_zone_type(b.size) \in ZoneTypes
      /\ b.size = align_size(Request(b)) /\ Request(b) \in 1 .. MAX_ALLOC_SIZE
  BY <1>2, <1>3, SearchFacts DEF Searching
<1>6. /\ heap \in GoodHeaps /\ found.at \in DOMAIN heap.zones /\ StartsTell(heap)
  BY <1>2, <1>4, <1>5, FoundZone
<1>7. PICK i \in ZoneAt(b.zone) : \E result \in allocate_block(heap, i, b.size) :
        /\ Commit(result.heap)
        /\ Goto(t, IF result.ptr # NULL /\ b.op = "realloc"
                   THEN "look_up_old" ELSE "unlock",
                [b EXCEPT !.ret = result.ptr])
  BY DEF AllocateBlock
<1>8. i = found.at
  BY <1>4, <1>6, <1>7 DEF StartsTell, ZoneAt, heap
<1>9. PICK result \in allocate_block(heap, i, b.size) :
        /\ Commit(result.heap)
        /\ Goto(t, IF result.ptr # NULL /\ b.op = "realloc"
                   THEN "look_up_old" ELSE "unlock",
                [b EXCEPT !.ret = result.ptr])
  BY <1>7
<1>10. result.heap \in GoodHeaps /\ result.ptr \in Nat
  BY <1>5, <1>6, <1>8, AllocateBlockGood
<1>11. heap' = result.heap
  BY <1>9, <1>10, CommitIs
<1>12. result = [heap |-> result.heap, ptr |-> result.ptr]
  BY DEF allocate_block
<1>13. UNCHANGED <<owned, g_malloc_lock, settled>>
  BY DEF AllocateBlock
<1> DEFINE d  == [b EXCEPT !.ret = result.ptr]
           pc == IF result.ptr # NULL /\ b.op = "realloc"
                 THEN "look_up_old" ELSE "unlock"
           c  == [d EXCEPT !.pc = pc]
<1>14. Goto(t, pc, d)
  BY <1>9
<1> HIDE DEF b, S
<1>15. /\ d \in CallRecord /\ d.op = b.op /\ d.ptr = b.ptr /\ d.n = b.n
       /\ d.ret = result.ptr
  BY <1>2, <1>10 DEF CallRecord
<1>16. pc \in Inside
  BY DEF Inside
<1> HIDE DEF d
<1>17. /\ c.pc = pc /\ c.op = b.op /\ c.ptr = b.ptr /\ c.n = b.n
       /\ c.ret = result.ptr
  BY <1>15, <1>16, GotoEffect
<1>18. result \in Allocate(S, Request(b))
  <2> DEFINE r == Request(b)
  <2>1. /\ r \in 1 .. MAX_ALLOC_SIZE
        /\ found \in find_zone(S, get_zone_type(align_size(r)), align_size(r))
        /\ result \in allocate_block(found.heap, found.at, align_size(r))
    BY <1>4, <1>5, <1>8, <1>9
  <2> HIDE DEF r
  <2> QED
    BY <1>4, <2>1, AllocateBy DEF r
<1>19. [heap |-> heap', ptr |-> c.ret] \in Allocate(S, Request(b))
  BY <1>11, <1>12, <1>17, <1>18
<1> HIDE DEF c
<1>20. /\ b.op # "realloc" \/ c.ret = NULL => Finished(c, S, heap')
       /\ b.op = "realloc" /\ c.ret # NULL => Copied(c, S, heap')
  BY <1>3, <1>17, <1>19, AllocatedFinishes
<1>21. Progress(c, S, heap')
  BY <1>17, <1>20 DEF Progress
<1> QED
  BY <1>1, <1>13, <1>14, <1>15, <1>16, <1>21, GoesOn DEF b, S, c

------------------------------------------------------------------------------
(* A block is given back.                                                  *)

(* The fields of a heap.                                                   *)
LEMMA HeapFields ==
  /\ heap.zones = g_zones /\ heap.mapped = mapped
  /\ (UNCHANGED <<g_zones, mapped>> => heap' = heap)
  BY DEF heap

(* The heap a block is given back in is sound: realloc allocated before.   *)
LEMMA ReleasingSound ==
  ASSUME NEW c, NEW S, SoundHeap(S), NEW own, Held(HeapBlocks(S), own),
         Arguments(c), NEW h, Releasing(c, S, h)
  PROVE  SoundHeap(h)
<1>1. CASE c.op = "free" /\ h = S
  BY <1>1
<1>2. CASE Copied(c, S, h)
  <2>1. c.n \in Nat \ {0} /\ align_size(c.n) \in Nat
    BY <1>2, SizesAssumption, AlignFacts DEF Copied, Moving, Arguments
  <2> DEFINE o == [heap |-> h, ptr |-> c.ret]
  <2>2. o \in Allocate(S, align_size(c.n)) /\ o.heap = h
    BY <1>2 DEF Copied
  <2> HIDE DEF o
  <2>3. Served(S, own, align_size(c.n), o)
    BY <2>1, <2>2, AllocateSound
  <2> QED
    BY <2>2, <2>3 DEF Served, HandsOut
<1> QED
  BY <1>1, <1>2 DEF Releasing

(* Once the block is given back the call is finished.                      *)
LEMMA ReleaseFinishes ==
  ASSUME NEW c, NEW d, NEW S, NEW h, Releasing(c, S, h),
         d.op = c.op, d.ptr = c.ptr, d.n = c.n, d.ret = c.ret,
         NEW r \in Release(h, c.ptr)
  PROVE  Finished(d, S, r)
<1>1. CASE c.op = "free" /\ h = S
  BY <1>1 DEF Finished
<1>2. CASE Copied(c, S, h)
  <2> DEFINE size == align_size(d.n)
             new  == [heap |-> h, ptr |-> c.ret]
  <2>1. /\ new \in Allocate(S, size) /\ new.ptr = d.ret /\ new.heap = h
        /\ d.ret # NULL /\ d.op = "realloc"
    BY <1>2 DEF Copied, Moving
  <2>2. PICK f \in BlockOf(S, d.ptr) :
          f.block.data_size < size /\ Extended(S, f.at, f.block, size) = {}
    BY <1>2 DEF Copied, Moving
  <2> HIDE DEF size, new
  <2>3. [heap |-> r, ptr |-> d.ret] \in Moved(S, d.ptr, size)
    BY <2>1 DEF Moved
  <2> QED
    BY <2>1, <2>2, <2>3 DEF Finished, Resized, size
<1> QED
  BY <1>1, <1>2 DEF Releasing

(* Where a block was found, as the pointers a call keeps.                  *)
LEMMA FoundPlace ==
  ASSUME NEW h \in GoodHeaps, NEW ptr, NEW f \in BlockOf(h, ptr)
  PROVE  h.zones[f.at].start \in Nat /\ f.block.addr \in Nat
<1>1. f.at \in DOMAIN h.zones /\ f.block \in h.zones[f.at].blocks
  BY BlockOfFound
<1>2. h.zones[f.at] \in ZoneRecord
  BY <1>1, GoodZone
<1> QED
  BY <1>1, <1>2 DEF ZoneRecord, Chunk

(* find_zone_for_ptr and is_valid_block: an unknown pointer ends the call. *)
LEMMA LookUpKeeps ==
  ASSUME ThreadInv, NEW t \in Threads, LookUp(t)
  PROVE  ThreadInv' /\ UNCHANGED <<owned, settled>>
<1> DEFINE b == call[t]
           S == settled
<1>1. b.pc = "look_up" /\ b.pc \in Inside
  BY DEF LookUp, At, Inside
<1>2. Arguments(b) /\ b \in CallRecord /\ Progress(b, S, heap) /\ SoundHeap(S)
  BY <1>1, Alone
<1>3. Fresh(b) /\ b.op \in {"free", "realloc"} /\ heap = S /\ S \in GoodHeaps
  BY <1>1, <1>2 DEF Progress, SoundHeap
<1>4. UNCHANGED <<owned, g_malloc_lock, settled>> /\ heap' = heap
  BY HeapFields DEF LookUp
<1>5. CASE BlockOf(S, b.ptr) = {}
  <2> DEFINE c == [b EXCEPT !.pc = "unlock"]
  <2>1. Goto(t, "unlock", b)
    BY <1>3, <1>5 DEF LookUp
  <2> HIDE DEF b, S
  <2>2. /\ c.pc = "unlock" /\ c.op = b.op /\ c.ptr = b.ptr /\ c.n = b.n
        /\ c.ret = b.ret
    BY <1>2, GotoEffect DEF Inside
  <2> HIDE DEF c
  <2>3. Finished(c, S, S)
    BY <1>3, <1>5, <2>2 DEF Finished, Resized, Release, Fresh
  <2>4. Progress(c, S, heap') /\ "unlock" \in Inside
    BY <1>3, <1>4, <2>2, <2>3 DEF Progress, Inside
  <2> QED
    BY <1>1, <1>2, <1>4, <2>1, <2>4, GoesOn DEF b, S, c
<1>6. CASE BlockOf(S, b.ptr) # {}
  <2>1. PICK f \in BlockOf(S, b.ptr) :
          Goto(t, IF b.op = "free" THEN "release" ELSE "resize",
               [b EXCEPT !.zone = S.zones[f.at].start, !.block = f.block.addr])
    BY <1>3, <1>6, HeapFields DEF LookUp
  <2> HIDE DEF b, S
  <2> DEFINE d  == [b EXCEPT !.zone = S.zones[f.at].start, !.block = f.block.addr]
             pc == IF b.op = "free" THEN "release" ELSE "resize"
             c  == [d EXCEPT !.pc = pc]
  <2>2. S.zones[f.at].start \in Nat /\ f.block.addr \in Nat
    BY <1>3, FoundPlace
  <2>3. /\ d \in CallRecord /\ d.op = b.op /\ d.ptr = b.ptr /\ d.n = b.n
        /\ d.size = b.size /\ d.ret = b.ret
        /\ d.zone = S.zones[f.at].start /\ d.block = f.block.addr
    BY <1>2, <2>2 DEF CallRecord
  <2>4. pc \in Inside /\ Goto(t, pc, d)
    BY <2>1 DEF Inside
  <2> HIDE DEF d
  <2>5. /\ c.pc = pc /\ c.op = b.op /\ c.ptr = b.ptr /\ c.n = b.n
        /\ c.size = b.size /\ c.ret = b.ret
        /\ c.zone = S.zones[f.at].start /\ c.block = f.block.addr
    BY <2>3, <2>4, GotoEffect
  <2> HIDE DEF c
  <2>6. Locates(c, S, f) /\ f \in BlockOf(S, c.ptr)
    BY <2>5 DEF Locates
  <2>7. Progress(c, S, S)
    BY <1>3, <2>5, <2>6 DEF Progress, Releasing, Fresh
  <2>8. Progress(c, S, heap')
    BY <1>3, <1>4, <2>7
  <2> QED
    BY <1>1, <1>4, <2>3, <2>4, <2>8, GoesOn DEF b, S, c
<1> QED
  BY <1>4, <1>5, <1>6

(* The old block of a realloc is looked up again, after the copy.          *)
LEMMA LookUpOldKeeps ==
  ASSUME ThreadInv, NEW t \in Threads, LookUpOld(t)
  PROVE  ThreadInv' /\ UNCHANGED <<owned, settled>>
<1> DEFINE b == call[t]
           S == settled
           h == heap
<1>1. b.pc = "look_up_old" /\ b.pc \in Inside
  BY DEF LookUpOld, At, Inside
<1>2. /\ Arguments(b) /\ b \in CallRecord /\ Progress(b, S, heap) /\ SoundHeap(S)
      /\ Held(HeapBlocks(S), owned)
  BY <1>1, Alone
<1>3. Copied(b, S, h)
  BY <1>1, <1>2 DEF Progress
<1>4. UNCHANGED <<owned, g_malloc_lock, settled>> /\ heap' = heap
  BY HeapFields DEF LookUpOld
<1>5. h \in GoodHeaps
  BY <1>2, <1>3, ReleasingSound DEF Releasing, SoundHeap
<1>6. CASE BlockOf(h, b.ptr) = {}
  <2> DEFINE c == [b EXCEPT !.pc = "unlock"]
  <2>1. Goto(t, "unlock", b)
    BY <1>6 DEF LookUpOld
  <2> HIDE DEF b, S, h
  <2>2. /\ c.pc = "unlock" /\ c.op = b.op /\ c.ptr = b.ptr /\ c.n = b.n
        /\ c.ret = b.ret
    BY <1>2, GotoEffect DEF Inside
  <2> HIDE DEF c
  <2>3. h \in Release(h, b.ptr)
    BY <1>6 DEF Release
  <2>4. Finished(c, S, h)
    BY <1>3, <2>2, <2>3, ReleaseFinishes DEF Releasing
  <2>5. Progress(c, S, heap') /\ "unlock" \in Inside
    BY <1>4, <2>2, <2>4 DEF Progress, Inside, h
  <2> QED
    BY <1>1, <1>2, <1>4, <2>1, <2>5, GoesOn DEF b, S, c
<1>7. CASE BlockOf(h, b.ptr) # {}
  <2>1. PICK f \in BlockOf(h, b.ptr) :
          Goto(t, "release",
               [b EXCEPT !.zone = h.zones[f.at].start, !.block = f.block.addr])
    BY <1>7, HeapFields DEF LookUpOld
  <2> HIDE DEF b, S, h
  <2> DEFINE d  == [b EXCEPT !.zone = h.zones[f.at].start, !.block = f.block.addr]
             c  == [d EXCEPT !.pc = "release"]
  <2>2. h.zones[f.at].start \in Nat /\ f.block.addr \in Nat
    BY <1>5, FoundPlace
  <2>3. /\ d \in CallRecord /\ d.op = b.op /\ d.ptr = b.ptr /\ d.n = b.n
        /\ d.size = b.size /\ d.ret = b.ret
        /\ d.zone = h.zones[f.at].start /\ d.block = f.block.addr
    BY <1>2, <2>2 DEF CallRecord
  <2>4. "release" \in Inside /\ Goto(t, "release", d)
    BY <2>1 DEF Inside
  <2> HIDE DEF d
  <2>5. /\ c.pc = "release" /\ c.op = b.op /\ c.ptr = b.ptr /\ c.n = b.n
        /\ c.size = b.size /\ c.ret = b.ret
        /\ c.zone = h.zones[f.at].start /\ c.block = f.block.addr
    BY <2>3, <2>4, GotoEffect
  <2> HIDE DEF c
  <2>6. Locates(c, h, f) /\ f \in BlockOf(h, c.ptr)
    BY <2>5 DEF Locates
  <2>7. Copied(c, S, h)
    BY <1>3, <2>5 DEF Copied, Moving
  <2>8. Progress(c, S, h)
    BY <2>5, <2>6, <2>7 DEF Progress, Releasing
  <2>9. Progress(c, S, heap')
    BY <1>4, <2>8 DEF h
  <2> QED
    BY <1>1, <1>4, <2>3, <2>4, <2>9, GoesOn DEF b, S, c
<1> QED
  BY <1>4, <1>6, <1>7

(* The zone and the block a call points to are those it looked up.         *)
LEMMA PlaceFound ==
  ASSUME SoundHeap(heap), NEW ptr, NEW f \in BlockOf(heap, ptr),
         NEW c, Locates(c, heap, f), NEW i \in ZoneAt(c.zone)
  PROVE  /\ i = f.at /\ i \in DOMAIN g_zones
         /\ f.block \in g_zones[i].blocks
         /\ \A k \in BlockAt(i, c.block) : k = f.block
<1>1. f.at \in DOMAIN heap.zones /\ f.block \in heap.zones[f.at].blocks
  BY BlockOfFound
<1>2. i = f.at
  BY <1>1, HeapFields, SoundStarts DEF StartsTell, ZoneAt, Locates
<1>3. ASSUME NEW k \in BlockAt(i, c.block)
      PROVE  k = f.block
  <2>1. /\ k \in heap.zones[i].blocks /\ k.addr = f.block.addr
        /\ i \in DOMAIN heap.zones
    BY <1>1, <1>2, <1>3, HeapFields DEF BlockAt, Locates
  <2>2. k \in Chunks(heap.zones[i]) /\ f.block \in Chunks(heap.zones[f.at])
    BY <1>1, <2>1 DEF Chunks
  <2> QED
    BY <1>1, <2>1, <2>2, AddressIsChunk
<1> QED
  BY <1>1, <1>2, <1>3, HeapFields

(* A thread about to give a block back.                                    *)
LEMMA ReleaseFacts ==
  ASSUME ThreadInv, NEW t \in Threads, At(t, "release")
  PROVE  /\ call[t].pc \in Inside /\ Arguments(call[t]) /\ call[t] \in CallRecord
         /\ Releasing(call[t], settled, heap)
         /\ SoundHeap(heap) /\ heap \in GoodHeaps
         /\ \E f \in BlockOf(heap, call[t].ptr) : Locates(call[t], heap, f)
<1>1. call[t].pc = "release" /\ call[t].pc \in Inside
  BY DEF At, Inside
<1>2. /\ Arguments(call[t]) /\ call[t] \in CallRecord
      /\ Progress(call[t], settled, heap)
      /\ SoundHeap(settled) /\ Held(HeapBlocks(settled), owned)
  BY <1>1, Alone
<1>3. /\ Releasing(call[t], settled, heap)
      /\ \E f \in BlockOf(heap, call[t].ptr) : Locates(call[t], heap, f)
  BY <1>1, <1>2 DEF Progress
<1>4. SoundHeap(heap)
  BY <1>2, <1>3, ReleasingSound
<1> QED
  BY <1>1, <1>2, <1>3, <1>4 DEF SoundHeap

(* convert_block_to_empty in the zone that was looked up ends the call.    *)
LEMMA ConvertBlockKeeps ==
  ASSUME ThreadInv, NEW t \in Threads, ConvertBlock(t)
  PROVE  ThreadInv' /\ UNCHANGED <<owned, settled>>
<1> DEFINE b == call[t]
           S == settled
           h == heap
           c == [b EXCEPT !.pc = "unlock"]
<1>1. /\ b.pc \in Inside /\ Arguments(b) /\ b \in CallRecord
      /\ Releasing(b, S, h) /\ SoundHeap(h) /\ h \in GoodHeaps
      /\ \E f \in BlockOf(h, b.ptr) : Locates(b, h, f)
  BY ReleaseFacts DEF ConvertBlock
<1>2. PICK f \in BlockOf(h, b.ptr) : Locates(b, h, f)
  BY <1>1
<1> PICK i \in ZoneAt(b.zone) : \E k \in BlockAt(i, b.block) :
        /\ g_zones[i].type # "LARGE"
        /\ Commit(SetZone(heap, i, convert_block_to_empty(g_zones[i], k)))
  BY DEF ConvertBlock
<1>3. PICK k \in BlockAt(i, b.block) :
        /\ g_zones[i].type # "LARGE"
        /\ Commit(SetZone(heap, i, convert_block_to_empty(g_zones[i], k)))
  OBVIOUS
<1>4. i = f.at /\ k = f.block /\ i \in DOMAIN g_zones /\ k \in g_zones[i].blocks
  BY <1>1, <1>2, <1>3, PlaceFound
<1> DEFINE r == ReleaseBlock(h, f.at, f.block)
<1>5. Commit(r)
  BY <1>3, <1>4, HeapFields DEF ReleaseBlock
<1>6. r \in GoodHeaps
  BY <1>1, <1>4, HeapFields, ReleaseBlockGood
<1>7. heap' = r
  BY <1>5, <1>6, CommitIs
<1>8. r \in Release(h, b.ptr)
  BY <1>2 DEF Release
<1>9. Goto(t, "unlock", b) /\ UNCHANGED <<owned, g_malloc_lock, settled>>
  BY DEF ConvertBlock
<1> HIDE DEF b, S, h, r
<1>10. /\ c.pc = "unlock" /\ c.op = b.op /\ c.ptr = b.ptr /\ c.n = b.n
       /\ c.ret = b.ret
  BY <1>1, GotoEffect DEF Inside
<1> HIDE DEF c
<1>11. Finished(c, S, r)
  BY <1>1, <1>8, <1>10, ReleaseFinishes
<1>12. Progress(c, S, heap') /\ "unlock" \in Inside
  BY <1>7, <1>10, <1>11 DEF Progress, Inside
<1> QED
  BY <1>1, <1>9, <1>12, GoesOn DEF b, S, c

(* The LARGE zone of the block leaves the list; its pages stay mapped.     *)
LEMMA UnlinkZoneKeeps ==
  ASSUME ThreadInv, NEW t \in Threads, UnlinkZone(t)
  PROVE  ThreadInv' /\ UNCHANGED <<owned, settled>>
<1> DEFINE b == call[t]
           S == settled
           h == heap
<1>1. /\ b.pc \in Inside /\ Arguments(b) /\ b \in CallRecord
      /\ Releasing(b, S, h) /\ SoundHeap(h) /\ h \in GoodHeaps
      /\ \E f \in BlockOf(h, b.ptr) : Locates(b, h, f)
  BY ReleaseFacts DEF UnlinkZone
<1>2. PICK f \in BlockOf(h, b.ptr) : Locates(b, h, f)
  BY <1>1
<1>3. PICK i \in ZoneAt(b.zone) :
        /\ g_zones[i].type = "LARGE"
        /\ g_zones' = RemoveAt(g_zones, i)
        /\ Goto(t, "munmap",
                [b EXCEPT !.size = g_zones[i].total_space + ZONE_HEADER_SIZE])
  BY DEF UnlinkZone
<1>4. i = f.at /\ i \in DOMAIN g_zones
  BY <1>1, <1>2, <1>3, PlaceFound
<1> DEFINE z == h.zones[f.at]
           d == [b EXCEPT !.size = z.total_space + ZONE_HEADER_SIZE]
           c == [d EXCEPT !.pc = "munmap"]
<1>5. /\ z.type = "LARGE" /\ Goto(t, "munmap", d)
      /\ heap' = [zones |-> RemoveAt(h.zones, f.at), mapped |-> h.mapped]
  BY <1>3, <1>4, HeapFields DEF UnlinkZone, heap
<1>6. z \in ZoneRecord
  BY <1>1, <1>4, HeapFields, GoodZone
<1>7. UNCHANGED <<owned, g_malloc_lock, settled>>
  BY DEF UnlinkZone
<1> HIDE DEF b, S, h, z
<1>8. z.total_space + ZONE_HEADER_SIZE \in Nat
  BY <1>6, SizesFacts DEF ZoneRecord
<1>9. /\ d \in CallRecord /\ d.op = b.op /\ d.ptr = b.ptr /\ d.n = b.n
      /\ d.size = z.total_space + ZONE_HEADER_SIZE /\ d.ret = b.ret
      /\ d.zone = b.zone
  BY <1>1, <1>8 DEF CallRecord
<1>10. "munmap" \in Inside
  BY DEF Inside
<1> HIDE DEF d
<1>11. /\ c.pc = "munmap" /\ c.op = b.op /\ c.ptr = b.ptr /\ c.n = b.n
       /\ c.size = z.total_space + ZONE_HEADER_SIZE /\ c.ret = b.ret
       /\ c.zone = b.zone
  BY <1>9, <1>10, GotoEffect
<1> HIDE DEF c
<1>12. Releasing(c, S, h)
  BY <1>1, <1>11 DEF Releasing, Copied, Moving
<1>13. f \in BlockOf(h, c.ptr) /\ c.zone = z.start
  BY <1>2, <1>11 DEF Locates, z
<1>14. Progress(c, S, heap')
  BY <1>5, <1>11, <1>12, <1>13 DEF Progress, z
<1> QED
  BY <1>1, <1>5, <1>7, <1>9, <1>10, <1>14, GoesOn DEF b, S, c

(* Its pages are unmapped: that is the whole of free_large_zone.           *)
LEMMA UnmapZoneKeeps ==
  ASSUME ThreadInv, NEW t \in Threads, UnmapZone(t)
  PROVE  ThreadInv' /\ UNCHANGED <<owned, settled>>
<1> DEFINE b == call[t]
           S == settled
           c == [b EXCEPT !.pc = "unlock"]
<1>1. b.pc = "munmap" /\ b.pc \in Inside
  BY DEF UnmapZone, At, Inside
<1>2. /\ Arguments(b) /\ b \in CallRecord /\ Progress(b, S, heap) /\ SoundHeap(S)
      /\ Held(HeapBlocks(S), owned)
  BY <1>1, Alone
<1>3. PICK g : /\ Releasing(b, S, g)
               /\ \E f \in BlockOf(g, b.ptr) :
                    LET z == g.zones[f.at] IN
                    /\ z.type = "LARGE"
                    /\ heap = [zones |-> RemoveAt(g.zones, f.at), mapped |-> g.mapped]
                    /\ b.zone = z.start /\ b.size = z.total_space + ZONE_HEADER_SIZE
  BY <1>1, <1>2 DEF Progress
<1>4. PICK f \in BlockOf(g, b.ptr) :
             LET z == g.zones[f.at] IN
             /\ z.type = "LARGE"
             /\ heap = [zones |-> RemoveAt(g.zones, f.at), mapped |-> g.mapped]
             /\ b.zone = z.start /\ b.size = z.total_space + ZONE_HEADER_SIZE
  BY <1>3
<1>5. g \in GoodHeaps
  BY <1>2, <1>3, ReleasingSound DEF SoundHeap
<1> DEFINE z == g.zones[f.at]
           r == ReleaseBlock(g, f.at, f.block)
<1>6. f.at \in DOMAIN g.zones /\ f.block \in g.zones[f.at].blocks
  BY BlockOfFound
<1>7. r \in GoodHeaps /\ r \in Release(g, b.ptr)
  BY <1>5, <1>6, ReleaseBlockGood DEF Release
<1>8. [g EXCEPT !.zones = RemoveAt(@, f.at)] = heap
  BY <1>4, <1>5 DEF GoodHeaps
<1>9. r = munmap(heap, b.zone, b.size)
  BY <1>4, <1>8 DEF ReleaseBlock, free_large_zone
<1> HIDE DEF r
<1>10. heap' = r
  <2>1. Commit(r)
    BY <1>9 DEF UnmapZone
  <2> QED
    BY <1>7, <2>1, CommitIs
<1>11. Goto(t, "unlock", b) /\ UNCHANGED <<owned, g_malloc_lock, settled>>
  BY DEF UnmapZone
<1> HIDE DEF b, S
<1>12. /\ c.pc = "unlock" /\ c.op = b.op /\ c.ptr = b.ptr /\ c.n = b.n
       /\ c.ret = b.ret
  BY <1>2, GotoEffect DEF Inside
<1> HIDE DEF c
<1>13. Finished(c, S, r)
  BY <1>3, <1>7, <1>12, ReleaseFinishes
<1>14. Progress(c, S, heap') /\ "unlock" \in Inside
  BY <1>10, <1>12, <1>13 DEF Progress, Inside
<1> QED
  BY <1>1, <1>2, <1>11, <1>14, GoesOn DEF b, S, c

------------------------------------------------------------------------------
(* realloc, and the reports.                                               *)

(* A thread about to resize the block it found.                            *)
LEMMA ResizeFacts ==
  ASSUME ThreadInv, NEW t \in Threads, At(t, "resize")
  PROVE  /\ call[t].pc \in Inside /\ Arguments(call[t]) /\ call[t] \in CallRecord
         /\ Fresh(call[t]) /\ call[t].op = "realloc" /\ heap = settled
         /\ SoundHeap(heap) /\ heap \in GoodHeaps
         /\ \E f \in BlockOf(heap, call[t].ptr) : Locates(call[t], heap, f)
         /\ call[t].n \in 1 .. SIZE_MAX
         /\ call[t].size \in Nat /\ call[t].size >= ALIGNMENT
<1>1. call[t].pc = "resize" /\ call[t].pc \in Inside
  BY DEF At, Inside
<1>2. /\ Arguments(call[t]) /\ call[t] \in CallRecord
      /\ Progress(call[t], settled, heap) /\ SoundHeap(settled)
  BY <1>1, Alone
<1>3. /\ Fresh(call[t]) /\ call[t].op = "realloc" /\ heap = settled
      /\ \E f \in BlockOf(heap, call[t].ptr) : Locates(call[t], heap, f)
  BY <1>1, <1>2 DEF Progress
<1>4. call[t].n \in 1 .. SIZE_MAX /\ call[t].size = align_size(call[t].n)
  BY <1>2, <1>3 DEF Arguments, Fresh
<1>5. call[t].n \in Nat \ {0}
  BY <1>4, SizesAssumption
<1>6. call[t].size \in Nat /\ call[t].size >= ALIGNMENT
  BY <1>4, <1>5, AlignFacts
<1> QED
  BY <1>1, <1>2, <1>3, <1>4, <1>6 DEF SoundHeap

(* The block stays or grows in its zone: the call is finished.             *)
LEMMA ResizeKeeps ==
  ASSUME ThreadInv, NEW t \in Threads, Resize(t)
  PROVE  ThreadInv' /\ UNCHANGED <<owned, settled>>
<1> DEFINE b == call[t]
           S == settled
           h == heap
<1>1. /\ b.pc \in Inside /\ Arguments(b) /\ b \in CallRecord
      /\ Fresh(b) /\ b.op = "realloc" /\ h = S
      /\ SoundHeap(h) /\ h \in GoodHeaps
      /\ \E f \in BlockOf(h, b.ptr) : Locates(b, h, f)
      /\ b.size \in Nat /\ b.size >= ALIGNMENT
  BY ResizeFacts DEF Resize
<1>2. PICK f \in BlockOf(h, b.ptr) : Locates(b, h, f)
  BY <1>1
<1> DEFINE Stays(k, i) ==
             /\ k.data_size >= b.size
             /\ Commit(SetZone(heap, i, split_block(g_zones[i], k, b.size)))
             /\ Goto(t, "unlock", [b EXCEPT !.ret = b.ptr])
           GrowsTo(k, i) ==
             /\ k.data_size < b.size
             /\ \E result \in Extended(heap, i, k, b.size) :
                  /\ Commit(result.heap)
                  /\ Goto(t, "unlock", [b EXCEPT !.ret = result.ptr])
<1> PICK i \in ZoneAt(b.zone) : \E k \in BlockAt(i, b.block) :
        Stays(k, i) \/ GrowsTo(k, i)
  BY DEF Resize
<1>3. PICK k \in BlockAt(i, b.block) : Stays(k, i) \/ GrowsTo(k, i)
  OBVIOUS
<1>4. i = f.at /\ k = f.block /\ i \in DOMAIN g_zones /\ k \in g_zones[i].blocks
  BY <1>1, <1>2, <1>3, PlaceFound
<1>5. /\ i \in DOMAIN h.zones /\ k \in h.zones[i].blocks /\ h.zones = g_zones
      /\ h.zones[i] \in ZoneRecord /\ WellFormed(h.zones[i])
  BY <1>1, <1>4, HeapFields, GoodZone
<1>6. UNCHANGED <<owned, g_malloc_lock, settled>>
  BY DEF Resize
<1>7. b.size = align_size(b.n)
  BY <1>1 DEF Fresh
<1>8. CASE Stays(k, i)
  <2> DEFINE g == SetZone(h, i, split_block(h.zones[i], k, b.size))
             d == [b EXCEPT !.ret = b.ptr]
             c == [d EXCEPT !.pc = "unlock"]
  <2>1. g \in GoodHeaps
    BY <1>1, <1>5, SplitWellFormed, SetZoneGood
  <2>2. Commit(g) /\ Goto(t, "unlock", d) /\ k.data_size >= b.size
    BY <1>5, <1>8
  <2>3. heap' = g
    BY <2>1, <2>2, CommitIs
  <2> HIDE DEF b, S, h
  <2>4. /\ d \in CallRecord /\ d.op = b.op /\ d.ptr = b.ptr /\ d.n = b.n
        /\ d.ret = b.ptr
    BY <1>1 DEF CallRecord
  <2> HIDE DEF d
  <2>5. /\ c.pc = "unlock" /\ c.op = b.op /\ c.ptr = b.ptr /\ c.n = b.n
        /\ c.ret = b.ptr
    BY <2>4, GotoEffect DEF Inside
  <2> HIDE DEF c
  <2>6. Finished(c, S, heap')
    BY <1>1, <1>2, <1>4, <1>7, <2>2, <2>3, <2>5 DEF Finished, Resized
  <2>7. Progress(c, S, heap') /\ "unlock" \in Inside
    BY <2>5, <2>6 DEF Progress, Inside
  <2> QED
    BY <1>1, <1>6, <2>2, <2>4, <2>7, GoesOn DEF b, S, c
<1>9. CASE GrowsTo(k, i)
  <2>1. PICK result \in Extended(heap, i, k, b.size) :
          /\ Commit(result.heap)
          /\ Goto(t, "unlock", [b EXCEPT !.ret = result.ptr])
    BY <1>9
  <2> DEFINE d == [b EXCEPT !.ret = result.ptr]
             c == [d EXCEPT !.pc = "unlock"]
  <2>2. result.heap \in GoodHeaps /\ result.ptr \in Nat
    BY <1>1, <1>5, ExtendedGood
  <2>3. heap' = result.heap
    BY <2>1, <2>2, CommitIs
  <2>4. result = [heap |-> result.heap, ptr |-> result.ptr]
    BY DEF Extended
  <2>5. Goto(t, "unlock", d) /\ k.data_size < b.size /\ heap = h
    BY <1>9, <2>1
  <2> HIDE DEF b, S, h
  <2>6. /\ d \in CallRecord /\ d.op = b.op /\ d.ptr = b.ptr /\ d.n = b.n
        /\ d.ret = result.ptr
    BY <1>1, <2>2 DEF CallRecord
  <2> HIDE DEF d
  <2>7. /\ c.pc = "unlock" /\ c.op = b.op /\ c.ptr = b.ptr /\ c.n = b.n
        /\ c.ret = result.ptr
    BY <2>6, GotoEffect DEF Inside
  <2> HIDE DEF c
  <2>8. [heap |-> heap', ptr |-> c.ret] \in Extended(S, f.at, f.block, align_size(c.n))
    BY <1>1, <1>4, <1>7, <2>3, <2>4, <2>5, <2>7
  <2>9. Finished(c, S, heap')
    BY <1>1, <1>2, <1>4, <1>7, <2>5, <2>7, <2>8 DEF Finished, Resized
  <2>10. Progress(c, S, heap') /\ "unlock" \in Inside
    BY <2>7, <2>9 DEF Progress, Inside
  <2> QED
    BY <1>1, <1>6, <2>5, <2>6, <2>10, GoesOn DEF b, S, c
<1> QED
  BY <1>3, <1>6, <1>8, <1>9

(* It can do neither: realloc_malloc refuses the size, or begins.          *)
LEMMA ResizeByMovingKeeps ==
  ASSUME ThreadInv, NEW t \in Threads, ResizeByMoving(t)
  PROVE  ThreadInv' /\ UNCHANGED <<owned, settled>>
<1> DEFINE b == call[t]
           S == settled
           h == heap
<1>1. /\ b.pc \in Inside /\ Arguments(b) /\ b \in CallRecord
      /\ Fresh(b) /\ b.op = "realloc" /\ h = S
      /\ SoundHeap(h) /\ h \in GoodHeaps
      /\ \E f \in BlockOf(h, b.ptr) : Locates(b, h, f)
      /\ b.size \in Nat /\ b.size >= ALIGNMENT
  BY ResizeFacts DEF ResizeByMoving
<1>2. PICK f \in BlockOf(h, b.ptr) : Locates(b, h, f)
  BY <1>1
<1> PICK i \in ZoneAt(b.zone) : \E k \in BlockAt(i, b.block) :
        k.data_size < b.size /\ Extended(heap, i, k, b.size) = {}
  BY DEF ResizeByMoving
<1>3. PICK k \in BlockAt(i, b.block) :
        k.data_size < b.size /\ Extended(heap, i, k, b.size) = {}
  OBVIOUS
<1>4. i = f.at /\ k = f.block
  BY <1>1, <1>2, <1>3, PlaceFound
<1>5. UNCHANGED <<owned, g_malloc_lock, settled>> /\ heap' = h
  BY HeapFields DEF ResizeByMoving
<1>6. b.size = align_size(b.n) /\ b.ret = NULL
  BY <1>1 DEF Fresh
<1>7. Moving(b, S)
  BY <1>1, <1>2, <1>3, <1>4, <1>6 DEF Moving
<1>8. CASE b.size > MAX_ALLOC_SIZE
  <2> DEFINE c == [b EXCEPT !.pc = "unlock"]
  <2>1. Goto(t, "unlock", b)
    BY <1>8 DEF ResizeByMoving
  <2> HIDE DEF b, S, h
  <2>2. /\ c.pc = "unlock" /\ c.op = b.op /\ c.ptr = b.ptr /\ c.n = b.n
        /\ c.ret = b.ret
    BY <1>1, GotoEffect DEF Inside
  <2> HIDE DEF c
  <2> DEFINE o == [heap |-> S, ptr |-> NULL]
  <2>3. o \in Allocate(S, b.size)
    BY <1>8 DEF Allocate
  <2>4. o.ptr = NULL
    OBVIOUS
  <2> HIDE DEF o
  <2>5. o \in Moved(S, c.ptr, b.size)
    BY <2>3, <2>4 DEF Moved
  <2>6. Moving(c, S)
    BY <1>7, <2>2 DEF Moving
  <2>7. Finished(c, S, S)
    BY <1>6, <2>2, <2>5, <2>6 DEF Moving, Finished, Resized, o
  <2>8. Progress(c, S, heap') /\ "unlock" \in Inside
    BY <1>1, <1>5, <2>2, <2>7 DEF Progress, Inside
  <2> QED
    BY <1>1, <1>5, <2>1, <2>8, GoesOn DEF b, S, c
<1>9. CASE ~(b.size > MAX_ALLOC_SIZE)
  <2> DEFINE d == [b EXCEPT !.size = align_size(b.size)]
             c == [d EXCEPT !.pc = "find_zone"]
  <2>1. Goto(t, "find_zone", d)
    BY <1>9 DEF ResizeByMoving
  <2>2. b.size \in Nat \ {0} /\ b.size \in 1 .. MAX_ALLOC_SIZE
    BY <1>1, <1>9, SizesAssumption
  <2>3. align_size(b.size) \in Nat
    BY <2>2, AlignFacts
  <2> HIDE DEF b, S, h
  <2>4. /\ d \in CallRecord /\ d.op = b.op /\ d.ptr = b.ptr /\ d.n = b.n
        /\ d.ret = b.ret /\ d.size = align_size(b.size)
    BY <1>1, <2>3 DEF CallRecord
  <2> HIDE DEF d
  <2>5. /\ c.pc = "find_zone" /\ c.op = b.op /\ c.ptr = b.ptr /\ c.n = b.n
        /\ c.ret = b.ret /\ c.size = align_size(b.size)
    BY <2>4, GotoEffect DEF Inside
  <2> HIDE DEF c
  <2>6. Searching(c, S)
    BY <1>1, <1>6, <1>7, <2>2, <2>5 DEF Searching, Moving, Request
  <2>7. Progress(c, S, heap') /\ "find_zone" \in Inside
    BY <1>1, <1>5, <2>5, <2>6 DEF Progress, Inside
  <2> QED
    BY <1>1, <1>5, <2>1, <2>4, <2>7, GoesOn DEF b, S, c
<1> QED
  BY <1>5, <1>8, <1>9

(* A report changes nothing; printf may have to malloc first, and then     *)
(* waits for the lock with the heap as it was when the lock was taken.     *)
LEMMA ReportKeeps ==
  ASSUME ThreadInv, NEW t \in Threads, Report(t)
  PROVE  ThreadInv' /\ UNCHANGED <<owned, settled>>
<1> DEFINE b == call[t]
           S == settled
<1>1. b.pc = "report" /\ b.pc \in Inside
  BY DEF Report, At, Inside
<1>2. Arguments(b) /\ b \in CallRecord /\ Progress(b, S, heap)
  BY <1>1, Alone
<1>3. b.op = "show" /\ b.ret = NULL /\ heap = S
  BY <1>1, <1>2 DEF Progress
<1>4. UNCHANGED <<owned, g_malloc_lock, settled>> /\ heap' = heap
  BY HeapFields DEF Report
<1>5. CASE stdout_ready
  <2> DEFINE c == [b EXCEPT !.pc = "unlock"]
  <2>1. Goto(t, "unlock", b)
    BY <1>5 DEF Report
  <2> HIDE DEF b, S
  <2>2. /\ c.pc = "unlock" /\ c.op = b.op /\ c.ptr = b.ptr /\ c.n = b.n
        /\ c.ret = b.ret
    BY <1>2, GotoEffect DEF Inside
  <2> HIDE DEF c
  <2>3. Finished(c, S, S)
    BY <1>3, <2>2 DEF Finished
  <2>4. Progress(c, S, heap') /\ "unlock" \in Inside
    BY <1>3, <1>4, <2>2, <2>3 DEF Progress, Inside
  <2> QED
    BY <1>1, <1>2, <1>4, <2>1, <2>4, GoesOn DEF b, S, c
<1>6. CASE ~stdout_ready
  <2> DEFINE d == [b EXCEPT !.op = "printf", !.n = PrintfBuffer,
                            !.size = align_size(PrintfBuffer)]
             c == [d EXCEPT !.pc = "lock"]
  <2>1. Goto(t, "lock", d)
    BY <1>6 DEF Report
  <2>2. /\ PrintfBuffer \in RequestSizes /\ PrintfBuffer \in Nat \ {0}
        /\ PrintfBuffer \in 1 .. MAX_ALLOC_SIZE
    BY ThreadsAssumption, SizesAssumption
  <2>3. align_size(PrintfBuffer) \in Nat
    BY <2>2, AlignFacts
  <2> HIDE DEF b, S
  <2>4. /\ d \in CallRecord /\ d.op = "printf" /\ d.ptr = b.ptr /\ d.n = PrintfBuffer
        /\ d.ret = b.ret /\ d.size = align_size(PrintfBuffer)
    BY <1>2, <2>2, <2>3 DEF CallRecord
  <2> HIDE DEF d
  <2>5. /\ c \in CallRecord /\ c.pc = "lock"
        /\ c.op = "printf" /\ c.ptr = b.ptr /\ c.n = PrintfBuffer
        /\ c.ret = b.ret /\ c.size = align_size(PrintfBuffer)
    BY <2>4, GotoEffect
  <2>6. call' = [call EXCEPT ![t] = c]
    BY <2>1 DEF Goto
  <2> HIDE DEF c
  <2>7. Fresh(c) /\ Arguments(c)
    BY <1>2, <1>3, <2>2, <2>5 DEF Fresh, Arguments
  <2> QED
    BY <1>1, <1>3, <1>4, <2>5, <2>6, <2>7, InsideStep DEF b, S
<1> QED
  BY <1>4, <1>5, <1>6

------------------------------------------------------------------------------
(* The end of a call.                                                      *)

(* The owners after a call, from those before it.                          *)
OwnersAfter(c, own) ==
  CASE c.op = "free" -> Returned(own, c.ptr)
    [] c.op # "free" /\ c.ret = NULL -> own
    [] OTHER -> Given(Returned(own, c.ptr), c.ret, c.n)

(* NULL is nobody's pointer.                                               *)
LEMMA NullUnheld ==
  ASSUME NEW S, SoundHeap(S), NEW own, Held(HeapBlocks(S), own)
  PROVE  Returned(own, NULL) = own
<1>1. NULL \notin DOMAIN own
  BY HeldPointers
<1> QED
  BY <1>1, ReturnedUnheld

(* A call leaves a sound heap, whose blocks have their owners.             *)
LEMMA FinishedSound ==
  ASSUME NEW S, SoundHeap(S), NEW own, Held(HeapBlocks(S), own),
         NEW c \in CallRecord, Arguments(c), NEW h, Finished(c, S, h)
  PROVE  SoundHeap(h) /\ Held(HeapBlocks(h), OwnersAfter(c, own))
<1> DEFINE after == OwnersAfter(c, own)
<1>1. c.ptr \in Nat /\ c.n \in Nat /\ c.ret \in Nat
  BY DEF CallRecord
<1>2. CASE c.op \in {"malloc", "printf"}
  <2> DEFINE o == [heap |-> h, ptr |-> c.ret]
  <2>1. o \in Allocate(S, c.n) /\ o.heap = h /\ o.ptr = c.ret
    BY <1>2 DEF Finished
  <2>2. c.ptr = NULL /\ c.op # "free"
    BY <1>2 DEF Arguments
  <2> HIDE DEF o
  <2>3. Served(S, own, c.n, o) /\ (o.ptr # NULL => c.n \in 1 .. SIZE_MAX)
    BY <1>1, <2>1, AllocateSound
  <2>4. CASE c.ret = NULL
    <3>1. h = S
      BY <2>1, <2>3, <2>4, HeapAssumption DEF Served, HandsOut, NULL
    <3>2. after = own
      BY <2>2, <2>4 DEF OwnersAfter
    <3> QED
      BY <3>1, <3>2
  <2>5. CASE c.ret # NULL
    <3>1. HandsOut(S, own, c.n, o)
      BY <2>1, <2>3, <2>5 DEF Served
    <3>2. after = Given(own, c.ret, c.n)
      BY <2>2, <2>5, NullUnheld DEF OwnersAfter
    <3>3. c.n \in 1 .. SIZE_MAX
      BY <2>1, <2>3, <2>5
    <3> QED
      BY <2>1, <3>1, <3>2, <3>3 DEF HandsOut
  <2> QED
    BY <2>4, <2>5
<1>3. CASE c.op = "free"
  <2>1. h \in Release(S, c.ptr) /\ after = Returned(own, c.ptr)
    BY <1>3 DEF Finished, OwnersAfter
  <2> QED
    BY <1>1, <2>1, ReleaseSound
<1>4. CASE c.op = "show"
  BY <1>4 DEF Finished, OwnersAfter
<1>5. CASE c.op = "realloc"
  <2> DEFINE size == align_size(c.n)
             o    == [heap |-> h, ptr |-> c.ret]
  <2>1. c.ptr # NULL /\ c.n \in 1 .. SIZE_MAX /\ Resized(c, S, h)
    BY <1>5 DEF Arguments, Finished
  <2>2. /\ c.ret = NULL => after = own
        /\ c.ret # NULL => after = Given(Returned(own, c.ptr), c.ret, c.n)
    BY <1>5 DEF OwnersAfter
  <2>3. o.heap = h /\ o.ptr = c.ret
    OBVIOUS
  <2> HIDE DEF after
  <2>4. CASE c.ret = NULL /\ h = S
    BY <2>2, <2>4 DEF after
  <2>5. ASSUME NEW f \in BlockOf(S, c.ptr)
        PROVE  /\ f.at \in DOMAIN S.zones /\ f.block \in S.zones[f.at].blocks
               /\ block_payload(f.block) = c.ptr /\ c.ptr \in DOMAIN own
    BY <1>1, <2>5, BlockOfHeld
  <2>6. ASSUME NEW f \in BlockOf(S, c.ptr),
               f.block.data_size >= size,
               h = SetZone(S, f.at, split_block(S.zones[f.at], f.block, size)),
               c.ret = c.ptr
        PROVE  SoundHeap(h) /\ Held(HeapBlocks(h), after)
    <3>1. after = Given(own, c.ptr, c.n)
      BY <2>1, <2>2, <2>6, GivenAgain
    <3> QED
      BY <2>1, <2>5, <2>6, <3>1, SplitSound
  <2>7. ASSUME NEW f \in BlockOf(S, c.ptr), o \in Extended(S, f.at, f.block, size)
        PROVE  SoundHeap(h) /\ Held(HeapBlocks(h), after)
    <3> HIDE DEF o
    <3>1. /\ SoundHeap(o.heap)
          /\ Held(HeapBlocks(o.heap), Given(Returned(own, c.ptr), o.ptr, c.n))
          /\ o.ptr \in 1 .. MEM_END - 1
      BY <2>1, <2>5, <2>7, ExtendedSound
    <3>2. c.ret # NULL
      BY <2>3, <3>1, HeapAssumption DEF NULL
    <3> QED
      BY <2>2, <2>3, <3>1, <3>2
  <2>8. ASSUME NEW f \in BlockOf(S, c.ptr), o \in Moved(S, c.ptr, size)
        PROVE  SoundHeap(h) /\ Held(HeapBlocks(h), after)
    <3> HIDE DEF o
    <3>1. \/ o = [heap |-> S, ptr |-> NULL]
          \/ /\ SoundHeap(o.heap)
             /\ Held(HeapBlocks(o.heap), Given(Returned(own, c.ptr), o.ptr, c.n))
             /\ o.ptr \in 1 .. MEM_END - 1
      BY <2>1, <2>5, <2>8, MovedSound
    <3>2. CASE o = [heap |-> S, ptr |-> NULL]
      <4>1. c.ret = NULL /\ h = S
        BY <2>3, <3>2
      <4> QED
        BY <2>4, <4>1 DEF after
    <3>3. CASE o.ptr \in 1 .. MEM_END - 1
      <4>1. c.ret # NULL
        BY <2>3, <3>3, HeapAssumption DEF NULL
      <4> QED
        BY <2>2, <2>3, <3>1, <3>2, <4>1
    <3> QED
      BY <3>1, <3>2, <3>3
  <2>9. \/ c.ret = NULL /\ h = S
        \/ \E f \in BlockOf(S, c.ptr) :
             \/ /\ f.block.data_size >= size
                /\ h = SetZone(S, f.at, split_block(S.zones[f.at], f.block, size))
                /\ c.ret = c.ptr
             \/ o \in Extended(S, f.at, f.block, size)
             \/ o \in Moved(S, c.ptr, size)
    BY <2>1 DEF Resized
  <2> QED
    BY <2>4, <2>6, <2>7, <2>8, <2>9 DEF after
<1>6. c.op \in {"malloc", "printf", "free", "show", "realloc"}
  BY DEF CallRecord, Arguments
<1> QED
  BY <1>2, <1>3, <1>4, <1>5, <1>6

(* The lock is given back: the heap the call leaves is settled.            *)
LEMMA UnlockKeeps ==
  ASSUME ThreadInv, NEW t \in Threads, Unlock(t)
  PROVE  ThreadInv'
<1> DEFINE b == call[t]
<1>1. b.pc = "unlock" /\ b.pc \in Inside
  BY DEF Unlock, At, Inside
<1>2. /\ g_malloc_lock = t /\ Arguments(b) /\ b \in CallRecord
      /\ Progress(b, settled, heap)
      /\ SoundHeap(settled) /\ Held(HeapBlocks(settled), owned)
      /\ \A u \in Threads \ {t} :
           \/ call[u].pc = "idle"
           \/ call[u].pc = "lock" /\ Fresh(call[u]) /\ Arguments(call[u])
  BY <1>1, Alone
<1>3. Finished(b, settled, heap)
  BY <1>1, <1>2 DEF Progress
<1>4. /\ g_malloc_lock' = NoThread /\ settled' = heap /\ heap' = heap
      /\ owned' = OwnersAfter(b, owned)
      /\ call' = [call EXCEPT ![t] = Idle]
  BY HeapFields DEF Unlock, OwnersAfter
<1>5. SoundHeap(settled') /\ Held(HeapBlocks(settled'), owned')
  BY <1>2, <1>3, <1>4, FinishedSound
<1>6. Idle \in CallRecord /\ Idle.pc = "idle"
  BY DEF Idle, CallRecord, NULL
<1>7. call \in [Threads -> CallRecord]
  BY DEF ThreadInv
<1>8. /\ call' \in [Threads -> CallRecord] /\ call'[t].pc = "idle"
      /\ \A u \in Threads \ {t} : call'[u] = call[u]
  BY <1>4, <1>6, <1>7
<1>9. \A u \in Threads : g_malloc_lock' # u
  BY <1>4, ThreadsAssumption
<1>10. ThreadOK(t)'
  BY <1>8, <1>9 DEF ThreadOK
<1>11. ASSUME NEW u \in Threads \ {t}
       PROVE  ThreadOK(u)'
  <2>1. \/ call'[u].pc = "idle"
        \/ call'[u].pc = "lock" /\ Fresh(call'[u]) /\ Arguments(call'[u])
    BY <1>2, <1>8
  <2> QED
    BY <1>9, <2>1 DEF ThreadOK
<1>12. \A u \in Threads : ThreadOK(u)'
  BY <1>10, <1>11
<1> QED
  BY <1>4, <1>5, <1>8, <1>12 DEF ThreadInv

(* Every step keeps the invariant; only the end of a call changes what is  *)
(* settled and who owns what.                                              *)
LEMMA NextKeeps ==
  ThreadInv /\ [Next]_vars
    => /\ ThreadInv'
       /\ UNCHANGED <<owned, settled>> \/ \E t \in Threads : Unlock(t)
<1> SUFFICES ASSUME ThreadInv, [Next]_vars
             PROVE  /\ ThreadInv'
                    /\ UNCHANGED <<owned, settled>> \/ \E t \in Threads : Unlock(t)
  OBVIOUS
<1>1. CASE UNCHANGED vars
  <2>1. heap' = heap
    BY <1>1 DEF vars, heap
  <2>2. /\ call' = call /\ settled' = settled /\ owned' = owned
        /\ g_malloc_lock' = g_malloc_lock
    BY <1>1 DEF vars
  <2> QED
    BY <2>1, <2>2 DEF ThreadInv, ThreadOK
<1>2. ASSUME NEW t \in Threads, Call(t)
      PROVE  ThreadInv' /\ UNCHANGED <<owned, settled>>
  BY <1>2, CallKeeps
<1>3. ASSUME NEW t \in Threads, Step(t)
      PROVE  ThreadInv' /\ (UNCHANGED <<owned, settled>> \/ Unlock(t))
  <2>1. CASE Lock(t)
    BY <2>1, LockKeeps
  <2>2. CASE FindZone(t)
    BY <2>2, FindZoneKeeps
  <2>3. CASE AllocateBlock(t)
    BY <2>3, AllocateBlockKeeps
  <2>4. CASE LookUp(t)
    BY <2>4, LookUpKeeps
  <2>5. CASE LookUpOld(t)
    BY <2>5, LookUpOldKeeps
  <2>6. CASE ConvertBlock(t)
    BY <2>6, ConvertBlockKeeps
  <2>7. CASE UnlinkZone(t)
    BY <2>7, UnlinkZoneKeeps
  <2>8. CASE UnmapZone(t)
    BY <2>8, UnmapZoneKeeps
  <2>9. CASE Resize(t)
    BY <2>9, ResizeKeeps
  <2>10. CASE ResizeByMoving(t)
    BY <2>10, ResizeByMovingKeeps
  <2>11. CASE Report(t)
    BY <2>11, ReportKeeps
  <2>12. CASE Unlock(t)
    BY <2>12, UnlockKeeps
  <2> QED
    BY <1>3, <2>1, <2>2, <2>3, <2>4, <2>5, <2>6, <2>7, <2>8, <2>9, <2>10, <2>11,
       <2>12 DEF Step
<1> QED
  BY <1>1, <1>2, <1>3 DEF Next

(* Nobody is in a call when the program starts.                            *)
LEMMA InitKeeps == Init => ThreadInv
<1> SUFFICES ASSUME Init
             PROVE  ThreadInv
  OBVIOUS
<1>1. Idle \in CallRecord /\ Idle.pc = "idle"
  BY DEF Idle, CallRecord, NULL
<1>2. call \in [Threads -> CallRecord]
  BY <1>1 DEF Init
<1>3. \A t \in Threads : ThreadOK(t)
  BY <1>1, ThreadsAssumption DEF Init, ThreadOK
<1>4. heap = settled /\ settled = EmptyHeap /\ g_malloc_lock = NoThread
  BY DEF Init, heap, EmptyHeap
<1>5. SoundHeap(EmptyHeap) /\ Held(HeapBlocks(EmptyHeap), owned)
  <2>1. DOMAIN EmptyHeap.zones = {} /\ EmptyHeap.mapped = {}
    BY DEF EmptyHeap
  <2>2. EmptyHeap \in GoodHeaps
    BY DEF EmptyHeap, GoodHeaps
  <2>3. SoundHeap(EmptyHeap)
    BY <2>1, <2>2 DEF SoundHeap
  <2>4. HeapBlocks(EmptyHeap) = {}
    BY <2>1 DEF HeapBlocks
  <2>5. owned = [p \in {} |-> 0]
    BY DEF Init
  <2>6. Held({}, owned)
    BY <2>5 DEF Held
  <2> QED
    BY <2>3, <2>4, <2>6
<1> QED
  BY <1>2, <1>3, <1>4, <1>5 DEF ThreadInv

(* However the steps of the threads interleave, the thread with the lock   *)
(* works on a heap that only its own call has touched since it was locked, *)
(* and no other thread is past the lock.                                   *)
THEOREM ThreadsKeepApart == Spec => []ThreadInv
<1>1. ThreadInv /\ [Next]_vars => ThreadInv'
  BY NextKeeps
<1> QED
  BY <1>1, InitKeeps, PTL DEF Spec

(* ListedZonesAreMapped: in the middle of a call too, between the unlink   *)
(* of a zone and its munmap, a zone on the list is mapped.                 *)
THEOREM ListedZonesAlwaysMapped == Spec => []ListedZonesAreMapped
<1>1. ThreadInv => ListedZonesAreMapped
  <2> SUFFICES ASSUME ThreadInv
               PROVE  ZonesMapped(heap)
    BY HeapFields DEF ZonesMapped, ListedZonesAreMapped
  <2>1. SoundHeap(settled) /\ ZonesMapped(settled)
    BY SoundStarts DEF ThreadInv
  <2>2. CASE heap = settled
    BY <2>1, <2>2
  <2>3. CASE heap # settled
    <3>1. g_malloc_lock # NoThread
      BY <2>3 DEF ThreadInv
    <3>2. ASSUME NEW t \in Threads, call[t].pc \in Inside
          PROVE  ZonesMapped(heap)
      <4> DEFINE b == call[t]
      <4>1. /\ Arguments(b) /\ b \in CallRecord /\ Progress(b, settled, heap)
            /\ Held(HeapBlocks(settled), owned)
        BY <3>2, Alone
      <4> HIDE DEF b
      <4>2. CASE b.pc = "allocate" /\ Searching(b, settled)
                 /\ \E found \in find_zone(settled, get_zone_type(b.size), b.size) :
                      found.at # 0 /\ heap = found.heap
        <5>1. /\ b.size \in Nat /\ b.size >= ALIGNMENT
              /\ get_zone_type(b.size) \in ZoneTypes
          BY <4>1, <4>2, SearchFacts
        <5> QED
          BY <2>1, <4>2, <5>1, FoundZone
      <4>3. CASE Releasing(b, settled, heap)
        <5>1. SoundHeap(heap)
          BY <2>1, <4>1, <4>3, ReleasingSound
        <5> QED
          BY <5>1, SoundStarts
      <4>4. ASSUME NEW g, Releasing(b, settled, g),
                   NEW f \in BlockOf(g, b.ptr),
                   heap = [zones |-> RemoveAt(g.zones, f.at), mapped |-> g.mapped]
            PROVE  ZonesMapped(heap)
        <5>1. SoundHeap(g) /\ ZonesMapped(g) /\ g \in GoodHeaps
          BY <2>1, <4>1, <4>4, ReleasingSound, SoundStarts
        <5>2. f.at \in DOMAIN g.zones /\ g.zones \in Seq(GoodZones)
          BY <5>1, BlockOfFound DEF GoodHeaps
        <5>3. \A k \in DOMAIN RemoveAt(g.zones, f.at) :
                \E j \in DOMAIN g.zones : RemoveAt(g.zones, f.at)[k] = g.zones[j]
          BY <5>2, ElementGone
        <5> DEFINE s == RemoveAt(g.zones, f.at)
        <5>4. heap.zones = s /\ heap.mapped = g.mapped
          BY <4>4
        <5> HIDE DEF s
        <5> QED
          BY <5>1, <5>3, <5>4 DEF ZonesMapped, s
      <4>5. CASE Finished(b, settled, heap)
        <5>1. SoundHeap(heap)
          BY <2>1, <4>1, <4>5, FinishedSound
        <5> QED
          BY <5>1, SoundStarts
      <4> QED
        BY <2>3, <4>1, <4>2, <4>3, <4>4, <4>5 DEF Progress, Releasing
    <3>3. CASE \E t \in Threads : call[t].pc \in Inside
      BY <3>2, <3>3
    <3>4. CASE \A t \in Threads : call[t].pc \notin Inside
      <4>1. \A t \in Threads : ThreadOK(t)
        BY DEF ThreadInv
      <4>2. \A t \in Threads : g_malloc_lock # t
        BY <2>3, <3>4, <4>1 DEF ThreadOK
      <4>3. g_malloc_lock \in Threads \cup {NoThread}
        BY DEF ThreadInv
      <4> QED
        BY <3>1, <4>2, <4>3
    <3> QED
      BY <3>3, <3>4
  <2> QED
    BY <2>2, <2>3
<1> QED
  BY <1>1, ThreadsKeepApart, PTL

------------------------------------------------------------------------------
(* Seen from outside.                                                      *)

(* Allocator's operators, on the heap when the lock was last free, are the *)
(* same as here: first those that allocate ...                             *)
LEMMA SameAllocate ==
  /\ Atomic!NULL = NULL
  /\ \A n : Atomic!align_size(n) = align_size(n)
  /\ \A h, n : Atomic!Allocate(h, n) = Allocate(h, n)
<1>1. Atomic!NULL = NULL
  BY DEF Atomic!NULL, NULL
<1>2. \A n : Atomic!align_size(n) = align_size(n)
  BY DEF Atomic!align_size, align_size
<1>3. \A n : Atomic!get_zone_type(n) = get_zone_type(n)
  BY DEF Atomic!get_zone_type, get_zone_type, Atomic!TINY_DATA_MIN, TINY_DATA_MIN
<1>4. \A h, i, n : Atomic!allocate_block(h, i, n) = allocate_block(h, i, n)
  BY DEF Atomic!allocate_block, allocate_block,
         Atomic!find_empty_space, find_empty_space,
         Atomic!allocate_from_empty, allocate_from_empty,
         Atomic!update_empty_stats, update_empty_stats, Atomic!Max, Max,
         Atomic!block_payload, block_payload, Atomic!block_end, block_end,
         Atomic!NULL, NULL, Atomic!MIN_SPLIT_SIZE, MIN_SPLIT_SIZE
<1>5. \A h, type, n : Atomic!find_zone(h, type, n) = find_zone(h, type, n)
  BY DEF Atomic!find_zone, find_zone, Atomic!create_large_zone, create_large_zone,
         Atomic!create_zone, create_zone, Atomic!FittingZone, FittingZone,
         Atomic!MapZone, MapZone, Atomic!NoZone, NoZone, Atomic!Wrap, Wrap,
         Atomic!zone_init, zone_init, Atomic!mmap, mmap, Atomic!PagesOf, PagesOf,
         Atomic!PageAddrs, PageAddrs, Atomic!IsMultiple, IsMultiple
<1>6. \A h, n : Atomic!Allocate(h, n) = Allocate(h, n)
  BY <1>1, <1>2, <1>3, <1>4, <1>5 DEF Atomic!Allocate, Allocate
<1> QED
  BY <1>1, <1>2, <1>6

(* ... then those that give a block back ...                               *)
LEMMA SameRelease ==
  /\ \A h, ptr : Atomic!BlockOf(h, ptr) = BlockOf(h, ptr)
  /\ \A h, ptr : Atomic!Release(h, ptr) = Release(h, ptr)
<1>1. \A h, ptr : Atomic!BlockOf(h, ptr) = BlockOf(h, ptr)
  BY DEF Atomic!BlockOf, BlockOf, Atomic!is_valid_block, is_valid_block,
         Atomic!find_zone_for_ptr, find_zone_for_ptr, Atomic!NULL, NULL,
         Atomic!block_from_payload, block_from_payload
<1>2. \A h, i, b : Atomic!ReleaseBlock(h, i, b) = ReleaseBlock(h, i, b)
  BY DEF Atomic!ReleaseBlock, ReleaseBlock,
         Atomic!free_large_zone, free_large_zone, Atomic!munmap, munmap,
         Atomic!RemoveAt, RemoveAt, Atomic!SetZone, SetZone,
         Atomic!convert_block_to_empty, convert_block_to_empty,
         Atomic!merge_empty_spaces, merge_empty_spaces,
         Atomic!Runs, Runs, Atomic!Joined, Joined,
         Atomic!MIN_SPLIT_SIZE, MIN_SPLIT_SIZE, Atomic!block_end, block_end,
         Atomic!update_empty_stats, update_empty_stats, Atomic!Max, Max,
         Atomic!PagesOf, PagesOf, Atomic!PageAddrs, PageAddrs,
         Atomic!IsMultiple, IsMultiple
<1>3. \A h, ptr : Atomic!Release(h, ptr) = Release(h, ptr)
  BY <1>1, <1>2 DEF Atomic!Release, Release
<1> QED
  BY <1>1, <1>3

(* ... and those that resize one.                                          *)
LEMMA SameResize ==
  /\ \A z, b, n : Atomic!split_block(z, b, n) = split_block(z, b, n)
  /\ \A h, i, z : Atomic!SetZone(h, i, z) = SetZone(h, i, z)
  /\ \A h, i, b, n : Atomic!Extended(h, i, b, n) = Extended(h, i, b, n)
  /\ \A h, ptr, n : Atomic!Moved(h, ptr, n) = Moved(h, ptr, n)
<1>1. \A z, b, n : Atomic!split_block(z, b, n) = split_block(z, b, n)
  BY DEF Atomic!split_block, split_block,
         Atomic!merge_empty_spaces, merge_empty_spaces,
         Atomic!Runs, Runs, Atomic!Joined, Joined,
         Atomic!MIN_SPLIT_SIZE, MIN_SPLIT_SIZE, Atomic!block_end, block_end,
         Atomic!update_empty_stats, update_empty_stats, Atomic!Max, Max
<1>2. \A h, i, z : Atomic!SetZone(h, i, z) = SetZone(h, i, z)
  BY DEF Atomic!SetZone, SetZone
<1>3. \A z, b, e, g, n : Atomic!Absorb(z, b, e, g, n) = Absorb(z, b, e, g, n)
  BY <1>1 DEF Atomic!Absorb, Absorb, Atomic!MIN_SPLIT_SIZE, MIN_SPLIT_SIZE,
         Atomic!update_empty_stats, update_empty_stats, Atomic!Max, Max
<1>4. \A n : Atomic!get_zone_type(n) = get_zone_type(n)
  BY DEF Atomic!get_zone_type, get_zone_type, Atomic!TINY_DATA_MIN, TINY_DATA_MIN
<1>5. \A z, b, n : Atomic!try_to_extend_block(z, b, n) = try_to_extend_block(z, b, n)
  <2>1. /\ \A b, e : Atomic!available_space(b, e) = available_space(b, e)
        /\ \A b : Atomic!block_payload(b) = block_payload(b)
        /\ \A z, b : Atomic!find_empty_after(z, b) = find_empty_after(z, b)
        /\ \A z, b : Atomic!find_empty_before(z, b) = find_empty_before(z, b)
    BY DEF Atomic!available_space, available_space,
           Atomic!find_empty_after, find_empty_after,
           Atomic!find_empty_before, find_empty_before,
           Atomic!block_payload, block_payload, Atomic!block_end, block_end
  <2>2. \A z, b, n : Atomic!extend_block(z, b, n) = extend_block(z, b, n)
    BY <1>3, <2>1 DEF Atomic!extend_block, extend_block
  <2>3. \A z, b, n : Atomic!extend_block_back(z, b, n) = extend_block_back(z, b, n)
    BY <1>3, <2>1 DEF Atomic!extend_block_back, extend_block_back
  <2> QED
    BY <2>2, <2>3 DEF Atomic!try_to_extend_block, try_to_extend_block
<1>6. \A h, i, b, n : Atomic!Extended(h, i, b, n) = Extended(h, i, b, n)
  BY <1>2, <1>4, <1>5 DEF Atomic!Extended, Extended
<1>7. \A h, ptr, n : Atomic!Moved(h, ptr, n) = Moved(h, ptr, n)
  BY SameAllocate, SameRelease DEF Atomic!Moved, Moved
<1> QED
  BY <1>1, <1>2, <1>6, <1>7

(* And those that record who owns what.                                    *)
LEMMA SameOwners ==
  /\ \A own, ptr, n : Atomic!Given(own, ptr, n) = Given(own, ptr, n)
  /\ \A own, ptr : Atomic!Returned(own, ptr) = Returned(own, ptr)
  BY DEF Atomic!Given, Given, Atomic!Returned, Returned

(* The heap Allocator sees is the heap when the lock was last free.        *)
LEMMA AtomicHeap ==
  ASSUME ThreadInv
  PROVE  /\ Atomic!heap = settled
         /\ \A h : settled' = h => Atomic!Commit(h)
         /\ UNCHANGED <<owned, settled>> => UNCHANGED Atomic!vars
<1>1. settled \in GoodHeaps
  BY DEF ThreadInv, SoundHeap
<1>2. Atomic!heap = settled
  BY <1>1 DEF Atomic!heap, GoodHeaps
<1> QED
  BY <1>2 DEF Atomic!Commit, Atomic!vars

(* The end of a call is the whole call of Allocator, or no step of it when *)
(* the call did nothing.                                                   *)
LEMMA UnlockIsCall ==
  ASSUME ThreadInv, NEW t \in Threads, Unlock(t)
  PROVE  [Atomic!Next]_(Atomic!vars)
<1> DEFINE c == call[t]
           S == settled
           h == heap
<1>1. c.pc = "unlock" /\ c.pc \in Inside
  BY DEF Unlock, At, Inside
<1>2. /\ Arguments(c) /\ c \in CallRecord /\ Progress(c, S, h)
      /\ SoundHeap(S) /\ Held(HeapBlocks(S), owned)
  BY <1>1, Alone
<1>3. Finished(c, S, h)
  BY <1>1, <1>2 DEF Progress
<1>4. settled' = h /\ owned' = OwnersAfter(c, owned)
  BY DEF Unlock, OwnersAfter
<1>5. /\ Atomic!heap = S /\ Atomic!Commit(h)
      /\ (h = S /\ owned' = owned => UNCHANGED Atomic!vars)
  BY <1>4, AtomicHeap
<1>6. \A p \in DOMAIN owned : p \in Atomic!Ptrs
  BY Zenon DEF Atomic!Ptrs
<1>7. c.ptr \in Nat /\ c.n \in Nat /\ c.ret \in Nat
  BY <1>2 DEF CallRecord
<1> HIDE DEF c, S, h
<1>8. CASE c.op \in {"malloc", "printf"}
  <2> DEFINE o == [heap |-> h, ptr |-> c.ret]
  <2>1. o \in Allocate(S, c.n) /\ o.heap = h /\ o.ptr = c.ret
    BY <1>3, <1>8 DEF Finished
  <2>2. c.ptr = NULL /\ c.n \in RequestSizes /\ c.op # "free"
    BY <1>2, <1>8 DEF Arguments
  <2>3. owned' = IF o.ptr = NULL THEN owned ELSE Given(owned, o.ptr, c.n)
    BY <1>2, <1>4, <2>1, <2>2, NullUnheld DEF OwnersAfter
  <2> HIDE DEF o
  <2>4. o \in Atomic!Allocate(Atomic!heap, c.n)
    BY <1>5, <2>1, SameAllocate
  <2>5. Atomic!Commit(o.heap)
    BY <1>5, <2>1
  <2>6. owned' = IF o.ptr = Atomic!NULL THEN owned
                 ELSE Atomic!Given(owned, o.ptr, c.n)
    BY <2>3, SameAllocate, SameOwners
  <2>7. Atomic!malloc(c.n)
    BY <2>4, <2>5, <2>6 DEF Atomic!malloc
  <2> QED
    BY <2>2, <2>7 DEF Atomic!Next
<1>9. CASE c.op = "free"
  <2>1. h \in Release(S, c.ptr) /\ owned' = Returned(owned, c.ptr)
    BY <1>3, <1>4, <1>9 DEF Finished, OwnersAfter
  <2>2. CASE c.ptr \in DOMAIN owned
    <3>1. h \in Atomic!Release(Atomic!heap, c.ptr)
      BY <1>5, <2>1, SameRelease
    <3>2. owned' = Atomic!Returned(owned, c.ptr)
      BY <2>1, SameOwners
    <3>3. Atomic!free(c.ptr)
      BY <1>5, <3>1, <3>2 DEF Atomic!free
    <3> QED
      BY <1>6, <2>2, <3>3 DEF Atomic!Next
  <2>3. CASE c.ptr \notin DOMAIN owned
    <3>1. h = S
      BY <1>2, <1>7, <2>1, <2>3, ReleaseSound
    <3>2. owned' = owned
      BY <1>2, <2>1, <2>3, ReturnedUnheld
    <3> QED
      BY <1>5, <3>1, <3>2
  <2> QED
    BY <2>2, <2>3
<1>10. CASE c.op = "show"
  <2>1. h = S /\ owned' = owned
    BY <1>3, <1>4, <1>10 DEF Finished, OwnersAfter
  <2> QED
    BY <1>5, <2>1
<1>11. CASE c.op = "realloc"
  <2> DEFINE size == align_size(c.n)
             o    == [heap |-> h, ptr |-> c.ret]
  <2>1. /\ c.ptr # NULL /\ c.n \in RequestSizes /\ c.n \in 1 .. SIZE_MAX /\ c.n # 0
        /\ Resized(c, S, h)
    BY <1>2, <1>3, <1>11, SizesAssumption DEF Arguments, Finished
  <2>2. /\ c.ret = NULL => owned' = owned
        /\ c.ret # NULL => owned' = Given(Returned(owned, c.ptr), c.ret, c.n)
    BY <1>4, <1>11 DEF OwnersAfter
  <2>3. o.heap = h /\ o.ptr = c.ret
    OBVIOUS
  <2>4. CASE BlockOf(S, c.ptr) = {} /\ c.ret = NULL /\ h = S
    BY <1>5, <2>2, <2>4
  <2>5. ASSUME NEW f \in BlockOf(S, c.ptr),
               \/ Atomic!ReallocInPlace(c.ptr, c.n, f)
               \/ Atomic!ReallocExtend(c.ptr, c.n, f)
               \/ Atomic!ReallocMove(c.ptr, c.n, f)
        PROVE  Atomic!Next
    <3>1. c.ptr \in DOMAIN owned
      BY <1>2, <1>7, <2>5, BlockOfHeld
    <3>2. /\ f \in Atomic!BlockOf(Atomic!heap, c.ptr)
          /\ c.ptr # Atomic!NULL
      BY <1>5, <2>1, SameRelease, SameAllocate
    <3>3. Atomic!realloc(c.ptr, c.n)
      BY <2>1, <2>5, <3>2 DEF Atomic!realloc
    <3> QED
      BY <1>6, <2>1, <3>1, <3>3 DEF Atomic!Next
  <2>6. Atomic!align_size(c.n) = size
    BY SameAllocate
  <2> HIDE DEF size, o
  <2>7. ASSUME NEW f \in BlockOf(S, c.ptr), f.block.data_size >= size,
               h = SetZone(S, f.at, split_block(S.zones[f.at], f.block, size)),
               c.ret = c.ptr
        PROVE  Atomic!ReallocInPlace(c.ptr, c.n, f)
    <3>1. owned' = Atomic!Given(owned, c.ptr, c.n)
      BY <2>1, <2>2, <2>7, GivenAgain, SameOwners
    <3>2. Atomic!Commit(Atomic!SetZone(Atomic!heap, f.at,
            Atomic!split_block(settled.zones[f.at], f.block, size)))
      BY <1>5, <2>7, SameResize DEF S
    <3> QED
      BY <2>6, <2>7, <3>1, <3>2 DEF Atomic!ReallocInPlace
  <2>8. ASSUME NEW f \in BlockOf(S, c.ptr), f.block.data_size < size,
               o \in Extended(S, f.at, f.block, size)
        PROVE  Atomic!ReallocExtend(c.ptr, c.n, f)
    <3>1. f.at \in DOMAIN S.zones /\ f.block \in S.zones[f.at].blocks
      BY BlockOfFound
    <3>2. o.ptr \in 1 .. MEM_END - 1
      BY <1>2, <2>1, <2>8, <3>1, ExtendedSound DEF size
    <3>3. c.ret # NULL
      BY <2>3, <3>2, HeapAssumption DEF NULL
    <3>4. owned' = Atomic!Given(Atomic!Returned(owned, c.ptr), o.ptr, c.n)
      BY <2>2, <2>3, <3>3, SameOwners
    <3>5. o \in Atomic!Extended(Atomic!heap, f.at, f.block, size)
      BY <1>5, <2>8, SameResize
    <3>6. Atomic!Commit(o.heap)
      BY <1>5, <2>3
    <3> QED
      BY <2>6, <2>8, <3>4, <3>5, <3>6 DEF Atomic!ReallocExtend
  <2>9. ASSUME NEW f \in BlockOf(S, c.ptr), f.block.data_size < size,
               Extended(S, f.at, f.block, size) = {}, o \in Moved(S, c.ptr, size)
        PROVE  Atomic!ReallocMove(c.ptr, c.n, f)
    <3>1. owned' = IF o.ptr = Atomic!NULL THEN owned
                   ELSE Atomic!Given(Atomic!Returned(owned, c.ptr), o.ptr, c.n)
      BY <2>2, <2>3, SameOwners, SameAllocate
    <3>2. /\ o \in Atomic!Moved(Atomic!heap, c.ptr, size)
          /\ Atomic!Extended(Atomic!heap, f.at, f.block, size) = {}
      BY <1>5, <2>9, SameResize
    <3>3. Atomic!Commit(o.heap)
      BY <1>5, <2>3
    <3> QED
      BY <2>6, <2>9, <3>1, <3>2, <3>3 DEF Atomic!ReallocMove
  <2>10. \/ BlockOf(S, c.ptr) = {} /\ c.ret = NULL /\ h = S
         \/ \E f \in BlockOf(S, c.ptr) :
              \/ /\ f.block.data_size >= size
                 /\ h = SetZone(S, f.at, split_block(S.zones[f.at], f.block, size))
                 /\ c.ret = c.ptr
              \/ f.block.data_size < size /\ o \in Extended(S, f.at, f.block, size)
              \/ /\ f.block.data_size < size
                 /\ Extended(S, f.at, f.block, size) = {} /\ o \in Moved(S, c.ptr, size)
    BY <2>1 DEF Resized, size, o
  <2> QED
    BY <2>4, <2>5, <2>7, <2>8, <2>9, <2>10
<1>12. c.op \in {"malloc", "printf", "free", "show", "realloc"}
  BY <1>2 DEF CallRecord, Arguments
<1> QED
  BY <1>8, <1>9, <1>10, <1>11, <1>12

(* CallsAreAtomic: however the threads interleave, what they do together   *)
(* is what the whole calls of Allocator do, one after another, each where  *)
(* its thread gives g_malloc_lock back.                                    *)
THEOREM Atomicity == Spec => CallsAreAtomic
<1>1. Init => Atomic!Init
  BY DEF Init, Atomic!Init, EmptyHeap
<1>2. ThreadInv /\ [Next]_vars => [Atomic!Next]_(Atomic!vars)
  <2> SUFFICES ASSUME ThreadInv, [Next]_vars
               PROVE  [Atomic!Next]_(Atomic!vars)
    OBVIOUS
  <2>1. CASE UNCHANGED <<owned, settled>>
    BY <2>1, AtomicHeap
  <2>2. CASE \E t \in Threads : Unlock(t)
    BY <2>2, UnlockIsCall
  <2> QED
    BY <2>1, <2>2, NextKeeps
<1> QED
  BY <1>1, <1>2, ThreadsKeepApart, PTL DEF Spec, CallsAreAtomic, Atomic!Spec

------------------------------------------------------------------------------
(* The contract.                                                           *)

(* The calls of Allocator once more, with what is proved of them.          *)
Calls == INSTANCE AllocatorProofs WITH g_zones <- settled.zones,
                                       mapped  <- settled.mapped

(* Module MallocContract, as the threads see it.                           *)
Contract == INSTANCE MallocContract

(* Both instances stand for the same calls.                                *)
LEMMA SameCalls ==
  /\ Atomic!Init <=> Calls!Init
  /\ [Atomic!Next]_(Atomic!vars) <=> [Calls!Next]_(Calls!vars)
<1>1. \A n : Atomic!get_zone_type(n) = Calls!get_zone_type(n)
  BY DEF Atomic!get_zone_type, Calls!get_zone_type,
         Atomic!TINY_DATA_MIN, Calls!TINY_DATA_MIN
<1>2. \A n : Atomic!align_size(n) = Calls!align_size(n)
  BY DEF Atomic!align_size, Calls!align_size
<1>3. \A h, i, z : Atomic!SetZone(h, i, z) = Calls!SetZone(h, i, z)
  BY DEF Atomic!SetZone, Calls!SetZone
<1>4. \A z, b, n : Atomic!split_block(z, b, n) = Calls!split_block(z, b, n)
  BY DEF Atomic!split_block, Calls!split_block,
         Atomic!merge_empty_spaces, Calls!merge_empty_spaces,
         Atomic!Runs, Calls!Runs, Atomic!Joined, Calls!Joined,
         Atomic!MIN_SPLIT_SIZE, Calls!MIN_SPLIT_SIZE,
         Atomic!block_end, Calls!block_end,
         Atomic!update_empty_stats, Calls!update_empty_stats,
         Atomic!Max, Calls!Max
<1>5. \A z, b, e, g, n : Atomic!Absorb(z, b, e, g, n) = Calls!Absorb(z, b, e, g, n)
  BY <1>4
     DEF Atomic!Absorb, Calls!Absorb,
         Atomic!MIN_SPLIT_SIZE, Calls!MIN_SPLIT_SIZE,
         Atomic!update_empty_stats, Calls!update_empty_stats,
         Atomic!Max, Calls!Max
<1>6. \A z, b, n : Atomic!extend_block(z, b, n) = Calls!extend_block(z, b, n)
  BY <1>5
     DEF Atomic!extend_block, Calls!extend_block,
         Atomic!find_empty_after, Calls!find_empty_after,
         Atomic!available_space, Calls!available_space,
         Atomic!block_payload, Calls!block_payload,
         Atomic!block_end, Calls!block_end
<1>7. \A z, b, n : Atomic!extend_block_back(z, b, n) = Calls!extend_block_back(z, b, n)
  BY <1>5
     DEF Atomic!extend_block_back, Calls!extend_block_back,
         Atomic!find_empty_before, Calls!find_empty_before,
         Atomic!available_space, Calls!available_space,
         Atomic!block_payload, Calls!block_payload,
         Atomic!block_end, Calls!block_end
<1>8. \A z, b, n : Atomic!try_to_extend_block(z, b, n) = Calls!try_to_extend_block(z, b, n)
  BY <1>6, <1>7
     DEF Atomic!try_to_extend_block, Calls!try_to_extend_block
<1>9. \A h, i, b, n : Atomic!Extended(h, i, b, n) = Calls!Extended(h, i, b, n)
  BY <1>1, <1>3, <1>8
     DEF Atomic!Extended, Calls!Extended
<1>10. \A h, p : Atomic!BlockOf(h, p) = Calls!BlockOf(h, p)
  BY DEF Atomic!BlockOf, Calls!BlockOf,
         Atomic!is_valid_block, Calls!is_valid_block,
         Atomic!find_zone_for_ptr, Calls!find_zone_for_ptr,
         Atomic!block_from_payload, Calls!block_from_payload,
         Atomic!NULL, Calls!NULL
<1>11. \A h, i, b : Atomic!ReleaseBlock(h, i, b) = Calls!ReleaseBlock(h, i, b)
  BY DEF Atomic!ReleaseBlock, Calls!ReleaseBlock,
         Atomic!free_large_zone, Calls!free_large_zone,
         Atomic!munmap, Calls!munmap, Atomic!RemoveAt, Calls!RemoveAt,
         Atomic!SetZone, Calls!SetZone,
         Atomic!convert_block_to_empty, Calls!convert_block_to_empty,
         Atomic!merge_empty_spaces, Calls!merge_empty_spaces,
         Atomic!Runs, Calls!Runs, Atomic!Joined, Calls!Joined,
         Atomic!MIN_SPLIT_SIZE, Calls!MIN_SPLIT_SIZE,
         Atomic!block_end, Calls!block_end,
         Atomic!update_empty_stats, Calls!update_empty_stats,
         Atomic!Max, Calls!Max, Atomic!PagesOf, Calls!PagesOf,
         Atomic!PageAddrs, Calls!PageAddrs, Atomic!IsMultiple, Calls!IsMultiple
<1>12. \A h, p : Atomic!Release(h, p) = Calls!Release(h, p)
  BY <1>10, <1>11
     DEF Atomic!Release, Calls!Release
<1>13. \A h, t, n : Atomic!find_zone(h, t, n) = Calls!find_zone(h, t, n)
  BY DEF Atomic!find_zone, Calls!find_zone,
         Atomic!create_large_zone, Calls!create_large_zone,
         Atomic!create_zone, Calls!create_zone,
         Atomic!FittingZone, Calls!FittingZone, Atomic!MapZone, Calls!MapZone,
         Atomic!NoZone, Calls!NoZone, Atomic!Wrap, Calls!Wrap,
         Atomic!zone_init, Calls!zone_init, Atomic!mmap, Calls!mmap,
         Atomic!PagesOf, Calls!PagesOf, Atomic!PageAddrs, Calls!PageAddrs,
         Atomic!IsMultiple, Calls!IsMultiple
<1>14. \A h, i, n : Atomic!allocate_block(h, i, n) = Calls!allocate_block(h, i, n)
  BY DEF Atomic!allocate_block, Calls!allocate_block,
         Atomic!allocate_from_empty, Calls!allocate_from_empty,
         Atomic!find_empty_space, Calls!find_empty_space,
         Atomic!block_payload, Calls!block_payload,
         Atomic!block_end, Calls!block_end,
         Atomic!update_empty_stats, Calls!update_empty_stats,
         Atomic!Max, Calls!Max, Atomic!NULL, Calls!NULL,
         Atomic!MIN_SPLIT_SIZE, Calls!MIN_SPLIT_SIZE
<1>15. \A h, n : Atomic!Allocate(h, n) = Calls!Allocate(h, n)
  BY <1>1, <1>2, <1>13, <1>14
     DEF Atomic!Allocate, Calls!Allocate, Atomic!NULL, Calls!NULL
<1>16. \A h, p, n : Atomic!Moved(h, p, n) = Calls!Moved(h, p, n)
  BY <1>12, <1>15
     DEF Atomic!Moved, Calls!Moved, Atomic!NULL, Calls!NULL
<1>17. \A n : Atomic!malloc(n) <=> Calls!malloc(n)
  BY <1>15
     DEF Atomic!malloc, Calls!malloc, Atomic!Commit, Calls!Commit,
         Atomic!heap, Calls!heap, Atomic!Given, Calls!Given,
         Atomic!NULL, Calls!NULL
<1>18. \A p : Atomic!free(p) <=> Calls!free(p)
  BY <1>12
     DEF Atomic!free, Calls!free, Atomic!Commit, Calls!Commit,
         Atomic!heap, Calls!heap, Atomic!Returned, Calls!Returned
<1>19. \A p, n, f : Atomic!ReallocInPlace(p, n, f) <=> Calls!ReallocInPlace(p, n, f)
  BY <1>2, <1>3, <1>4
     DEF Atomic!ReallocInPlace, Calls!ReallocInPlace,
         Atomic!Commit, Calls!Commit, Atomic!heap, Calls!heap,
         Atomic!Given, Calls!Given
<1>20. \A p, n, f : Atomic!ReallocExtend(p, n, f) <=> Calls!ReallocExtend(p, n, f)
  BY <1>2, <1>9
     DEF Atomic!ReallocExtend, Calls!ReallocExtend, Atomic!Commit, Calls!Commit,
         Atomic!heap, Calls!heap, Atomic!Given, Calls!Given,
         Atomic!Returned, Calls!Returned
<1>21. \A p, n, f : Atomic!ReallocMove(p, n, f) <=> Calls!ReallocMove(p, n, f)
  BY <1>2, <1>9, <1>16
     DEF Atomic!ReallocMove, Calls!ReallocMove, Atomic!Commit, Calls!Commit,
         Atomic!heap, Calls!heap, Atomic!Given, Calls!Given,
         Atomic!Returned, Calls!Returned, Atomic!NULL, Calls!NULL
<1>22. \A p, n : Atomic!realloc(p, n) <=> Calls!realloc(p, n)
  BY <1>10, <1>17, <1>18, <1>19, <1>20, <1>21
     DEF Atomic!realloc, Calls!realloc, Atomic!vars, Calls!vars,
         Atomic!heap, Calls!heap, Atomic!NULL, Calls!NULL
<1>23. Atomic!Next <=> Calls!Next
  BY <1>17, <1>18, <1>22
     DEF Atomic!Next, Calls!Next, Atomic!Ptrs, Calls!Ptrs
<1> QED
  BY <1>23 DEF Atomic!Init, Calls!Init, Atomic!vars, Calls!vars

(* What is proved of the calls is so of the threads, as far as settled and *)
(* owned show it.                                                          *)
LEMMA ThreadsMakeCalls == Spec => Calls!Spec
  BY Atomicity, SameCalls, PTL DEF CallsAreAtomic, Atomic!Spec, Calls!Spec

(* The assumptions of Allocator hold of the threads' constants.            *)
LEMMA CallsAssumptions ==
  Calls!SizesAssumption /\ Calls!HeapAssumption /\ Calls!AllocatorAssumption
  BY SizesAssumption, HeapAssumption, ThreadsAssumption
     DEF Calls!SizesAssumption, Calls!HeapAssumption,
         Calls!AllocatorAssumption, Calls!IsMultiple, IsMultiple

(* What several threads do together keeps the promises of malloc, free and *)
(* realloc: no two of the regions that they hold overlap, whichever thread *)
(* asked for them, and a call touches no region but its own.               *)
THEOREM ThreadsKeepContract == Spec => Contract!Spec
<1>1. Calls!Spec => Calls!KeepsContract
  BY CallsAssumptions, Calls!Refinement, PTL
<1>2. /\ Calls!Contract!Init <=> Contract!Init
      /\ [Calls!Contract!Next]_owned <=> [Contract!Next]_owned
  BY DEF Calls!Contract!Init, Contract!Init, Calls!Contract!Next, Contract!Next,
         Calls!Contract!Malloc, Contract!Malloc, Calls!Contract!Free, Contract!Free,
         Calls!Contract!ReallocInPlace, Contract!ReallocInPlace,
         Calls!Contract!ReallocMove, Contract!ReallocMove,
         Calls!Contract!Separate, Contract!Separate,
         Calls!Contract!Addresses, Contract!Addresses,
         Calls!Contract!With, Contract!With,
         Calls!Contract!Without, Contract!Without
<1> QED
  BY <1>1, <1>2, ThreadsMakeCalls, PTL
     DEF Calls!KeepsContract, Calls!Contract!Spec, Contract!Spec

(* Whenever no thread is in the middle of a call, and when one is about to *)
(* report, the heap is one that whole calls lead to: its zones are tiled   *)
(* and counted, callers hold exactly its blocks, the kernel has exactly    *)
(* its pages mapped, and the numbers in the reports agree.                 *)
THEOREM HeapSoundBetweenCalls ==
  Spec => [](/\ g_malloc_lock = NoThread => heap = settled
             /\ \A t \in Threads : At(t, "report") => heap = settled
             /\ Calls!ZonesTiled /\ Calls!CountersExact
             /\ Calls!OwnersMatchBlocks /\ Calls!ZonesMatchMappings
             /\ Calls!ReportsAddUp)
<1>1. Calls!Spec => [](/\ Calls!ZonesTiled /\ Calls!CountersExact
                       /\ Calls!OwnersMatchBlocks /\ Calls!ZonesMatchMappings
                       /\ Calls!ReportsAddUp)
  BY CallsAssumptions, Calls!AlwaysTiled, Calls!AlwaysCounted, Calls!OwnersAlwaysMatch,
     Calls!ZonesAlwaysMatchMappings, Calls!ReportsAlwaysAddUp, PTL
<1>2. ThreadInv => /\ g_malloc_lock = NoThread => heap = settled
                   /\ \A t \in Threads : At(t, "report") => heap = settled
  <2> SUFFICES ASSUME ThreadInv, NEW t \in Threads, call[t].pc = "report"
               PROVE  heap = settled
    BY DEF ThreadInv, At
  <2>1. Progress(call[t], settled, heap)
    BY Alone DEF Inside
  <2> QED
    BY <2>1 DEF Progress
<1> QED
  BY <1>1, <1>2, ThreadsMakeCalls, ThreadsKeepApart, PTL
=============================================================================

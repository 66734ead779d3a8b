------------------------------- MODULE Threads -------------------------------
(***************************************************************************)
(* The public calls taken apart: several threads, g_malloc_lock, and the   *)
(* steps of a call between the lock and the unlock.                        *)
(*                                                                         *)
(* A thread is at a place in the code of its call (pc) with its local      *)
(* variables.  settled is the heap when the lock was last free; it is not  *)
(* in the code, and maps this module to the atomic calls of Allocator.     *)
(***************************************************************************)
EXTENDS Heap

CONSTANTS
  Threads,        \* the threads of the program
  NoThread,       \* the holder of the lock when nobody has it
  RequestSizes,   \* the sizes callers ask for
  StrayPtrs,      \* pointers callers pass beside those they were given
  PrintfBuffer    \* the size stdio asks for when it first prints

ASSUME ThreadsAssumption ==
  /\ NoThread \notin Threads
  /\ RequestSizes \subseteq 0 .. SIZE_MAX
  /\ StrayPtrs \subseteq Nat
  /\ PrintfBuffer \in RequestSizes \ {0} /\ PrintfBuffer <= MAX_ALLOC_SIZE

VARIABLES
  g_zones,        \* the list of zones
  mapped,         \* the mapped pages
  owned,          \* the pointers callers hold
  g_malloc_lock,  \* the thread that holds the mutex, or NoThread
  call,           \* what each thread is doing
  stdout_ready,   \* stdio has its buffer for stdout
  settled         \* the heap when the lock was last free

vars == <<g_zones, mapped, owned, g_malloc_lock, call, stdout_ready, settled>>

heap == [zones |-> g_zones, mapped |-> mapped]
Commit(h) == g_zones' = h.zones /\ mapped' = h.mapped

Idle == [pc |-> "idle", op |-> "none", ptr |-> NULL, n |-> 0, size |-> 0,
         zone |-> NULL, block |-> NULL, ret |-> NULL]

At(t, pc) == call[t].pc = pc

(* The thread goes on at pc, with the local variables locals.              *)
Goto(t, pc, locals) == call' = [call EXCEPT ![t] = [locals EXCEPT !.pc = pc]]

(* The zone a pointer of type t_zone points to: its number in the list.    *)
ZoneAt(start) == {i \in DOMAIN g_zones : g_zones[i].start = start}
BlockAt(i, addr) == {b \in g_zones[i].blocks : b.addr = addr}

------------------------------------------------------------------------------
(* What runs before the lock is taken.                                     *)

Begin(t, op, ptr, n) ==
  /\ At(t, "idle")
  /\ call' = [call EXCEPT ![t] =
       [Idle EXCEPT !.pc = "lock", !.op = op, !.ptr = ptr,
                    !.n = n, !.size = align_size(n)]]
  /\ UNCHANGED <<g_zones, mapped, owned, g_malloc_lock, stdout_ready, settled>>

(* A refused size or a NULL pointer makes the call return at once; that    *)
(* changes nothing and needs no step here.                                 *)
CallMalloc(t, n) == /\ n # 0 /\ n <= MAX_ALLOC_SIZE
                    /\ Begin(t, "malloc", NULL, n)

(* Seeded fault: free does not take the lock. *)
CallFree_NoLock(t, ptr) ==
  /\ ptr # NULL /\ At(t, "idle")
  /\ call' = [call EXCEPT ![t] = [Idle EXCEPT !.pc = "look_up", !.op = "free",
                                             !.ptr = ptr]]
  /\ UNCHANGED <<g_zones, mapped, owned, g_malloc_lock, stdout_ready, settled>>

CallFree(t, ptr) == ptr # NULL /\ Begin(t, "free", ptr, 0)

(* realloc(NULL, n) is malloc(n), realloc(ptr, 0) is free(ptr).            *)
CallRealloc(t, ptr, n) ==
  ptr # NULL /\ n # 0 /\ Begin(t, "realloc", ptr, n)

(* show_alloc_mem and show_alloc_mem_ex read g_zones before they lock.     *)
CallShow(t) == g_zones # <<>> /\ Begin(t, "show", NULL, 0)

(* The program prints something itself: the first time, stdio mallocs.     *)
CallPrintf(t) == ~stdout_ready /\ Begin(t, "printf", NULL, PrintfBuffer)

Lock(t) ==
  /\ At(t, "lock") /\ g_malloc_lock = NoThread
  /\ g_malloc_lock' = t
  /\ Goto(t, CASE call[t].op \in {"malloc", "printf"} -> "find_zone"
               [] call[t].op \in {"free", "realloc"}  -> "look_up"
               [] call[t].op = "show"                 -> "report", call[t])
  /\ UNCHANGED <<g_zones, mapped, owned, stdout_ready, settled>>

------------------------------------------------------------------------------
(* With the lock held: malloc, and realloc_malloc in realloc.              *)

FindZone(t) ==
  /\ At(t, "find_zone")
  /\ \E found \in find_zone(heap, get_zone_type(call[t].size), call[t].size) :
       /\ Commit(found.heap)
       /\ IF found.at = 0
          THEN Goto(t, "unlock", call[t])
          ELSE Goto(t, "allocate",
                    [call[t] EXCEPT !.zone = found.heap.zones[found.at].start])
  /\ UNCHANGED <<owned, g_malloc_lock, stdout_ready, settled>>

AllocateBlock(t) ==
  /\ At(t, "allocate")
  /\ \E i \in ZoneAt(call[t].zone) :
       \E result \in allocate_block(heap, i, call[t].size) :
         /\ Commit(result.heap)
         /\ Goto(t, IF result.ptr # NULL /\ call[t].op = "realloc"
                    THEN "look_up_old" ELSE "unlock",
                 [call[t] EXCEPT !.ret = result.ptr])
  /\ UNCHANGED <<owned, g_malloc_lock, stdout_ready, settled>>

------------------------------------------------------------------------------
(* free, and realloc_free in realloc.                                      *)

(* Seeded fault: the return for an unknown pointer forgets to unlock. *)
LookUp_NoUnlock(t) ==
  /\ At(t, "look_up")
  /\ IF BlockOf(heap, call[t].ptr) = {}
     THEN call' = [call EXCEPT ![t] = Idle]
     ELSE \E f \in BlockOf(heap, call[t].ptr) :
            Goto(t, IF call[t].op = "free" THEN "release" ELSE "resize",
                 [call[t] EXCEPT !.zone = g_zones[f.at].start, !.block = f.block.addr])
  /\ UNCHANGED <<g_zones, mapped, owned, g_malloc_lock, stdout_ready, settled>>

(* find_zone_for_ptr and is_valid_block on the pointer of the call.        *)
LookUp(t) ==
  /\ At(t, "look_up")
  /\ IF BlockOf(heap, call[t].ptr) = {}
     THEN Goto(t, "unlock", call[t])
     ELSE \E f \in BlockOf(heap, call[t].ptr) :
            Goto(t, IF call[t].op = "free" THEN "release" ELSE "resize",
                 [call[t] EXCEPT !.zone = g_zones[f.at].start, !.block = f.block.addr])
  /\ UNCHANGED <<g_zones, mapped, owned, g_malloc_lock, stdout_ready, settled>>

(* realloc_free looks the old block up again, after the copy.              *)
LookUpOld(t) ==
  /\ At(t, "look_up_old")
  /\ IF BlockOf(heap, call[t].ptr) = {}
     THEN Goto(t, "unlock", call[t])
     ELSE \E f \in BlockOf(heap, call[t].ptr) :
            Goto(t, "release",
                 [call[t] EXCEPT !.zone = g_zones[f.at].start, !.block = f.block.addr])
  /\ UNCHANGED <<g_zones, mapped, owned, g_malloc_lock, stdout_ready, settled>>

(* A block of a TINY or SMALL zone becomes an empty space.                 *)
ConvertBlock(t) ==
  /\ At(t, "release")
  /\ \E i \in ZoneAt(call[t].zone) : \E b \in BlockAt(i, call[t].block) :
       /\ g_zones[i].type # "LARGE"
       /\ Commit(SetZone(heap, i, convert_block_to_empty(g_zones[i], b)))
  /\ Goto(t, "unlock", call[t])
  /\ UNCHANGED <<owned, g_malloc_lock, stdout_ready, settled>>

(* Seeded fault: the zone is unmapped before it is taken off the list. *)
UnlinkZone_UnmapFirst(t) ==
  /\ At(t, "release")
  /\ \E i \in ZoneAt(call[t].zone) :
       /\ g_zones[i].type = "LARGE"
       /\ Commit(munmap(heap, g_zones[i].start,
                        g_zones[i].total_space + ZONE_HEADER_SIZE))
  /\ Goto(t, "unlock", call[t])
  /\ UNCHANGED <<owned, g_malloc_lock, stdout_ready, settled>>

(* A LARGE zone is taken off the list first ...                            *)
UnlinkZone(t) ==
  /\ At(t, "release")
  /\ \E i \in ZoneAt(call[t].zone) :
       /\ g_zones[i].type = "LARGE"
       /\ g_zones' = RemoveAt(g_zones, i)
       /\ Goto(t, "munmap",
               [call[t] EXCEPT !.size = g_zones[i].total_space + ZONE_HEADER_SIZE])
  /\ UNCHANGED <<mapped, owned, g_malloc_lock, stdout_ready, settled>>

(* ... and unmapped then; size is the length munmap is given.              *)
UnmapZone(t) ==
  /\ At(t, "munmap")
  /\ Commit(munmap(heap, call[t].zone, call[t].size))
  /\ Goto(t, "unlock", call[t])
  /\ UNCHANGED <<owned, g_malloc_lock, stdout_ready, settled>>

------------------------------------------------------------------------------
(* realloc.                                                                *)

(* The block stays or grows in its zone.                                   *)
Resize(t) ==
  /\ At(t, "resize")
  /\ \E i \in ZoneAt(call[t].zone) : \E b \in BlockAt(i, call[t].block) :
       \/ /\ b.data_size >= call[t].size
          /\ Commit(SetZone(heap, i, split_block(g_zones[i], b, call[t].size)))
          /\ Goto(t, "unlock", [call[t] EXCEPT !.ret = call[t].ptr])
       \/ /\ b.data_size < call[t].size
          /\ \E result \in Extended(heap, i, b, call[t].size) :
               /\ Commit(result.heap)
               /\ Goto(t, "unlock", [call[t] EXCEPT !.ret = result.ptr])
  /\ UNCHANGED <<owned, g_malloc_lock, stdout_ready, settled>>

(* Neither: realloc_malloc begins, which may refuse the size.              *)
ResizeByMoving(t) ==
  /\ At(t, "resize")
  /\ \E i \in ZoneAt(call[t].zone) : \E b \in BlockAt(i, call[t].block) :
       /\ b.data_size < call[t].size
       /\ Extended(heap, i, b, call[t].size) = {}
  /\ IF call[t].size > MAX_ALLOC_SIZE
     THEN Goto(t, "unlock", call[t])
     ELSE Goto(t, "find_zone", [call[t] EXCEPT !.size = align_size(call[t].size)])
  /\ UNCHANGED <<g_zones, mapped, owned, g_malloc_lock, stdout_ready, settled>>

------------------------------------------------------------------------------
(* The reports print with the lock held.  Without a buffer for stdout,     *)
(* printf calls malloc, which waits for the lock that is held already.     *)
Report(t) ==
  /\ At(t, "report")
  /\ IF stdout_ready
     THEN Goto(t, "unlock", call[t])
     ELSE Goto(t, "lock", [call[t] EXCEPT !.op = "printf", !.n = PrintfBuffer,
                                          !.size = align_size(PrintfBuffer)])
  /\ UNCHANGED <<g_zones, mapped, owned, g_malloc_lock, stdout_ready, settled>>

(* The call ends: only now do callers learn of the outcome.                *)
Unlock(t) ==
  LET c == call[t] IN
  /\ At(t, "unlock")
  /\ g_malloc_lock' = NoThread
  /\ settled' = heap
  /\ owned' = CASE c.op = "free" -> Returned(owned, c.ptr)
                [] c.op # "free" /\ c.ret = NULL -> owned
                [] OTHER -> Given(Returned(owned, c.ptr), c.ret, c.n)
  /\ stdout_ready' = (stdout_ready \/ c.op = "printf")
  /\ call' = [call EXCEPT ![t] = Idle]
  /\ UNCHANGED <<g_zones, mapped>>

------------------------------------------------------------------------------
Init == /\ g_zones = <<>> /\ mapped = {}
        /\ owned = [p \in {} |-> 0]
        /\ g_malloc_lock = NoThread
        /\ call = [t \in Threads |-> Idle]
        /\ stdout_ready \in BOOLEAN  \* the program may have printed before
        /\ settled = EmptyHeap

Ptrs == DOMAIN owned \cup StrayPtrs

Call(t) == \/ \E n \in RequestSizes : CallMalloc(t, n)
           \/ \E ptr \in Ptrs : CallFree(t, ptr)
           \/ \E ptr \in Ptrs, n \in RequestSizes : CallRealloc(t, ptr, n)
           \/ CallShow(t)
           \/ CallPrintf(t)

(* What a thread does once it is in a call.                                *)
Step(t) == \/ Lock(t)
           \/ FindZone(t) \/ AllocateBlock(t)
           \/ LookUp(t) \/ LookUpOld(t)
           \/ ConvertBlock(t) \/ UnlinkZone(t) \/ UnmapZone(t)
           \/ Resize(t) \/ ResizeByMoving(t)
           \/ Report(t)
           \/ Unlock(t)

Next == \E t \in Threads : Call(t) \/ Step(t)

(* A thread in a call keeps running.  Nothing is assumed of who gets the   *)
(* mutex next, so a thread may wait for it for ever.                       *)
Fairness == \A t \in Threads : WF_vars(Step(t))

Spec == Init /\ [][Next]_vars /\ Fairness

------------------------------------------------------------------------------
(* A zone on the list is mapped at every point of every call, so that a    *)
(* walk along the list never reads memory that was given back.             *)
ListedZonesAreMapped ==
  \A i \in DOMAIN g_zones :
    PagesOf(g_zones[i].start, g_zones[i].end - g_zones[i].start) \subseteq mapped

(* Seen from outside the calls are atomic: what the threads do together is *)
(* what some order of whole calls does.                                    *)
Atomic == INSTANCE Allocator WITH g_zones <- settled.zones,
                                  mapped  <- settled.mapped
CallsAreAtomic == Atomic!Spec

(* A report that prints first waits for the mutex it holds.                *)
WaitsForItself(t) == At(t, "lock") /\ g_malloc_lock = t

(* Whoever has the mutex gives it back, or waits for itself in printf:     *)
(* there is no other way to stop the other threads.                        *)
LockIsReleased ==
  \A t \in Threads :
    g_malloc_lock = t ~> g_malloc_lock # t \/ WaitsForItself(t)
=============================================================================

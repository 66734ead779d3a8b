-------------------------------- MODULE Limits ---------------------------------
(***************************************************************************)
(* get_max_alloc_size and get_pagesize of malloc.h: what they ask the      *)
(* kernel for once they keep in a static variable.  They are inline in a   *)
(* header, so each file that calls one of them has a variable of its own,  *)
(* and malloc calls the first before it takes the lock: threads read and   *)
(* write the variable as they come.                                        *)
(***************************************************************************)
EXTENDS Integers, FiniteSets

CONSTANTS
  Threads,      \* the threads of the program
  LimitCaches,  \* the files that call get_max_alloc_size
  PageCaches,   \* the files that call get_pagesize
  RLimits,      \* the values RLIMIT_AS is given
  SIZE_MAX,     \* the largest size_t
  PAGESIZE      \* what sysconf returns

ASSUME LimitsAssumption ==
  /\ LimitCaches \cap PageCaches = {}
  /\ SIZE_MAX \in Nat \ {0}
  /\ RLimits \subseteq 0 .. SIZE_MAX
  /\ PAGESIZE \in 1 .. SIZE_MAX

Caches == LimitCaches \cup PageCaches

VARIABLES
  rlim_cur,   \* the limit of the process
  cached,     \* max_size and pagesize: the statics, 0 when nothing is kept
  call,       \* what each thread is doing: its place, the cache, its local value
  answers,    \* what the functions have returned, for each cache
  had,        \* the limits the process has had
  failed      \* whether getrlimit has failed

cache_vars == <<rlim_cur, cached, call, answers, had, failed>>

Idle == [pc |-> "idle", cache |-> "none", value |-> 0]
At(t, pc) == call[t].pc = pc
Goto(t, pc, value) == call' = [call EXCEPT ![t].pc = pc, ![t].value = value]

Begin(t) ==
  /\ At(t, "idle")
  /\ \E c \in Caches : call' = [call EXCEPT ![t] = [pc |-> "test", cache |-> c, value |-> 0]]
  /\ UNCHANGED <<rlim_cur, cached, answers, had, failed>>

(* Seeded fault: what is kept is not looked at. *)
Test_Always(t) ==
  /\ At(t, "test")
  /\ Goto(t, "ask", 0)
  /\ UNCHANGED <<rlim_cur, cached, answers, had, failed>>

(* if (max_size) *)
Test(t) ==
  /\ At(t, "test")
  /\ IF cached[call[t].cache] # 0
     THEN Goto(t, "return", cached[call[t].cache])
     ELSE Goto(t, "ask", 0)
  /\ UNCHANGED <<rlim_cur, cached, answers, had, failed>>

(* Seeded fault: the value for a failure is kept before the kernel is asked. *)
Ask_Presume(t) ==
  /\ At(t, "ask")
  /\ \/ call[t].cache \in PageCaches /\ Goto(t, "save", PAGESIZE)
     \/ call[t].cache \in LimitCaches /\ Goto(t, "save", rlim_cur)
  /\ cached' = [cached EXCEPT ![call[t].cache] = SIZE_MAX]
  /\ UNCHANGED <<rlim_cur, answers, had, failed>>

(* getrlimit, which may fail, or sysconf. *)
Ask(t) ==
  /\ At(t, "ask")
  /\ \/ call[t].cache \in PageCaches /\ Goto(t, "save", PAGESIZE) /\ UNCHANGED failed
     \/ call[t].cache \in LimitCaches /\ Goto(t, "save", rlim_cur) /\ UNCHANGED failed
     \/ call[t].cache \in LimitCaches /\ Goto(t, "save", SIZE_MAX) /\ failed' = TRUE
  /\ UNCHANGED <<rlim_cur, cached, answers, had>>

Save(t) ==
  /\ At(t, "save")
  /\ cached' = [cached EXCEPT ![call[t].cache] = call[t].value]
  /\ Goto(t, "return", call[t].value)
  /\ UNCHANGED <<rlim_cur, answers, had, failed>>

(* The compiler may return the value it has at hand, or read the variable  *)
(* again: an unsynchronised access of a word.                              *)
Answer(t) ==
  /\ At(t, "return")
  /\ \E value \in {call[t].value, cached[call[t].cache]} :
       answers' = [answers EXCEPT ![call[t].cache] = @ \cup {value}]
  /\ call' = [call EXCEPT ![t] = Idle]
  /\ UNCHANGED <<rlim_cur, cached, had, failed>>

(* The program calls setrlimit. *)
SetLimit ==
  /\ \E limit \in RLimits : rlim_cur' = limit /\ had' = had \cup {limit}
  /\ UNCHANGED <<cached, call, answers, failed>>

CachesInit ==
  /\ rlim_cur \in RLimits /\ had = {rlim_cur}
  /\ cached = [c \in Caches |-> 0]
  /\ call = [t \in Threads |-> Idle]
  /\ answers = [c \in Caches |-> {}]
  /\ failed = FALSE

CachesNext ==
  \/ \E t \in Threads : Begin(t) \/ Test(t) \/ Ask(t) \/ Save(t) \/ Answer(t)
  \/ SetLimit

CachesSpec == CachesInit /\ [][CachesNext]_cache_vars

------------------------------------------------------------------------------
(* Properties.                                                             *)

(* Whatever the threads do between the test and the store, a function      *)
(* returns only what the kernel has said: the page size, a limit the       *)
(* process has had, or no limit when it could not be asked.  The zero of   *)
(* an empty cache never gets out.                                          *)
AnswersAreReal ==
  /\ \A c \in PageCaches : answers[c] \subseteq {PAGESIZE}
  /\ \A c \in LimitCaches :
       answers[c] \subseteq had \cup (IF failed THEN {SIZE_MAX} ELSE {})

(* Threads on their way to fill a cache.                                   *)
Filling(c) == {t \in Threads : call[t].cache = c /\ call[t].pc \in {"ask", "save"}}

(* Once a cache is filled and no thread is still about to fill it, no      *)
(* thread asks the kernel again, and what is kept is kept for good: from   *)
(* then on setrlimit changes nothing.                                      *)
CachesSettle ==
  [][\A c \in Caches :
       cached[c] # 0 /\ Filling(c) = {} =>
         cached'[c] = cached[c] /\ Filling(c)' = {}]_cache_vars
=============================================================================

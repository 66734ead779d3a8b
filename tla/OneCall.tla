-------------------------------- MODULE OneCall --------------------------------
(***************************************************************************)
(* A machine that makes one call of one function, with any arguments and   *)
(* on anything of its kind that it may work on: the caller's memory, a     *)
(* file that is written to, an array, or nothing.                          *)
(***************************************************************************)

VARIABLES
  before,  \* what the function works on, before the call
  after,   \* the same after it
  call,    \* a record: fn, the function called, and its arguments
  ret      \* what it returned

vars == <<before, after, call, ret>>

(* No function was called yet; it will be one that works on this kind.     *)
NoCall(kind) == [fn |-> "none", on |-> kind]

Ready(kind, things) ==
  /\ before \in things /\ after = before
  /\ call = NoCall(kind)
  /\ ret = 0

Called(c, result, value) ==
  /\ call' = c /\ after' = result /\ ret' = value
  /\ UNCHANGED before
=============================================================================

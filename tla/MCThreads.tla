------------------------------ MODULE MCThreads ------------------------------
(***************************************************************************)
(* Threads on small instances.                                             *)
(***************************************************************************)
EXTENDS Threads

(* malloc.h:161, "Prints a visualization of the state of the allocated     *)
(* memory zones": a report prints, and never waits for a mutex that its    *)
(* own thread holds.                                                       *)
NeverWaitsForItself == \A t \in Threads : ~WaitsForItself(t)
=============================================================================

-------------------------------- MODULE Caller ---------------------------------
(***************************************************************************)
(* A program that makes calls, one after the other, of functions that work *)
(* on its objects; a call that allocates in a loop takes several steps.    *)
(***************************************************************************)
EXTENDS Objects

CONSTANT MaxObjects  \* no call that makes something begins with more live ones

ASSUME CallerAssumption == MaxObjects \in Nat

VARIABLES
  heap,
  call   \* the call being made, with its locals

Idle == [op |-> "idle"]
Room == call = Idle /\ Cardinality(DOMAIN heap) <= MaxObjects
=============================================================================

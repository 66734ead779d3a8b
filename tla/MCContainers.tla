----------------------------- MODULE MCContainers ------------------------------
(* Containers with texts that begin, end and are filled with separators.   *)
EXTENDS Containers

SomeTexts ==
  {<<>>, <<"-">>, <<"a">>, <<"-", "a", "b", "-", "-", "a">>, <<"a", "-", "b", "-">>}
=============================================================================

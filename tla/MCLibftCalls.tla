----------------------------- MODULE MCLibftCalls ------------------------------
(***************************************************************************)
(* LibftCalls on small things.  Formats have every conversion, a character *)
(* that is none and a plain one; numbers have signs and several digits,    *)
(* the least int among them.                                               *)
(***************************************************************************)
EXTENDS LibftCalls

MCPieces ==
  {<<65>>} \cup {<<37, c>> : c \in {99, 115, 112, 100, 105, 117, 120, 88, 37, 113}}

Arg(n, s) == [int |-> n, str |-> s]
MCArguments == {<<Arg(-12, <<104, 105>>), Arg(0, NoText), Arg(127, <<>>)>>,
                <<Arg(7, NoText), Arg(-128, <<97>>), Arg(100, <<98, 99>>)>>}

MCBases == {lower, <<48, 49>>, <<97, 98, 99>>, <<>>, <<97>>, <<97, 98, 97>>,
            <<97, 98, 98>>, <<48, 43>>, <<45, 48, 49>>}
=============================================================================

----------------------------- MODULE MCLineReader ------------------------------
(* LineReader with files of up to three lines and four characters.         *)
EXTENDS LineReader

SomeTexts ==
  {<<>>, <<NL, NL>>, <<"a", NL, "b">>, <<"a", "b", "c", NL>>}
=============================================================================

---------------------------- MODULE MCFileTree ----------------------------
(* Instances of FileTree for TLC.                                          *)
EXTENDS FileTree

MCName == {"a", "b"}

\* /, /a, b, /a/b and a/b.
MCPath ==
  {[abs |-> TRUE, names |-> x] : x \in {<<>>, <<"a">>, <<"a", "b">>}}
  \cup {[abs |-> FALSE, names |-> x] : x \in {<<"b">>, <<"a", "b">>}}
=============================================================================

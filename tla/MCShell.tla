------------------------------- MODULE MCShell -----------------------------
(* An instance of Shell for TLC.                                           *)
EXTENDS Shell

MCFiles == [f \in {"f"} |-> <<"x">>]

MCMaker == [true |-> 0, gen |-> 2]

\* Files are read or written, not both: cat < f >> f has no end.
MCLine == {
  <<>>, <<"exit">>, <<"cd", "d">>, <<"nosuch">>,
  <<"gen">>, <<"cat", "<", "f">>, <<"cat", "<", "g">>, <<"gen", "<", ">">>,
  <<"gen", ">", "g", ">>", "h">>, <<"true", ">", "g">>,
  <<"gen", "|", "cat">>, <<"gen", "|", "true">>, <<"cat", "|", "nosuch">>,
  <<"true", "|", "cat", ">", "g">>, <<"cat", "<", "f", "|", "cat", ">>", "g">>,
  <<"gen", "|", "cat", "|", "cat", "|">>, <<"gen", "|">>}
=============================================================================

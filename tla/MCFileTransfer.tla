--------------------------- MODULE MCFileTransfer ---------------------------
EXTENDS FileTransfer

CONSTANTS k1, k2

TwoAndOne == [k \in {k1, k2} |-> IF k = k1 THEN 2 ELSE 1]

(* f ends with a short chunk, h is a whole buffer. *)
Mine == [f |-> 3, h |-> 2]
Theirs == [top |-> [f |-> 3], sub |-> [h |-> 2], e |-> <<>>]

(* The first user moves files; the second changes what the server has.     *)
Typed == [k \in {k1, k2} |->
  IF k = k1 THEN {<<"get", "f">>, <<"put", "f">>, <<"put", "h">>, <<"put", "d">>,
                   <<"ls", "sub">>}
  ELSE {<<"get", "sub">>, <<"get", "d">>, <<"cd", "sub">>, <<"rm", "f">>, <<"ls", "">>,
        <<"pwd", "">>, <<"mkdir", "a">>, <<"rmdir", "e">>}]

(* What the files may say, and what is a directory. *)
Spelt == {<<"rm", "f">>}
Dirs == {"d"}

OnlyPuts == [k \in {k1, k2} |-> {<<"put", "f">>, <<"put", "h">>}]

Junk == {0, 3}
NoJunk == {0}

=============================================================================

------------------------------- MODULE MCRcp ------------------------------
(* Instances of Rcp for TLC.                                               *)
EXTENDS Rcp

MCName == {"a", "b", "c"}

\* A file into a file, a directory or a link; a directory into a new or an old one,
\* and into itself; and paths of two names.
MCArgs == {<<<<"a">>, <<"b">>>>, <<<<"a">>, <<"c">>>>, <<<<"a">>, <<"a">>>>,
           <<<<"a">>, <<"a", "b">>>>, <<<<"a">>, <<"a", "a">>>>, <<<<"a", "b">>, <<"b">>>>,
           <<<<"a">>, <<"b", "b">>>>, <<<<"a", "b">>, <<"b", "a">>>>}

\* The trees: 2 and 3 are the entries a and b of the working directory, 4 and 5
\* those of a, 6 and 7 those of b, and 8 and 9 are a/a/b and a/a/a.  File i contains i.
Entries(f) == [x \in Name |-> IF x \in DOMAIN f THEN f[x] ELSE NULL]

Dir(up, f) == [NewDir(up) EXCEPT !.kids = Entries(f)]

File(i) == NewFile(i)

LinkTo(d, x) == [Free EXCEPT !.type = "L", !.dir = d, !.name = x]

Leaf(i) == {Free, File(i), LinkTo(root, "b"), LinkTo(root, "c"), LinkTo(3, "a")}

\* An entry that is not there.
At(nodes, i) == IF nodes[i].type = "-" THEN NULL ELSE i

SlotsA == {2, 4, 5, 8, 9}

SlotsB == {3, 6, 7}

\* What is at a and below: a leaf, or a directory.
InA ==
  {[i \in SlotsA |-> IF i = 2 THEN n ELSE Free] : n \in Leaf(2)}
  \cup {[i \in SlotsA |->
           CASE i = 2 -> Dir(root, [a |-> IF x = Free THEN NULL ELSE 4,
                                    b |-> IF y = Free THEN NULL ELSE 5])
             [] i = 4 -> x
             [] i = 5 -> y
             [] i = 8 -> IF x.kids["b"] = 8 THEN File(8) ELSE Free
             [] i = 9 -> IF x.kids["a"] = 9 THEN Dir(4, <<>>) ELSE Free]
        : x \in Leaf(4) \cup {Dir(2, <<>>), Dir(2, [b |-> 8]), Dir(2, [a |-> 9, b |-> 8])},
          y \in Leaf(5) \cup {Dir(2, <<>>)}}

InB ==
  {[i \in SlotsB |-> IF i = 3 THEN n ELSE Free] : n \in Leaf(3) \cup {LinkTo(2, "a")}}
  \cup {[i \in SlotsB |->
           CASE i = 3 -> Dir(root, [a |-> IF x = Free THEN NULL ELSE 6,
                                    b |-> IF y = Free THEN NULL ELSE 7])
             [] i = 6 -> x
             [] i = 7 -> y]
        : x \in Leaf(6) \cup {Dir(3, <<>>), LinkTo(2, "a")},
          y \in Leaf(7) \cup {Dir(3, <<>>)}}

\* b may be a second name of a.
Whole(u, v, second) ==
  [i \in Inode |->
     CASE i = root -> Dir(NULL, [a |-> At(u, 2), b |-> IF second THEN 2 ELSE At(v, 3)])
       [] i \in DOMAIN u -> u[i]
       [] i \in DOMAIN v -> IF second THEN Free ELSE v[i]
       [] OTHER -> Free]

\* No link leads to a link.
Fair(g) == \A i \in Inode : g[i].type = "L" => ~Is(g, Follow(g, i), "L")

MCTree == {g \in {Whole(u, v, FALSE) : u \in InA, v \in InB}
                 \cup {Whole([i \in SlotsA |-> IF i = 2 THEN File(2) ELSE Free],
                             [i \in SlotsB |-> Free], TRUE)} : Fair(g)}
=============================================================================

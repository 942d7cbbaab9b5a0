--------------------------- MODULE MCMinodeTable ---------------------------
EXTENDS MinodeTable, TLC

(* The values of inodes are interchangeable, and so are the inodes but the *)
(* root: slots are what iget and mialloc order.                            *)
Symmetry == Permutations(Vals) \cup Permutations(Inos \ {Root})

=============================================================================

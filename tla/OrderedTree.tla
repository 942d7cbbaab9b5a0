---------------------------- MODULE OrderedTree ----------------------------
(***************************************************************************)
(* What the pointers of the file tree simulator (lab2) amount to: every    *)
(* node of the tree has its entries in order, a new entry comes last, and  *)
(* the removal of an entry takes with it every entry behind it and all     *)
(* that is below them.  A file is a node without entries.                  *)
(***************************************************************************)
EXTENDS Naturals, Sequences, SequencesExt

CONSTANTS Node, Root

VARIABLE kids  \* the entries of each node that is in the tree

Init == kids = [d \in {Root} |-> <<>>]

\* The nodes at most n levels below the root of the tree k.
Levels(k) ==
  LET level[n \in Nat] ==
        IF n = 0 THEN {Root}
                 ELSE LET above == level[n - 1]
                      IN  above \cup UNION {ToSet(k[d]) : d \in above}
  IN  level

InTree(k) == Levels(k)[Cardinality(DOMAIN k)]

\* n becomes the last entry of d.
Insert(k, d, n) ==
  [x \in DOMAIN k \cup {n} |-> CASE x = n -> <<>>
                               [] x = d -> Append(k[d], n)
                               [] OTHER -> k[x]]

\* The i-th entry of d goes, and those behind it.
CutAt(k, d, i) ==
  LET cut == [k EXCEPT ![d] = SubSeq(@, 1, i - 1)]
  IN  [x \in InTree(cut) |-> cut[x]]

\* An entry that is cut off has no entries itself.
Next ==
  /\ kids' # kids
  /\ \E d \in DOMAIN kids :
       \/ \E n \in Node \ DOMAIN kids : kids' = Insert(kids, d, n)
       \/ \E i \in 1..Len(kids[d]) : /\ kids[kids[d][i]] = <<>>
                                    /\ kids' = CutAt(kids, d, i)

Spec == Init /\ [][Next]_kids
=============================================================================

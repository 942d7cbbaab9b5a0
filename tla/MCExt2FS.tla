------------------------------ MODULE MCExt2FS ------------------------------
EXTENDS Ext2FS

(* Paths for the commands of the runs. *)
Rel(n) == [abs |-> FALSE, names |-> <<n>>]
Abs(n) == [abs |-> TRUE, names |-> <<n>>]
In(d, n) == [abs |-> FALSE, names |-> <<d, n>>]

None == {}

GrowMkdir == {Rel("a"), Rel("b"), In("a", "b")}
GrowCreat == {Rel("b"), Abs("c"), In("a", "c")}
GrowCd == {Rel("a"), Rel(".."), Slash}
GrowLook == {NoPath, In("a", "b")}
GrowLink == {<<Rel("b"), Rel("c")>>, <<Rel("b"), In("a", "b")>>}

TrimMkdir == {Rel("a"), Rel("b"), In("a", "b")}
TrimCreat == {Abs("c")}
TrimRmdir == {Abs("a"), Rel("b"), In("a", "b")}
TrimUnlink == {Rel("c"), In("a", "c")}
TrimCd == {Rel("a"), Rel("..")}
TrimLink == {<<Rel("c"), In("a", "c")>>}

JustA == {Rel("a")}
AAndB == {Rel("a"), Rel("b")}
FileInA == {In("a", "c")}

=============================================================================

------------------------------ MODULE DirBlock ------------------------------
(***************************************************************************)
(* One data block of a directory, as project/ reads and writes it.         *)
(*                                                                         *)
(* A block is BLKWORDS words of four bytes, the granularity of ext2's      *)
(* records; offsets are in words.  A cell is what a DIR pointer to that    *)
(* offset shows: a record header, zeros (a block nobody wrote), or, inside *)
(* a record, the bytes of its name, which a walk should never meet (Wild). *)
(* A record takes two words and its name, so ideal_len is 2 + name_len     *)
(* with name_len in words.  Every name here fits in one word (four bytes); *)
(* names themselves are opaque.                                            *)
(***************************************************************************)
EXTENDS Integers, Sequences

CONSTANT BLKWORDS   \* words of a block (256)

ASSUME BlockAssumption == BLKWORDS \in Nat /\ BLKWORDS >= 6

Words == 0..BLKWORDS-1

NoName == "(none)"
Cell(ino, rec, len, name) == [ino |-> ino, rec |-> rec, len |-> len, name |-> name]
Zero == Cell(0, 0, 0, NoName)
Wild == Cell(0, -1, 0, NoName)

ZeroBlock == [o \in Words |-> Zero]

NameLen == 1
IdealLen(len) == 2 + len
NeedLength == IdealLen(NameLen)

(* Writing a record at an offset: the header, and name bytes behind it.    *)
WriteRecord(b, o, c) ==
  [w \in Words |-> IF w = o THEN c
                   ELSE IF w \in o+1..o+IdealLen(c.len)-1 THEN Wild
                   ELSE b[w]]

(* The loop "while (cp < buf + BLKSIZE) { ...; cp += dp->rec_len; }" that  *)
(* search, print, isEmptyDir, rm_child and enter_name share: the offsets   *)
(* it visits, and how it ends: at the end of the block, "hang" on a       *)
(* record whose rec_len is 0 (visited again and again), or "wild".         *)
Walk(b) ==
  LET from[o \in Nat] ==
        IF o >= BLKWORDS THEN [offs |-> <<>>, end |-> "end"]
        ELSE IF b[o] = Wild THEN [offs |-> <<>>, end |-> "wild"]
        ELSE IF b[o].rec = 0 THEN [offs |-> <<o>>, end |-> "hang"]
        ELSE LET rest == from[o + b[o].rec]
             IN  [offs |-> <<o>> \o rest.offs, end |-> rest.end]
  IN  from[0]

Visited(b) == LET w == Walk(b) IN {w.offs[k] : k \in 1..Len(w.offs)}

(* The records that a walk visits. *)
Records(b) == {b[o] : o \in {p \in Visited(b) : b[p] # Zero}}

(* The first visited offset whose name matches, or -1. *)
NotFound == -1
Match(b, name) ==
  LET w == Walk(b)
      hits == {k \in 1..Len(w.offs) : b[w.offs[k]].name = name}
  IN  IF hits = {} THEN NotFound
      ELSE w.offs[CHOOSE k \in hits : \A l \in hits : k <= l]

LastOffset(b) == LET w == Walk(b) IN w.offs[Len(w.offs)]

-----------------------------------------------------------------------------
(* Mutant: ".." names the new directory itself. *)
DotBlockSelf(b, ino, pino) ==
  WriteRecord(WriteRecord(b, 0, Cell(ino, 3, NameLen, ".")),
              3, Cell(ino, BLKWORDS - 3, NameLen, ".."))

(* mymkdir: "." and ".." at the front of whatever the block holds.         *)
DotBlock(b, ino, pino) ==
  WriteRecord(WriteRecord(b, 0, Cell(ino, 3, NameLen, ".")),
              3, Cell(pino, BLKWORDS - 3, NameLen, ".."))

(* enter_name: is there room behind the last record, and the two outcomes. *)
Remaining(b) == LET l == LastOffset(b) IN b[l].rec - IdealLen(b[l].len)
HasRoom(b) == Remaining(b) > NeedLength

(* Mutant: the new record goes where the last one is. *)
Append1InPlace(b, ino, name) ==
  WriteRecord(b, LastOffset(b), Cell(ino, Remaining(b), NameLen, name))

Append1(b, ino, name) ==
  LET l == LastOffset(b)
      ideal == IdealLen(b[l].len)
  IN  WriteRecord([b EXCEPT ![l].rec = ideal], l + ideal,
                  Cell(ino, Remaining(b), NameLen, name))

(* The record that goes into a new block claims need_length as name_len.   *)
OverflowBlock(fresh, ino, name) ==
  WriteRecord(fresh, 0, Cell(ino, BLKWORDS, NeedLength, name))

(* rm_child, last record: the record before it, at prev, swallows it.      *)
IsLastRecord(b, o) == o + b[o].rec = BLKWORDS
Swallow(b, prev, o) == [b EXCEPT ![prev].rec = @ + b[o].rec]

(* rm_child, any other record: the bytes behind it move to its place, and  *)
(* the tail of the block stays what it was.                                *)
CloseGap(b, o) ==
  LET rec == b[o].rec
  IN  [w \in Words |-> IF w < o \/ w + rec >= BLKWORDS THEN b[w] ELSE b[w + rec]]

=============================================================================

---------------------------- MODULE Ext2FSProofs ----------------------------
(***************************************************************************)
(* Theorems about Ext2FS.  First: types, and that every record on the disk *)
(* names an inode that is allocated and written.  Then: what the minodes   *)
(* and the blocks of the simulator are used for.  A command holds          *)
(* references to minodes while it runs; the proofs say, for each C         *)
(* function, how many it holds before and after.                           *)
(* Last: what the directories are, as long as nothing is removed: their    *)
(* blocks, their records, and what the minodes in memory say of them.      *)
(***************************************************************************)
EXTENDS Ext2FS, SequenceTheorems, WellFoundedInduction, TLAPS

-----------------------------------------------------------------------------
(* Induction over numbers, and from it over the passes of a loop (Loops).  *)

(* A nonempty set of numbers has a smallest one.                           *)
THEOREM SmallestNat ==
  ASSUME NEW T \in SUBSET Nat, T # {}
  PROVE  \E m \in T : \A n \in T : m <= n
<1> DEFINE R == {r \in Nat \X Nat : r[1] < r[2]}
<1>1. IsWellFoundedOn(OpToRel(<, Nat), Nat)
  BY NatLessThanWellFounded
<1>2. OpToRel(<, Nat) = R
  BY DEF OpToRel
<1>3. IsWellFoundedOn(R, Nat)
  BY <1>1, <1>2
<1>4. PICK m \in T : \A n \in T : <<n, m>> \notin R
  <2> HIDE DEF R
  <2> QED BY <1>3, WFMin
<1>5. ASSUME NEW n \in T, ~(m <= n) PROVE FALSE
  <2>1. n \in Nat /\ m \in Nat /\ n < m
    BY <1>5
  <2>2. <<n, m>> \in Nat \X Nat /\ <<n, m>>[1] = n /\ <<n, m>>[2] = m
    BY <2>1
  <2>3. <<n, m>> \in R
    BY <2>1, <2>2
  <2> QED BY <1>4, <2>3
<1> QED BY <1>5

(* Induction on the natural numbers.                                       *)
THEOREM NatSet ==
  ASSUME NEW S, 0 \in S, \A n \in Nat : n \in S => n + 1 \in S
  PROVE  \A n \in Nat : n \in S
<1> SUFFICES ASSUME NEW k \in Nat, k \notin S PROVE FALSE
  OBVIOUS
<1> DEFINE T == {n \in Nat : n \notin S}
<1>1. PICK m \in T : \A n \in T : m <= n
  <2>1. T \in SUBSET Nat /\ T # {}
    OBVIOUS
  <2> HIDE DEF T
  <2> QED BY <2>1, SmallestNat
<1>2. m # 0 /\ m - 1 \in Nat /\ m = (m - 1) + 1 /\ ~(m <= m - 1)
  BY <1>1
<1>3. m - 1 \in S
  BY <1>1, <1>2
<1>4. m \in S
  BY <1>2, <1>3
<1> QED BY <1>1, <1>4

(* Induction from a bound downwards.                                       *)
THEOREM DownSet ==
  ASSUME NEW S, NEW b \in Nat,
         \A n \in 0..b : (\A m \in n + 1..b : m \in S) => n \in S
  PROVE  \A n \in 0..b : n \in S
<1> DEFINE T == {k \in Nat : k <= b => \A n \in b - k..b : n \in S}
<1>1. 0 \in T
  <2>1. b \in 0..b /\ \A m \in b + 1..b : m \in S
    OBVIOUS
  <2> QED BY <2>1
<1>2. ASSUME NEW k \in Nat, k \in T PROVE k + 1 \in T
  <2> SUFFICES ASSUME k + 1 <= b PROVE \A n \in b - (k + 1)..b : n \in S
    OBVIOUS
  <2>1. b - (k + 1) \in 0..b /\ \A m \in (b - (k + 1)) + 1..b : m \in S
    BY <1>2
  <2>2. b - (k + 1) \in S
    BY <2>1
  <2> QED BY <1>2, <2>2
<1>3. b \in T
  <2> HIDE DEF T
  <2> QED BY <1>1, <1>2, NatSet
<1> QED BY <1>3

-----------------------------------------------------------------------------
(* Directory blocks.                                                       *)

EntryNames == STRING \cup {".", "..", NoName}

Cells == {c \in [ino : 0..NInodes, rec : Int, len : Nat, name : EntryNames] :
            c.rec >= 0 \/ c = Wild}

Block == [Words -> Cells]

\* The walk from offset o on, where f are the walks from higher offsets.
WalkFrom(b, f, o) ==
  IF o >= BLKWORDS THEN [offs |-> <<>>, end |-> "end"]
  ELSE IF b[o] = Wild THEN [offs |-> <<>>, end |-> "wild"]
  ELSE IF b[o].rec = 0 THEN [offs |-> <<o>>, end |-> "hang"]
  ELSE [offs |-> <<o>> \o f[o + b[o].rec].offs, end |-> f[o + b[o].rec].end]

Ends == {"end", "wild", "hang"}

\* A walk visits records of the block only, from low offsets to high ones, and at
\* least one unless it meets a name.
IsWalk(b, w, o) ==
  /\ w \in [offs : Seq(Words), end : Ends]
  /\ \A k \in 1..Len(w.offs) : b[w.offs[k]] # Wild /\ w.offs[k] >= o
  /\ w.end = "end" /\ o < BLKWORDS => w.offs # <<>>

LEMMA WalkDef ==
  ASSUME NEW b \in Block
  PROVE  \E f : f = [o \in Nat |-> WalkFrom(b, f, o)]
<1> DEFINE Right(f, n) == \A o \in Nat : o >= n => f[o] = WalkFrom(b, f, o)
<1> DEFINE S == {n \in Nat : \E f : Right(f, n)}
<1>0. BLKWORDS \in Nat
  BY BlockAssumption
<1>1. ASSUME NEW n \in 0..BLKWORDS, \A m \in n + 1..BLKWORDS : m \in S PROVE n \in S
  <2>1. CASE n = BLKWORDS
    <3>1. Right([o \in Nat |-> [offs |-> <<>>, end |-> "end"]], n)
      BY <1>0, <2>1 DEF WalkFrom
    <3> QED BY <3>1
  <2>2. CASE n # BLKWORDS
    <3>1. n + 1 \in S
      BY <1>0, <1>1, <2>2
    <3>2. PICK f : Right(f, n + 1)
      BY <3>1
    <3> DEFINE g == [o \in Nat |-> IF o = n THEN WalkFrom(b, f, n) ELSE f[o]]
    <3>3. ASSUME NEW o \in Nat, o >= n PROVE WalkFrom(b, g, o) = WalkFrom(b, f, o)
      <4>1. CASE o < BLKWORDS /\ b[o] # Wild /\ b[o].rec # 0
        <5>1. b[o] \in Cells /\ o \in Words
          BY <1>0, <4>1 DEF Block, Words
        <5>2. o + b[o].rec \in Nat /\ o + b[o].rec # n
          BY <3>3, <4>1, <5>1 DEF Cells
        <5>3. g[o + b[o].rec] = f[o + b[o].rec]
          BY <5>2
        <5> HIDE DEF g
        <5> QED BY <5>3 DEF WalkFrom
      <4>2. CASE ~(o < BLKWORDS /\ b[o] # Wild /\ b[o].rec # 0)
        <5> HIDE DEF g
        <5> QED BY <1>0, <4>2 DEF WalkFrom
      <4> QED BY <4>1, <4>2
    <3>4. ASSUME NEW o \in Nat, o >= n PROVE g[o] = WalkFrom(b, g, o)
      <4>1. CASE o = n
        BY <3>3, <4>1
      <4>2. CASE o # n
        <5>1. f[o] = WalkFrom(b, f, o)
          BY <3>2, <3>4, <4>2
        <5>2. g[o] = f[o]
          BY <4>2
        <5>3. WalkFrom(b, g, o) = WalkFrom(b, f, o)
          BY <3>3, <3>4
        <5> QED BY <5>1, <5>2, <5>3
      <4> QED BY <4>1, <4>2
    <3>5. Right(g, n)
      BY <3>4
    <3> HIDE DEF g
    <3> QED BY <3>5
  <2> QED BY <2>1, <2>2
<1>2. 0 \in S
  <2> HIDE DEF S
  <2>1. \A n \in 0..BLKWORDS : n \in S
    BY <1>0, <1>1, DownSet
  <2> QED BY <1>0, <2>1
<1>3. PICK f : Right(f, 0)
  BY <1>2
<1> DEFINE h == [o \in Nat |-> f[o]]
<1>4. ASSUME NEW o \in Nat PROVE h[o] = WalkFrom(b, h, o)
  <2>1. h[o] = WalkFrom(b, f, o)
    BY <1>3
  <2>2. CASE o < BLKWORDS /\ b[o] # Wild /\ b[o].rec # 0
    <3>1. b[o] \in Cells /\ o \in Words
      BY <1>0, <2>2 DEF Block, Words
    <3>2. o + b[o].rec \in Nat
      BY <2>2, <3>1 DEF Cells
    <3>3. h[o + b[o].rec] = f[o + b[o].rec]
      BY <3>2
    <3> HIDE DEF h
    <3> QED BY <2>1, <3>3 DEF WalkFrom
  <2>3. CASE ~(o < BLKWORDS /\ b[o] # Wild /\ b[o].rec # 0)
    <3> HIDE DEF h
    <3> QED BY <1>0, <2>1, <2>3 DEF WalkFrom
  <2> QED BY <2>2, <2>3
<1>5. h = [o \in Nat |-> h[o]]
  OBVIOUS
<1> HIDE DEF h
<1>6. h = [o \in Nat |-> WalkFrom(b, h, o)]
  BY <1>4, <1>5
<1> QED BY <1>6

LEMMA WalkSound ==
  ASSUME NEW b \in Block
  PROVE  IsWalk(b, Walk(b), 0)
<1>0. BLKWORDS \in Nat
  BY BlockAssumption
<1>1. \E f : Walk(b) = f[0] /\ f = [o \in Nat |-> WalkFrom(b, f, o)]
  <2> DEFINE from[o \in Nat] ==
        IF o >= BLKWORDS THEN [offs |-> <<>>, end |-> "end"]
        ELSE IF b[o] = Wild THEN [offs |-> <<>>, end |-> "wild"]
        ELSE IF b[o].rec = 0 THEN [offs |-> <<o>>, end |-> "hang"]
        ELSE LET rest == from[o + b[o].rec]
             IN  [offs |-> <<o>> \o rest.offs, end |-> rest.end]
  <2>1. Walk(b) = from[0]
    BY DEF Walk
  <2>2. from = [o \in Nat |-> WalkFrom(b, from, o)]
    BY WalkDef DEF WalkFrom
  <2> HIDE DEF from
  <2> QED BY <2>1, <2>2
<1>2. PICK from : Walk(b) = from[0] /\ from = [o \in Nat |-> WalkFrom(b, from, o)]
  BY <1>1
<1>3. \A o \in Nat : from[o] = WalkFrom(b, from, o)
  BY <1>2
<1> DEFINE S == {o \in Nat : IsWalk(b, from[o], o)}
<1>4. ASSUME NEW o \in 0..BLKWORDS, \A m \in o + 1..BLKWORDS : m \in S PROVE o \in S
  <2>0. o \in Nat /\ from[o] = WalkFrom(b, from, o)
    BY <1>0, <1>3
  <2>1. CASE o = BLKWORDS \/ b[o] = Wild
    <3>1. \/ from[o] = [offs |-> <<>>, end |-> "end"] /\ o = BLKWORDS
          \/ from[o] = [offs |-> <<>>, end |-> "wild"]
      <4>1. o = BLKWORDS \/ ~(o >= BLKWORDS)
        BY <1>0
      <4>2. o = BLKWORDS => o >= BLKWORDS
        BY <1>0
      <4> QED BY <2>0, <2>1, <4>1, <4>2 DEF WalkFrom
    <3>2. <<>> \in Seq(Words) /\ Len(<<>>) = 0
      OBVIOUS
    <3>3. from[o] \in [offs : Seq(Words), end : Ends] /\ from[o].offs = <<>>
      <4> DEFINE none == <<>>
      <4>1. \/ from[o] = [offs |-> none, end |-> "end"]
            \/ from[o] = [offs |-> none, end |-> "wild"]
        BY <3>1
      <4>2. none \in Seq(Words)
        BY <3>2
      <4> HIDE DEF none
      <4>3. from[o] \in [offs : Seq(Words), end : Ends] /\ from[o].offs = none
        BY <4>1, <4>2 DEF Ends
      <4> QED BY <4>3 DEF none
    <3>4. from[o].end = "end" => ~(o < BLKWORDS)
      BY <1>0, <3>1
    <3> QED BY <3>2, <3>3, <3>4 DEF IsWalk
  <2>2. CASE o # BLKWORDS /\ b[o] # Wild
    <3>1. o \in Words /\ o < BLKWORDS /\ b[o] \in Cells
      BY <1>0, <2>2 DEF Words, Block
    <3>2. b[o].rec \in Nat
      BY <2>2, <3>1 DEF Cells
    <3>3. CASE b[o].rec = 0
      <4> DEFINE one == <<o>>
      <4>1. from[o] = [offs |-> one, end |-> "hang"]
        BY <1>0, <2>0, <2>2, <3>1, <3>3 DEF WalkFrom
      <4>2. one \in Seq(Words) /\ Len(one) = 1 /\ one[1] = o
        BY <3>1
      <4> HIDE DEF one
      <4>3. from[o] \in [offs : Seq(Words), end : Ends] /\ from[o].offs = one
        BY <4>1, <4>2 DEF Ends
      <4>4. \A k \in 1..Len(one) : one[k] = o
        BY <4>2
      <4>5. o >= o /\ from[o].end # "end"
        BY <2>0, <4>1
      <4> QED BY <2>2, <4>3, <4>4, <4>5 DEF IsWalk
    <3>4. CASE b[o].rec # 0
      <4> DEFINE q == o + b[o].rec
      <4> DEFINE w == from[q]
      <4>1. q \in Nat /\ q > o
        BY <3>2, <3>4
      <4>2. IsWalk(b, w, q)
        <5>1. CASE q <= BLKWORDS
          BY <1>4, <4>1, <5>1
        <5>2. CASE q > BLKWORDS
          <6>0. w = WalkFrom(b, from, q) /\ q >= BLKWORDS
            BY <1>0, <1>3, <4>1, <5>2
          <6>1. w = [offs |-> <<>>, end |-> "end"]
            BY <6>0 DEF WalkFrom
          <6> HIDE DEF q, w
          <6> QED BY <1>0, <4>1, <5>2, <6>1 DEF IsWalk, Ends
        <5> HIDE DEF q
        <5> QED BY <1>0, <4>1, <5>1, <5>2
      <4>3. from[o] = [offs |-> <<o>> \o w.offs, end |-> w.end]
        BY <1>0, <2>0, <2>2, <3>1, <3>4 DEF WalkFrom
      <4> HIDE DEF q, w
      <4>4. w \in [offs : Seq(Words), end : Ends]
        BY <4>2 DEF IsWalk
      <4> DEFINE offs == <<o>> \o w.offs
      <4>6. /\ offs \in Seq(Words) /\ Len(offs) = Len(w.offs) + 1 /\ offs # <<>>
            /\ offs[1] = o /\ \A k \in 2..Len(offs) : offs[k] = w.offs[k - 1]
        BY <3>1, <4>4
      <4>. from[o] = [offs |-> offs, end |-> w.end]
        BY <4>3
      <4> HIDE DEF offs
      <4>7. \A k \in 1..Len(offs) : b[offs[k]] # Wild /\ offs[k] >= o
        <5> SUFFICES ASSUME NEW k \in 1..Len(offs) PROVE b[offs[k]] # Wild /\ offs[k] >= o
          OBVIOUS
        <5>1. CASE k = 1
          BY <2>2, <4>6, <5>1
        <5>2. CASE k # 1
          <6>1. k \in 2..Len(offs) /\ k - 1 \in 1..Len(w.offs)
            BY <4>4, <4>6, <5>2
          <6>2. w.offs[k - 1] \in Words
            BY <4>4, <6>1
          <6> QED BY <4>1, <4>2, <4>6, <6>1, <6>2 DEF IsWalk, Words
        <5> QED BY <5>1, <5>2
      <4> QED BY <4>4, <4>6, <4>7 DEF IsWalk
    <3> QED BY <3>3, <3>4
  <2> QED BY <2>1, <2>2
<1>5. 0 \in S
  <2> HIDE DEF S
  <2>1. \A n \in 0..BLKWORDS : n \in S
    BY <1>0, <1>4, DownSet
  <2> QED BY <1>0, <2>1
<1> QED BY <1>2, <1>5

(* What the loops over a block take from a walk lies in the block.         *)
LEMMA VisitedInside ==
  ASSUME NEW b \in Block
  PROVE  \A o \in Visited(b) : o \in Words /\ b[o] # Wild
<1> DEFINE w == Walk(b)
<1>1. w.offs \in Seq(Words) /\ \A k \in 1..Len(w.offs) : b[w.offs[k]] # Wild
  BY WalkSound DEF IsWalk
<1>2. Visited(b) = {w.offs[k] : k \in 1..Len(w.offs)}
  BY DEF Visited
<1> HIDE DEF w
<1>3. \A k \in 1..Len(w.offs) : w.offs[k] \in Words
  BY <1>1
<1> QED BY <1>1, <1>2, <1>3

LEMMA MatchInside ==
  ASSUME NEW b \in Block, NEW name, Match(b, name) # NotFound
  PROVE  Match(b, name) \in Words /\ b[Match(b, name)] # Wild
<1> DEFINE w == Walk(b)
           hits == {k \in 1..Len(w.offs) : b[w.offs[k]].name = name}
           first == CHOOSE k \in hits : \A l \in hits : k <= l
<1>1. w.offs \in Seq(Words) /\ \A k \in 1..Len(w.offs) : b[w.offs[k]] # Wild
  BY WalkSound DEF IsWalk
<1>2. hits # {} /\ Match(b, name) = w.offs[first]
  BY DEF Match
<1>3. hits \in SUBSET Nat
  BY <1>1
<1>4. \E k \in hits : \A l \in hits : k <= l
  <2> HIDE DEF hits
  <2> QED BY <1>2, <1>3, SmallestNat
<1>5. first \in hits
  <2> HIDE DEF hits
  <2> QED BY <1>4
<1>6. first \in 1..Len(w.offs)
  BY <1>5
<1> HIDE DEF w, first
<1>7. w.offs[first] \in Words
  BY <1>1, <1>6
<1> QED BY <1>1, <1>2, <1>6, <1>7

LEMMA LastInside ==
  ASSUME NEW b \in Block, Walk(b).end = "end"
  PROVE  LastOffset(b) \in Words /\ b[LastOffset(b)] # Wild
<1> DEFINE w == Walk(b)
<1>1. w.offs \in Seq(Words) /\ \A k \in 1..Len(w.offs) : b[w.offs[k]] # Wild
  BY WalkSound DEF IsWalk
<1>2. w.offs # <<>>
  <2>1. 0 < BLKWORDS
    BY BlockAssumption
  <2> QED BY <2>1, WalkSound DEF IsWalk
<1>3. LastOffset(b) = w.offs[Len(w.offs)]
  BY DEF LastOffset
<1> HIDE DEF w
<1>4. Len(w.offs) \in 1..Len(w.offs)
  BY <1>1, <1>2
<1>5. w.offs[Len(w.offs)] \in Words
  BY <1>1, <1>4
<1> QED BY <1>1, <1>3, <1>4, <1>5

(* The records of a block name inodes of I only.                           *)
Refer(b, I) == \A o \in Words : b[o].ino \in I

LEMMA CellFields ==
  ASSUME NEW ino \in 0..NInodes, NEW rec \in Nat, NEW len \in Nat, NEW name \in EntryNames
  PROVE  /\ Cell(ino, rec, len, name) \in Cells
         /\ Cell(ino, rec, len, name).ino = ino
         /\ Cell(ino, rec, len, name).len = len
BY DEF Cell, Cells

LEMMA SpecialCells ==
  /\ Zero \in Cells /\ Zero.ino = 0
  /\ Wild \in Cells /\ Wild.ino = 0 /\ Wild.rec = -1
BY SizesAssumption DEF Zero, Wild, Cell, Cells, EntryNames, Root

LEMMA ZeroBlockOK == ZeroBlock \in Block /\ Refer(ZeroBlock, {0})
BY SpecialCells DEF ZeroBlock, Block, Refer

LEMMA WriteRecordKeeps ==
  ASSUME NEW b \in Block, NEW o, NEW c \in Cells,
         NEW I, 0 \in I, Refer(b, I), c.ino \in I
  PROVE  WriteRecord(b, o, c) \in Block /\ Refer(WriteRecord(b, o, c), I)
BY SpecialCells DEF WriteRecord, Block, Refer

LEMMA LengthenKeeps ==
  ASSUME NEW b \in Block, NEW o \in Words, NEW rec \in Nat, NEW I, Refer(b, I)
  PROVE  [b EXCEPT ![o].rec = rec] \in Block /\ Refer([b EXCEPT ![o].rec = rec], I)
<1> DEFINE e == [b EXCEPT ![o].rec = rec]
<1>1. b[o] \in Cells
  BY DEF Block
<1>2. [b[o] EXCEPT !.rec = rec] \in Cells /\ [b[o] EXCEPT !.rec = rec].ino = b[o].ino
  BY <1>1 DEF Cells
<1>3. \A p \in Words : e[p] = IF p = o THEN [b[o] EXCEPT !.rec = rec] ELSE b[p]
  BY DEF Block
<1>4. e = [p \in Words |-> e[p]]
  BY DEF Block
<1> HIDE DEF e
<1>5. \A p \in Words : e[p] \in Cells /\ e[p].ino \in I
  BY <1>2, <1>3 DEF Block, Refer
<1>6. e \in Block
  BY <1>4, <1>5 DEF Block
<1> QED BY <1>5, <1>6 DEF Refer, e

LEMMA DotBlockKeeps ==
  ASSUME NEW b \in Block, NEW ino \in 0..NInodes, NEW pino \in 0..NInodes,
         NEW I, 0 \in I, Refer(b, I), ino \in I, pino \in I
  PROVE  DotBlock(b, ino, pino) \in Block /\ Refer(DotBlock(b, ino, pino), I)
<1> DEFINE c == Cell(ino, 3, NameLen, ".")
           e == Cell(pino, BLKWORDS - 3, NameLen, "..")
           d == WriteRecord(b, 0, c)
<1>1. c \in Cells /\ c.ino = ino /\ e \in Cells /\ e.ino = pino
  BY BlockAssumption, CellFields DEF NameLen, EntryNames
<1>2. DotBlock(b, ino, pino) = WriteRecord(d, 3, e)
  BY DEF DotBlock
<1> HIDE DEF c, e
<1>3. d \in Block /\ Refer(d, I)
  BY <1>1, WriteRecordKeeps
<1> HIDE DEF d
<1> QED BY <1>1, <1>2, <1>3, WriteRecordKeeps

LEMMA Append1Keeps ==
  ASSUME NEW b \in Block, Walk(b).end = "end", HasRoom(b),
         NEW ino \in 0..NInodes, NEW name \in EntryNames,
         NEW I, 0 \in I, Refer(b, I), ino \in I
  PROVE  Append1(b, ino, name) \in Block /\ Refer(Append1(b, ino, name), I)
<1> DEFINE l == LastOffset(b)
           ideal == IdealLen(b[l].len)
           c == Cell(ino, Remaining(b), NameLen, name)
           e == [b EXCEPT ![l].rec = ideal]
<1>1. l \in Words /\ b[l] \in Cells
  BY LastInside DEF Block
<1>2. ideal \in Nat /\ Remaining(b) \in Nat
  BY <1>1 DEF IdealLen, HasRoom, Remaining, NeedLength, NameLen, Cells
<1>3. Append1(b, ino, name) = WriteRecord(e, l + ideal, c)
  BY DEF Append1
<1>4. c \in Cells /\ c.ino = ino
  BY <1>2, CellFields DEF NameLen
<1> HIDE DEF l, ideal, c
<1>5. e \in Block /\ Refer(e, I)
  BY <1>1, <1>2, LengthenKeeps
<1> HIDE DEF e
<1> QED BY <1>3, <1>4, <1>5, WriteRecordKeeps

LEMMA OverflowBlockKeeps ==
  ASSUME NEW b \in Block, NEW ino \in 0..NInodes, NEW name \in EntryNames,
         NEW I, 0 \in I, Refer(b, I), ino \in I
  PROVE  OverflowBlock(b, ino, name) \in Block /\ Refer(OverflowBlock(b, ino, name), I)
<1>1. NeedLength \in Nat /\ BLKWORDS \in Nat
  BY BlockAssumption DEF NeedLength, IdealLen, NameLen
<1> QED BY <1>1, CellFields, WriteRecordKeeps DEF OverflowBlock

(* prev may come from another block: then it is no record of this one, or  *)
(* not even an offset of it.                                               *)
LEMMA SwallowKeeps ==
  ASSUME NEW b \in Block, NEW prev, b[prev] # Wild, NEW o \in Words, b[o] # Wild,
         NEW I, Refer(b, I)
  PROVE  Swallow(b, prev, o) \in Block /\ Refer(Swallow(b, prev, o), I)
<1>1. CASE prev \in Words
  <2> DEFINE rec == b[prev].rec + b[o].rec
  <2>1. b[prev] \in Cells /\ b[o] \in Cells
    BY <1>1 DEF Block
  <2>2. rec \in Nat
    BY <2>1 DEF Cells
  <2>3. Swallow(b, prev, o) = [b EXCEPT ![prev].rec = rec]
    BY DEF Swallow
  <2> HIDE DEF rec
  <2> QED BY <1>1, <2>2, <2>3, LengthenKeeps
<1>2. CASE prev \notin Words
  <2>1. Swallow(b, prev, o) = b
    BY <1>2 DEF Swallow, Block
  <2> QED BY <2>1
<1> QED BY <1>1, <1>2

LEMMA CloseGapKeeps ==
  ASSUME NEW b \in Block, NEW o \in Words, b[o] # Wild, NEW I, Refer(b, I)
  PROVE  CloseGap(b, o) \in Block /\ Refer(CloseGap(b, o), I)
<1>1. b[o] \in Cells /\ b[o].rec \in Nat
  BY DEF Block, Cells
<1>2. \A w \in Words : ~(w + b[o].rec >= BLKWORDS) => w + b[o].rec \in Words
  BY <1>1, BlockAssumption DEF Words
<1>3. \A w \in Words : CloseGap(b, o)[w] \in Cells /\ CloseGap(b, o)[w].ino \in I
  BY <1>2 DEF CloseGap, Block, Refer
<1>4. CloseGap(b, o) = [w \in Words |-> CloseGap(b, o)[w]]
  BY DEF CloseGap
<1>5. CloseGap(b, o) \in Block
  BY <1>3, <1>4 DEF Block
<1> QED BY <1>3, <1>5 DEF Refer

-----------------------------------------------------------------------------
(* Program states.  Without rmdir no inode is ever deallocated (Kept), and *)
(* then a record or a minode only names an inode that is Written.          *)

Kept == RmdirPaths = {}

InodeRecs == [mode : ModeSet, links : 0..LinkModulus-1, block : [1..NDirect+1 -> Blocks]]

Minodes == [ref : Int, ino : 0..NInodes, dirty : BOOLEAN, data : InodeRecs]

Disks == [imap : SUBSET (0..NInodes), bmap : SUBSET (0..NBlocks),
          itab : [Inos -> InodeRecs], blk : [Blocks -> Block]]

States == [disk : Disks, imgs : SUBSET Disks, tab : [Slots -> Minodes], cwd : Slots,
           status : {"ok", "hang", "segv", "wild"}, ret : Int, mip : Slots]

Written(d, i) == i - 1 \in d.imap /\ d.itab[i].mode # "free"

\* What a record or a minode may name, 0 being no inode.
Nameable(d) == IF Kept THEN {0} \cup {i \in Inos : Written(d, i)} ELSE 0..NInodes

GoodDisk(d) ==
  /\ d \in Disks
  /\ Root \in Nameable(d)
  /\ \A b \in Blocks : Refer(d.blk[b], Nameable(d))

GoodMinode(d, m) ==
  /\ m.ino \in Nameable(d)
  /\ Kept /\ m.ino # 0 => m.data.mode # "free"

Good(s) ==
  /\ s \in States
  /\ GoodDisk(s.disk)
  /\ \A d \in s.imgs : GoodDisk(d)
  /\ \A i \in Slots : GoodMinode(s.disk, s.tab[i])

LEMMA SizesFacts ==
  /\ NMINODE \in Nat /\ NInodes \in Nat /\ NBlocks \in Nat /\ NDirect \in Nat
  /\ RootSlot \in Slots /\ Root \in Inos /\ RootBlock \in Blocks /\ 0 \in Blocks
  /\ Slots \subseteq Nat /\ Inos \subseteq Nat /\ Blocks \subseteq Nat
  /\ 1 \in 1..NDirect /\ 1..NDirect \subseteq 1..NDirect+1
BY SizesAssumption DEF RootSlot, Slots, Root, Inos, RootBlock, Blocks

LEMMA NameableFacts ==
  ASSUME NEW d
  PROVE  0 \in Nameable(d) /\ Nameable(d) \subseteq 0..NInodes
BY SizesFacts DEF Nameable, Inos

LEMMA LowestIn ==
  ASSUME NEW S \in SUBSET Nat, S # {}
  PROVE  Lowest(S) \in S
<1>1. \E m \in S : \A n \in S : m <= n
  BY SmallestNat
<1> QED BY <1>1 DEF Lowest

(* Nothing but the disk and the table matters to Good.                     *)
LEMMA ReturnsGood ==
  ASSUME NEW s, Good(s), NEW r \in Int
  PROVE  /\ Good(Returns(s, r))
         /\ Returns(s, r).disk = s.disk /\ Returns(s, r).tab = s.tab
         /\ Returns(s, r).status = s.status /\ Returns(s, r).ret = r
         /\ Returns(s, r).mip = s.mip
<1>1. s \in States
  BY DEF Good
<1>2. /\ Returns(s, r) \in States
      /\ Returns(s, r).disk = s.disk /\ Returns(s, r).tab = s.tab
      /\ Returns(s, r).imgs = s.imgs
      /\ Returns(s, r).status = s.status /\ Returns(s, r).ret = r
      /\ Returns(s, r).mip = s.mip
  BY <1>1 DEF Returns, States
<1> QED BY <1>2 DEF Good

LEMMA FailsGood ==
  ASSUME NEW s, Good(s), NEW how \in {"hang", "segv", "wild"}
  PROVE  Good(Fails(s, how)) /\ Fails(s, how).status # "ok"
<1>1. s \in States
  BY DEF Good
<1>2. /\ Fails(s, how) \in States
      /\ Fails(s, how).disk = s.disk /\ Fails(s, how).tab = s.tab
      /\ Fails(s, how).imgs = s.imgs /\ Fails(s, how).status = how
  BY <1>1 DEF Fails, States
<1> QED BY <1>2 DEF Good

LEMMA WalksGood ==
  ASSUME NEW s, Good(s), NEW slot \in Slots
  PROVE  /\ Good([s EXCEPT !.mip = slot]) /\ Good([s EXCEPT !.cwd = slot])
         /\ [s EXCEPT !.mip = slot].disk = s.disk /\ [s EXCEPT !.mip = slot].tab = s.tab
         /\ [s EXCEPT !.mip = slot].status = s.status /\ [s EXCEPT !.mip = slot].ret = s.ret
         /\ [s EXCEPT !.mip = slot].mip = slot
<1>1. s \in States
  BY DEF Good
<1> DEFINE t == [s EXCEPT !.mip = slot]
           u == [s EXCEPT !.cwd = slot]
<1>2. /\ t \in States /\ t.disk = s.disk /\ t.tab = s.tab /\ t.imgs = s.imgs
      /\ t.status = s.status /\ t.ret = s.ret /\ t.mip = slot
  BY <1>1 DEF States
<1>3. u \in States /\ u.disk = s.disk /\ u.tab = s.tab /\ u.imgs = s.imgs
  BY <1>1 DEF States
<1> HIDE DEF t, u
<1>4. Good(t) /\ Good(u)
  BY <1>2, <1>3 DEF Good
<1> QED BY <1>2, <1>4 DEF t, u

LEMMA PutBlockGood ==
  ASSUME NEW s, Good(s), NEW d, GoodDisk(d), Nameable(s.disk) \subseteq Nameable(d)
  PROVE  /\ Good(PutBlock(s, d))
         /\ PutBlock(s, d).disk = d /\ PutBlock(s, d).tab = s.tab
         /\ PutBlock(s, d).status = s.status /\ PutBlock(s, d).ret = s.ret
         /\ PutBlock(s, d).mip = s.mip
<1>1. s \in States /\ d \in Disks
  BY DEF Good, GoodDisk
<1>2. /\ PutBlock(s, d) \in States
      /\ PutBlock(s, d).disk = d /\ PutBlock(s, d).tab = s.tab
      /\ PutBlock(s, d).imgs = s.imgs \cup {d}
      /\ PutBlock(s, d).status = s.status /\ PutBlock(s, d).ret = s.ret
      /\ PutBlock(s, d).mip = s.mip
  BY <1>1 DEF PutBlock, States
<1>3. \A i \in Slots : GoodMinode(d, s.tab[i])
  BY DEF Good, GoodMinode
<1> QED BY <1>2, <1>3 DEF Good

(* A minode that may be put changes in its slot.                           *)
LEMMA TabGood ==
  ASSUME NEW s, Good(s), NEW slot \in Slots, NEW m \in Minodes, GoodMinode(s.disk, m)
  PROVE  /\ Good([s EXCEPT !.tab[slot] = m])
         /\ [s EXCEPT !.tab[slot] = m].disk = s.disk
         /\ [s EXCEPT !.tab[slot] = m].tab = [s.tab EXCEPT ![slot] = m]
         /\ [s EXCEPT !.tab[slot] = m].status = s.status
         /\ [s EXCEPT !.tab[slot] = m].ret = s.ret
         /\ [s EXCEPT !.tab[slot] = m].mip = s.mip
         /\ [s EXCEPT !.tab[slot] = m].tab[slot] = m
<1> DEFINE t == [s EXCEPT !.tab[slot] = m]
<1>1. s \in States
  BY DEF Good
<1>2. /\ t \in States /\ t.disk = s.disk /\ t.tab = [s.tab EXCEPT ![slot] = m]
      /\ t.imgs = s.imgs /\ t.status = s.status /\ t.ret = s.ret /\ t.mip = s.mip
      /\ t.tab[slot] = m
  BY <1>1 DEF States
<1>3. \A i \in Slots : t.tab[i] = IF i = slot THEN m ELSE s.tab[i]
  BY <1>1, <1>2 DEF States
<1> HIDE DEF t
<1>4. \A i \in Slots : GoodMinode(t.disk, t.tab[i])
  BY <1>2, <1>3 DEF Good
<1>5. Good(t)
  BY <1>2, <1>4 DEF Good
<1> QED BY <1>2, <1>5 DEF t

LEMMA StateFacts ==
  ASSUME NEW s, Good(s)
  PROVE  /\ s \in States /\ s.disk \in Disks /\ s.mip \in Slots /\ s.cwd \in Slots
         /\ s.ret \in Int
         /\ GoodDisk(s.disk)
         /\ \A slot \in Slots :
              /\ s.tab[slot] \in Minodes /\ s.tab[slot].ino \in Nameable(s.disk)
              /\ GoodMinode(s.disk, s.tab[slot])
              /\ INode(s, slot) \in InodeRecs
              /\ INode(s, slot) = s.tab[slot].data
              /\ Mode(s, slot) = s.tab[slot].data.mode
              /\ \A i \in 1..NDirect+1 : INode(s, slot).block[i] \in Blocks
         /\ \A b \in Blocks : /\ s.disk.blk[b] \in Block
                              /\ Refer(s.disk.blk[b], Nameable(s.disk))
         /\ \A b \in Blocks : \A o \in Words : s.disk.blk[b][o].ino \in Nameable(s.disk)
<1>1. s \in States /\ s.disk \in Disks /\ s.mip \in Slots /\ s.cwd \in Slots /\ s.ret \in Int
  BY DEF Good, States
<1>2. GoodDisk(s.disk)
  BY DEF Good
<1>3. \A slot \in Slots : s.tab[slot] \in Minodes /\ GoodMinode(s.disk, s.tab[slot])
  BY <1>1 DEF States, Good
<1>4. \A slot \in Slots : s.tab[slot].data \in InodeRecs /\ s.tab[slot].ino \in Nameable(s.disk)
  BY <1>3 DEF Minodes, GoodMinode
<1>5. \A x \in InodeRecs : \A i \in 1..NDirect+1 : x.block[i] \in Blocks
  BY DEF InodeRecs
<1>6. \A b \in Blocks : s.disk.blk[b] \in Block /\ Refer(s.disk.blk[b], Nameable(s.disk))
  BY <1>1, <1>2 DEF Disks, GoodDisk
<1>7. \A b \in Blocks : \A o \in Words : s.disk.blk[b][o].ino \in Nameable(s.disk)
  BY <1>6 DEF Refer
<1> QED BY <1>1, <1>2, <1>3, <1>4, <1>5, <1>6, <1>7 DEF INode, Mode

(* put_block of a data block.                                              *)
LEMMA PutDataGood ==
  ASSUME NEW s, Good(s), NEW b \in Blocks, NEW data \in Block,
         Refer(data, Nameable(s.disk))
  PROVE  /\ Good(PutData(s, b, data))
         /\ Nameable(PutData(s, b, data).disk) = Nameable(s.disk)
         /\ PutData(s, b, data).tab = s.tab
         /\ PutData(s, b, data).status = s.status /\ PutData(s, b, data).ret = s.ret
         /\ PutData(s, b, data).mip = s.mip
<1> DEFINE d == [s.disk EXCEPT !.blk[b] = data]
<1>1. s.disk \in Disks /\ GoodDisk(s.disk)
  BY StateFacts
<1>2. /\ d \in Disks /\ d.imap = s.disk.imap /\ d.itab = s.disk.itab
      /\ \A a \in Blocks : d.blk[a] = IF a = b THEN data ELSE s.disk.blk[a]
  BY <1>1 DEF Disks
<1>3. PutData(s, b, data) = PutBlock(s, d)
  BY DEF PutData
<1> HIDE DEF d
<1>4. Nameable(d) = Nameable(s.disk)
  BY <1>2 DEF Nameable, Written
<1>5. GoodDisk(d)
  BY <1>1, <1>2, <1>4 DEF GoodDisk
<1> QED BY <1>3, <1>4, <1>5, PutBlockGood

(* The block bitmap names no inode.                                        *)
LEMMA BmapGood ==
  ASSUME NEW s, Good(s), NEW m \in SUBSET (0..NBlocks)
  PROVE  /\ GoodDisk([s.disk EXCEPT !.bmap = m])
         /\ Nameable([s.disk EXCEPT !.bmap = m]) = Nameable(s.disk)
         /\ [s.disk EXCEPT !.bmap = m].imap = s.disk.imap
         /\ [s.disk EXCEPT !.bmap = m].itab = s.disk.itab
<1> DEFINE d == [s.disk EXCEPT !.bmap = m]
<1>1. s.disk \in Disks /\ GoodDisk(s.disk)
  BY StateFacts
<1>2. d \in Disks /\ d.imap = s.disk.imap /\ d.itab = s.disk.itab /\ d.blk = s.disk.blk
  BY <1>1 DEF Disks
<1> HIDE DEF d
<1>3. Nameable(d) = Nameable(s.disk)
  BY <1>2 DEF Nameable, Written
<1>4. GoodDisk(d)
  BY <1>1, <1>2, <1>3 DEF GoodDisk
<1> QED BY <1>2, <1>3, <1>4 DEF d

LEMMA ballocGood ==
  ASSUME NEW s, Good(s)
  PROVE  /\ Good(balloc(s)) /\ balloc(s).ret \in Blocks
         /\ Nameable(balloc(s).disk) = Nameable(s.disk)
         /\ balloc(s).disk.imap = s.disk.imap
         /\ balloc(s).tab = s.tab /\ balloc(s).status = s.status /\ balloc(s).mip = s.mip
<1> DEFINE free == 0..NBlocks-1 \ s.disk.bmap
           low == Lowest(free)
           d == [s.disk EXCEPT !.bmap = @ \cup {low}]
<1>1. CASE free = {}
  <2>1. balloc(s) = Returns(s, 0) /\ 0 \in Blocks
    BY <1>1, SizesFacts DEF balloc
  <2>2. 0 \in Int
    BY SizesFacts
  <2> DEFINE t == Returns(s, 0)
  <2>3. /\ Good(t) /\ t.disk = s.disk /\ t.tab = s.tab /\ t.status = s.status
        /\ t.ret = 0 /\ t.mip = s.mip
    BY <2>2, ReturnsGood
  <2> HIDE DEF t
  <2>4. balloc(s) = t /\ 0 \in Blocks
    BY <2>1 DEF t
  <2> QED BY <2>3, <2>4
<1>2. CASE free # {}
  <2>1. free \in SUBSET Nat
    OBVIOUS
  <2>2. low \in free
    <3> HIDE DEF free
    <3> QED BY <1>2, <2>1, LowestIn
  <2>3. low + 1 \in Blocks /\ low \in 0..NBlocks /\ low + 1 \in Int
    BY <2>2, SizesFacts DEF Blocks
  <2>4. balloc(s) = Returns(PutBlock(s, d), low + 1)
    BY <1>2 DEF balloc
  <2> HIDE DEF low, free
  <2>5. s.disk.bmap \cup {low} \in SUBSET (0..NBlocks) /\ s.disk \in Disks
    BY <2>3, StateFacts DEF Disks
  <2>6. d = [s.disk EXCEPT !.bmap = s.disk.bmap \cup {low}]
    BY <2>5 DEF Disks
  <2>7. GoodDisk(d) /\ Nameable(d) = Nameable(s.disk) /\ d.imap = s.disk.imap
    <3> DEFINE m == s.disk.bmap \cup {low}
    <3>1. d = [s.disk EXCEPT !.bmap = m] /\ m \in SUBSET (0..NBlocks)
      BY <2>5, <2>6
    <3> HIDE DEF d, m
    <3> QED BY <3>1, BmapGood
  <2> HIDE DEF d
  <2>8. /\ Good(PutBlock(s, d)) /\ PutBlock(s, d).disk = d /\ PutBlock(s, d).tab = s.tab
        /\ PutBlock(s, d).status = s.status /\ PutBlock(s, d).mip = s.mip
    BY <2>7, PutBlockGood
  <2> QED BY <2>3, <2>4, <2>7, <2>8, ReturnsGood
<1> QED BY <1>1, <1>2

LEMMA bdeallocGood ==
  ASSUME NEW s, Good(s), NEW bno
  PROVE  /\ Good(bdealloc(s, bno))
         /\ Nameable(bdealloc(s, bno).disk) = Nameable(s.disk)
         /\ bdealloc(s, bno).tab = s.tab /\ bdealloc(s, bno).status = s.status
<1> DEFINE d == [s.disk EXCEPT !.bmap = @ \ {bno}]
           m == s.disk.bmap \ {bno}
<1>1. bdealloc(s, bno) = PutBlock(s, d)
  BY DEF bdealloc
<1>2. s.disk \in Disks
  BY StateFacts
<1>3. m \in SUBSET (0..NBlocks) /\ d = [s.disk EXCEPT !.bmap = m]
  BY <1>2 DEF Disks
<1> HIDE DEF d, m
<1>4. GoodDisk(d) /\ Nameable(d) = Nameable(s.disk)
  BY <1>3, BmapGood
<1> QED BY <1>1, <1>4, PutBlockGood

(* The new bit alone names no inode: the inode may still be free.          *)
LEMMA iallocGood ==
  ASSUME NEW s, Good(s)
  PROVE  /\ Good(ialloc(s)) /\ ialloc(s).ret \in 0..NInodes
         /\ Nameable(s.disk) \subseteq Nameable(ialloc(s).disk)
         /\ ialloc(s).tab = s.tab /\ ialloc(s).status = s.status /\ ialloc(s).mip = s.mip
         /\ ialloc(s).ret # 0 => ialloc(s).ret - 1 \in ialloc(s).disk.imap
<1> DEFINE free == 0..NInodes-1 \ s.disk.imap
           low == Lowest(free)
           d == [s.disk EXCEPT !.imap = @ \cup {low}]
<1>1. CASE free = {}
  <2>1. ialloc(s) = Returns(s, 0) /\ 0 \in 0..NInodes /\ 0 \in Int
    BY <1>1, SizesFacts DEF ialloc
  <2> DEFINE t == Returns(s, 0)
  <2>2. /\ Good(t) /\ t.disk = s.disk /\ t.tab = s.tab /\ t.status = s.status
        /\ t.ret = 0 /\ t.mip = s.mip
    BY <2>1, ReturnsGood
  <2> HIDE DEF t
  <2>3. ialloc(s) = t
    BY <2>1 DEF t
  <2> QED BY <2>1, <2>2, <2>3
<1>2. CASE free # {}
  <2>1. free \in SUBSET Nat
    OBVIOUS
  <2>2. low \in free
    <3> HIDE DEF free
    <3> QED BY <1>2, <2>1, LowestIn
  <2>3. /\ low + 1 \in Inos /\ low + 1 \in 0..NInodes /\ low \in 0..NInodes /\ low + 1 \in Int
        /\ (low + 1) - 1 = low
    BY <2>2, SizesFacts DEF Inos
  <2>4. ialloc(s) = Returns(PutBlock(s, d), low + 1)
    BY <1>2 DEF ialloc
  <2> HIDE DEF low, free
  <2>5. s.disk \in Disks /\ GoodDisk(s.disk)
    BY StateFacts
  <2>6. /\ d \in Disks /\ d.imap = s.disk.imap \cup {low}
        /\ d.itab = s.disk.itab /\ d.blk = s.disk.blk
    BY <2>3, <2>5 DEF Disks
  <2> HIDE DEF d
  <2>7. Nameable(s.disk) \subseteq Nameable(d)
    BY <2>6 DEF Nameable, Written
  <2>8. GoodDisk(d)
    BY <2>5, <2>6, <2>7 DEF GoodDisk, Refer
  <2>9. /\ Good(PutBlock(s, d)) /\ PutBlock(s, d).disk = d /\ PutBlock(s, d).tab = s.tab
        /\ PutBlock(s, d).status = s.status /\ PutBlock(s, d).mip = s.mip
    BY <2>7, <2>8, PutBlockGood
  <2>10. /\ Good(ialloc(s)) /\ ialloc(s).ret = low + 1 /\ ialloc(s).disk = d
         /\ ialloc(s).tab = s.tab /\ ialloc(s).status = s.status /\ ialloc(s).mip = s.mip
    BY <2>3, <2>4, <2>9, ReturnsGood
  <2>11. low \in d.imap
    BY <2>6
  <2> QED BY <2>3, <2>7, <2>10, <2>11
<1> QED BY <1>1, <1>2

(* A write back changes one inode of the table, to one that is not free.   *)
LEMMA ItabGood ==
  ASSUME NEW d, GoodDisk(d), NEW ino \in Inos, NEW inode \in InodeRecs,
         Kept => ino - 1 \in d.imap /\ inode.mode # "free"
  PROVE  /\ GoodDisk([d EXCEPT !.itab[ino] = inode])
         /\ Nameable(d) \subseteq Nameable([d EXCEPT !.itab[ino] = inode])
         /\ ino \in Nameable([d EXCEPT !.itab[ino] = inode])
<1> DEFINE e == [d EXCEPT !.itab[ino] = inode]
<1>1. d \in Disks
  BY DEF GoodDisk
<1>2. /\ e \in Disks /\ e.imap = d.imap /\ e.blk = d.blk
      /\ \A i \in Inos : e.itab[i] = IF i = ino THEN inode ELSE d.itab[i]
  BY <1>1 DEF Disks
<1> HIDE DEF e
<1>3. ino \in Nameable(e) /\ Nameable(d) \subseteq Nameable(e)
  BY <1>2, SizesFacts DEF Nameable, Written, Inos
<1>4. GoodDisk(e)
  BY <1>2, <1>3 DEF GoodDisk, Refer
<1> QED BY <1>3, <1>4 DEF e

LEMMA iputGood ==
  ASSUME NEW s, Good(s), NEW slot \in Slots
  PROVE  /\ Good(iput(s, slot))
         /\ Nameable(s.disk) \subseteq Nameable(iput(s, slot).disk)
         /\ iput(s, slot).ret = s.ret
<1> DEFINE m == s.tab[slot]
           r == Released(m)
           t == [s EXCEPT !.tab[slot] = r]
           d == [t.disk EXCEPT !.itab[m.ino] = m.data]
<1>1. m \in Minodes /\ GoodMinode(s.disk, m)
  BY StateFacts
<1>2. r \in Minodes /\ r.ino = m.ino /\ r.data = m.data
  BY <1>1 DEF Released, Minodes
<1>3. iput(s, slot) = IF ~WritesBack(m) THEN t
                      ELSE IF m.ino = 0 THEN Fails(t, "wild") ELSE PutBlock(t, d)
  BY DEF iput
<1> HIDE DEF m, r
<1>4. GoodMinode(s.disk, r)
  BY <1>1, <1>2 DEF GoodMinode
<1>5. Good(t) /\ t.disk = s.disk /\ t.ret = s.ret
  BY <1>2, <1>4, TabGood
<1> HIDE DEF t
<1>6. CASE ~WritesBack(m)
  BY <1>3, <1>5, <1>6
<1>7. CASE WritesBack(m) /\ m.ino = 0
  <2>1. iput(s, slot) = Fails(t, "wild")
    BY <1>3, <1>7
  <2>2. Fails(t, "wild").disk = t.disk /\ Fails(t, "wild").ret = t.ret
    BY <1>5, StateFacts DEF Fails, States
  <2> QED BY <1>5, <2>1, <2>2, FailsGood
<1>8. CASE WritesBack(m) /\ m.ino # 0
  <2>1. iput(s, slot) = PutBlock(t, d)
    BY <1>3, <1>8
  <2>2. m.ino \in Inos /\ m.data \in InodeRecs
    BY <1>1, <1>8, SizesFacts DEF Minodes, Inos
  <2>3. Kept => m.ino - 1 \in t.disk.imap /\ m.data.mode # "free"
    BY <1>1, <1>5, <1>8 DEF GoodMinode, Nameable, Written
  <2>4. GoodDisk(t.disk)
    BY <1>5 DEF Good
  <2>5. GoodDisk(d) /\ Nameable(t.disk) \subseteq Nameable(d)
    BY <2>2, <2>3, <2>4, ItabGood
  <2> HIDE DEF d
  <2> QED BY <1>5, <2>1, <2>5, PutBlockGood
<1> QED BY <1>6, <1>7, <1>8

\* The ways iget(s, ino) may return.
Fetches(s, ino, t) ==
  \/ t = Fails(s, "segv")
  \/ \E slot \in Slots :
       /\ slot \in Cached(s.tab, ino)
       /\ t = Returns([s EXCEPT !.tab[slot] = Shared(s.tab[slot])], slot)
  \/ /\ Cached(s.tab, ino) = {}
     /\ \E slot \in Slots, data \in InodeRecs :
          /\ ~InUse(s.tab[slot])
          /\ IF ino = 0 THEN data = JunkInode ELSE data = s.disk.itab[ino]
          /\ t = Returns([s EXCEPT !.tab[slot] = Loaded(ino, data)], slot)

LEMMA igetCases ==
  ASSUME NEW s, Good(s), NEW ino \in 0..NInodes
  PROVE  Fetches(s, ino, iget(s, ino))
<1> DEFINE hits == Cached(s.tab, ino)
           free == FreeSlots(s.tab)
           data == IF ino = 0 THEN JunkInode ELSE s.disk.itab[ino]
<1>1. s \in States /\ s.disk \in Disks /\ s.tab \in [Slots -> Minodes]
  BY StateFacts DEF States
<1>2. hits \subseteq Slots /\ free \subseteq Slots /\ Slots \subseteq Nat
  BY <1>1, SizesFacts DEF Cached, FreeSlots
<1>3. data \in InodeRecs
  <2>1. CASE ino = 0
    <3>1. JunkInode \in InodeRecs
      BY SizesFacts DEF JunkInode, Inode, NoBlocks, InodeRecs, ModeSet, LinkModulus
    <3> QED BY <2>1, <3>1
  <2>2. CASE ino # 0
    <3>1. ino \in Inos
      BY <2>2, SizesFacts DEF Inos
    <3> QED BY <1>1, <2>2, <3>1 DEF Disks
  <2> QED BY <2>1, <2>2
<1>4. CASE hits # {}
  <2> DEFINE slot == Lowest(hits)
  <2>1. slot \in hits
    <3> HIDE DEF hits
    <3> QED BY <1>2, <1>4, LowestIn
  <2>2. iget(s, ino) = [s EXCEPT !.tab[slot] = Shared(s.tab[slot]), !.ret = slot]
    <3>1. iget(s, ino) = [s EXCEPT !.tab[slot] = Shared(@), !.ret = slot]
      BY <1>4 DEF iget
    <3> HIDE DEF slot
    <3> QED BY <1>1, <3>1 DEF States
  <2> HIDE DEF slot
  <2>3. iget(s, ino) = Returns([s EXCEPT !.tab[slot] = Shared(s.tab[slot])], slot)
    BY <1>1, <2>2 DEF Returns, States
  <2> QED BY <1>2, <2>1, <2>3 DEF Fetches
<1>5. CASE hits = {} /\ free = {}
  BY <1>5 DEF iget, Fetches
<1>6. CASE hits = {} /\ free # {}
  <2> DEFINE slot == Lowest(free)
  <2>1. slot \in free
    <3> HIDE DEF free
    <3> QED BY <1>2, <1>6, LowestIn
  <2>2. iget(s, ino) = [s EXCEPT !.tab[slot] = Loaded(ino, data), !.ret = slot]
    BY <1>6 DEF iget
  <2>3. IF ino = 0 THEN data = JunkInode ELSE data = s.disk.itab[ino]
    OBVIOUS
  <2> HIDE DEF slot, data
  <2>4. iget(s, ino) = Returns([s EXCEPT !.tab[slot] = Loaded(ino, data)], slot)
    BY <1>1, <2>2 DEF Returns, States
  <2>5. slot \in Slots /\ ~InUse(s.tab[slot])
    BY <1>2, <2>1 DEF FreeSlots
  <2>6. IF ino = 0 THEN data = JunkInode ELSE data = s.disk.itab[ino]
    BY <2>3
  <2>7. Cached(s.tab, ino) = {} /\ data \in InodeRecs
    BY <1>3, <1>6
  <2> QED BY <2>4, <2>5, <2>6, <2>7 DEF Fetches
<1> QED BY <1>4, <1>5, <1>6

LEMMA igetGood ==
  ASSUME NEW s, Good(s), NEW ino \in Nameable(s.disk)
  PROVE  /\ Good(iget(s, ino))
         /\ iget(s, ino).status = "ok" => /\ iget(s, ino).ret \in Slots
                                          /\ iget(s, ino).disk = s.disk
<1> DEFINE t == iget(s, ino)
<1>0. ino \in 0..NInodes
  BY NameableFacts
<1>1. CASE t = Fails(s, "segv")
  BY <1>1, FailsGood
<1>2. ASSUME NEW slot \in Slots, slot \in Cached(s.tab, ino),
             t = Returns([s EXCEPT !.tab[slot] = Shared(s.tab[slot])], slot)
      PROVE  Good(t) /\ t.ret \in Slots /\ t.disk = s.disk
  <2> DEFINE m == Shared(s.tab[slot])
             u == [s EXCEPT !.tab[slot] = m]
  <2>1. s.tab[slot] \in Minodes /\ GoodMinode(s.disk, s.tab[slot])
    BY StateFacts
  <2>2. m \in Minodes /\ m.ino = s.tab[slot].ino /\ m.data = s.tab[slot].data
    BY <2>1 DEF Shared, Minodes
  <2>3. t = Returns(u, slot) /\ slot \in Int
    BY <1>2, SizesFacts
  <2> HIDE DEF m, t
  <2>4. GoodMinode(s.disk, m)
    BY <2>1, <2>2 DEF GoodMinode
  <2>5. Good(u) /\ u.disk = s.disk
    BY <2>2, <2>4, TabGood
  <2> HIDE DEF u
  <2> QED BY <2>3, <2>5, ReturnsGood
<1>3. ASSUME NEW slot \in Slots, NEW data \in InodeRecs,
             ino # 0 => data = s.disk.itab[ino],
             t = Returns([s EXCEPT !.tab[slot] = Loaded(ino, data)], slot)
      PROVE  Good(t) /\ t.ret \in Slots /\ t.disk = s.disk
  <2> DEFINE m == Loaded(ino, data)
             u == [s EXCEPT !.tab[slot] = m]
  <2>1. m \in Minodes /\ m.ino = ino /\ m.data = data
    BY <1>0 DEF Loaded, Minodes
  <2>2. t = Returns(u, slot) /\ slot \in Int
    BY <1>3, SizesFacts
  <2> HIDE DEF m, t
  <2>3. GoodMinode(s.disk, m)
    BY <1>3, <2>1 DEF GoodMinode, Nameable, Written
  <2>4. Good(u) /\ u.disk = s.disk
    BY <2>1, <2>3, TabGood
  <2> HIDE DEF u
  <2> QED BY <2>2, <2>4, ReturnsGood
<1> HIDE DEF t
<1>4. Fails(s, "segv").status # "ok"
  BY FailsGood
<1>5. Fetches(s, ino, t)
  BY <1>0, igetCases DEF t
<1>6. Good(t) /\ (t.status = "ok" => t.ret \in Slots /\ t.disk = s.disk)
  <2>1. CASE t = Fails(s, "segv")
    BY <1>1, <1>4, <2>1 DEF t
  <2>2. CASE \E slot \in Slots :
               /\ slot \in Cached(s.tab, ino)
               /\ t = Returns([s EXCEPT !.tab[slot] = Shared(s.tab[slot])], slot)
    BY <1>2, <2>2
  <2>3. CASE \E slot \in Slots, data \in InodeRecs :
               /\ ~InUse(s.tab[slot])
               /\ IF ino = 0 THEN data = JunkInode ELSE data = s.disk.itab[ino]
               /\ t = Returns([s EXCEPT !.tab[slot] = Loaded(ino, data)], slot)
    <3>1. PICK slot \in Slots, data \in InodeRecs :
               /\ IF ino = 0 THEN data = JunkInode ELSE data = s.disk.itab[ino]
               /\ t = Returns([s EXCEPT !.tab[slot] = Loaded(ino, data)], slot)
      BY <2>3
    <3>2. ino # 0 => data = s.disk.itab[ino]
      BY <3>1
    <3> QED BY <1>3, <3>1, <3>2
  <2> QED BY <1>5, <2>1, <2>2, <2>3 DEF Fetches
<1> QED BY <1>6 DEF t

LEMMA WalkEnd ==
  ASSUME NEW b \in Block
  PROVE  Walk(b).end # "end" => Walk(b).end \in {"hang", "segv", "wild"}
BY WalkSound DEF IsWalk, Ends

(* What a directory's blocks say is an inode that a record names, or 0.    *)
LEMMA searchGood ==
  ASSUME NEW s, Good(s), NEW slot \in Slots, NEW name
  PROVE  /\ Good(search(s, slot, name))
         /\ search(s, slot, name).status = "ok" =>
              /\ search(s, slot, name).ret \in Nameable(s.disk)
              /\ search(s, slot, name).disk = s.disk
              /\ search(s, slot, name).mip = s.mip
<1> DEFINE inode == INode(s, slot)
           hits == {i \in 1..NDirect : Match(DataBlock(s, inode, i), name) # NotFound}
           ends == hits \cup Stops(s, inode)
           i == Lowest(ends)
           b == DataBlock(s, inode, i)
           t == search(s, slot, name)
<1>1. t = IF ends = {} \/ inode.block[i] = 0 THEN Returns(s, 0)
          ELSE IF i \in hits THEN Returns(s, b[Match(b, name)].ino)
          ELSE Fails(s, Walk(b).end)
  BY DEF search
<1>2. ends \subseteq 1..NDirect /\ 1..NDirect \subseteq Nat
  BY SizesFacts DEF Stops
<1>3. 0 \in Nameable(s.disk) /\ Nameable(s.disk) \subseteq Int /\ 0 \in Int
  BY NameableFacts, SizesFacts
<1> HIDE DEF t
<1>4. CASE ends = {} \/ inode.block[i] = 0
  <2>1. t = Returns(s, 0)
    BY <1>1, <1>4
  <2>2. /\ Good(Returns(s, 0)) /\ Returns(s, 0).ret = 0
        /\ Returns(s, 0).disk = s.disk /\ Returns(s, 0).mip = s.mip
    BY <1>3, ReturnsGood
  <2> QED BY <1>3, <2>1, <2>2 DEF t
<1>5. CASE ends # {} /\ inode.block[i] # 0
  <2>1. i \in ends
    <3> HIDE DEF ends
    <3> QED BY <1>2, <1>5, LowestIn
  <2>2. i \in 1..NDirect /\ inode.block[i] \in Blocks
    BY <1>2, <2>1, StateFacts, SizesFacts
  <2>3. b \in Block /\ \A o \in Words : b[o].ino \in Nameable(s.disk)
    BY <2>2, StateFacts DEF DataBlock
  <2>4. CASE i \in hits
    <3>1. Match(b, name) # NotFound
      BY <2>4
    <3> DEFINE r == b[Match(b, name)].ino
    <3>2. t = Returns(s, r)
      BY <1>1, <1>5, <2>4
    <3> HIDE DEF b
    <3>3. r \in Nameable(s.disk) /\ r \in Int
      BY <1>3, <2>3, <3>1, MatchInside
    <3> HIDE DEF r
    <3> QED BY <3>2, <3>3, ReturnsGood DEF t
  <2>5. CASE i \notin hits
    <3>1. i \in Stops(s, inode)
      BY <2>1, <2>5
    <3>2. Walk(b).end # "end"
      BY <1>5, <3>1 DEF Stops
    <3>3. t = Fails(s, Walk(b).end)
      BY <1>1, <1>5, <2>5
    <3> HIDE DEF b
    <3>4. Walk(b).end \in {"hang", "segv", "wild"}
      BY <2>3, <3>2, WalkEnd
    <3> QED BY <3>3, <3>4, FailsGood DEF t
  <2> QED BY <2>4, <2>5
<1> QED BY <1>4, <1>5

-----------------------------------------------------------------------------
(* Paths.                                                                  *)

AnyPaths == {p \in [abs : BOOLEAN, names : Seq(EntryNames)] : p # NoPath}

LEMMA NamedPaths ==
  ASSUME NEW p \in Paths, p # NoPath
  PROVE  p \in AnyPaths
<1>1. STRING \subseteq EntryNames
  BY DEF EntryNames
<1>2. p.names \in Seq(STRING) /\ p \in [abs : BOOLEAN, names : Seq(STRING)]
  BY DEF Paths
<1>3. p.names \in Seq(EntryNames)
  BY <1>1, <1>2, SeqMonotonic
<1> QED BY <1>2, <1>3 DEF AnyPaths

Found(s) == Good(s) /\ (s.status = "ok" => s.ret \in Nameable(s.disk))
Got(s) == Good(s) /\ (s.status = "ok" => s.ret \in Slots)

LEMMA enterGood ==
  ASSUME NEW s, Good(s), NEW name
  PROVE  Found(enter(s, name))
<1> DEFINE t == enter(s, name)
           u == search(s, s.mip, name)
           v == iget(u, u.ret)
<1>1. s.mip \in Slots /\ s.ret \in Int /\ 0 \in Nameable(s.disk) /\ 0 \in Int
  BY StateFacts, NameableFacts, SizesFacts
<1>2. CASE s.status # "ok" \/ s.ret = 0
  <2>1. t = s
    BY <1>2 DEF enter
  <2> QED BY <1>1, <1>2, <2>1 DEF Found
<1>3. CASE s.status = "ok" /\ s.ret # 0 /\ Mode(s, s.mip) # "dir"
  <2> DEFINE w == iput(s, s.mip)
  <2>1. t = Returns(w, 0)
    BY <1>3 DEF enter
  <2>2. Good(w)
    BY <1>1, iputGood
  <2> HIDE DEF w
  <2>3. Good(Returns(w, 0)) /\ Returns(w, 0).ret = 0
    BY <1>1, <2>2, ReturnsGood
  <2> QED BY <2>1, <2>3, NameableFacts DEF Found
<1>4. CASE s.status = "ok" /\ s.ret # 0 /\ Mode(s, s.mip) = "dir"
  <2>1. Good(u) /\ (u.status = "ok" => u.ret \in Nameable(u.disk))
    BY <1>1, searchGood
  <2>2. t = IF u.status # "ok" \/ u.ret = 0 THEN u
            ELSE IF v.status # "ok" THEN v
            ELSE [v EXCEPT !.mip = v.ret, !.ret = u.ret]
    BY <1>4 DEF enter, Then
  <2>3. CASE u.status # "ok" \/ u.ret = 0
    BY <2>1, <2>2, <2>3 DEF Found
  <2>4. CASE u.status = "ok" /\ u.ret # 0
    <3> HIDE DEF u, t
    <3>1. Good(v) /\ (v.status = "ok" => v.ret \in Slots /\ v.disk = u.disk)
      BY <2>1, <2>4, igetGood
    <3> HIDE DEF v
    <3>2. CASE v.status # "ok"
      <4>1. t = v
        BY <2>2, <2>4, <3>2
      <4> QED BY <3>1, <3>2, <4>1 DEF Found, t
    <3>3. CASE v.status = "ok"
      <4> DEFINE w == [v EXCEPT !.mip = v.ret]
      <4>1. t = [v EXCEPT !.mip = v.ret, !.ret = u.ret]
        BY <2>2, <2>4, <3>3
      <4>2. v \in States /\ u.ret \in Int
        BY <2>1, <3>1, StateFacts
      <4>3. t = Returns(w, u.ret)
        BY <4>1, <4>2 DEF Returns, States
      <4>4. Good(w) /\ w.disk = v.disk
        BY <3>1, <3>3, WalksGood
      <4> HIDE DEF w
      <4>5. Good(Returns(w, u.ret)) /\ Returns(w, u.ret).ret = u.ret
            /\ Returns(w, u.ret).disk = w.disk
        BY <4>2, <4>4, ReturnsGood
      <4>6. u.ret \in Nameable(w.disk)
        BY <2>1, <2>4, <3>1, <3>3, <4>4
      <4> QED BY <4>3, <4>5, <4>6 DEF Found, t
    <3> QED BY <3>2, <3>3
  <2> QED BY <2>3, <2>4
<1> QED BY <1>2, <1>3, <1>4

EnterName(p, t, i) == enter(t, p.names[i])
Entering(p, t, i) == Good(t) /\ (i # 0 => Found(t))

EnterLoop == INSTANCE Loops WITH Pass <- EnterName, Keeps <- Entering

LEMMA getinoGood ==
  ASSUME NEW s, Good(s), NEW p \in AnyPaths
  PROVE  Found(getino(s, p))
<1>1. CASE p = Slash
  <2>1. getino(s, p) = Returns(s, Root) /\ Root \in Int
    BY <1>1, SizesFacts DEF getino, Inos
  <2>2. /\ Good(Returns(s, Root)) /\ Returns(s, Root).ret = Root
        /\ Returns(s, Root).disk = s.disk
    BY <2>1, ReturnsGood
  <2>3. Root \in Nameable(s.disk)
    BY StateFacts DEF GoodDisk
  <2> QED BY <2>1, <2>2, <2>3 DEF Found
<1>2. CASE p # Slash
  <2> DEFINE start == [s EXCEPT !.mip = IF p.abs THEN RootSlot ELSE s.cwd, !.ret = -1]
             slot == IF p.abs THEN RootSlot ELSE s.cwd
             walk == [s EXCEPT !.mip = slot]
  <2>1. getino(s, p) = EnterLoop!After(p, start, Len(p.names))
    BY <1>2 DEF getino, Loop, EnterLoop!After, EnterName
  <2>2. slot \in Slots /\ s \in States
    BY StateFacts, SizesFacts
  <2>3. start = Returns(walk, -1) /\ -1 \in Int
    <3>1. start = [s EXCEPT !.mip = slot, !.ret = -1]
      OBVIOUS
    <3> HIDE DEF slot, start
    <3> QED BY <2>2, <3>1 DEF Returns, States
  <2> HIDE DEF slot, start
  <2>4. Good(walk)
    BY <2>2, WalksGood
  <2> HIDE DEF walk
  <2>5. Good(start)
    BY <2>3, <2>4, ReturnsGood
  <2>6. Len(p.names) \in Nat \ {0}
    <3>1. p.names # <<>>
      <4>1. p = [abs |-> p.abs, names |-> p.names] /\ p.abs \in BOOLEAN /\ p # NoPath
        BY DEF AnyPaths
      <4> QED BY <1>2, <4>1 DEF Slash, NoPath
    <3>2. p.names \in Seq(EntryNames)
      BY DEF AnyPaths
    <3> QED BY <3>1, <3>2
  <2>7. Entering(p, start, 0)
    BY <2>5 DEF Entering
  <2>8. ASSUME NEW i \in 1..Len(p.names), NEW t, Entering(p, t, i - 1)
        PROVE  Entering(p, EnterName(p, t, i), i)
    BY <2>8, enterGood DEF Entering, EnterName, Found
  <2>9. Entering(p, EnterLoop!After(p, start, Len(p.names)), Len(p.names))
    BY <2>6, <2>7, <2>8, NatSet, EnterLoop!LoopKeeps
  <2> QED BY <2>1, <2>6, <2>9 DEF Entering
<1> QED BY <1>1, <1>2

LEMMA getMinodeGood ==
  ASSUME NEW s, Good(s), NEW p \in AnyPaths
  PROVE  Got(getMinode(s, p))
<1> DEFINE t == getino(s, p)
<1>1. Good(t) /\ (t.status = "ok" => t.ret \in Nameable(t.disk))
  BY getinoGood DEF Found
<1>2. getMinode(s, p) = IF t.status = "ok" THEN iget(t, t.ret) ELSE t
  BY DEF getMinode, Then
<1> HIDE DEF t
<1>3. t.status = "ok" => Got(iget(t, t.ret))
  BY <1>1, igetGood DEF Got
<1> QED BY <1>1, <1>2, <1>3 DEF Got

(* What a command's name is looked up in.                                  *)
LEMMA dirnameFacts ==
  ASSUME NEW p \in Paths, p.names # <<>>
  PROVE  dirname(p) \in AnyPaths /\ basename(p) \in EntryNames
<1> DEFINE q == p.names
<1>1. q \in Seq(STRING) /\ p.abs \in BOOLEAN
  BY DEF Paths
<1>2. Len(q) \in Nat /\ Len(q) >= 1 /\ Len(q) \in 1..Len(q)
  BY <1>1
<1>3. basename(p) \in EntryNames
  BY <1>1, <1>2 DEF basename, EntryNames
<1>4. CASE Len(q) = 1 /\ ~p.abs
  <2>1. dirname(p) = Dot
    BY <1>4 DEF dirname
  <2>2. Dot \in [abs : BOOLEAN, names : Seq(EntryNames)]
    <3>1. "." \in EntryNames
      BY DEF EntryNames
    <3>2. <<".">> \in Seq(EntryNames)
      BY <3>1
    <3> QED BY <3>2 DEF Dot
  <2>3. Dot # NoPath
    <3>1. Len(<<".">>) = 1 /\ Len(<<>>) = 0
      OBVIOUS
    <3>2. <<".">> # <<>>
      BY <3>1
    <3> QED BY <3>2 DEF Dot, NoPath
  <2> QED BY <1>3, <2>1, <2>2, <2>3 DEF AnyPaths
<1>5. CASE ~(Len(q) = 1 /\ ~p.abs)
  <2> DEFINE f == Front(q)
  <2>1. dirname(p) = [p EXCEPT !.names = f]
    BY <1>5 DEF dirname, Paths
  <2>2. f \in Seq(STRING) /\ Len(f) = Len(q) - 1
    BY <1>1, <1>2 DEF Front
  <2> HIDE DEF f
  <2>3. dirname(p) \in Paths /\ dirname(p).abs = p.abs /\ dirname(p).names = f
    BY <2>1, <2>2 DEF Paths
  <2>4. dirname(p) # NoPath
    <3>1. CASE p.abs
      <4>1. NoPath.abs = FALSE
        BY DEF NoPath
      <4>2. p.abs = TRUE
        BY <1>1, <3>1
      <4> QED BY <2>3, <4>1, <4>2
    <3>2. CASE ~p.abs
      <4>1. Len(f) # 0 /\ Len(<<>>) = 0
        BY <1>2, <1>5, <2>2, <3>2
      <4>2. f # <<>>
        BY <4>1
      <4> QED BY <2>3, <4>2 DEF NoPath
    <3> QED BY <3>1, <3>2
  <2> QED BY <1>3, <2>3, <2>4, NamedPaths
<1> QED BY <1>4, <1>5

-----------------------------------------------------------------------------
(* What the commands do to a minode and to a directory.                    *)

LEMMA MinodeDataGood ==
  ASSUME NEW s, Good(s), NEW slot \in Slots, NEW inode \in InodeRecs, NEW dirty \in BOOLEAN,
         inode.mode = "free" => Mode(s, slot) = "free"
  PROVE  LET m == [ref |-> s.tab[slot].ref, ino |-> s.tab[slot].ino,
                   dirty |-> dirty, data |-> inode]
         IN  /\ Good([s EXCEPT !.tab[slot] = m])
             /\ [s EXCEPT !.tab[slot] = m].disk = s.disk
             /\ [s EXCEPT !.tab[slot] = m].status = s.status
             /\ [s EXCEPT !.tab[slot] = m].ret = s.ret
<1> DEFINE m == [ref |-> s.tab[slot].ref, ino |-> s.tab[slot].ino,
                 dirty |-> dirty, data |-> inode]
<1>1. s.tab[slot] \in Minodes /\ GoodMinode(s.disk, s.tab[slot])
      /\ Mode(s, slot) = s.tab[slot].data.mode
  BY StateFacts
<1>2. m \in Minodes /\ m.ino = s.tab[slot].ino /\ m.data = inode
  BY <1>1 DEF Minodes
<1> HIDE DEF m
<1>3. GoodMinode(s.disk, m)
  BY <1>1, <1>2 DEF GoodMinode
<1>4. /\ Good([s EXCEPT !.tab[slot] = m]) /\ [s EXCEPT !.tab[slot] = m].disk = s.disk
      /\ [s EXCEPT !.tab[slot] = m].status = s.status
      /\ [s EXCEPT !.tab[slot] = m].ret = s.ret
  BY <1>2, <1>3, TabGood
<1> QED BY <1>4 DEF m

LEMMA SameMinode ==
  ASSUME NEW x \in Minodes, NEW y \in Minodes,
         x.ref = y.ref, x.ino = y.ino, x.dirty = y.dirty, x.data = y.data
  PROVE  x = y
BY DEF Minodes

LEMMA SetINodeGood ==
  ASSUME NEW s, Good(s), NEW slot \in Slots, NEW inode \in InodeRecs, inode.mode # "free"
  PROVE  Good(SetINode(s, slot, inode)) /\ SetINode(s, slot, inode).ret = s.ret
<1> DEFINE m == [ref |-> s.tab[slot].ref, ino |-> s.tab[slot].ino,
                 dirty |-> TRUE, data |-> inode]
<1>1. s \in States
  BY StateFacts
<1>2. s.tab[slot] \in Minodes
  BY StateFacts
<1>3. [s.tab[slot] EXCEPT !.data = inode, !.dirty = TRUE] = m
  <2> DEFINE x == s.tab[slot]
             y == [x EXCEPT !.data = inode]
             z == [y EXCEPT !.dirty = TRUE]
  <2>1. y \in Minodes /\ y.ref = x.ref /\ y.ino = x.ino /\ y.data = inode
    BY <1>2 DEF Minodes
  <2> HIDE DEF y
  <2>2. z \in Minodes /\ z.ref = x.ref /\ z.ino = x.ino /\ z.data = inode /\ z.dirty = TRUE
    BY <2>1 DEF Minodes
  <2> HIDE DEF z
  <2>3. m \in Minodes /\ m.ref = x.ref /\ m.ino = x.ino /\ m.data = inode /\ m.dirty = TRUE
    BY <1>2 DEF Minodes
  <2> HIDE DEF m, x
  <2>4. z = m
    BY <2>2, <2>3, SameMinode
  <2> QED BY <2>4 DEF x, y, z
<1>4. SetINode(s, slot, inode) = [s EXCEPT !.tab[slot] = m]
  BY <1>3 DEF SetINode
<1>5. Good([s EXCEPT !.tab[slot] = m]) /\ [s EXCEPT !.tab[slot] = m].ret = s.ret
  <2>1. inode.mode = "free" => Mode(s, slot) = "free"
    OBVIOUS
  <2> QED BY <2>1, MinodeDataGood
<1> HIDE DEF m
<1> QED BY <1>4, <1>5

LEMMA DataGood ==
  ASSUME NEW s, Good(s), NEW slot \in Slots, NEW inode \in InodeRecs,
         inode.mode = Mode(s, slot)
  PROVE  /\ Good([s EXCEPT !.tab[slot].data = inode])
         /\ [s EXCEPT !.tab[slot].data = inode].disk = s.disk
         /\ [s EXCEPT !.tab[slot].data = inode].status = s.status
         /\ [s EXCEPT !.tab[slot].data = inode].ret = s.ret
<1> DEFINE m == [ref |-> s.tab[slot].ref, ino |-> s.tab[slot].ino,
                 dirty |-> s.tab[slot].dirty, data |-> inode]
<1>1. s \in States /\ s.tab[slot] \in Minodes /\ s.tab[slot].dirty \in BOOLEAN
  BY StateFacts DEF Minodes
<1>2. [s EXCEPT !.tab[slot].data = inode] = [s EXCEPT !.tab[slot] = m]
  <2>1. [s.tab[slot] EXCEPT !.data = inode] = m
    BY <1>1 DEF Minodes
  <2> HIDE DEF m
  <2> QED BY <2>1
<1> HIDE DEF m
<1>3. /\ Good([s EXCEPT !.tab[slot] = m]) /\ [s EXCEPT !.tab[slot] = m].disk = s.disk
      /\ [s EXCEPT !.tab[slot] = m].status = s.status
      /\ [s EXCEPT !.tab[slot] = m].ret = s.ret
  BY <1>1, MinodeDataGood DEF m
<1> QED BY <1>2, <1>3

LEMMA LinksGood ==
  ASSUME NEW s, Good(s), NEW slot \in Slots, NEW n \in 0..LinkModulus-1
  PROVE  /\ Good([s EXCEPT !.tab[slot].data.links = n])
         /\ [s EXCEPT !.tab[slot].data.links = n].disk = s.disk
         /\ [s EXCEPT !.tab[slot].data.links = n].status = s.status
         /\ [s EXCEPT !.tab[slot].data.links = n].ret = s.ret
<1> DEFINE inode == [s.tab[slot].data EXCEPT !.links = n]
<1>1. s.tab[slot].data \in InodeRecs /\ Mode(s, slot) = s.tab[slot].data.mode
  BY StateFacts DEF Minodes
<1>2. inode \in InodeRecs /\ inode.mode = Mode(s, slot)
  BY <1>1 DEF InodeRecs
<1>3. [s EXCEPT !.tab[slot].data.links = n] = [s EXCEPT !.tab[slot].data = inode]
  OBVIOUS
<1> HIDE DEF inode
<1> QED BY <1>2, <1>3, DataGood

LEMMA BlockGood ==
  ASSUME NEW s, Good(s), NEW slot \in Slots, NEW k \in 1..NDirect+1, NEW bno \in Blocks
  PROVE  /\ Good([s EXCEPT !.tab[slot].data.block[k] = bno])
         /\ [s EXCEPT !.tab[slot].data.block[k] = bno].disk = s.disk
<1> DEFINE inode == [s.tab[slot].data EXCEPT !.block[k] = bno]
<1>1. s.tab[slot].data \in InodeRecs /\ Mode(s, slot) = s.tab[slot].data.mode
  BY StateFacts DEF Minodes
<1>2. inode \in InodeRecs /\ inode.mode = Mode(s, slot)
  BY <1>1 DEF InodeRecs
<1>3. [s EXCEPT !.tab[slot].data.block[k] = bno] = [s EXCEPT !.tab[slot].data = inode]
  OBVIOUS
<1> HIDE DEF inode
<1> QED BY <1>2, <1>3, DataGood

(* A new inode is named nowhere until its minode is put: the bit that      *)
(* ialloc sets comes first, the inode next, and its record last.           *)
LEMMA newInodeGood ==
  ASSUME NEW s, Good(s), s.status = "ok", NEW mode \in {"dir", "file"}, NEW links \in 0..LinkModulus-1
  PROVE  Got(newInode(s, mode, links))
<1> DEFINE i == ialloc(s)
           b == balloc(i)
           ino == i.ret
           inode == Inode(mode, links, b.ret)
           t == iget(b, ino)
           w == SetINode(t, t.ret, inode)
<1>1. newInode(s, mode, links) = IF t.status = "ok" THEN iput(w, t.ret) ELSE t
  BY DEF newInode, Then
<1>2. /\ Good(i) /\ ino \in 0..NInodes /\ Nameable(s.disk) \subseteq Nameable(i.disk)
      /\ ino # 0 => ino - 1 \in i.disk.imap
      /\ i.status = "ok"
  BY iallocGood
<1> HIDE DEF i
<1>3. /\ Good(b) /\ b.ret \in Blocks /\ Nameable(b.disk) = Nameable(i.disk)
      /\ b.disk.imap = i.disk.imap /\ b.status = "ok"
  BY <1>2, ballocGood
<1> HIDE DEF b, ino
<1>4. inode \in InodeRecs /\ inode.mode = mode /\ mode # "free"
  BY <1>3, SizesFacts DEF Inode, NoBlocks, InodeRecs, ModeSet
<1> HIDE DEF inode
<1>5. CASE ino \in Nameable(b.disk)
  <2>1. Good(t) /\ (t.status = "ok" => t.ret \in Slots)
    BY <1>3, <1>5, igetGood
  <2> HIDE DEF t
  <2>2. t.status = "ok" => Good(w) /\ w.ret = t.ret
    BY <1>4, <2>1, SetINodeGood
  <2> HIDE DEF w
  <2>3. t.status = "ok" => Good(iput(w, t.ret)) /\ iput(w, t.ret).ret = t.ret
    BY <2>1, <2>2, iputGood
  <2> QED BY <1>1, <2>1, <2>3 DEF Got
<1>6. CASE ino \notin Nameable(b.disk)
  <2>1. Kept /\ ino \in Inos
    BY <1>2, <1>6, SizesFacts DEF Nameable, Inos
  <2>2. Cached(b.tab, ino) = {}
    <3>1. b.tab \in [Slots -> Minodes] /\ \A k \in Slots : b.tab[k].ino \in Nameable(b.disk)
      BY <1>3, StateFacts DEF States
    <3> QED BY <1>6, <3>1 DEF Cached
  <2>3. \/ t = Fails(b, "segv")
        \/ \E slot \in Slots, data \in InodeRecs :
             t = Returns([b EXCEPT !.tab[slot] = Loaded(ino, data)], slot)
    <3>1. Fetches(b, ino, t)
      BY <1>2, <1>3, igetCases
    <3> HIDE DEF t
    <3> QED BY <2>2, <3>1 DEF Fetches
  <2>4. CASE t = Fails(b, "segv")
    <3>1. Good(t) /\ t.status # "ok"
      BY <1>3, <2>4, FailsGood
    <3> QED BY <1>1, <3>1 DEF Got
  <2>5. ASSUME NEW slot \in Slots, NEW data \in InodeRecs,
               t = Returns([b EXCEPT !.tab[slot] = Loaded(ino, data)], slot)
        PROVE  Got(newInode(s, mode, links))
    <3> DEFINE m == [ref |-> 1, ino |-> ino, dirty |-> TRUE, data |-> inode]
               r == [ref |-> 0, ino |-> ino, dirty |-> TRUE, data |-> inode]
               d == [b.disk EXCEPT !.itab[ino] = inode]
               e == [w EXCEPT !.tab[slot] = Released(w.tab[slot])]
               f == iput(w, t.ret)
    <3>0. b \in States /\ slot \in Int /\ b.tab \in [Slots -> Minodes]
      BY <1>3, StateFacts, SizesFacts DEF States
    <3>1. /\ t \in States /\ t.disk = b.disk /\ t.imgs = b.imgs /\ t.ret = slot
          /\ t.tab = [b.tab EXCEPT ![slot] = Loaded(ino, data)] /\ t.status = b.status
      <4>1. Loaded(ino, data) \in Minodes
        BY <1>2 DEF Loaded, Minodes
      <4> HIDE DEF t
      <4> QED BY <2>5, <3>0, <4>1 DEF Returns, States
    <3> HIDE DEF t
    <3>2. t.tab[slot] = Loaded(ino, data)
      BY <3>0, <3>1
    <3>3. m \in Minodes /\ r \in Minodes
      BY <1>2, <1>4 DEF Minodes
    <3>4. /\ w \in States /\ w.disk = b.disk /\ w.imgs = b.imgs /\ w.ret = slot
          /\ w.tab = [b.tab EXCEPT ![slot] = m]
      <4>1. w = [t EXCEPT !.tab[slot] = m]
        <5>1. t.tab \in [Slots -> Minodes] /\ t.tab[slot] \in Minodes
          BY <3>1 DEF States
        <5> HIDE DEF inode
        <5> QED BY <3>1, <3>2, <5>1 DEF SetINode, States, Minodes, Loaded
      <4> HIDE DEF w, m
      <4>2. w \in States /\ w.disk = t.disk /\ w.imgs = t.imgs /\ w.ret = t.ret
            /\ w.tab = [t.tab EXCEPT ![slot] = m]
        BY <3>1, <3>3, <4>1 DEF States
      <4>3. [t.tab EXCEPT ![slot] = m] = [b.tab EXCEPT ![slot] = m]
        BY <3>0, <3>1
      <4> QED BY <3>1, <4>2, <4>3
    <3> HIDE DEF w
    <3>5. w.tab[slot] = m
      BY <3>0, <3>4
    <3>6. WritesBack(w.tab[slot]) /\ Released(w.tab[slot]) = r
      <4>1. m.ref = 1 /\ m.dirty = TRUE
        OBVIOUS
      <4>2. WritesBack(m)
        BY <4>1 DEF WritesBack
      <4>3. [m EXCEPT !.ref = 0] = r
        <5> DEFINE n == [m EXCEPT !.ref = 0]
        <5>1. m.ino = ino /\ m.data = inode
          OBVIOUS
        <5>2. r.ref = 0 /\ r.ino = ino /\ r.data = inode /\ r.dirty = TRUE
          OBVIOUS
        <5> HIDE DEF m, r
        <5>3. n \in Minodes /\ n.ref = 0 /\ n.ino = m.ino /\ n.data = m.data /\ n.dirty = m.dirty
          BY <3>3 DEF Minodes
        <5> HIDE DEF n
        <5>4. n = r
          BY <3>3, <4>1, <5>1, <5>2, <5>3, SameMinode
        <5> QED BY <5>4 DEF n
      <4>4. Released(m) = r
        BY <4>2, <4>3 DEF Released
      <4> QED BY <3>5, <4>2, <4>4
    <3>7. f = PutBlock(e, d)
      <4>1. ino # 0 /\ w.tab[slot].ino = ino /\ w.tab[slot].data = inode
        BY <2>1, <3>5, SizesFacts DEF Inos
      <4>2. e.disk = b.disk
        BY <3>4 DEF States
      <4> HIDE DEF e
      <4>3. f = PutBlock(e, [e.disk EXCEPT !.itab[ino] = inode])
        BY <3>1, <3>6, <4>1 DEF iput, e
      <4> QED BY <4>2, <4>3
    <3> HIDE DEF f, m, r
    <3>8. /\ e \in States /\ e.disk = b.disk /\ e.imgs = b.imgs /\ e.ret = slot
          /\ \A k \in Slots : e.tab[k] = IF k = slot THEN r ELSE b.tab[k]
      <4>1. e = [w EXCEPT !.tab[slot] = r]
        BY <3>6
      <4> HIDE DEF e
      <4> QED BY <3>0, <3>3, <3>4, <4>1 DEF States
    <3> HIDE DEF e
    <3>9. GoodDisk(d) /\ Nameable(b.disk) \subseteq Nameable(d) /\ ino \in Nameable(d)
      <4>1. GoodDisk(b.disk) /\ ino - 1 \in b.disk.imap
        BY <1>2, <1>3, <2>1, StateFacts, SizesFacts DEF Inos
      <4> QED BY <1>4, <2>1, <4>1, ItabGood
    <3> HIDE DEF d
    <3>10. /\ f \in States /\ f.disk = d /\ f.imgs = b.imgs \cup {d} /\ f.tab = e.tab
           /\ f.ret = slot
      <4>1. d \in Disks
        BY <3>9 DEF GoodDisk
      <4> QED BY <3>7, <3>8, <4>1 DEF PutBlock, States
    <3>11. \A k \in Slots : GoodMinode(d, e.tab[k])
      <4>1. \A k \in Slots : GoodMinode(b.disk, b.tab[k])
        BY <1>3 DEF Good
      <4>2. GoodMinode(d, r)
        BY <1>4, <3>9 DEF GoodMinode, r
      <4>3. \A k \in Slots : GoodMinode(d, b.tab[k])
        BY <3>9, <4>1 DEF GoodMinode
      <4> QED BY <3>8, <4>2, <4>3
    <3>12. Good(f)
      BY <1>3, <3>9, <3>10, <3>11 DEF Good
    <3>13. newInode(s, mode, links) = f
      BY <1>1, <1>3, <3>1 DEF f
    <3> QED BY <3>10, <3>12, <3>13 DEF Got
  <2> QED BY <2>3, <2>4, <2>5
<1> QED BY <1>5, <1>6

(* enter_name: x.name for inode x.ino in directory x.pip.                  *)
EnterPass(x, t, i) == enterBlock(t, x.pip, x.ino, x.name, i)
EnterKeeps(x, t, i) == Good(t) /\ x.ino \in Nameable(t.disk)

NameLoop == INSTANCE Loops WITH Pass <- EnterPass, Keeps <- EnterKeeps

LEMMA enterBlockGood ==
  ASSUME NEW t, Good(t), NEW pip \in Slots, NEW ino \in Nameable(t.disk),
         NEW name \in EntryNames, NEW i \in 1..NDirect
  PROVE  /\ Good(enterBlock(t, pip, ino, name, i))
         /\ ino \in Nameable(enterBlock(t, pip, ino, name, i).disk)
<1> DEFINE bno == INode(t, pip).block[i]
           b == t.disk.blk[bno]
           r == enterBlock(t, pip, ino, name, i)
<1>1. /\ bno \in Blocks /\ b \in Block /\ Refer(b, Nameable(t.disk))
      /\ 0 \in Nameable(t.disk) /\ ino \in 0..NInodes
  <2>1. i \in 1..NDirect+1
    BY SizesFacts
  <2>2. bno \in Blocks
    BY <2>1, StateFacts
  <2> HIDE DEF bno
  <2> QED BY <2>2, StateFacts, NameableFacts
<1>2. CASE t.status # "ok" \/ t.ret = 1
  <2>1. r = t
    BY <1>2 DEF enterBlock
  <2> QED BY <2>1
<1>3. CASE t.status = "ok" /\ t.ret # 1 /\ bno = 0
  <2>1. r = Returns(t, 1) /\ 1 \in Int
    BY <1>3 DEF enterBlock
  <2> HIDE DEF r
  <2>2. Good(r) /\ r.disk = t.disk
    BY <2>1, ReturnsGood
  <2> QED BY <2>2 DEF r
<1>4. CASE t.status = "ok" /\ t.ret # 1 /\ bno # 0 /\ Walk(b).end # "end"
  <2>1. r = Fails(t, Walk(b).end)
    BY <1>4 DEF enterBlock
  <2> HIDE DEF b
  <2>2. Walk(b).end \in {"hang", "segv", "wild"}
    BY <1>1, <1>4, WalkEnd
  <2>3. Good(r) /\ r.disk = t.disk
    <3>1. Good(Fails(t, Walk(b).end))
      BY <2>2, FailsGood
    <3>2. Fails(t, Walk(b).end).disk = t.disk
      BY StateFacts DEF Fails, States
    <3> QED BY <2>1, <3>1, <3>2
  <2> HIDE DEF r
  <2> QED BY <2>3 DEF r
<1>5. CASE t.status = "ok" /\ t.ret # 1 /\ bno # 0 /\ Walk(b).end = "end" /\ HasRoom(b)
  <2> DEFINE data == Append1(b, ino, name)
  <2>1. r = PutData(t, bno, data)
    BY <1>5 DEF enterBlock
  <2> HIDE DEF b
  <2>2. data \in Block /\ Refer(data, Nameable(t.disk))
    BY <1>1, <1>5, Append1Keeps
  <2> HIDE DEF data, bno, r
  <2>3. Good(r) /\ Nameable(r.disk) = Nameable(t.disk)
    BY <1>1, <2>1, <2>2, PutDataGood
  <2> QED BY <2>3 DEF r
<1>6. CASE t.status = "ok" /\ t.ret # 1 /\ bno # 0 /\ Walk(b).end = "end" /\ ~HasRoom(b)
  <2> DEFINE u == balloc(t)
             v == [u EXCEPT !.tab[pip].data.block[i + 1] = u.ret]
             data == OverflowBlock(v.disk.blk[u.ret], ino, name)
             w == PutData(v, bno, data)
  <2>1. r = Returns(w, 1) /\ 1 \in Int
    BY <1>6 DEF enterBlock
  <2>2. Good(u) /\ u.ret \in Blocks /\ Nameable(u.disk) = Nameable(t.disk)
    BY ballocGood
  <2>3. i + 1 \in 1..NDirect+1
    BY SizesFacts
  <2> HIDE DEF u
  <2>4. Good(v) /\ v.disk = u.disk
    BY <2>2, <2>3, BlockGood
  <2> HIDE DEF v
  <2>5. v.disk.blk[u.ret] \in Block /\ Refer(v.disk.blk[u.ret], Nameable(v.disk))
    BY <2>2, <2>4, StateFacts
  <2>6. 0 \in Nameable(v.disk) /\ ino \in Nameable(v.disk)
    BY <1>1, <2>2, <2>4
  <2>7. data \in Block /\ Refer(data, Nameable(v.disk))
    BY <1>1, <2>5, <2>6, OverflowBlockKeeps
  <2> HIDE DEF data, bno
  <2>8. Good(w) /\ Nameable(w.disk) = Nameable(v.disk)
    BY <1>1, <2>4, <2>7, PutDataGood
  <2> HIDE DEF w, r
  <2>9. Good(r) /\ r.disk = w.disk
    BY <2>1, <2>8, ReturnsGood
  <2> QED BY <2>6, <2>8, <2>9 DEF r
<1> QED BY <1>2, <1>3, <1>4, <1>5, <1>6

LEMMA enter_nameGood ==
  ASSUME NEW s, Good(s), NEW pip \in Slots, NEW ino \in Nameable(s.disk),
         NEW name \in EntryNames
  PROVE  Good(enter_name(s, pip, ino, name))
<1> DEFINE x == [pip |-> pip, ino |-> ino, name |-> name]
           start == Returns(s, 0)
<1>1. x.pip = pip /\ x.ino = ino /\ x.name = name /\ NDirect \in Nat /\ 0 \in Int
  BY SizesFacts
<1> HIDE DEF x
<1>2. enter_name(s, pip, ino, name) = NameLoop!After(x, start, NDirect)
  BY <1>1 DEF enter_name, Loop, NameLoop!After, EnterPass
<1>3. EnterKeeps(x, start, 0)
  BY <1>1, ReturnsGood DEF EnterKeeps
<1>4. ASSUME NEW i \in 1..NDirect, NEW t, EnterKeeps(x, t, i - 1)
      PROVE  EnterKeeps(x, EnterPass(x, t, i), i)
  BY <1>1, <1>4, enterBlockGood DEF EnterKeeps, EnterPass
<1> HIDE DEF start
<1>5. EnterKeeps(x, NameLoop!After(x, start, NDirect), NDirect)
  BY <1>1, <1>3, <1>4, NatSet, NameLoop!LoopKeeps
<1> QED BY <1>2, <1>5 DEF EnterKeeps

LEMMA mymkdirGood ==
  ASSUME NEW s, Good(s), s.status = "ok", NEW pip \in Slots, NEW name \in EntryNames
  PROVE  Good(mymkdir(s, pip, name))
<1> DEFINE t == newInode(s, "dir", 2)
           m == t.tab[t.ret]
           bno == m.data.block[1]
           data == DotBlock(t.disk.blk[bno], m.ino, t.tab[pip].ino)
           u == PutData(t, bno, data)
<1>1. mymkdir(s, pip, name) = IF t.status = "ok" THEN enter_name(u, pip, m.ino, name) ELSE t
  BY DEF mymkdir, Then
<1>2. Good(t) /\ (t.status = "ok" => t.ret \in Slots)
  <2>1. 2 \in 0..LinkModulus-1
    BY DEF LinkModulus
  <2> QED BY <2>1, newInodeGood DEF Got
<1> HIDE DEF t
<1>3. CASE t.status = "ok"
  <2>1. /\ bno \in Blocks /\ m.ino \in Nameable(t.disk) /\ t.tab[pip].ino \in Nameable(t.disk)
    <3>1. 1 \in 1..NDirect+1
      BY SizesFacts
    <3> QED BY <1>2, <1>3, <3>1, StateFacts
  <2> HIDE DEF m, bno
  <2>2. /\ t.disk.blk[bno] \in Block /\ Refer(t.disk.blk[bno], Nameable(t.disk))
        /\ 0 \in Nameable(t.disk)
        /\ m.ino \in 0..NInodes /\ t.tab[pip].ino \in 0..NInodes
    BY <1>2, <2>1, StateFacts, NameableFacts
  <2>3. data \in Block /\ Refer(data, Nameable(t.disk))
    BY <2>1, <2>2, DotBlockKeeps
  <2> HIDE DEF data
  <2>4. Good(u) /\ Nameable(u.disk) = Nameable(t.disk)
    BY <1>2, <2>1, <2>3, PutDataGood
  <2> HIDE DEF u
  <2>5. Good(enter_name(u, pip, m.ino, name))
    BY <2>1, <2>4, enter_nameGood
  <2> QED BY <1>1, <1>3, <2>5
<1> QED BY <1>1, <1>2, <1>3

LEMMA my_creatGood ==
  ASSUME NEW s, Good(s), s.status = "ok", NEW pip \in Slots, NEW name \in EntryNames
  PROVE  Good(my_creat(s, pip, name))
<1> DEFINE t == newInode(s, "file", 1)
           ino == t.tab[t.ret].ino
<1>1. my_creat(s, pip, name) = IF t.status = "ok" THEN enter_name(t, pip, ino, name) ELSE t
  BY DEF my_creat, Then
<1>2. Good(t) /\ (t.status = "ok" => t.ret \in Slots)
  <2>1. 1 \in 0..LinkModulus-1
    BY DEF LinkModulus
  <2> QED BY <2>1, newInodeGood DEF Got
<1> HIDE DEF t
<1>3. t.status = "ok" => ino \in Nameable(t.disk)
  BY <1>2, StateFacts
<1>4. t.status = "ok" => Good(enter_name(t, pip, ino, name))
  BY <1>2, <1>3, enter_nameGood
<1> QED BY <1>1, <1>2, <1>4

LEMMA ModRange ==
  ASSUME NEW m \in Nat, m > 2, NEW n \in Int
  PROVE  n % m \in 0..m-1
OBVIOUS

LEMMA LinksRange ==
  /\ \A n \in Int : Links(n) \in 0..LinkModulus-1
  /\ \A n \in 0..LinkModulus-1 : n \in Int
  /\ 1 \in 0..LinkModulus-1 /\ 2 \in 0..LinkModulus-1 /\ LinkModulus \in Int
<1>1. LinkModulus \in Nat /\ LinkModulus > 2
  BY DEF LinkModulus
<1>2. \A n \in Int : Links(n) \in 0..LinkModulus-1
  BY <1>1, ModRange DEF Links
<1>3. \A n \in 0..LinkModulus-1 : n \in Int
  BY <1>1
<1> QED BY <1>1, <1>2, <1>3

LEMMA newChildGood ==
  ASSUME NEW s, Good(s), NEW p \in Paths, p.names # <<>>, NEW mode \in {"dir", "file"}
  PROVE  Good(newChild(s, p, mode))
<1> DEFINE name == basename(p)
           t == getMinode(s, dirname(p))
           u == search(t, t.ret, name)
           v == IF mode = "dir" THEN mymkdir(u, t.ret, name) ELSE my_creat(u, t.ret, name)
           n == v.tab[t.ret].data.links
           links == IF mode = "dir" THEN Links(n + 1) ELSE 1
           w == [v EXCEPT !.tab[t.ret].data.links = links]
<1>1. newChild(s, p, mode) =
        IF t.status # "ok" \/ Mode(t, t.ret) # "dir" THEN t
        ELSE IF u.status # "ok" \/ u.ret # 0 THEN u
        ELSE IF v.status # "ok" THEN v
        ELSE iput(w, t.ret)
  BY DEF newChild, Then
<1>2. dirname(p) \in AnyPaths /\ name \in EntryNames
  BY dirnameFacts
<1>3. Good(t) /\ (t.status = "ok" => t.ret \in Slots)
  BY <1>2, getMinodeGood DEF Got
<1> HIDE DEF t, name
<1>4. t.status = "ok" => Good(u)
  BY <1>3, searchGood
<1> HIDE DEF u
<1>5. t.status = "ok" /\ u.status = "ok" => Good(v)
  BY <1>2, <1>3, <1>4, mymkdirGood, my_creatGood
<1> HIDE DEF v
<1>6. ASSUME t.status = "ok", Good(v) PROVE Good(iput(w, t.ret))
  <2>1. n \in Int
    <3>1. v.tab[t.ret].data \in InodeRecs
      BY <1>3, <1>6, StateFacts DEF Minodes
    <3>2. v.tab[t.ret].data.links \in 0..LinkModulus-1
      BY <3>1 DEF InodeRecs
    <3> QED BY <3>2, LinksRange
  <2>2. links \in 0..LinkModulus-1
    <3>1. 1 \in 0..LinkModulus-1 /\ n + 1 \in Int
      BY <2>1 DEF LinkModulus
    <3> HIDE DEF n
    <3> QED BY <3>1, LinksRange
  <2> HIDE DEF links
  <2>3. Good(w)
    BY <1>3, <1>6, <2>2, LinksGood
  <2> HIDE DEF w
  <2> QED BY <1>3, <1>6, <2>3, iputGood
<1> QED BY <1>1, <1>3, <1>4, <1>5, <1>6

LEMMA DirtyGood ==
  ASSUME NEW s, Good(s), NEW slot \in Slots
  PROVE  Good([s EXCEPT !.tab[slot].dirty = TRUE])
<1> DEFINE x == s.tab[slot]
           y == [x EXCEPT !.dirty = TRUE]
           m == [ref |-> x.ref, ino |-> x.ino, dirty |-> TRUE, data |-> x.data]
<1>1. x \in Minodes /\ x.data \in InodeRecs /\ Mode(s, slot) = x.data.mode
  BY StateFacts DEF Minodes
<1>2. [s EXCEPT !.tab[slot].dirty = TRUE] = [s EXCEPT !.tab[slot] = y]
  OBVIOUS
<1>3. y = m
  <2> HIDE DEF x
  <2>1. y \in Minodes /\ y.ref = x.ref /\ y.ino = x.ino /\ y.data = x.data /\ y.dirty = TRUE
    BY <1>1 DEF Minodes
  <2>2. m \in Minodes /\ m.ref = x.ref /\ m.ino = x.ino /\ m.data = x.data /\ m.dirty = TRUE
    BY <1>1 DEF Minodes
  <2> HIDE DEF y, m
  <2> QED BY <2>1, <2>2, SameMinode
<1>4. Good([s EXCEPT !.tab[slot] = m])
  <2>1. x.data.mode = "free" => Mode(s, slot) = "free"
    BY <1>1
  <2> QED BY <1>1, <2>1, MinodeDataGood
<1> HIDE DEF y, m
<1> QED BY <1>2, <1>3, <1>4

LEMMA PutFails ==
  ASSUME NEW s, Good(s), NEW b \in Block, Walk(b).end # "end"
  PROVE  Good(Fails(s, Walk(b).end))
BY WalkEnd, FailsGood

LEMMA removeRecordGood ==
  ASSUME NEW s, Good(s), NEW pip \in Slots, NEW i \in 1..NDirect, NEW o \in Words,
         s.disk.blk[INode(s, pip).block[i]][o] # Wild
  PROVE  Good(removeRecord(s, pip, i, o))
<1> DEFINE bno == INode(s, pip).block[i]
           b == s.disk.blk[bno]
           prev == PrevOffset(s, pip, i, o)
           r == removeRecord(s, pip, i, o)
<1>1. bno \in Blocks /\ b \in Block /\ Refer(b, Nameable(s.disk)) /\ b[o] # Wild
  <2>1. i \in 1..NDirect+1
    BY SizesFacts
  <2>2. bno \in Blocks
    BY <2>1, StateFacts
  <2> HIDE DEF bno
  <2> QED BY <2>2, StateFacts DEF bno
<1>2. r = IF IsLastRecord(b, o)
          THEN IF prev = NotFound \/ b[prev] = Wild THEN Fails(s, "wild")
               ELSE PutData(s, bno, Swallow(b, prev, o))
          ELSE IF Walk(b).end # "end" THEN Fails(s, Walk(b).end)
          ELSE IF ~IntHoldsPointer \/ o + b[o].rec > BLKWORDS THEN Fails(s, "segv")
          ELSE PutData(s, bno, CloseGap(b, o))
  BY DEF removeRecord
<1> HIDE DEF bno, b, prev
<1>3. Good(Fails(s, "wild")) /\ Good(Fails(s, "segv"))
  BY FailsGood
<1>4. Walk(b).end # "end" => Good(Fails(s, Walk(b).end))
  BY <1>1, PutFails
<1>5. b[prev] # Wild => Good(PutData(s, bno, Swallow(b, prev, o)))
  BY <1>1, SwallowKeeps, PutDataGood
<1>6. Good(PutData(s, bno, CloseGap(b, o)))
  BY <1>1, CloseGapKeeps, PutDataGood
<1> QED BY <1>2, <1>3, <1>4, <1>5, <1>6

LEMMA rmInBlockGood ==
  ASSUME NEW t, Good(t), NEW pip \in Slots, NEW name, NEW i \in 1..NDirect
  PROVE  Good(rmInBlock(t, pip, name, i))
<1> DEFINE bno == INode(t, pip).block[i]
           b == t.disk.blk[bno]
           o == Match(b, name)
           u == removeRecord(t, pip, i, o)
           r == rmInBlock(t, pip, name, i)
<1>1. bno \in Blocks /\ b \in Block
  <2>1. i \in 1..NDirect+1
    BY SizesFacts
  <2>2. bno \in Blocks
    BY <2>1, StateFacts
  <2> HIDE DEF bno
  <2> QED BY <2>2, StateFacts DEF bno
<1>2. r = IF t.status # "ok" \/ t.ret = 1 THEN t
          ELSE IF bno = 0 THEN Returns(t, 1)
          ELSE IF o # NotFound THEN Returns(u, 1)
          ELSE IF Walk(b).end # "end" THEN Fails(t, Walk(b).end)
          ELSE t
  BY DEF rmInBlock
<1>3. Good(Returns(t, 1)) /\ 1 \in Int
  BY ReturnsGood
<1>4. o # NotFound => Good(Returns(u, 1))
  <2>1. o # NotFound => o \in Words /\ b[o] # Wild
    BY <1>1, MatchInside
  <2>2. o # NotFound => Good(u)
    BY <2>1, removeRecordGood
  <2> HIDE DEF o, u
  <2> QED BY <1>3, <2>2, ReturnsGood
<1>5. Walk(b).end # "end" => Good(Fails(t, Walk(b).end))
  BY <1>1, PutFails
<1> HIDE DEF bno, b, o, u, r
<1>6. Good(r)
  BY <1>2, <1>3, <1>4, <1>5
<1> QED BY <1>6 DEF r

RmPass(x, t, i) == rmInBlock(t, x.pip, x.name, i)
BdeallocPass(x, t, i) == bdeallocBlock(t, x, i)
StaysGood(x, t, i) == Good(t)

RmLoop == INSTANCE Loops WITH Pass <- RmPass, Keeps <- StaysGood
BdeallocLoop == INSTANCE Loops WITH Pass <- BdeallocPass, Keeps <- StaysGood

LEMMA rm_childGood ==
  ASSUME NEW s, Good(s), NEW pip \in Slots, NEW name
  PROVE  Good(rm_child(s, pip, name))
<1> DEFINE x == [pip |-> pip, name |-> name]
           start == Returns(s, 0)
<1>1. x.pip = pip /\ x.name = name /\ NDirect \in Nat /\ 0 \in Int
  BY SizesFacts
<1> HIDE DEF x
<1>2. rm_child(s, pip, name) = RmLoop!After(x, start, NDirect)
  BY <1>1 DEF rm_child, Loop, RmLoop!After, RmPass
<1>3. StaysGood(x, start, 0)
  BY <1>1, ReturnsGood DEF StaysGood
<1>4. ASSUME NEW i \in 1..NDirect, NEW t, StaysGood(x, t, i - 1)
      PROVE  StaysGood(x, RmPass(x, t, i), i)
  BY <1>1, <1>4, rmInBlockGood DEF StaysGood, RmPass
<1> HIDE DEF start
<1>5. StaysGood(x, RmLoop!After(x, start, NDirect), NDirect)
  BY <1>1, <1>3, <1>4, NatSet, RmLoop!LoopKeeps
<1> QED BY <1>2, <1>5 DEF StaysGood

LEMMA bdeallocAllGood ==
  ASSUME NEW s, Good(s), NEW inode
  PROVE  Good(bdeallocAll(s, inode))
<1>1. bdeallocAll(s, inode) = BdeallocLoop!After(inode, s, NDirect)
  BY DEF bdeallocAll, Loop, BdeallocLoop!After, BdeallocPass
<1>2. NDirect \in Nat /\ StaysGood(inode, s, 0)
  BY SizesFacts DEF StaysGood
<1>3. ASSUME NEW i \in 1..NDirect, NEW t, StaysGood(inode, t, i - 1)
      PROVE  StaysGood(inode, BdeallocPass(inode, t, i), i)
  BY <1>3, bdeallocGood DEF StaysGood, BdeallocPass, bdeallocBlock
<1>4. StaysGood(inode, BdeallocLoop!After(inode, s, NDirect), NDirect)
  BY <1>2, <1>3, NatSet, BdeallocLoop!LoopKeeps
<1> QED BY <1>1, <1>4 DEF StaysGood

-----------------------------------------------------------------------------
(* The other commands.                                                     *)

LEMMA linkGood ==
  ASSUME NEW s, Good(s), NEW old \in Paths, old.names # <<>>,
         NEW new \in Paths, new.names # <<>>
  PROVE  Good(mylink(s, old, new))
<1> DEFINE op == [abs |-> FALSE, names |-> <<basename(old)>>]
           t == getMinode(s, op)
           u == getino(t, new)
           v == getMinode(u, dirname(new))
           w == [v EXCEPT !.tab[t.ret].dirty = TRUE]
           ino == w.tab[t.ret].ino
           x == enter_name(w, v.ret, ino, basename(new))
           links == Links(x.tab[t.ret].data.links + 1)
           y == [x EXCEPT !.tab[t.ret].data.links = links]
           z == iput(y, t.ret)
           r == mylink(s, old, new)
<1>1. r = IF t.status = "ok"
          THEN IF u.status = "ok"
               THEN IF u.ret # 0 THEN u
                    ELSE IF Mode(u, t.ret) = "file"
                    THEN IF v.status = "ok"
                         THEN IF Mode(v, v.ret) # "dir" THEN v
                              ELSE IF x.status = "ok" THEN iput(z, v.ret) ELSE x
                         ELSE v
                    ELSE IF Mode(u, t.ret) = "dir" THEN iput(u, t.ret) ELSE u
               ELSE u
          ELSE t
  BY DEF mylink, Then
<1>2. basename(old) \in EntryNames /\ basename(new) \in EntryNames /\ dirname(new) \in AnyPaths
  BY dirnameFacts
<1>3. op \in AnyPaths /\ new \in AnyPaths
  <2>1. <<basename(old)>> \in Seq(EntryNames) /\ Len(<<basename(old)>>) = 1 /\ Len(<<>>) = 0
    BY <1>2
  <2> DEFINE name == <<basename(old)>>
  <2>2. name \in Seq(EntryNames) /\ name # <<>>
    BY <2>1
  <2> HIDE DEF name
  <2>3. [abs |-> FALSE, names |-> name] \in AnyPaths
    BY <2>2 DEF AnyPaths, NoPath
  <2>4. new # NoPath
    BY DEF NoPath
  <2> QED BY <2>3, <2>4, NamedPaths DEF name
<1> HIDE DEF op, r
<1>4. Good(t) /\ (t.status = "ok" => t.ret \in Slots)
  BY <1>3, getMinodeGood DEF Got
<1> HIDE DEF t
<1>5. Good(u)
  BY <1>3, <1>4, getinoGood DEF Found
<1> HIDE DEF u
<1>6. Good(v) /\ (v.status = "ok" => v.ret \in Slots)
  BY <1>2, <1>5, getMinodeGood DEF Got
<1> HIDE DEF v
<1>7. ASSUME t.status = "ok", v.status = "ok"
      PROVE  Good(x) /\ (x.status = "ok" => Good(iput(z, v.ret)))
  <2>1. Good(w)
    BY <1>4, <1>6, <1>7, DirtyGood
  <2> HIDE DEF w
  <2>2. ino \in Nameable(w.disk)
    BY <1>4, <1>7, <2>1, StateFacts
  <2> HIDE DEF ino
  <2>3. Good(x)
    BY <1>2, <1>6, <1>7, <2>1, <2>2, enter_nameGood
  <2> HIDE DEF x
  <2>4. links \in 0..LinkModulus-1
    <3>1. x.tab[t.ret].data \in InodeRecs
      BY <1>4, <1>7, <2>3, StateFacts DEF Minodes
    <3>2. x.tab[t.ret].data.links \in 0..LinkModulus-1
      BY <3>1 DEF InodeRecs
    <3>3. x.tab[t.ret].data.links \in Int
      BY <3>2, LinksRange
    <3>4. x.tab[t.ret].data.links + 1 \in Int
      BY <3>3
    <3> QED BY <3>4, LinksRange
  <2> HIDE DEF links
  <2>5. Good(y)
    BY <1>4, <1>7, <2>3, <2>4, LinksGood
  <2> HIDE DEF y
  <2>6. Good(z)
    BY <1>4, <1>7, <2>5, iputGood
  <2> HIDE DEF z
  <2>7. Good(iput(z, v.ret))
    BY <1>6, <1>7, <2>6, iputGood
  <2> QED BY <2>3, <2>7
<1>8. t.status = "ok" => Good(iput(u, t.ret))
  BY <1>4, <1>5, iputGood
<1> HIDE DEF x, z
<1>9. Good(r)
  BY <1>1, <1>4, <1>5, <1>6, <1>7, <1>8
<1> QED BY <1>9 DEF r

LEMMA truncateGood ==
  ASSUME NEW s, Good(s), NEW slot \in Slots
  PROVE  Good(truncate(s, slot))
<1> DEFINE t == bdeallocAll(s, INode(s, slot))
           old == t.tab[slot].data
           block == [i \in 1..NDirect+1 |-> IF i <= NDirect THEN 0 ELSE old.block[i]]
           inode == [old EXCEPT !.block = block]
<1>1. truncate(s, slot) = [t EXCEPT !.tab[slot].data = inode]
  BY DEF truncate
<1>2. Good(t)
  BY bdeallocAllGood
<1> HIDE DEF t
<1>3. old \in InodeRecs /\ Mode(t, slot) = old.mode
  BY <1>2, StateFacts DEF Minodes
<1> HIDE DEF old
<1>4. block \in [1..NDirect+1 -> Blocks]
  <2>1. \A i \in 1..NDirect+1 : old.block[i] \in Blocks /\ 0 \in Blocks
    BY <1>3, SizesFacts DEF InodeRecs
  <2> QED BY <2>1
<1> HIDE DEF block
<1>5. inode \in InodeRecs /\ inode.mode = Mode(t, slot)
  BY <1>3, <1>4 DEF InodeRecs
<1> HIDE DEF inode
<1> QED BY <1>1, <1>2, <1>5, DataGood

(* A count goes down by a step modulo 2^16.                                *)
LEMMA CountDown ==
  ASSUME NEW s, Good(s), NEW slot \in Slots
  PROVE  Links(s.tab[slot].data.links + LinkModulus - 1) \in 0..LinkModulus-1
<1>1. s.tab[slot].data \in InodeRecs
  BY StateFacts DEF Minodes
<1>2. s.tab[slot].data.links \in 0..LinkModulus-1
  BY <1>1 DEF InodeRecs
<1>3. s.tab[slot].data.links \in Int /\ LinkModulus \in Int
  BY <1>2, LinksRange
<1>4. s.tab[slot].data.links + LinkModulus - 1 \in Int
  BY <1>3
<1> QED BY <1>4, LinksRange

LEMMA unlinkGood ==
  ASSUME NEW s, Good(s), NEW p \in Paths, p.names # <<>>
  PROVE  Good(my_unlink(s, p))
<1> DEFINE t == getMinode(s, p)
           u == getMinode(t, dirname(p))
           links == Links(u.tab[t.ret].data.links + LinkModulus - 1)
           v == [u EXCEPT !.tab[t.ret].data.links = links]
           w == IF INode(v, t.ret).links = 0 THEN truncate(v, t.ret) ELSE v
           r == my_unlink(s, p)
<1>1. r = IF t.status # "ok" THEN t
          ELSE IF u.status # "ok" \/ Mode(u, t.ret) # "file" THEN u
          ELSE rm_child(w, u.ret, basename(p))
  BY DEF my_unlink, Then
<1>2. p \in AnyPaths /\ dirname(p) \in AnyPaths
  BY dirnameFacts, NamedPaths DEF NoPath
<1> HIDE DEF r
<1>3. Good(t) /\ (t.status = "ok" => t.ret \in Slots)
  BY <1>2, getMinodeGood DEF Got
<1> HIDE DEF t
<1>4. Good(u) /\ (u.status = "ok" => u.ret \in Slots)
  BY <1>2, <1>3, getMinodeGood DEF Got
<1> HIDE DEF u
<1>5. ASSUME t.status = "ok", u.status = "ok" PROVE Good(rm_child(w, u.ret, basename(p)))
  <2>1. links \in 0..LinkModulus-1
    BY <1>3, <1>4, <1>5, CountDown
  <2> HIDE DEF links
  <2>2. Good(v)
    BY <1>3, <1>4, <1>5, <2>1, LinksGood
  <2> HIDE DEF v
  <2>3. Good(w)
    BY <1>3, <1>5, <2>2, truncateGood
  <2> HIDE DEF w
  <2> QED BY <1>4, <1>5, <2>3, rm_childGood
<1>6. Good(r)
  BY <1>1, <1>3, <1>4, <1>5
<1> QED BY <1>6 DEF r

LEMMA isEmptyDirGood ==
  ASSUME NEW s, Good(s), NEW slot \in Slots
  PROVE  Good(isEmptyDir(s, slot))
<1> DEFINE inode == INode(s, slot)
           b == s.disk.blk[inode.block[1]]
           r == isEmptyDir(s, slot)
<1>1. \/ r = Returns(s, 0) \/ r = Returns(s, 1)
      \/ r = Fails(s, Walk(b).end) /\ Walk(b).end # "end"
  BY DEF isEmptyDir
<1>2. b \in Block
  <2>1. 1 \in 1..NDirect+1
    BY SizesFacts
  <2> QED BY <2>1, StateFacts
<1>3. Good(Returns(s, 0)) /\ Good(Returns(s, 1))
  BY ReturnsGood
<1> HIDE DEF b, r
<1>4. Good(r)
  BY <1>1, <1>2, <1>3, PutFails
<1> QED BY <1>4 DEF r

(* Only rmdir deallocates an inode, and then nothing is said of Nameable.  *)
LEMMA ideallocGood ==
  ASSUME NEW s, Good(s), NEW ino, ~Kept
  PROVE  Good(idealloc(s, ino))
<1> DEFINE d == [s.disk EXCEPT !.imap = @ \ {ino - 1}]
<1>1. s.disk \in Disks /\ GoodDisk(s.disk)
  BY StateFacts
<1>2. d \in Disks /\ d.blk = s.disk.blk
  BY <1>1 DEF Disks
<1>3. idealloc(s, ino) = PutBlock(s, d)
  BY DEF idealloc
<1> HIDE DEF d
<1>4. Nameable(d) = Nameable(s.disk)
  BY DEF Nameable
<1>5. GoodDisk(d)
  BY <1>1, <1>2, <1>4 DEF GoodDisk
<1> QED BY <1>3, <1>4, <1>5, PutBlockGood

LEMMA rmdirGood ==
  ASSUME NEW s, Good(s), NEW p \in Paths, p.names # <<>>, ~Kept
  PROVE  Good(remove_dir(s, p))
<1> DEFINE t == getino(s, p)
           u == iget(t, t.ret)
           mip == u.ret
           v == isEmptyDir(u, mip)
           a == bdeallocAll(v, INode(v, mip))
           i == idealloc(a, t.ret)
           w == getMinode(i, dirname(p))
           x == rm_child(w, w.ret, basename(p))
           links == Links(x.tab[w.ret].data.links + LinkModulus - 1)
           y == [x EXCEPT !.tab[w.ret].data.links = links]
           z == [y EXCEPT !.tab[w.ret].dirty = TRUE]
           r == remove_dir(s, p)
<1>1. r = IF t.status = "ok"
          THEN IF u.status = "ok"
               THEN IF Mode(u, mip) # "dir" THEN iput(u, mip)
                    ELSE IF v.status = "ok"
                         THEN IF v.ret = 0 THEN iput(v, mip)
                              ELSE IF w.status = "ok"
                                   THEN IF x.status = "ok" THEN iput(z, w.ret) ELSE x
                                   ELSE w
                         ELSE v
               ELSE u
          ELSE t
  BY DEF remove_dir, Then
<1>2. p \in AnyPaths /\ dirname(p) \in AnyPaths
  BY dirnameFacts, NamedPaths DEF NoPath
<1> HIDE DEF r
<1>3. Good(t) /\ (t.status = "ok" => t.ret \in Nameable(t.disk))
  BY <1>2, getinoGood DEF Found
<1> HIDE DEF t
<1>4. ASSUME t.status = "ok"
      PROVE  Good(u) /\ (u.status = "ok" => mip \in Slots)
  BY <1>3, <1>4, igetGood
<1> HIDE DEF u
<1>5. ASSUME t.status = "ok", u.status = "ok"
      PROVE  Good(v) /\ Good(iput(u, mip)) /\ Good(iput(v, mip)) /\ Good(a)
  <2>1. mip \in Slots /\ Good(u)
    BY <1>4, <1>5
  <2> HIDE DEF mip
  <2>2. Good(v)
    BY <2>1, isEmptyDirGood
  <2> HIDE DEF v
  <2>3. Good(a)
    BY <2>2, bdeallocAllGood
  <2> QED BY <2>1, <2>2, <2>3, iputGood
<1>6. ASSUME Good(a)
      PROVE  Good(w) /\ (w.status = "ok" => w.ret \in Slots)
  <2> HIDE DEF a
  <2>1. Good(i)
    BY <1>6, ideallocGood
  <2> HIDE DEF i
  <2> QED BY <1>2, <2>1, getMinodeGood DEF Got
<1> HIDE DEF v, a, w, mip
<1>7. ASSUME Good(w), w.ret \in Slots
      PROVE  Good(x) /\ Good(iput(z, w.ret))
  <2>1. Good(x)
    BY <1>7, rm_childGood
  <2> HIDE DEF x
  <2>2. links \in 0..LinkModulus-1
    BY <1>7, <2>1, CountDown
  <2> HIDE DEF links
  <2>3. Good(y)
    BY <1>7, <2>1, <2>2, LinksGood
  <2> HIDE DEF y
  <2>4. Good(z)
    BY <1>7, <2>3, DirtyGood
  <2> HIDE DEF z
  <2> QED BY <1>7, <2>1, <2>4, iputGood
<1> HIDE DEF x, z
<1>8. Good(r)
  BY <1>1, <1>3, <1>4, <1>5, <1>6, <1>7
<1> QED BY <1>8 DEF r

LEMMA chdirGood ==
  ASSUME NEW s, Good(s), NEW p \in Paths
  PROVE  Good(chdir(s, p))
<1> DEFINE t == getMinode(s, p)
           u == iput(t, t.cwd)
           r == chdir(s, p)
<1>1. CASE p = NoPath
  <2>1. chdir(s, p) = [s EXCEPT !.cwd = RootSlot]
    BY <1>1 DEF chdir
  <2>2. Good([s EXCEPT !.cwd = RootSlot])
    BY SizesFacts, WalksGood
  <2> QED BY <2>1, <2>2
<1>2. CASE p # NoPath
  <2>1. r = IF t.status # "ok" \/ Mode(t, t.ret) # "dir" THEN t
            ELSE [u EXCEPT !.cwd = t.ret]
    BY <1>2 DEF chdir, Then
  <2>2. p \in AnyPaths
    BY <1>2, NamedPaths
  <2> HIDE DEF r
  <2>3. Good(t) /\ (t.status = "ok" => t.ret \in Slots)
    BY <2>2, getMinodeGood DEF Got
  <2> HIDE DEF t
  <2>4. Good(u)
    BY <2>3, StateFacts, iputGood
  <2> HIDE DEF u
  <2>5. t.status = "ok" => Good([u EXCEPT !.cwd = t.ret])
    BY <2>3, <2>4, WalksGood
  <2>6. Good(r)
    BY <2>1, <2>3, <2>5
  <2> QED BY <2>6 DEF r
<1> QED BY <1>1, <1>2

LEMMA printGood ==
  ASSUME NEW s, Good(s), NEW slot \in Slots
  PROVE  Good(print(s, slot))
<1> DEFINE inode == INode(s, slot)
           stops == Stops(s, inode)
           i == Lowest(stops)
           b == DataBlock(s, inode, i)
           r == print(s, slot)
<1>1. \/ r = Fails(s, "wild") \/ r = s
      \/ r = Fails(s, Walk(b).end) /\ stops # {} /\ inode.block[i] # 0
  BY DEF print
<1>2. CASE r = Fails(s, "wild") \/ r = s
  BY <1>2, FailsGood
<1>3. CASE r = Fails(s, Walk(b).end) /\ stops # {} /\ inode.block[i] # 0
  <2>1. stops \subseteq 1..NDirect /\ 1..NDirect \subseteq Nat
    BY SizesFacts DEF Stops
  <2>2. i \in stops
    <3> HIDE DEF stops
    <3> QED BY <1>3, <2>1, LowestIn
  <2>3. i \in 1..NDirect+1 /\ Walk(b).end # "end"
    BY <1>3, <2>1, <2>2, SizesFacts DEF Stops
  <2>4. b \in Block
    BY <2>3, StateFacts DEF DataBlock
  <2> HIDE DEF b, r
  <2>5. Good(r)
    BY <1>3, <2>3, <2>4, PutFails
  <2> QED BY <2>5 DEF r
<1> QED BY <1>1, <1>2, <1>3

LEMMA lsGood ==
  ASSUME NEW s, Good(s), NEW p \in Paths
  PROVE  Good(ls(s, p)) /\ (p # NoPath => Good(my_stat(s, p)))
<1> DEFINE t == getMinode(s, p)
<1>1. CASE p = NoPath
  <2>1. s.cwd \in Slots
    BY StateFacts
  <2> QED BY <1>1, <2>1, printGood DEF ls
<1>2. CASE p # NoPath
  <2>1. ls(s, p) = (IF t.status = "ok" THEN print(t, t.ret) ELSE t)
        /\ my_stat(s, p) = (IF t.status = "ok" THEN iput(t, t.ret) ELSE t)
    BY <1>2 DEF ls, my_stat, Then
  <2>2. p \in AnyPaths
    BY <1>2, NamedPaths
  <2>3. Good(t) /\ (t.status = "ok" => t.ret \in Slots)
    BY <2>2, getMinodeGood DEF Got
  <2> HIDE DEF t
  <2>4. t.status = "ok" => Good(print(t, t.ret)) /\ Good(iput(t, t.ret))
    BY <2>3, printGood, iputGood
  <2> QED BY <2>1, <2>3, <2>4
<1> QED BY <1>1, <1>2

LEMMA rpwdUpGood ==
  ASSUME NEW t, Good(t)
  PROVE  Good(rpwdUp(t))
<1> DEFINE u == search(t, t.mip, ".")
           v == search(u, u.mip, "..")
           w == iget(v, v.ret)
           b == w.disk.blk[INode(w, w.ret).block[1]]
           r == rpwdUp(t)
<1>1. \/ r = t
      \/ r = u
      \/ u.status = "ok" /\ r = v
      \/ /\ u.status = "ok" /\ v.status = "ok"
         /\ \/ r = w
            \/ /\ w.status = "ok"
               /\ \/ r = Fails(w, "wild") \/ r = [w EXCEPT !.mip = w.ret]
                  \/ Walk(b).end # "end" /\ r = Fails(w, Walk(b).end)
  BY DEF rpwdUp, Then
<1> HIDE DEF r
<1>2. Good(u)
  BY StateFacts, searchGood
<1> HIDE DEF u
<1>3. Good(v) /\ (v.status = "ok" => v.ret \in Nameable(v.disk))
  BY <1>2, StateFacts, searchGood
<1> HIDE DEF v
<1>4. v.status = "ok" => Good(w) /\ (w.status = "ok" => w.ret \in Slots)
  BY <1>3, igetGood
<1> HIDE DEF w
<1>5. v.status = "ok" /\ w.status = "ok" =>
        /\ Good([w EXCEPT !.mip = w.ret]) /\ Good(Fails(w, "wild"))
        /\ b \in Block
  <2>1. 1 \in 1..NDirect+1
    BY SizesFacts
  <2> QED BY <1>4, <2>1, WalksGood, FailsGood, StateFacts
<1> HIDE DEF b
<1>6. v.status = "ok" /\ w.status = "ok" /\ Walk(b).end # "end" => Good(Fails(w, Walk(b).end))
  BY <1>4, <1>5, PutFails
<1>7. Good(r)
  BY <1>1, <1>2, <1>3, <1>4, <1>5, <1>6
<1> QED BY <1>7 DEF r

RpwdPass(x, t, i) == rpwdUp(t)
PutPass(x, t, i) == putSlot(t, i)

RpwdLoop == INSTANCE Loops WITH Pass <- RpwdPass, Keeps <- StaysGood
PutLoop == INSTANCE Loops WITH Pass <- PutPass, Keeps <- StaysGood

LEMMA pwdGood ==
  ASSUME NEW s, Good(s)
  PROVE  Good(pwd(s))
<1> DEFINE start == [s EXCEPT !.mip = s.cwd]
           top == RpwdLoop!After(0, start, NInodes)
<1>1. pwd(s) = IF top.status = "ok" /\ top.mip # RootSlot THEN Fails(top, "segv") ELSE top
  BY DEF pwd, rpwd, Loop, RpwdLoop!After, RpwdPass
<1>2. NInodes \in Nat /\ s.cwd \in Slots
  BY SizesFacts, StateFacts
<1>3. StaysGood(0, start, 0)
  BY <1>2, WalksGood DEF StaysGood
<1>4. ASSUME NEW i \in 1..NInodes, NEW t, StaysGood(0, t, i - 1)
      PROVE  StaysGood(0, RpwdPass(0, t, i), i)
  BY <1>4, rpwdUpGood DEF StaysGood, RpwdPass
<1> HIDE DEF start
<1>5. Good(top)
  BY <1>2, <1>3, <1>4, NatSet, RpwdLoop!LoopKeeps DEF StaysGood
<1> HIDE DEF top
<1> QED BY <1>1, <1>5, FailsGood

LEMMA putAllGood ==
  ASSUME NEW s, Good(s)
  PROVE  Good(putAll(s))
<1>1. putAll(s) = PutLoop!After(0, s, NMINODE)
  BY DEF putAll, Loop, PutLoop!After, PutPass
<1>2. NMINODE \in Nat /\ StaysGood(0, s, 0)
  BY SizesFacts DEF StaysGood
<1>3. ASSUME NEW i \in 1..NMINODE, NEW t, StaysGood(0, t, i - 1)
      PROVE  StaysGood(0, PutPass(0, t, i), i)
  <2>1. i \in Slots
    BY DEF Slots
  <2> QED BY <1>3, <2>1, iputGood DEF StaysGood, PutPass, putSlot
<1>4. StaysGood(0, PutLoop!After(0, s, NMINODE), NMINODE)
  BY <1>2, <1>3, NatSet, PutLoop!LoopKeeps
<1> QED BY <1>1, <1>4 DEF StaysGood

-----------------------------------------------------------------------------
(* The program.                                                            *)

(* The inductive invariant: between commands the program is in a good      *)
(* state.                                                                  *)
Inv == Good(Here)

LEMMA BetweenCommands ==
  ASSUME NEW s, Good(s)
  PROVE  Good([disk |-> s.disk, imgs |-> {}, tab |-> s.tab, cwd |-> s.cwd,
               status |-> s.status, ret |-> 0, mip |-> RootSlot])
<1>1. s \in States /\ RootSlot \in Slots /\ 0 \in Int /\ {} \in SUBSET Disks
  BY StateFacts, SizesFacts
<1> DEFINE t == [disk |-> s.disk, imgs |-> {}, tab |-> s.tab, cwd |-> s.cwd,
                 status |-> s.status, ret |-> 0, mip |-> RootSlot]
<1>2. t \in States /\ t.disk = s.disk /\ t.tab = s.tab /\ t.imgs = {}
  BY <1>1 DEF States
<1> HIDE DEF t
<1>3. Good(t)
  BY <1>2 DEF Good
<1> QED BY <1>3 DEF t

LEMMA InodeFacts ==
  ASSUME NEW mode \in ModeSet, NEW links \in 0..LinkModulus-1, NEW bno \in Blocks
  PROVE  Inode(mode, links, bno) \in InodeRecs /\ Inode(mode, links, bno).mode = mode
BY SizesFacts DEF Inode, NoBlocks, InodeRecs

LEMMA MountedGood ==
  ASSUME NEW d, GoodDisk(d)
  PROVE  Good([disk |-> d, imgs |-> {}, tab |-> MountedTable(d), cwd |-> RootSlot,
               status |-> "ok", ret |-> 0, mip |-> RootSlot])
<1> DEFINE t == [disk |-> d, imgs |-> {}, tab |-> MountedTable(d), cwd |-> RootSlot,
                 status |-> "ok", ret |-> 0, mip |-> RootSlot]
           root == [ref |-> 3, ino |-> Root, dirty |-> FALSE, data |-> d.itab[Root]]
<1>1. d \in Disks /\ RootSlot \in Slots /\ Root \in Inos /\ Root \in 0..NInodes
      /\ 0 \in Int /\ {} \in SUBSET Disks /\ Root \in Nameable(d)
  BY SizesFacts DEF GoodDisk, Inos
<1>2. root \in Minodes /\ GoodMinode(d, root)
  <2>1. d.itab[Root] \in InodeRecs
    BY <1>1 DEF Disks
  <2>2. root \in Minodes
    BY <1>1, <2>1 DEF Minodes
  <2>3. Kept => d.itab[Root].mode # "free"
    BY <1>1, SizesFacts DEF Nameable, Written, Root
  <2> QED BY <1>1, <2>2, <2>3 DEF GoodMinode
<1>3. FreeMinode \in Minodes /\ GoodMinode(d, FreeMinode)
  <2>1. FreeInode \in InodeRecs
    <3>1. "free" \in ModeSet /\ 0 \in 0..LinkModulus-1 /\ 0 \in Blocks
      BY SizesFacts DEF ModeSet, LinkModulus
    <3> QED BY <3>1, InodeFacts DEF FreeInode
  <2>2. FreeMinode \in Minodes /\ FreeMinode.ino = 0
    BY <2>1, SizesFacts DEF FreeMinode, Minodes
  <2> QED BY <2>2, NameableFacts DEF GoodMinode
<1>4. /\ MountedTable(d) \in [Slots -> Minodes]
      /\ \A i \in Slots : GoodMinode(d, MountedTable(d)[i])
  <2> HIDE DEF root
  <2>1. MountedTable(d) = [i \in Slots |-> IF i = RootSlot THEN root ELSE FreeMinode]
    BY DEF MountedTable, root
  <2> QED BY <1>2, <1>3, <2>1
<1>5. t \in States /\ t.disk = d /\ t.tab = MountedTable(d) /\ t.imgs = {}
  <2> DEFINE tab0 == MountedTable(d)
  <2>1. tab0 \in [Slots -> Minodes]
    BY <1>4
  <2> HIDE DEF tab0
  <2>2. /\ t = [disk |-> d, imgs |-> {}, tab |-> tab0, cwd |-> RootSlot,
                status |-> "ok", ret |-> 0, mip |-> RootSlot]
    BY DEF tab0
  <2> HIDE DEF t
  <2> QED BY <1>1, <2>1, <2>2 DEF States, tab0
<1> HIDE DEF t
<1>6. Good(t)
  BY <1>4, <1>5 DEF Good
<1> QED BY <1>6 DEF t

LEMMA ImageGood == GoodDisk(Image)
<1> DEFINE root == DotBlock(ZeroBlock, Root, Root)
<1>1. root \in Block /\ Refer(root, {0, Root}) /\ ZeroBlock \in Block /\ Refer(ZeroBlock, {0})
  <2>1. Refer(ZeroBlock, {0, Root}) /\ ZeroBlock \in Block
    BY ZeroBlockOK DEF Refer
  <2>2. Root \in 0..NInodes /\ 0 \in {0, Root} /\ Root \in {0, Root}
    BY SizesFacts DEF Inos
  <2> QED BY <2>1, <2>2, ZeroBlockOK, DotBlockKeeps
<1>2. /\ Inode("dir", 2, RootBlock) \in InodeRecs
      /\ Inode("dir", 2, RootBlock).mode = "dir"
      /\ FreeInode \in InodeRecs
  <2>1. /\ "free" \in ModeSet /\ "dir" \in ModeSet /\ 0 \in 0..LinkModulus-1
        /\ 2 \in 0..LinkModulus-1 /\ 0 \in Blocks /\ RootBlock \in Blocks
    BY SizesFacts DEF ModeSet, LinkModulus
  <2> QED BY <2>1, InodeFacts DEF FreeInode
<1>3. /\ Image.imap = 0..Root-1 /\ Image.bmap = {RootBlock - 1, NBlocks - 1}
      /\ Image.itab = [i \in Inos |-> IF i = Root THEN Inode("dir", 2, RootBlock)
                                      ELSE FreeInode]
      /\ Image.blk = [b \in Blocks |-> IF b = RootBlock THEN root ELSE ZeroBlock]
      /\ Image = [imap |-> Image.imap, bmap |-> Image.bmap, itab |-> Image.itab,
                  blk |-> Image.blk]
  BY DEF Image
<1> HIDE DEF root
<1>4. Image.itab \in [Inos -> InodeRecs] /\ Image.blk \in [Blocks -> Block]
  BY <1>1, <1>2, <1>3
<1>5. Image.imap \in SUBSET (0..NInodes) /\ Image.bmap \in SUBSET (0..NBlocks)
  BY <1>3, SizesAssumption DEF Root, RootBlock
<1>6. Image \in Disks
  <2> DEFINE d == Image
  <2>1. /\ d.itab \in [Inos -> InodeRecs] /\ d.blk \in [Blocks -> Block]
        /\ d.imap \in SUBSET (0..NInodes) /\ d.bmap \in SUBSET (0..NBlocks)
        /\ d = [imap |-> d.imap, bmap |-> d.bmap, itab |-> d.itab, blk |-> d.blk]
    BY <1>3, <1>4, <1>5
  <2> HIDE DEF d
  <2> QED BY <2>1 DEF Disks, d
<1>7. Root \in Nameable(Image) /\ 0 \in Nameable(Image)
  <2>1. Root \in Inos /\ Root \in 0..NInodes /\ Root - 1 \in 0..Root-1
    BY SizesFacts DEF Inos, Root
  <2>2. Image.itab[Root] = Inode("dir", 2, RootBlock)
    BY <1>3, <2>1
  <2> QED BY <1>2, <1>3, <2>1, <2>2, NameableFacts DEF Nameable, Written
<1>8. ASSUME NEW b \in Blocks PROVE Refer(Image.blk[b], Nameable(Image))
  <2>1. Image.blk[b] = IF b = RootBlock THEN root ELSE ZeroBlock
    BY <1>3
  <2> QED BY <1>1, <1>7, <2>1 DEF Refer
<1> QED BY <1>6, <1>7, <1>8 DEF GoodDisk

LEMMA InitInv == Init => Inv
<1> SUFFICES ASSUME Init PROVE Inv
  OBVIOUS
<1> DEFINE d == Image
<1>1. Here = [disk |-> d, imgs |-> {}, tab |-> MountedTable(d), cwd |-> RootSlot,
              status |-> "ok", ret |-> 0, mip |-> RootSlot]
  BY DEF Init, Here
<1>2. GoodDisk(d)
  BY ImageGood
<1> HIDE DEF d
<1> QED BY <1>1, <1>2, MountedGood DEF Inv

LEMMA FinishInv == \A s : Good(s) /\ Finish(s) => Inv'
<1> SUFFICES ASSUME NEW CONSTANT s, Good(s), Finish(s) PROVE Inv'
  OBVIOUS
<1> QED BY BetweenCommands DEF Finish, Inv, Here

LEMMA MountInv == \A d : GoodDisk(d) /\ Mount(d) => Inv'
<1> SUFFICES ASSUME NEW CONSTANT d, GoodDisk(d), Mount(d) PROVE Inv'
  OBVIOUS
<1> QED BY MountedGood DEF Mount, Inv, Here

(* Every command, run or killed, from a good state.                        *)
LEMMA CommandsGood ==
  ASSUME Inv
  PROVE  /\ Good(Here) /\ Good(pwd(Here)) /\ Good(putAll(Here))
         /\ \A p \in MkdirPaths : Good(make_dir(Here, p))
         /\ \A p \in CreatPaths : Good(creat_file(Here, p))
         /\ \A p \in RmdirPaths : Good(remove_dir(Here, p))
         /\ \A lp \in LinkPairs : Good(mylink(Here, lp[1], lp[2]))
         /\ \A p \in UnlinkPaths : Good(my_unlink(Here, p))
         /\ \A p \in CdPaths : Good(chdir(Here, p))
         /\ \A p \in LookPaths : /\ Good(ls(Here, p))
                                 /\ p # NoPath => Good(my_stat(Here, p))
<1> DEFINE h == Here
<1>0. Good(h)
  BY DEF Inv
<1> HIDE DEF h
<1>1. Good(pwd(h)) /\ Good(putAll(h))
  BY <1>0, pwdGood, putAllGood
<1>2. ASSUME NEW p \in MkdirPaths PROVE Good(make_dir(h, p))
  BY <1>0, <1>2, PathsAssumption, newChildGood DEF make_dir
<1>3. ASSUME NEW p \in CreatPaths PROVE Good(creat_file(h, p))
  BY <1>0, <1>3, PathsAssumption, newChildGood DEF creat_file
<1>4. ASSUME NEW p \in RmdirPaths PROVE Good(remove_dir(h, p))
  BY <1>0, <1>4, PathsAssumption, rmdirGood DEF Kept
<1>5. ASSUME NEW lp \in LinkPairs PROVE Good(mylink(h, lp[1], lp[2]))
  <2>1. \A i \in 1..2 : lp[i] \in Paths /\ lp[i].names # <<>>
    BY PathsAssumption
  <2>2. 1 \in 1..2 /\ 2 \in 1..2
    OBVIOUS
  <2>3. lp[1] \in Paths /\ lp[1].names # <<>> /\ lp[2] \in Paths /\ lp[2].names # <<>>
    BY <2>1, <2>2
  <2> QED BY <1>0, <2>3, linkGood
<1>6. ASSUME NEW p \in UnlinkPaths PROVE Good(my_unlink(h, p))
  BY <1>0, <1>6, PathsAssumption, unlinkGood
<1>7. ASSUME NEW p \in CdPaths PROVE Good(chdir(h, p))
  BY <1>0, <1>7, PathsAssumption, chdirGood
<1>8. ASSUME NEW p \in LookPaths PROVE Good(ls(h, p)) /\ (p # NoPath => Good(my_stat(h, p)))
  BY <1>0, <1>8, PathsAssumption, lsGood
<1> QED BY <1>0, <1>1, <1>2, <1>3, <1>4, <1>5, <1>6, <1>7, <1>8 DEF h

LEMMA KillGood == \A s : Good(s) /\ KillIn(s) => Inv'
BY MountInv DEF KillIn, Good

LEMMA NextInv == Inv /\ [Next]_vars => Inv'
<1> SUFFICES ASSUME Inv, [Next]_vars PROVE Inv'
  OBVIOUS
<1>0. CASE UNCHANGED vars
  BY <1>0 DEF vars, Inv, Here
<1>1. CASE Mkdir
  BY <1>1, CommandsGood, FinishInv DEF Mkdir
<1>2. CASE Creat
  BY <1>2, CommandsGood, FinishInv DEF Creat
<1>3. CASE Rmdir
  BY <1>3, CommandsGood, FinishInv DEF Rmdir
<1>4. CASE Link
  BY <1>4, CommandsGood, FinishInv DEF Link
<1>5. CASE Unlink
  BY <1>5, CommandsGood, FinishInv DEF Unlink
<1>6. CASE Cd
  BY <1>6, CommandsGood, FinishInv DEF Cd
<1>7. CASE Ls
  BY <1>7, CommandsGood, FinishInv DEF Ls
<1>8. CASE Stat
  BY <1>8, CommandsGood, FinishInv DEF Stat
<1>9. CASE Pwd
  BY <1>9, CommandsGood, FinishInv DEF Pwd
<1>10. CASE Quit
  <2>1. GoodDisk(putAll(Here).disk)
    BY CommandsGood DEF Good
  <2> QED BY <1>10, <2>1, MountInv DEF Quit
<1>11. CASE Restart
  <2>1. GoodDisk(disk)
    BY DEF Inv, Good, Here
  <2> QED BY <1>11, <2>1, MountInv DEF Restart
<1>12. CASE Kill
  <2>1. GoodDisk(disk)
    BY DEF Inv, Good, Here
  <2> QED BY <1>12, <2>1, CommandsGood, KillGood, MountInv DEF Kill
<1> QED BY <1>0, <1>1, <1>2, <1>3, <1>4, <1>5, <1>6, <1>7, <1>8, <1>9, <1>10, <1>11,
           <1>12 DEF Next

(* Invariance: whatever commands run, are killed, hang or die, the next    *)
(* one starts in a good state.                                             *)
THEOREM Invariance == Spec => []Inv
BY InitInv, NextInv, PTL DEF Spec

(* TypeOK: the disk, minode[] and cwd keep their types, for any sizes,     *)
(* arguments and number of kills, whatever the blocks of a directory were  *)
(* overwritten with.                                                       *)
THEOREM TypeCorrect == Spec => []TypeOK
<1>1. Inv => TypeOK
  <2> SUFFICES ASSUME Inv PROVE TypeOK
    OBVIOUS
  <2>1. Good(Here) /\ Here.disk = disk /\ Here.tab = tab /\ Here.cwd = cwd
        /\ Here.status = status
    BY DEF Inv, Here
  <2> DEFINE h == Here
  <2>2. Good(h) /\ h.disk = disk /\ h.tab = tab /\ h.cwd = cwd /\ h.status = status
    BY <2>1
  <2> HIDE DEF h
  <2>3. disk \in Disks /\ tab \in [Slots -> Minodes] /\ cwd \in Slots
        /\ status \in {"ok", "hang", "segv", "wild"}
    BY <2>2, StateFacts DEF States
  <2>4. \A inode \in InodeRecs : InodeOK(inode)
    BY DEF InodeRecs, InodeOK
  <2>5. disk.imap \subseteq 0..NInodes /\ disk.bmap \subseteq 0..NBlocks
        /\ \A i \in Inos : disk.itab[i] \in InodeRecs
    BY <2>3 DEF Disks
  <2>6. ASSUME NEW s \in Slots
        PROVE  /\ tab[s].ino \in 0..NInodes /\ tab[s].ref \in Int
               /\ tab[s].dirty \in BOOLEAN /\ tab[s].data \in InodeRecs
    BY <2>3 DEF Minodes
  <2> QED BY <2>3, <2>4, <2>5, <2>6 DEF TypeOK
<1> QED BY <1>1, Invariance, PTL

(* RecordsInitialised: as long as no directory is removed, a record on the *)
(* disk names an inode that is allocated and written, at every moment, for *)
(* any sizes, arguments and kills: newInode puts the bitmap and the inode  *)
(* before enter_name puts the record (mkdir.c, creat.c), and link takes    *)
(* its inode from a minode.                                                *)
THEOREM RecordsAlwaysInitialised ==
  ASSUME RmdirPaths = {}
  PROVE  Spec => []RecordsInitialised
<1>1. Inv => RecordsInitialised
  <2> SUFFICES ASSUME Inv, NEW i \in DirsOnDisk, NEW c \in RecordsOf(disk.itab[i]), c.ino # 0
               PROVE  Marked(c.ino) /\ disk.itab[c.ino].mode # "free"
    BY DEF RecordsInitialised
  <2>1. Good(Here) /\ Here.disk = disk
    BY DEF Inv, Here
  <2> DEFINE h == Here
  <2>2. Good(h) /\ h.disk = disk
    BY <2>1
  <2> HIDE DEF h
  <2>3. disk \in Disks /\ i \in Inos
    BY <2>2, StateFacts DEF DirsOnDisk
  <2>4. PICK b \in BlocksOf(disk.itab[i]) : c \in Records(disk.blk[b])
    BY DEF RecordsOf
  <2>5. b \in Blocks
    <3>1. disk.itab[i] \in InodeRecs
      BY <2>3 DEF Disks
    <3>2. \A k \in 1..NDirect : disk.itab[i].block[k] \in Blocks
      BY <3>1, SizesFacts DEF InodeRecs
    <3> QED BY <2>4, <3>2 DEF BlocksOf
  <2>6. PICK o \in Visited(disk.blk[b]) : c = disk.blk[b][o]
    BY <2>4 DEF Records
  <2>7. disk.blk[b] \in Block
    BY <2>3, <2>5 DEF Disks
  <2>8. o \in Words
    BY <2>7, VisitedInside
  <2>9. c.ino \in Nameable(disk)
    BY <2>2, <2>5, <2>6, <2>8, StateFacts
  <2> QED BY <2>9 DEF Nameable, Kept, Written, Marked
<1> QED BY <1>1, Invariance, PTL

-----------------------------------------------------------------------------
(* Minodes and blocks.  What follows is about the program without rmdir    *)
(* and without a cd that names no directory (Calm); unlink, which releases *)
(* the wrong blocks, only matters to who owns a block (Tidy).              *)

Calm == RmdirPaths = {} /\ NoPath \notin CdPaths
Tidy == UnlinkPaths = {}

HasBlock(inode, b) == \E k \in 1..NDirect+1 : inode.block[k] = b

\* Inode i has block b on the disk, or in memory.
Claimed(s, i, b) ==
  \/ i \in Inos /\ HasBlock(s.disk.itab[i], b)
  \/ \E q \in Slots : InUse(s.tab[q]) /\ s.tab[q].ino = i /\ HasBlock(s.tab[q].data, b)

Owned(s) ==
  \A b \in Blocks \ {0} : \A i, j \in 0..NInodes :
    Claimed(s, i, b) /\ Claimed(s, j, b) => i = j /\ b - 1 \in s.disk.bmap

OwnedOnDisk(d) ==
  \A b \in Blocks \ {0} : \A i, j \in Inos :
    HasBlock(d.itab[i], b) /\ HasBlock(d.itab[j], b) => i = j /\ b - 1 \in d.bmap

\* The block may be given to inode i: it is marked, and nobody else's.
MayHave(s, i, b) ==
  Claimed(s, i, b) \/ (b - 1 \in s.disk.bmap /\ \A j \in 0..NInodes : ~Claimed(s, j, b))

SafeDisk(d) == d.itab[Root].mode = "dir" /\ (Tidy => OwnedOnDisk(d))

\* Root stays a directory, and blocks keep their owner.
Safe(s) ==
  /\ s \in States
  /\ \A q \in Slots : InUse(s.tab[q]) /\ s.tab[q].ino = Root => s.tab[q].data.mode = "dir"
  /\ s.disk.itab[Root].mode = "dir"
  /\ \A d \in s.imgs : SafeDisk(d)
  /\ Tidy => Owned(s)

\* The pointers to a minode that the program keeps between commands.
Pins(s, slot) == (IF slot = RootSlot THEN 2 ELSE 0) + (IF slot = s.cwd THEN 1 ELSE 0)

\* What a file is made of when there is no inode left: the minode of inode 0.  It
\* may be cwd, and is then put by each path that getino fails in; with its last
\* put the run ends ("wild").
Loose(m) == m.ino = 0 /\ m.dirty /\ m.data.mode = "file"

\* How many references to each slot the running command has got and not put.
Held == [Slots -> Nat]
None == [q \in Slots |-> 0]
More(h, slot) == [q \in Slots |-> IF q = slot THEN h[q] + 1 ELSE h[q]]

Enough(s, h, slot) ==
  IF Loose(s.tab[slot]) THEN s.tab[slot].ref >= 1 \/ s.status = "wild"
  ELSE s.tab[slot].ref >= Pins(s, slot) + h[slot]

\* While a command runs that holds h; a are the inodes that are allocated.
Sound(s, h, a) ==
  /\ Safe(s)
  /\ s.disk.imap = a
  /\ h \in Held
  /\ \A q \in Slots : Enough(s, h, q)
  /\ \A q, r \in Slots : InUse(s.tab[q]) /\ InUse(s.tab[r]) /\ s.tab[q].ino = s.tab[r].ino => q = r
  /\ s.tab[RootSlot].ino = Root /\ s.tab[RootSlot].data.mode = "dir"
  /\ s.tab[s.cwd].data.mode = "dir" \/ Loose(s.tab[s.cwd])

LEMMA SafeFacts ==
  ASSUME NEW s, Safe(s)
  PROVE  /\ s \in States /\ s.disk \in Disks /\ s.tab \in [Slots -> Minodes] /\ s.cwd \in Slots
         /\ \A q \in Slots : /\ s.tab[q] \in Minodes /\ s.tab[q].ref \in Int
                             /\ s.tab[q].ino \in 0..NInodes /\ s.tab[q].data \in InodeRecs
         /\ \A d \in s.imgs : d \in Disks
<1>1. s \in States
  BY DEF Safe
<1>2. s.tab \in [Slots -> Minodes]
  BY <1>1 DEF States
<1>3. \A q \in Slots : s.tab[q] \in Minodes
  BY <1>2
<1>4. \A m \in Minodes : m.ref \in Int /\ m.ino \in 0..NInodes /\ m.data \in InodeRecs
  BY DEF Minodes
<1> QED BY <1>1, <1>2, <1>3, <1>4 DEF States

(* A disk that the program may be started again on.                        *)
LEMMA SafeNow ==
  ASSUME NEW s, Safe(s)
  PROVE  SafeDisk(s.disk)
<1>1. Inos \subseteq 0..NInodes
  BY SizesFacts DEF Inos
<1>2. Tidy => OwnedOnDisk(s.disk)
  BY <1>1 DEF Safe, Owned, OwnedOnDisk, Claimed
<1> QED BY <1>2 DEF Safe, SafeDisk

(* Nothing but the inodes and the block bitmap matters.                    *)
LEMMA SafeSame ==
  ASSUME NEW s, Safe(s), NEW t \in States, t.tab = s.tab, t.disk.itab = s.disk.itab,
         Tidy => s.disk.bmap \subseteq t.disk.bmap, t.imgs \subseteq s.imgs \cup {t.disk}
  PROVE  Safe(t)
<1>1. \A i, b : Claimed(t, i, b) <=> Claimed(s, i, b)
  BY DEF Claimed
<1>2. Tidy => Owned(t)
  BY <1>1 DEF Safe, Owned
<1>3. Inos \subseteq 0..NInodes
  BY SizesFacts DEF Inos
<1>4. Tidy => OwnedOnDisk(t.disk)
  BY <1>2, <1>3 DEF Owned, OwnedOnDisk, Claimed
<1>5. SafeDisk(t.disk)
  BY <1>4 DEF Safe, SafeDisk
<1> QED BY <1>2, <1>5 DEF Safe

(* One slot changes.                                                       *)
LEMMA SafeSlot ==
  ASSUME NEW s, Safe(s), NEW t \in States, NEW slot \in Slots, NEW m \in Minodes,
         \A q \in Slots : t.tab[q] = IF q = slot THEN m ELSE s.tab[q],
         t.disk = s.disk, t.imgs = s.imgs,
         InUse(m) => /\ m.ino = Root => m.data.mode = "dir"
                     /\ Tidy => \A b \in Blocks \ {0} :
                                  HasBlock(m.data, b) => MayHave(s, m.ino, b)
  PROVE  Safe(t)
<1>1. m.ino \in 0..NInodes
  BY DEF Minodes
<1>2. ASSUME Tidy PROVE Owned(t)
  <2> SUFFICES ASSUME NEW b \in Blocks \ {0}, NEW i \in 0..NInodes, NEW j \in 0..NInodes,
                      Claimed(t, i, b), Claimed(t, j, b)
               PROVE  i = j /\ b - 1 \in t.disk.bmap
    BY DEF Owned
  <2>1. \A k \in 0..NInodes : Claimed(t, k, b) =>
          Claimed(s, k, b) \/ (InUse(m) /\ k = m.ino /\ HasBlock(m.data, b))
    BY DEF Claimed
  <2>2. InUse(m) /\ HasBlock(m.data, b) => MayHave(s, m.ino, b)
    BY <1>2
  <2>3. \A k, l \in 0..NInodes : Claimed(s, k, b) /\ Claimed(s, l, b) =>
          k = l /\ b - 1 \in s.disk.bmap
    BY <1>2 DEF Safe, Owned
  <2> QED BY <1>1, <2>1, <2>2, <2>3 DEF MayHave
<1> QED BY <1>2 DEF Safe

(* The inode of a minode in use is written to the disk.                    *)
LEMMA SafeWrite ==
  ASSUME NEW s, Safe(s), NEW slot \in Slots, InUse(s.tab[slot]), s.tab[slot].ino # 0,
         NEW t \in States, t.tab = s.tab, t.disk.bmap = s.disk.bmap,
         t.disk.itab = [s.disk.itab EXCEPT ![s.tab[slot].ino] = s.tab[slot].data],
         t.imgs \subseteq s.imgs \cup {t.disk}
  PROVE  Safe(t)
<1> DEFINE ino == s.tab[slot].ino
           data == s.tab[slot].data
<1>1. s.disk \in Disks /\ ino \in Inos /\ s.disk.itab \in [Inos -> InodeRecs]
  BY SafeFacts, SizesFacts DEF Inos, Disks
<1>2. \A i \in Inos : t.disk.itab[i] = IF i = ino THEN data ELSE s.disk.itab[i]
  BY <1>1
<1>3. \A i, b : Claimed(t, i, b) => Claimed(s, i, b)
  <2> SUFFICES ASSUME NEW i, NEW b, Claimed(t, i, b) PROVE Claimed(s, i, b)
    OBVIOUS
  <2>1. CASE i \in Inos /\ HasBlock(t.disk.itab[i], b)
    <3>1. CASE i = ino
      BY <1>2, <2>1, <3>1 DEF Claimed
    <3>2. CASE i # ino
      BY <1>2, <2>1, <3>2 DEF Claimed
    <3> QED BY <3>1, <3>2
  <2> QED BY <2>1 DEF Claimed
<1>4. Tidy => Owned(t)
  BY <1>3 DEF Safe, Owned
<1>5. t.disk.itab[Root].mode = "dir"
  BY <1>2, SizesFacts DEF Safe
<1>6. Inos \subseteq 0..NInodes
  BY SizesFacts DEF Inos
<1>7. SafeDisk(t.disk)
  BY <1>4, <1>5, <1>6 DEF Owned, OwnedOnDisk, Claimed, SafeDisk
<1> QED BY <1>4, <1>5, <1>7 DEF Safe

LEMMA SoundSame ==
  ASSUME NEW s, NEW h, NEW a, Sound(s, h, a), NEW t \in States, t.tab = s.tab, t.cwd = s.cwd,
         t.disk.itab = s.disk.itab, Tidy => s.disk.bmap \subseteq t.disk.bmap,
         t.imgs \subseteq s.imgs \cup {t.disk}, s.status = "wild" => t.status = "wild"
  PROVE  Sound(t, h, t.disk.imap)
<1>1. Safe(t)
  BY SafeSame DEF Sound
<1>2. \A q \in Slots : Enough(t, h, q)
  BY DEF Sound, Enough, Pins
<1> QED BY <1>1, <1>2 DEF Sound

LEMMA SoundSlot ==
  ASSUME NEW s, NEW h, NEW a, Sound(s, h, a), NEW g \in Held, NEW t, Safe(t), t.cwd = s.cwd,
         NEW slot \in Slots, NEW m \in Minodes,
         \A q \in Slots : t.tab[q] = IF q = slot THEN m ELSE s.tab[q],
         \A q \in Slots \ {slot} : g[q] <= h[q],
         s.status = "wild" => t.status = "wild",
         Enough(t, g, slot),
         InUse(m) => \A q \in Slots \ {slot} : InUse(s.tab[q]) => s.tab[q].ino # m.ino,
         slot = RootSlot => m.ino = Root /\ m.data.mode = "dir",
         slot = s.cwd => m.data.mode = "dir" \/ Loose(m)
  PROVE  Sound(t, g, t.disk.imap)
<1>1. ASSUME NEW q \in Slots PROVE Enough(t, g, q)
  <2>1. CASE q # slot
    <3>1. t.tab[q] = s.tab[q] /\ Enough(s, h, q) /\ Pins(t, q) = Pins(s, q)
      BY <2>1 DEF Sound, Pins
    <3>2. g[q] \in Nat /\ h[q] \in Nat /\ g[q] <= h[q] /\ s.tab[q].ref \in Int /\ Pins(s, q) \in Nat
      BY <2>1, SafeFacts DEF Sound, Held, Pins
    <3> QED BY <3>1, <3>2 DEF Enough
  <2> QED BY <2>1
<1>2. ASSUME NEW q \in Slots, NEW r \in Slots,
             InUse(t.tab[q]), InUse(t.tab[r]), t.tab[q].ino = t.tab[r].ino
      PROVE  q = r
  BY <1>2 DEF Sound
<1>3. s.cwd \in Slots /\ RootSlot \in Slots
  BY SafeFacts, SizesFacts DEF Sound
<1>4. t.tab[RootSlot].ino = Root /\ t.tab[RootSlot].data.mode = "dir"
  BY <1>3 DEF Sound
<1>5. t.tab[t.cwd].data.mode = "dir" \/ Loose(t.tab[t.cwd])
  BY <1>3 DEF Sound
<1> QED BY <1>1, <1>2, <1>4, <1>5 DEF Sound

LEMMA ReleasedFacts ==
  ASSUME NEW m \in Minodes
  PROVE  /\ Released(m) \in Minodes
         /\ Released(m).ino = m.ino /\ Released(m).data = m.data /\ Released(m).dirty = m.dirty
         /\ Released(m).ref = IF WritesBack(m) THEN 0 ELSE m.ref - 1
BY DEF Released, Minodes

LEMMA iputEffect ==
  ASSUME NEW s \in States, NEW slot \in Slots
  PROVE  LET m == s.tab[slot]
             t == iput(s, slot)
         IN  /\ t \in States
             /\ \A q \in Slots : t.tab[q] = IF q = slot THEN Released(m) ELSE s.tab[q]
             /\ t.cwd = s.cwd /\ t.ret = s.ret /\ t.mip = s.mip
             /\ t.disk.imap = s.disk.imap /\ t.disk.bmap = s.disk.bmap
             /\ t.status = IF WritesBack(m) /\ m.ino = 0 THEN "wild" ELSE s.status
             /\ IF WritesBack(m) /\ m.ino # 0
                THEN /\ t.disk.itab = [s.disk.itab EXCEPT ![m.ino] = m.data]
                     /\ t.imgs = s.imgs \cup {t.disk}
                ELSE t.disk = s.disk /\ t.imgs = s.imgs
<1> DEFINE m == s.tab[slot]
           r == Released(m)
           u == [s EXCEPT !.tab[slot] = r]
           d == [u.disk EXCEPT !.itab[m.ino] = m.data]
           t == iput(s, slot)
<1>1. m \in Minodes /\ s.disk \in Disks /\ s.tab \in [Slots -> Minodes]
  BY DEF States
<1>2. t = IF ~WritesBack(m) THEN u
          ELSE IF m.ino = 0 THEN Fails(u, "wild") ELSE PutBlock(u, d)
  BY DEF iput
<1>3. r \in Minodes
  BY <1>1, ReleasedFacts
<1> HIDE DEF r, t
<1>4. /\ u \in States /\ u.disk = s.disk /\ u.imgs = s.imgs /\ u.cwd = s.cwd
      /\ u.ret = s.ret /\ u.mip = s.mip /\ u.status = s.status
      /\ \A q \in Slots : u.tab[q] = IF q = slot THEN r ELSE s.tab[q]
  BY <1>1, <1>3 DEF States
<1> HIDE DEF u
<1>5. CASE ~WritesBack(m)
  <2>1. t = u
    BY <1>2, <1>5
  <2> QED BY <1>4, <1>5, <2>1 DEF r, t
<1>6. CASE WritesBack(m) /\ m.ino = 0
  <2>1. t = Fails(u, "wild")
    BY <1>2, <1>6
  <2>2. /\ t \in States /\ t.disk = u.disk /\ t.imgs = u.imgs /\ t.cwd = u.cwd
        /\ t.ret = u.ret /\ t.mip = u.mip /\ t.status = "wild" /\ t.tab = u.tab
    BY <1>4, <2>1 DEF Fails, States
  <2> QED BY <1>4, <1>6, <2>2 DEF r, t
<1>7. CASE WritesBack(m) /\ m.ino # 0
  <2>1. t = PutBlock(u, d)
    BY <1>2, <1>7
  <2>2. m.ino \in Inos /\ m.data \in InodeRecs
    BY <1>1, <1>7, SizesFacts DEF Minodes, Inos
  <2>3. /\ d \in Disks /\ d.imap = s.disk.imap /\ d.bmap = s.disk.bmap
        /\ d.itab = [s.disk.itab EXCEPT ![m.ino] = m.data]
    BY <1>1, <1>4, <2>2 DEF Disks
  <2> HIDE DEF d
  <2>4. /\ t \in States /\ t.disk = d /\ t.imgs = u.imgs \cup {d} /\ t.cwd = u.cwd
        /\ t.ret = u.ret /\ t.mip = u.mip /\ t.status = u.status /\ t.tab = u.tab
    BY <1>4, <2>1, <2>3 DEF PutBlock, States
  <2> QED BY <1>4, <1>7, <2>3, <2>4 DEF r, t
<1>8. m.ino = 0 \/ m.ino # 0
  OBVIOUS
<1> QED BY <1>5, <1>6, <1>7, <1>8

(* A minode in use may always be put, as far as the disk is concerned.     *)
LEMMA iputSafe ==
  ASSUME NEW s, Safe(s), NEW slot \in Slots, InUse(s.tab[slot])
  PROVE  Safe(iput(s, slot))
<1> DEFINE m == s.tab[slot]
           r == Released(m)
           t == iput(s, slot)
           w == [s EXCEPT !.disk = t.disk, !.imgs = t.imgs]
<1>0. s \in States /\ m \in Minodes
  BY SafeFacts
<1>1. /\ t \in States
      /\ \A q \in Slots : t.tab[q] = IF q = slot THEN r ELSE s.tab[q]
      /\ t.disk.bmap = s.disk.bmap
      /\ IF WritesBack(m) /\ m.ino # 0
         THEN /\ t.disk.itab = [s.disk.itab EXCEPT ![m.ino] = m.data]
              /\ t.imgs = s.imgs \cup {t.disk}
         ELSE t.disk = s.disk /\ t.imgs = s.imgs
  BY <1>0, iputEffect
<1>2. r \in Minodes /\ r.ino = m.ino /\ r.data = m.data
  BY <1>0, ReleasedFacts
<1> HIDE DEF t, r
<1>3. w \in States /\ w.disk = t.disk /\ w.imgs = t.imgs /\ w.tab = s.tab
  <2>1. t.disk \in Disks /\ t.imgs \in SUBSET Disks
    BY <1>1 DEF States
  <2> QED BY <1>0, <2>1 DEF States
<1> HIDE DEF w
<1>4. Safe(w)
  <2>1. CASE WritesBack(m) /\ m.ino # 0
    BY <1>1, <1>3, <2>1, SafeWrite
  <2>2. CASE ~(WritesBack(m) /\ m.ino # 0)
    BY <1>1, <1>3, <2>2, SafeSame
  <2> QED BY <2>1, <2>2
<1>5. r.ino = Root => r.data.mode = "dir"
  BY <1>2 DEF Safe
<1>6. \A b \in Blocks \ {0} : HasBlock(r.data, b) => MayHave(w, r.ino, b)
  BY <1>2, <1>3 DEF MayHave, Claimed
<1>7. Safe(t)
  BY <1>1, <1>2, <1>3, <1>4, <1>5, <1>6, SafeSlot
<1> QED BY <1>7 DEF t

(* A reference that the command holds is put, or one to a loose minode.    *)
LEMMA iputSound ==
  ASSUME NEW s, NEW h, NEW a, Sound(s, h, a), NEW g \in Held, NEW slot \in Slots,
         \A q \in Slots \ {slot} : g[q] <= h[q],
         Loose(s.tab[slot]) \/ g[slot] + 1 <= h[slot],
         s.status = "ok" \/ ~Loose(s.tab[slot])
  PROVE  Sound(iput(s, slot), g, a)
<1> DEFINE m == s.tab[slot]
           r == Released(m)
           t == iput(s, slot)
<1>0. /\ s \in States /\ m \in Minodes /\ m.ref \in Int /\ s.cwd \in Slots /\ RootSlot \in Slots
      /\ h[slot] \in Nat /\ g[slot] \in Nat /\ Pins(s, slot) \in Nat /\ Enough(s, h, slot)
  BY SafeFacts, SizesFacts DEF Sound, Held, Pins
<1>1. /\ t.cwd = s.cwd /\ t.disk.imap = s.disk.imap
      /\ \A q \in Slots : t.tab[q] = IF q = slot THEN r ELSE s.tab[q]
      /\ t.status = IF WritesBack(m) /\ m.ino = 0 THEN "wild" ELSE s.status
  BY <1>0, iputEffect
<1>2. /\ r \in Minodes /\ r.ino = m.ino /\ r.data = m.data /\ r.dirty = m.dirty
      /\ r.ref = IF WritesBack(m) THEN 0 ELSE m.ref - 1
  BY <1>0, ReleasedFacts
<1> HIDE DEF t, r
<1>3. m.ref >= 1
  BY <1>0 DEF Enough
<1>4. InUse(m)
  BY <1>0, <1>3 DEF InUse
<1>5. Safe(t)
  BY <1>4, iputSafe DEF t, Sound
<1>6. Loose(r) <=> Loose(m)
  BY <1>2 DEF Loose
<1>7. Enough(t, g, slot)
  <2>1. CASE Loose(m)
    <3>1. m.ino = 0 /\ m.dirty
      BY <2>1 DEF Loose
    <3>2. t.tab[slot] = r /\ Loose(r)
      BY <1>1, <1>6, <2>1
    <3>3. CASE m.ref - 1 <= 0
      <4>1. t.status = "wild"
        BY <1>1, <3>1, <3>3 DEF WritesBack
      <4> QED BY <3>2, <4>1 DEF Enough
    <3>4. CASE ~(m.ref - 1 <= 0)
      <4>1. r.ref = m.ref - 1
        BY <1>2, <3>4 DEF WritesBack
      <4>2. r.ref >= 1
        BY <1>0, <3>4, <4>1
      <4> QED BY <3>2, <4>2 DEF Enough
    <3> QED BY <3>3, <3>4
  <2>2. CASE ~Loose(m)
    <3>1. m.ref >= Pins(s, slot) + h[slot] /\ g[slot] + 1 <= h[slot]
      BY <1>0, <2>2 DEF Enough
    <3>2. r.ref >= Pins(s, slot) + g[slot]
      BY <1>0, <1>2, <3>1 DEF WritesBack
    <3>3. Pins(t, slot) = Pins(s, slot) /\ t.tab[slot] = r
      BY <1>1 DEF Pins
    <3> QED BY <1>6, <2>2, <3>2, <3>3 DEF Enough
  <2> QED BY <2>1, <2>2
<1>8. \A q \in Slots \ {slot} : InUse(s.tab[q]) => s.tab[q].ino # r.ino
  BY <1>2, <1>4 DEF Sound
<1>9. /\ slot = RootSlot => r.ino = Root /\ r.data.mode = "dir"
      /\ slot = s.cwd => r.data.mode = "dir" \/ Loose(r)
  BY <1>2, <1>6 DEF Sound
<1>10. s.status = "wild" => t.status = "wild"
  BY <1>1
<1>11. Sound(t, g, t.disk.imap)
  BY <1>1, <1>2, <1>5, <1>7, <1>8, <1>9, <1>10, SoundSlot
<1> QED BY <1>1, <1>11 DEF t, Sound

(* Nothing but the rest of the program state changes.                      *)
LEMMA SoundRest ==
  ASSUME NEW s, NEW h, NEW a, Sound(s, h, a), s.status # "wild", NEW t \in States,
         t.disk = s.disk, t.imgs = s.imgs, t.tab = s.tab, t.cwd = s.cwd
  PROVE  Sound(t, h, a)
BY SoundSame DEF Sound

LEMMA SoundLess ==
  ASSUME NEW s, NEW h, NEW a, Sound(s, h, a), NEW g \in Held, \A q \in Slots : g[q] <= h[q]
  PROVE  Sound(s, g, a)
<1>1. ASSUME NEW q \in Slots PROVE Enough(s, g, q)
  <2>1. g[q] \in Nat /\ h[q] \in Nat /\ g[q] <= h[q] /\ s.tab[q].ref \in Int /\ Pins(s, q) \in Nat
    BY SafeFacts DEF Sound, Held, Pins
  <2>2. Enough(s, h, q)
    BY DEF Sound
  <2> QED BY <2>1, <2>2 DEF Enough
<1> QED BY <1>1 DEF Sound

LEMMA MoreFacts ==
  ASSUME NEW h \in Held, NEW slot \in Slots
  PROVE  /\ More(h, slot) \in Held
         /\ \A q \in Slots : h[q] \in Nat /\ h[q] <= More(h, slot)[q]
         /\ \A q \in Slots \ {slot} : More(h, slot)[q] = h[q]
         /\ More(h, slot)[slot] = h[slot] + 1
BY DEF Held, More

(* What a running program may rely on.                                     *)
LEMMA SoundFacts ==
  ASSUME NEW s, NEW h, NEW a, Sound(s, h, a)
  PROVE  /\ s \in States /\ s.cwd \in Slots /\ RootSlot \in Slots /\ h \in Held
         /\ \A q \in Slots : /\ h[q] \in Nat /\ Pins(s, q) \in Nat /\ Enough(s, h, q)
                             /\ s.tab[q] \in Minodes /\ s.tab[q].ref \in Int
                             /\ s.tab[q].ino \in 0..NInodes /\ s.tab[q].data \in InodeRecs
         /\ s.status # "wild" =>
              \A q \in Slots : /\ s.tab[q].ref >= 0
                               /\ h[q] >= 1 \/ Pins(s, q) >= 1 \/ Loose(s.tab[q]) => InUse(s.tab[q])
         /\ InUse(s.tab[RootSlot]) /\ s.tab[RootSlot].ino = Root /\ ~Loose(s.tab[RootSlot])
         /\ s.disk.imap = a
<1>1. /\ s \in States /\ s.cwd \in Slots /\ RootSlot \in Slots /\ h \in Held
      /\ \A q \in Slots : /\ h[q] \in Nat /\ Pins(s, q) \in Nat /\ Enough(s, h, q)
                          /\ s.tab[q] \in Minodes /\ s.tab[q].ref \in Int
                          /\ s.tab[q].ino \in 0..NInodes /\ s.tab[q].data \in InodeRecs
  BY SafeFacts, SizesFacts DEF Sound, Held, Pins
<1>2. ASSUME s.status # "wild", NEW q \in Slots
      PROVE  /\ s.tab[q].ref >= 0
             /\ h[q] >= 1 \/ Pins(s, q) >= 1 \/ Loose(s.tab[q]) => s.tab[q].ref # 0
  BY <1>1, <1>2 DEF Enough
<1>3. s.tab[RootSlot].ino = Root /\ ~Loose(s.tab[RootSlot])
  BY DEF Sound, Loose, Root
<1>4. Pins(s, RootSlot) >= 1
  BY DEF Pins
<1>5. s.tab[RootSlot].ref # 0
  BY <1>1, <1>3, <1>4 DEF Enough
<1> QED BY <1>1, <1>2, <1>3, <1>5 DEF InUse, Sound

LEMMA ReturnsSound ==
  ASSUME NEW s, NEW h, NEW a, Sound(s, h, a), NEW r \in Int
  PROVE  Sound(Returns(s, r), h, a)
<1> DEFINE t == Returns(s, r)
<1>1. s \in States /\ s.disk.imap = a
  BY SoundFacts
<1>2. /\ t \in States /\ t.disk = s.disk /\ t.imgs = s.imgs
      /\ t.tab = s.tab /\ t.cwd = s.cwd /\ t.status = s.status
  BY <1>1 DEF Returns, States
<1> HIDE DEF t
<1>3. Sound(t, h, t.disk.imap)
  BY <1>2, SoundSame
<1> QED BY <1>1, <1>2, <1>3 DEF t

LEMMA FailsSound ==
  ASSUME NEW s, NEW h, NEW a, Sound(s, h, a), s.status # "wild",
         NEW how \in {"hang", "segv", "wild"}
  PROVE  Sound(Fails(s, how), h, a)
<1> DEFINE t == Fails(s, how)
<1>1. s \in States
  BY SoundFacts
<1>2. /\ t \in States /\ t.disk = s.disk /\ t.imgs = s.imgs
      /\ t.tab = s.tab /\ t.cwd = s.cwd
  BY <1>1 DEF Fails, States
<1> HIDE DEF t
<1>3. Sound(t, h, a)
  BY <1>2, SoundRest
<1> QED BY <1>3 DEF t

LEMMA searchSame ==
  ASSUME NEW s \in States, NEW slot, NEW name
  PROVE  LET t == search(s, slot, name)
         IN  /\ t.disk = s.disk /\ t.imgs = s.imgs /\ t.tab = s.tab
             /\ t.cwd = s.cwd /\ t.mip = s.mip
<1> DEFINE inode == INode(s, slot)
           hits == {i \in 1..NDirect : Match(DataBlock(s, inode, i), name) # NotFound}
           ends == hits \cup Stops(s, inode)
           i == Lowest(ends)
           b == DataBlock(s, inode, i)
           r == b[Match(b, name)].ino
           end == Walk(b).end
           t == search(s, slot, name)
<1>1. t = IF ends = {} \/ inode.block[i] = 0 THEN Returns(s, 0)
          ELSE IF i \in hits THEN Returns(s, r)
          ELSE Fails(s, end)
  BY DEF search
<1> HIDE DEF inode, hits, ends, i, r, end, t
<1>2. t = Returns(s, 0) \/ t = Returns(s, r) \/ t = Fails(s, end)
  BY <1>1
<1>3. ASSUME NEW x PROVE /\ Returns(s, x).disk = s.disk /\ Returns(s, x).imgs = s.imgs
                         /\ Returns(s, x).tab = s.tab /\ Returns(s, x).cwd = s.cwd
                         /\ Returns(s, x).mip = s.mip
                         /\ Fails(s, x).disk = s.disk /\ Fails(s, x).imgs = s.imgs
                         /\ Fails(s, x).tab = s.tab /\ Fails(s, x).cwd = s.cwd
                         /\ Fails(s, x).mip = s.mip
  BY DEF Returns, Fails, States
<1> QED BY <1>2, <1>3 DEF t

LEMMA searchSound ==
  ASSUME NEW s, Good(s), NEW h, NEW a, Sound(s, h, a), s.status = "ok", NEW slot \in Slots, NEW name
  PROVE  Sound(search(s, slot, name), h, a)
<1> DEFINE t == search(s, slot, name)
<1>1. t \in States
  BY searchGood, StateFacts
<1>2. /\ t.disk = s.disk /\ t.imgs = s.imgs /\ t.tab = s.tab
      /\ t.cwd = s.cwd /\ t.mip = s.mip
  BY searchSame, SoundFacts
<1> HIDE DEF t
<1>3. Sound(t, h, a)
  BY <1>1, <1>2, SoundRest
<1> QED BY <1>3 DEF t

LEMMA JunkFacts ==
  /\ JunkInode.mode = "junk"
  /\ \A b \in Blocks \ {0} : ~HasBlock(JunkInode, b)
BY SizesFacts DEF JunkInode, Inode, NoBlocks, HasBlock

(* What iget does to a table that is sound.                                *)
LEMMA SlotEffect ==
  ASSUME NEW s \in States, NEW slot \in Slots, NEW m \in Minodes
  PROVE  LET t == Returns([s EXCEPT !.tab[slot] = m], slot)
         IN  /\ t \in States /\ t.disk = s.disk /\ t.imgs = s.imgs /\ t.cwd = s.cwd
             /\ t.status = s.status /\ t.mip = s.mip /\ t.ret = slot
             /\ \A q \in Slots : t.tab[q] = IF q = slot THEN m ELSE s.tab[q]
<1> DEFINE u == [s EXCEPT !.tab[slot] = m]
           t == Returns(u, slot)
<1>1. slot \in Int
  BY SizesFacts
<1>2. /\ u \in States /\ u.disk = s.disk /\ u.imgs = s.imgs /\ u.cwd = s.cwd
      /\ u.status = s.status /\ u.mip = s.mip
      /\ \A q \in Slots : u.tab[q] = IF q = slot THEN m ELSE s.tab[q]
  BY DEF States
<1> HIDE DEF u
<1>3. /\ t \in States /\ t.disk = u.disk /\ t.imgs = u.imgs /\ t.cwd = u.cwd
      /\ t.status = u.status /\ t.mip = u.mip /\ t.ret = slot /\ t.tab = u.tab
  BY <1>1, <1>2 DEF Returns, States
<1> QED BY <1>2, <1>3 DEF u

\* t is how iget(s, ino) returns to a command that held h.
Gets(s, t, h, a, ino) ==
  /\ t.status # "ok" => Sound(t, h, a)
  /\ t.status = "ok" =>
       /\ t.ret \in Slots /\ Sound(t, More(h, t.ret), a)
       /\ t.disk = s.disk /\ t.imgs = s.imgs /\ t.cwd = s.cwd
       /\ \A q \in Slots \ {t.ret} : t.tab[q] = s.tab[q]
       /\ t.tab[t.ret].ino = ino /\ t.tab[t.ret].ref >= 1
       /\ Loose(t.tab[t.ret]) => t.tab[t.ret].ref >= 2
       /\ IF InUse(s.tab[t.ret])
          THEN s.tab[t.ret].ino = ino /\ t.tab[t.ret].data = s.tab[t.ret].data
          ELSE t.tab[t.ret].ref = 1
       /\ \A b \in Blocks \ {0} : \A j : Claimed(t, j, b) => Claimed(s, j, b)

LEMMA igetSound ==
  ASSUME NEW s, Good(s), NEW h, NEW a, Sound(s, h, a), s.status = "ok", NEW ino \in 0..NInodes
  PROVE  Gets(s, iget(s, ino), h, a, ino)
<1> DEFINE t == iget(s, ino)
<1>0. s \in States /\ s.cwd \in Slots /\ h \in Held
  BY SoundFacts
<1>1. CASE t = Fails(s, "segv")
  <2>1. Sound(t, h, a) /\ t.status # "ok"
    BY <1>1, FailsSound, FailsGood
  <2> QED BY <2>1 DEF Gets
<1>2. ASSUME NEW slot \in Slots, slot \in Cached(s.tab, ino),
             t = Returns([s EXCEPT !.tab[slot] = Shared(s.tab[slot])], slot)
      PROVE  Gets(s, t, h, a, ino)
  <2> DEFINE m == s.tab[slot]
             n == Shared(m)
             g == More(h, slot)
  <2>1. /\ m \in Minodes /\ m.ref \in Int /\ m.ref >= 0 /\ InUse(m) /\ m.ino = ino
        /\ h[slot] \in Nat /\ Pins(s, slot) \in Nat /\ Enough(s, h, slot)
    BY <1>2, SoundFacts DEF Cached
  <2>2. /\ n \in Minodes /\ n.ref = m.ref + 1 /\ n.ino = ino /\ n.data = m.data
        /\ n.dirty = m.dirty
    BY <2>1 DEF Shared, Minodes
  <2>3. /\ g \in Held /\ g[slot] = h[slot] + 1
        /\ \A q \in Slots \ {slot} : g[q] = h[q] /\ h[q] \in Nat
    BY <1>0, MoreFacts
  <2> HIDE DEF n, g
  <2>4. /\ t \in States /\ t.disk = s.disk /\ t.imgs = s.imgs /\ t.cwd = s.cwd
        /\ t.status = s.status /\ t.ret = slot
        /\ \A q \in Slots : t.tab[q] = IF q = slot THEN n ELSE s.tab[q]
    BY <1>0, <1>2, <2>2, SlotEffect DEF n
  <2> HIDE DEF t
  <2>5. Loose(n) <=> Loose(m)
    BY <2>1, <2>2 DEF Loose
  <2>6. n.ref >= 1 /\ (Loose(n) => n.ref >= 2) /\ InUse(n)
    BY <2>1, <2>2, <2>5 DEF InUse, Enough
  <2>7. Safe(t)
    <3>1. /\ n.ino = Root => n.data.mode = "dir"
          /\ \A b \in Blocks \ {0} : HasBlock(n.data, b) => MayHave(s, n.ino, b)
      BY <2>1, <2>2 DEF Sound, Safe, MayHave, Claimed
    <3>2. Safe(s)
      BY DEF Sound
    <3> QED BY <2>2, <2>4, <3>1, <3>2, SafeSlot
  <2>8. Enough(t, g, slot)
    <3>1. t.tab[slot] = n /\ Pins(t, slot) = Pins(s, slot)
      BY <2>4 DEF Pins
    <3>2. CASE Loose(m)
      BY <2>5, <2>6, <3>1, <3>2 DEF Enough
    <3>3. CASE ~Loose(m)
      <4>1. m.ref >= Pins(s, slot) + h[slot]
        BY <2>1, <3>3 DEF Enough
      <4>2. n.ref >= Pins(s, slot) + g[slot]
        BY <2>1, <2>2, <2>3, <4>1
      <4> QED BY <2>5, <3>1, <3>3, <4>2 DEF Enough
    <3> QED BY <3>2, <3>3
  <2>9. \A q \in Slots \ {slot} : InUse(s.tab[q]) => s.tab[q].ino # n.ino
    BY <2>1, <2>2 DEF Sound
  <2>10. /\ slot = RootSlot => n.ino = Root /\ n.data.mode = "dir"
         /\ slot = s.cwd => n.data.mode = "dir" \/ Loose(n)
    BY <2>1, <2>2, <2>5 DEF Sound
  <2>11. \A q \in Slots \ {slot} : g[q] <= h[q]
    BY <2>3
  <2>12. Sound(t, g, t.disk.imap)
    BY <2>2, <2>3, <2>4, <2>7, <2>8, <2>9, <2>10, <2>11, SoundSlot
  <2>13. t.disk.imap = a
    BY <2>4 DEF Sound
  <2>14. \A b, j : Claimed(t, j, b) => Claimed(s, j, b)
    BY <2>1, <2>2, <2>4 DEF Claimed
  <2> QED BY <2>1, <2>2, <2>4, <2>6, <2>12, <2>13, <2>14 DEF Gets, g
<1>3. ASSUME NEW slot \in Slots, NEW data \in InodeRecs, Cached(s.tab, ino) = {},
             ~InUse(s.tab[slot]),
             IF ino = 0 THEN data = JunkInode ELSE data = s.disk.itab[ino],
             t = Returns([s EXCEPT !.tab[slot] = Loaded(ino, data)], slot)
      PROVE  Gets(s, t, h, a, ino)
  <2> DEFINE n == Loaded(ino, data)
             g == More(h, slot)
  <2>1. /\ n \in Minodes /\ n.ref = 1 /\ n.ino = ino /\ n.data = data /\ ~Loose(n) /\ InUse(n)
    BY DEF Loaded, Minodes, Loose, InUse
  <2>2. /\ g \in Held /\ g[slot] = h[slot] + 1
        /\ \A q \in Slots \ {slot} : g[q] = h[q] /\ h[q] \in Nat
    BY <1>0, MoreFacts
  <2> HIDE DEF n, g
  <2>3. /\ t \in States /\ t.disk = s.disk /\ t.imgs = s.imgs /\ t.cwd = s.cwd
        /\ t.status = s.status /\ t.ret = slot
        /\ \A q \in Slots : t.tab[q] = IF q = slot THEN n ELSE s.tab[q]
    BY <1>0, <1>3, <2>1, SlotEffect DEF n
  <2> HIDE DEF t
  <2>4. /\ ~Loose(s.tab[slot]) /\ s.tab[slot].ref = 0 /\ Enough(s, h, slot)
        /\ h[slot] \in Nat /\ Pins(s, slot) \in Nat
    BY <1>3, SoundFacts DEF InUse
  <2>5. h[slot] = 0 /\ Pins(s, slot) = 0
    BY <2>4 DEF Enough
  <2>6. slot # RootSlot /\ slot # s.cwd
    BY <1>0, <2>5, SizesFacts DEF Pins
  <2>7. Safe(t)
    <3>1. ino # 0 => ino \in Inos
      BY SizesFacts DEF Inos
    <3>2. n.ino = Root => n.data.mode = "dir"
      BY <1>3, <2>1 DEF Sound, Safe, Root
    <3>3. ASSUME NEW b \in Blocks \ {0}, HasBlock(data, b) PROVE MayHave(s, ino, b)
      <4>1. CASE ino = 0
        BY <1>3, <3>3, <4>1, JunkFacts
      <4>2. CASE ino # 0
        <5>1. data = s.disk.itab[ino] /\ ino \in Inos
          BY <1>3, <3>1, <4>2
        <5> QED BY <3>3, <5>1 DEF MayHave, Claimed
      <4> QED BY <4>1, <4>2
    <3>4. \A b \in Blocks \ {0} : HasBlock(n.data, b) => MayHave(s, n.ino, b)
      BY <2>1, <3>3
    <3>5. Safe(s)
      BY DEF Sound
    <3> QED BY <2>1, <2>3, <3>2, <3>4, <3>5, SafeSlot
  <2>8. Enough(t, g, slot)
    <3>1. t.tab[slot] = n /\ Pins(t, slot) = Pins(s, slot)
      BY <2>3 DEF Pins
    <3>2. n.ref >= Pins(t, slot) + g[slot]
      BY <2>1, <2>2, <2>4, <2>5, <3>1
    <3> QED BY <2>1, <3>1, <3>2 DEF Enough
  <2>9. \A q \in Slots \ {slot} : InUse(s.tab[q]) => s.tab[q].ino # n.ino
    <3>1. DOMAIN s.tab = Slots
      BY <1>0 DEF States
    <3> QED BY <1>3, <2>1, <3>1 DEF Cached
  <2>10. \A q \in Slots \ {slot} : g[q] <= h[q]
    BY <2>2
  <2>11. Sound(t, g, t.disk.imap)
    BY <2>1, <2>2, <2>3, <2>6, <2>7, <2>8, <2>9, <2>10, SoundSlot
  <2>12. t.disk.imap = a
    BY <2>3 DEF Sound
  <2>13. ASSUME NEW b \in Blocks \ {0}, NEW j, Claimed(t, j, b) PROVE Claimed(s, j, b)
    <3>1. CASE ino = 0
      <4>1. ~HasBlock(n.data, b)
        BY <1>3, <2>1, <3>1, JunkFacts
      <4> QED BY <2>3, <2>13, <4>1 DEF Claimed
    <3>2. CASE ino # 0
      <4>1. n.data = s.disk.itab[ino] /\ ino \in Inos
        BY <1>3, <2>1, <3>2, SizesFacts DEF Inos
      <4> QED BY <2>1, <2>3, <2>13, <4>1 DEF Claimed
    <3> QED BY <3>1, <3>2
  <2> QED BY <1>3, <2>1, <2>3, <2>11, <2>12, <2>13 DEF Gets, g
<1> HIDE DEF t
<1>4. Fetches(s, ino, t)
  BY igetCases DEF t
<1>5. Gets(s, t, h, a, ino)
  <2>1. CASE t = Fails(s, "segv")
    BY <1>1, <2>1 DEF t
  <2>2. CASE \E slot \in Slots :
               /\ slot \in Cached(s.tab, ino)
               /\ t = Returns([s EXCEPT !.tab[slot] = Shared(s.tab[slot])], slot)
    BY <1>2, <2>2
  <2>3. CASE /\ Cached(s.tab, ino) = {}
             /\ \E slot \in Slots, data \in InodeRecs :
                  /\ ~InUse(s.tab[slot])
                  /\ IF ino = 0 THEN data = JunkInode ELSE data = s.disk.itab[ino]
                  /\ t = Returns([s EXCEPT !.tab[slot] = Loaded(ino, data)], slot)
    BY <1>3, <2>3
  <2> QED BY <1>4, <2>1, <2>2, <2>3 DEF Fetches
<1> QED BY <1>5 DEF t

-----------------------------------------------------------------------------
(* What commands do to the bitmaps, to blocks and to a minode.             *)

\* The references, and the inodes on the disk and in memory, are the same but for
\* the blocks, the link count and the dirty mark of minodes.
Frame(s, t) ==
  /\ t.disk.itab = s.disk.itab /\ t.cwd = s.cwd
  /\ \A q \in Slots : /\ t.tab[q].ref = s.tab[q].ref /\ t.tab[q].ino = s.tab[q].ino
                      /\ t.tab[q].data.mode = s.tab[q].data.mode

Slotted(s, t, slot, m) ==
  /\ t \in States /\ t.disk = s.disk /\ t.imgs = s.imgs /\ t.cwd = s.cwd
  /\ t.status = s.status /\ t.ret = s.ret /\ t.mip = s.mip
  /\ \A q \in Slots : t.tab[q] = IF q = slot THEN m ELSE s.tab[q]

Changed(m, dirty, inode) == [ref |-> m.ref, ino |-> m.ino, dirty |-> dirty, data |-> inode]

LEMMA ChangedFacts ==
  ASSUME NEW m \in Minodes, NEW dirty \in BOOLEAN, NEW inode \in InodeRecs
  PROVE  /\ Changed(m, dirty, inode) \in Minodes
         /\ Changed(m, dirty, inode).ref = m.ref /\ Changed(m, dirty, inode).ino = m.ino
         /\ Changed(m, dirty, inode).dirty = dirty /\ Changed(m, dirty, inode).data = inode
BY DEF Changed, Minodes

LEMMA SlottedBy ==
  ASSUME NEW s \in States, NEW slot \in Slots, NEW m \in Minodes
  PROVE  Slotted(s, [s EXCEPT !.tab[slot] = m], slot, m)
BY DEF States, Slotted

LEMMA DataSlotted ==
  ASSUME NEW s \in States, NEW slot \in Slots, NEW inode \in InodeRecs
  PROVE  Slotted(s, [s EXCEPT !.tab[slot].data = inode], slot,
                 Changed(s.tab[slot], s.tab[slot].dirty, inode))
<1> DEFINE m == Changed(s.tab[slot], s.tab[slot].dirty, inode)
<1>1. s.tab[slot] \in Minodes /\ s.tab[slot].dirty \in BOOLEAN
  BY DEF States, Minodes
<1>2. [s EXCEPT !.tab[slot].data = inode] = [s EXCEPT !.tab[slot] = m]
  <2>1. [s.tab[slot] EXCEPT !.data = inode] = m
    BY <1>1 DEF Minodes, Changed
  <2> HIDE DEF m
  <2> QED BY <2>1
<1>3. m \in Minodes
  BY <1>1, ChangedFacts
<1> HIDE DEF m
<1>4. Slotted(s, [s EXCEPT !.tab[slot].data = inode], slot, m)
  BY <1>2, <1>3, SlottedBy
<1> QED BY <1>4 DEF m

LEMMA DirtySlotted ==
  ASSUME NEW s \in States, NEW slot \in Slots
  PROVE  Slotted(s, [s EXCEPT !.tab[slot].dirty = TRUE], slot,
                 Changed(s.tab[slot], TRUE, s.tab[slot].data))
<1> DEFINE x == s.tab[slot]
           y == [x EXCEPT !.dirty = TRUE]
           m == Changed(x, TRUE, x.data)
           t == [s EXCEPT !.tab[slot].dirty = TRUE]
<1>1. x \in Minodes /\ x.data \in InodeRecs
  BY DEF States, Minodes
<1>2. t = [s EXCEPT !.tab[slot] = y]
  OBVIOUS
<1>3. m \in Minodes /\ m.ref = x.ref /\ m.ino = x.ino /\ m.dirty = TRUE /\ m.data = x.data
  BY <1>1, ChangedFacts
<1> HIDE DEF m
<1>4. y \in Minodes /\ y.ref = x.ref /\ y.ino = x.ino /\ y.dirty = TRUE /\ y.data = x.data
  BY <1>1 DEF Minodes
<1> HIDE DEF x, y, t
<1>5. y = m
  BY <1>3, <1>4, SameMinode
<1>6. Slotted(s, t, slot, m)
  BY <1>2, <1>3, <1>5, SlottedBy
<1> QED BY <1>6 DEF m, t, x

LEMMA MinodeSound ==
  ASSUME NEW s, NEW h, NEW a, Sound(s, h, a), NEW slot \in Slots, NEW m \in Minodes,
         NEW t, Slotted(s, t, slot, m),
         m.ref = s.tab[slot].ref, m.ino = s.tab[slot].ino,
         m.data.mode = s.tab[slot].data.mode,
         m.dirty = s.tab[slot].dirty \/ (m.dirty /\ h[slot] >= 1),
         Tidy /\ InUse(m) => \A b \in Blocks \ {0} : HasBlock(m.data, b) => MayHave(s, m.ino, b)
  PROVE  Sound(t, h, a) /\ Frame(s, t)
<1> DEFINE old == s.tab[slot]
<1>1. /\ s \in States /\ h \in Held /\ old.ref \in Int /\ h[slot] \in Nat /\ Pins(s, slot) \in Nat
      /\ Enough(s, h, slot) /\ s.disk.imap = a
  BY SoundFacts
<1>2. Loose(old) => Loose(m)
  BY DEF Loose
<1>3. Safe(t)
  <2>1. InUse(m) /\ m.ino = Root => m.data.mode = "dir"
    BY DEF Sound, Safe, InUse
  <2>2. Safe(s)
    BY DEF Sound
  <2> QED BY <2>1, <2>2, SafeSlot DEF Slotted
<1>4. Enough(t, h, slot)
  <2>1. t.tab[slot] = m /\ Pins(t, slot) = Pins(s, slot) /\ t.status = s.status
    BY DEF Slotted, Pins
  <2>2. CASE Loose(old)
    BY <1>1, <1>2, <2>1, <2>2 DEF Enough
  <2>3. CASE ~Loose(old)
    <3>1. m.ref >= Pins(s, slot) + h[slot]
      BY <1>1, <2>3 DEF Enough
    <3>2. CASE Loose(m)
      <4>1. h[slot] >= 1
        BY <2>3, <3>2 DEF Loose
      <4>2. m.ref >= 1
        BY <1>1, <3>1, <4>1
      <4> QED BY <2>1, <3>2, <4>2 DEF Enough
    <3>3. CASE ~Loose(m)
      BY <2>1, <3>1, <3>3 DEF Enough
    <3> QED BY <3>2, <3>3
  <2> QED BY <2>2, <2>3
<1>5. \A q \in Slots : h[q] <= h[q]
  BY SoundFacts
<1>6. InUse(m) => \A q \in Slots \ {slot} : InUse(s.tab[q]) => s.tab[q].ino # m.ino
  BY DEF Sound, InUse
<1>7. /\ slot = RootSlot => m.ino = Root /\ m.data.mode = "dir"
      /\ slot = s.cwd => m.data.mode = "dir" \/ Loose(m)
  BY <1>2 DEF Sound
<1>8. Sound(t, h, t.disk.imap)
  BY <1>1, <1>3, <1>4, <1>5, <1>6, <1>7, SoundSlot DEF Slotted
<1>9. t.disk.imap = a /\ Frame(s, t)
  BY <1>1 DEF Slotted, Frame
<1> QED BY <1>8, <1>9

LEMMA LinksSound ==
  ASSUME NEW s, NEW h, NEW a, Sound(s, h, a), NEW slot \in Slots, NEW n \in 0..LinkModulus-1
  PROVE  LET t == [s EXCEPT !.tab[slot].data.links = n]
         IN  Sound(t, h, a) /\ Frame(s, t) /\ t.status = s.status /\ t.disk = s.disk
<1> DEFINE x == s.tab[slot]
           inode == [x.data EXCEPT !.links = n]
           m == Changed(x, x.dirty, inode)
           t == [s EXCEPT !.tab[slot].data.links = n]
<1>1. s \in States /\ x \in Minodes /\ x.dirty \in BOOLEAN /\ x.data \in InodeRecs
  BY SoundFacts DEF Minodes
<1>2. inode \in InodeRecs /\ inode.mode = x.data.mode /\ inode.block = x.data.block
  BY <1>1 DEF InodeRecs
<1>3. t = [s EXCEPT !.tab[slot].data = inode]
  OBVIOUS
<1> HIDE DEF inode, t
<1>4. Slotted(s, t, slot, m)
  BY <1>1, <1>2, <1>3, DataSlotted
<1>5. /\ m \in Minodes /\ m.ref = x.ref /\ m.ino = x.ino /\ m.dirty = x.dirty /\ m.data = inode
  BY <1>1, <1>2, ChangedFacts
<1> HIDE DEF m
<1>6. Tidy /\ InUse(m) => \A b \in Blocks \ {0} : HasBlock(m.data, b) => MayHave(s, m.ino, b)
  BY <1>2, <1>5 DEF HasBlock, InUse, MayHave, Claimed
<1>7. Sound(t, h, a) /\ Frame(s, t)
  BY <1>2, <1>4, <1>5, <1>6, MinodeSound
<1> QED BY <1>4, <1>7 DEF t, Slotted

LEMMA DirtySound ==
  ASSUME NEW s, NEW h, NEW a, Sound(s, h, a), NEW slot \in Slots, h[slot] >= 1
  PROVE  LET t == [s EXCEPT !.tab[slot].dirty = TRUE]
         IN  Sound(t, h, a) /\ Frame(s, t) /\ t.status = s.status /\ t.disk = s.disk
<1> DEFINE x == s.tab[slot]
           m == Changed(x, TRUE, x.data)
           t == [s EXCEPT !.tab[slot].dirty = TRUE]
<1>1. s \in States /\ x \in Minodes /\ x.data \in InodeRecs
  BY SoundFacts DEF Minodes
<1>2. Slotted(s, t, slot, m)
  BY <1>1, DirtySlotted
<1>3. /\ m \in Minodes /\ m.ref = x.ref /\ m.ino = x.ino /\ m.dirty = TRUE /\ m.data = x.data
  BY <1>1, ChangedFacts
<1> HIDE DEF m, t
<1>4. Tidy /\ InUse(m) => \A b \in Blocks \ {0} : HasBlock(m.data, b) => MayHave(s, m.ino, b)
  BY <1>3 DEF InUse, MayHave, Claimed
<1>5. Sound(t, h, a) /\ Frame(s, t)
  BY <1>2, <1>3, <1>4, MinodeSound
<1> QED BY <1>2, <1>5 DEF t, Slotted

LEMMA BlockSound ==
  ASSUME NEW s, NEW h, NEW a, Sound(s, h, a), NEW slot \in Slots,
         NEW k \in 1..NDirect+1, NEW bno \in Blocks,
         Tidy /\ bno # 0 => MayHave(s, s.tab[slot].ino, bno)
  PROVE  LET t == [s EXCEPT !.tab[slot].data.block[k] = bno]
         IN  Sound(t, h, a) /\ Frame(s, t) /\ t.status = s.status /\ t.disk = s.disk
<1> DEFINE x == s.tab[slot]
           inode == [x.data EXCEPT !.block[k] = bno]
           m == Changed(x, x.dirty, inode)
           t == [s EXCEPT !.tab[slot].data.block[k] = bno]
<1>1. s \in States /\ x \in Minodes /\ x.dirty \in BOOLEAN /\ x.data \in InodeRecs
  BY SoundFacts DEF Minodes
<1>2. /\ inode \in InodeRecs /\ inode.mode = x.data.mode
      /\ \A j \in 1..NDirect+1 : inode.block[j] = IF j = k THEN bno ELSE x.data.block[j]
  BY <1>1 DEF InodeRecs
<1>3. t = [s EXCEPT !.tab[slot].data = inode]
  OBVIOUS
<1> HIDE DEF inode, t
<1>4. Slotted(s, t, slot, m)
  BY <1>1, <1>2, <1>3, DataSlotted
<1>5. /\ m \in Minodes /\ m.ref = x.ref /\ m.ino = x.ino /\ m.dirty = x.dirty /\ m.data = inode
  BY <1>1, <1>2, ChangedFacts
<1> HIDE DEF m
<1>6. ASSUME Tidy, InUse(m), NEW b \in Blocks \ {0}, HasBlock(m.data, b)
      PROVE  MayHave(s, m.ino, b)
  <2>1. PICK j \in 1..NDirect+1 : inode.block[j] = b
    BY <1>5, <1>6 DEF HasBlock
  <2>2. CASE j = k
    BY <1>2, <1>5, <1>6, <2>1, <2>2
  <2>3. CASE j # k
    <3>1. HasBlock(x.data, b)
      BY <1>2, <2>1, <2>3 DEF HasBlock
    <3> QED BY <1>5, <1>6, <3>1 DEF InUse, MayHave, Claimed
  <2> QED BY <2>2, <2>3
<1>7. Sound(t, h, a) /\ Frame(s, t)
  BY <1>2, <1>4, <1>5, <1>6, MinodeSound
<1> QED BY <1>4, <1>7 DEF t, Slotted

LEMMA PutBlockEffect ==
  ASSUME NEW s \in States, NEW d \in Disks
  PROVE  LET t == PutBlock(s, d)
         IN  /\ t \in States /\ t.disk = d /\ t.imgs = s.imgs \cup {d}
             /\ t.tab = s.tab /\ t.cwd = s.cwd /\ t.status = s.status
             /\ t.ret = s.ret /\ t.mip = s.mip
BY DEF PutBlock, States

LEMMA PutDataSound ==
  ASSUME NEW s, NEW h, NEW a, Sound(s, h, a), NEW b, NEW data, PutData(s, b, data) \in States
  PROVE  LET t == PutData(s, b, data)
         IN  /\ Sound(t, h, a) /\ Frame(s, t) /\ t.status = s.status
             /\ t.disk.bmap = s.disk.bmap /\ t.tab = s.tab
<1> DEFINE d == [s.disk EXCEPT !.blk[b] = data]
           t == PutData(s, b, data)
<1>1. s \in States /\ s.disk \in Disks /\ s.disk.imap = a
  BY SoundFacts DEF States
<1>2. t = PutBlock(s, d)
  BY DEF PutData
<1>3. d.imap = s.disk.imap /\ d.bmap = s.disk.bmap /\ d.itab = s.disk.itab
  BY <1>1 DEF Disks
<1> HIDE DEF d, t
<1>4. /\ t.disk = d /\ t.imgs = s.imgs \cup {d} /\ t.tab = s.tab /\ t.cwd = s.cwd
      /\ t.status = s.status
  BY <1>1, <1>2 DEF PutBlock, States
<1>5. t \in States
  BY DEF t
<1>6. Sound(t, h, t.disk.imap)
  BY <1>3, <1>4, <1>5, SoundSame
<1>7. Frame(s, t)
  BY <1>3, <1>4 DEF Frame
<1> QED BY <1>1, <1>3, <1>4, <1>6, <1>7 DEF t

\* Block b is marked and belongs to nobody.
Spare(s, b) == b - 1 \in s.disk.bmap /\ \A j \in 0..NInodes : ~Claimed(s, j, b)

LEMMA ballocSound ==
  ASSUME NEW s, Good(s), NEW h, NEW a, Sound(s, h, a), s.status # "wild"
  PROVE  LET t == balloc(s)
         IN  /\ Sound(t, h, a) /\ Frame(s, t) /\ t.tab = s.tab /\ t.status = s.status
             /\ Tidy /\ t.ret # 0 => Spare(t, t.ret)
<1> DEFINE free == 0..NBlocks-1 \ s.disk.bmap
           low == Lowest(free)
           d == [s.disk EXCEPT !.bmap = @ \cup {low}]
           t == balloc(s)
<1>1. s \in States /\ s.disk \in Disks /\ s.disk.imap = a
  BY SoundFacts DEF States
<1>2. CASE free = {}
  <2>1. t = Returns(s, 0) /\ 0 \in Int
    BY <1>2, SizesFacts DEF balloc
  <2>2. Sound(Returns(s, 0), h, a)
    BY <2>1, ReturnsSound
  <2>3. /\ Returns(s, 0).disk = s.disk /\ Returns(s, 0).tab = s.tab /\ Returns(s, 0).cwd = s.cwd
        /\ Returns(s, 0).status = s.status /\ Returns(s, 0).ret = 0
    BY <1>1 DEF Returns, States
  <2> HIDE DEF t
  <2> QED BY <2>1, <2>2, <2>3 DEF t, Frame
<1>3. CASE free # {}
  <2>1. free \in SUBSET Nat
    OBVIOUS
  <2>2. low \in free
    <3> HIDE DEF free
    <3> QED BY <1>3, <2>1, LowestIn
  <2>3. /\ low + 1 \in Blocks \ {0} /\ low \in 0..NBlocks /\ low + 1 \in Int /\ (low + 1) - 1 = low
        /\ low \notin s.disk.bmap
    BY <2>2, SizesFacts DEF Blocks
  <2>4. t = Returns(PutBlock(s, d), low + 1)
    BY <1>3 DEF balloc
  <2> HIDE DEF low, free
  <2>5. /\ d \in Disks /\ d.imap = s.disk.imap /\ d.bmap = s.disk.bmap \cup {low}
        /\ d.itab = s.disk.itab
    BY <1>1, <2>3 DEF Disks
  <2> DEFINE u == PutBlock(s, d)
  <2> HIDE DEF d
  <2>6. /\ u \in States /\ u.disk = d /\ u.imgs = s.imgs \cup {d}
        /\ u.tab = s.tab /\ u.cwd = s.cwd /\ u.status = s.status
    BY <1>1, <2>5, PutBlockEffect
  <2> HIDE DEF u
  <2>7. Sound(u, h, u.disk.imap)
    BY <2>5, <2>6, SoundSame
  <2>8. Sound(t, h, a)
    BY <1>1, <2>3, <2>4, <2>5, <2>6, <2>7, ReturnsSound DEF u
  <2>9. /\ t.disk = d /\ t.tab = s.tab /\ t.cwd = s.cwd /\ t.status = s.status /\ t.ret = low + 1
    BY <2>4, <2>6 DEF u, Returns, States
  <2> HIDE DEF t
  <2>10. \A j, b : Claimed(t, j, b) => Claimed(s, j, b)
    BY <2>5, <2>9 DEF Claimed
  <2>11. Tidy => \A j \in 0..NInodes : ~Claimed(s, j, low + 1)
    BY <2>3 DEF Sound, Safe, Owned
  <2>12. Tidy => Spare(t, t.ret)
    BY <2>3, <2>5, <2>9, <2>10, <2>11 DEF Spare
  <2>13. Frame(s, t)
    BY <2>5, <2>9 DEF Frame
  <2> QED BY <2>8, <2>9, <2>12, <2>13 DEF t
<1> QED BY <1>2, <1>3

LEMMA iallocSound ==
  ASSUME NEW s, Good(s), NEW h, NEW a, Sound(s, h, a), s.status # "wild"
  PROVE  LET t == ialloc(s)
         IN  /\ Sound(t, h, t.disk.imap) /\ t.tab = s.tab /\ t.status = s.status
             /\ t.disk.itab = s.disk.itab
             /\ IF t.ret = 0 THEN t.disk.imap = a
                ELSE t.disk.imap = a \cup {t.ret - 1} /\ t.ret - 1 \notin a
<1> DEFINE free == 0..NInodes-1 \ s.disk.imap
           low == Lowest(free)
           d == [s.disk EXCEPT !.imap = @ \cup {low}]
           t == ialloc(s)
<1>1. s \in States /\ s.disk \in Disks /\ s.disk.imap = a
  BY SoundFacts DEF States
<1>2. CASE free = {}
  <2>1. t = Returns(s, 0) /\ 0 \in Int
    BY <1>2, SizesFacts DEF ialloc
  <2>2. Sound(Returns(s, 0), h, a)
    BY <2>1, ReturnsSound
  <2>3. /\ Returns(s, 0).disk = s.disk /\ Returns(s, 0).tab = s.tab
        /\ Returns(s, 0).status = s.status /\ Returns(s, 0).ret = 0
    BY <1>1 DEF Returns, States
  <2> HIDE DEF t
  <2> QED BY <1>1, <2>1, <2>2, <2>3 DEF t
<1>3. CASE free # {}
  <2>1. free \in SUBSET Nat
    OBVIOUS
  <2>2. low \in free
    <3> HIDE DEF free
    <3> QED BY <1>3, <2>1, LowestIn
  <2>3. /\ low + 1 # 0 /\ low \in 0..NInodes /\ low + 1 \in Int /\ (low + 1) - 1 = low
        /\ low \notin s.disk.imap
    BY <2>2, SizesFacts
  <2>4. t = Returns(PutBlock(s, d), low + 1)
    BY <1>3 DEF ialloc
  <2> HIDE DEF low, free
  <2>5. /\ d \in Disks /\ d.imap = s.disk.imap \cup {low} /\ d.bmap = s.disk.bmap
        /\ d.itab = s.disk.itab
    BY <1>1, <2>3 DEF Disks
  <2> DEFINE u == PutBlock(s, d)
  <2> HIDE DEF d
  <2>6. /\ u \in States /\ u.disk = d /\ u.imgs = s.imgs \cup {d}
        /\ u.tab = s.tab /\ u.cwd = s.cwd /\ u.status = s.status
    BY <1>1, <2>5, PutBlockEffect
  <2> HIDE DEF u
  <2>7. Sound(u, h, u.disk.imap)
    BY <2>5, <2>6, SoundSame
  <2>8. Sound(t, h, u.disk.imap)
    BY <2>3, <2>4, <2>6, <2>7, ReturnsSound DEF u
  <2>9. t.disk = d /\ t.tab = s.tab /\ t.status = s.status /\ t.ret = low + 1
    BY <2>4, <2>6 DEF u, Returns, States
  <2> HIDE DEF t
  <2> QED BY <1>1, <2>3, <2>5, <2>6, <2>8, <2>9 DEF t
<1> QED BY <1>2, <1>3

-----------------------------------------------------------------------------
(* Paths.  getino puts a minode of the path that turns out to be no        *)
(* directory: it is one that it got, or the loose one that is cwd.         *)

Walking(t, h, a) ==
  /\ Sound(t, h, a)
  /\ t.status = "ok" /\ t.ret # 0 =>
       \/ Mode(t, t.mip) = "dir" \/ Loose(t.tab[t.mip])
       \/ Sound(t, More(h, t.mip), a)

LEMMA enterSound ==
  ASSUME NEW s, Good(s), NEW h, NEW a, Walking(s, h, a), NEW name
  PROVE  Walking(enter(s, name), h, a)
<1> DEFINE t == enter(s, name)
           u == search(s, s.mip, name)
           v == iget(u, u.ret)
<1>1. /\ s.mip \in Slots /\ s.ret \in Int /\ 0 \in Int /\ h \in Held /\ Sound(s, h, a)
      /\ \A q \in Slots : h[q] \in Nat
  BY StateFacts, SizesFacts, SoundFacts DEF Walking
<1>2. CASE s.status # "ok" \/ s.ret = 0
  <2>1. t = s
    BY <1>2 DEF enter
  <2> QED BY <2>1
<1>3. CASE s.status = "ok" /\ s.ret # 0 /\ Mode(s, s.mip) # "dir"
  <2> DEFINE w == iput(s, s.mip)
  <2>1. t = Returns(w, 0)
    BY <1>3 DEF enter
  <2>2. Sound(w, h, a)
    <3>1. CASE Loose(s.tab[s.mip])
      <4>1. \A q \in Slots \ {s.mip} : h[q] <= h[q]
        BY <1>1
      <4> QED BY <1>1, <1>3, <3>1, <4>1, iputSound
    <3>2. CASE Sound(s, More(h, s.mip), a)
      <4> DEFINE g == More(h, s.mip)
      <4>1. g[s.mip] = h[s.mip] + 1 /\ \A q \in Slots \ {s.mip} : g[q] = h[q]
        BY <1>1, MoreFacts
      <4> HIDE DEF g
      <4>2. /\ \A q \in Slots \ {s.mip} : h[q] <= g[q]
            /\ h[s.mip] + 1 <= g[s.mip]
        BY <1>1, <4>1
      <4> QED BY <1>1, <1>3, <3>2, <4>2, iputSound DEF g
    <3> QED BY <1>3, <3>1, <3>2 DEF Walking
  <2>3. Good(w)
    BY <1>1, iputGood
  <2> HIDE DEF w
  <2>4. Returns(w, 0) \in States /\ Returns(w, 0).ret = 0
    BY <1>1, <2>3, ReturnsGood, StateFacts
  <2>5. Sound(Returns(w, 0), h, a)
    BY <1>1, <2>2, ReturnsSound
  <2> QED BY <2>1, <2>4, <2>5 DEF Walking
<1>4. CASE s.status = "ok" /\ s.ret # 0 /\ Mode(s, s.mip) = "dir"
  <2>1. /\ Good(u) /\ (u.status = "ok" => u.ret \in Nameable(u.disk))
        /\ Sound(u, h, a)
    BY <1>1, <1>4, searchGood, searchSound
  <2>2. t = IF u.status # "ok" \/ u.ret = 0 THEN u
            ELSE IF v.status # "ok" THEN v
            ELSE [v EXCEPT !.mip = v.ret, !.ret = u.ret]
    BY <1>4 DEF enter, Then
  <2>3. CASE u.status # "ok" \/ u.ret = 0
    BY <2>1, <2>2, <2>3 DEF Walking
  <2>4. CASE u.status = "ok" /\ u.ret # 0
    <3> HIDE DEF u, t
    <3>1. u.ret \in 0..NInodes
      BY <2>1, <2>4, NameableFacts
    <3>2. Good(v) /\ Gets(u, v, h, a, u.ret)
      BY <2>1, <2>4, <3>1, igetGood, igetSound
    <3> HIDE DEF v
    <3>3. CASE v.status # "ok"
      <4>1. t = v
        BY <2>2, <2>4, <3>3
      <4> QED BY <3>2, <3>3, <4>1 DEF Walking, Gets, t
    <3>4. CASE v.status = "ok"
      <4>1. t = [v EXCEPT !.mip = v.ret, !.ret = u.ret]
        BY <2>2, <2>4, <3>4
      <4>2. v.ret \in Slots /\ Sound(v, More(h, v.ret), a) /\ u.ret \in Int /\ v \in States
        BY <3>1, <3>2, <3>4, StateFacts, SizesFacts DEF Gets
      <4>3. /\ t \in States /\ t.disk = v.disk /\ t.imgs = v.imgs /\ t.tab = v.tab
            /\ t.cwd = v.cwd /\ t.mip = v.ret
        BY <4>1, <4>2 DEF States
      <4>4. Sound(t, More(h, t.mip), a)
        BY <3>4, <4>2, <4>3, SoundRest
      <4>5. \A q \in Slots : h[q] <= More(h, t.mip)[q]
        BY <1>1, <4>2, <4>3, MoreFacts
      <4>6. Sound(t, h, a)
        BY <1>1, <4>4, <4>5, SoundLess
      <4> QED BY <4>4, <4>6 DEF Walking, t
    <3> QED BY <3>3, <3>4
  <2> QED BY <2>3, <2>4
<1> QED BY <1>2, <1>3, <1>4

\* A path x.path, walked by a command that holds x.h.
EnterPath(x, t, i) == enter(t, x.path.names[i])
EnteringPath(x, t, i) == Good(t) /\ Walking(t, x.h, x.a)

PathLoop == INSTANCE Loops WITH Pass <- EnterPath, Keeps <- EnteringPath

LEMMA getinoSound ==
  ASSUME NEW s, Good(s), NEW h, NEW a, Sound(s, h, a), s.status = "ok", NEW p \in AnyPaths
  PROVE  Sound(getino(s, p), h, a)
<1>1. CASE p = Slash
  <2>1. getino(s, p) = Returns(s, Root) /\ Root \in Int
    BY <1>1, SizesFacts DEF getino, Inos
  <2> QED BY <2>1, ReturnsSound
<1>2. CASE p # Slash
  <2> DEFINE start == [s EXCEPT !.mip = IF p.abs THEN RootSlot ELSE s.cwd, !.ret = -1]
             slot == IF p.abs THEN RootSlot ELSE s.cwd
             walk == [s EXCEPT !.mip = slot]
             x == [path |-> p, h |-> h, a |-> a]
  <2>0. x.path = p /\ x.h = h /\ x.a = a
    OBVIOUS
  <2> HIDE DEF x
  <2>1. getino(s, p) = PathLoop!After(x, start, Len(p.names))
    BY <1>2, <2>0 DEF getino, Loop, PathLoop!After, EnterPath
  <2>2. slot \in Slots /\ s \in States /\ -1 \in Int
    BY StateFacts, SizesFacts
  <2>3. /\ start \in States /\ start.disk = s.disk /\ start.imgs = s.imgs /\ start.tab = s.tab
        /\ start.cwd = s.cwd /\ start.mip = slot
    <3>1. start = [s EXCEPT !.mip = slot, !.ret = -1]
      OBVIOUS
    <3> HIDE DEF slot, start
    <3> QED BY <2>2, <3>1 DEF States
  <2>4. start = Returns(walk, -1)
    <3>1. start = [s EXCEPT !.mip = slot, !.ret = -1]
      OBVIOUS
    <3> HIDE DEF slot, start
    <3> QED BY <2>2, <3>1 DEF Returns, States
  <2>5. s.tab[slot].data.mode = "dir" \/ Loose(s.tab[slot])
    BY DEF Sound
  <2> HIDE DEF slot, start
  <2>6. Good(walk)
    BY <2>2, WalksGood
  <2> HIDE DEF walk
  <2>7. Good(start)
    BY <2>2, <2>4, <2>6, ReturnsGood
  <2>8. Walking(start, h, a)
    BY <2>3, <2>5, SoundRest DEF Walking, Mode, INode
  <2>9. Len(p.names) \in Nat
    <3>1. p.names \in Seq(EntryNames)
      BY DEF AnyPaths
    <3> QED BY <3>1
  <2>10. EnteringPath(x, start, 0)
    BY <2>0, <2>7, <2>8 DEF EnteringPath
  <2>11. ASSUME NEW i \in 1..Len(p.names), NEW t, EnteringPath(x, t, i - 1)
         PROVE  EnteringPath(x, EnterPath(x, t, i), i)
    BY <2>0, <2>11, enterGood, enterSound DEF EnteringPath, EnterPath, Found
  <2>12. EnteringPath(x, PathLoop!After(x, start, Len(p.names)), Len(p.names))
    BY <2>9, <2>10, <2>11, NatSet, PathLoop!LoopKeeps
  <2> QED BY <2>0, <2>1, <2>12 DEF EnteringPath, Walking
<1> QED BY <1>1, <1>2

\* The command got the minode that t returns, and holds what it held before.
GotMore(t, h, a) ==
  /\ Good(t)
  /\ IF t.status = "ok" THEN t.ret \in Slots /\ Sound(t, More(h, t.ret), a) ELSE Sound(t, h, a)

LEMMA getMinodeSound ==
  ASSUME NEW s, Good(s), NEW h, NEW a, Sound(s, h, a), s.status = "ok", NEW p \in AnyPaths
  PROVE  GotMore(getMinode(s, p), h, a)
<1> DEFINE t == getino(s, p)
<1>1. Good(t) /\ Sound(t, h, a) /\ (t.status = "ok" => t.ret \in Nameable(t.disk))
  BY getinoGood, getinoSound DEF Found
<1>2. getMinode(s, p) = IF t.status = "ok" THEN iget(t, t.ret) ELSE t
  BY DEF getMinode, Then
<1> HIDE DEF t
<1>3. ASSUME t.status = "ok" PROVE GotMore(iget(t, t.ret), h, a)
  <2>1. t.ret \in 0..NInodes
    BY <1>1, <1>3, NameableFacts
  <2>2. Good(iget(t, t.ret)) /\ Gets(t, iget(t, t.ret), h, a, t.ret)
    BY <1>1, <1>3, <2>1, igetGood, igetSound
  <2> QED BY <2>2 DEF GotMore, Gets
<1> QED BY <1>1, <1>2, <1>3 DEF GotMore

-----------------------------------------------------------------------------
(* New inodes.                                                             *)

\* Inode i is made, and it is on the disk only.
Wrote(s, i) ==
  /\ i \in Inos
  /\ s.disk.itab[i].mode \in {"dir", "file"}
  /\ \A q \in Slots : InUse(s.tab[q]) => s.tab[q].ino # i

\* A command in state s goes to t, where it holds h.
Makes(s, t, h) ==
  /\ Sound(t, h, t.disk.imap)
  /\ t.status = "ok" => \A i \in t.disk.imap \ s.disk.imap : Wrote(t, i + 1)

LEMMA SetINodeSlotted ==
  ASSUME NEW s \in States, NEW slot \in Slots, NEW inode \in InodeRecs
  PROVE  Slotted(s, SetINode(s, slot, inode), slot, Changed(s.tab[slot], TRUE, inode))
<1> DEFINE x == s.tab[slot]
           y == [x EXCEPT !.data = inode, !.dirty = TRUE]
           m == Changed(x, TRUE, inode)
           t == SetINode(s, slot, inode)
<1>1. x \in Minodes
  BY DEF States
<1>2. t = [s EXCEPT !.tab[slot] = y]
  BY DEF SetINode
<1>3. m \in Minodes /\ m.ref = x.ref /\ m.ino = x.ino /\ m.dirty = TRUE /\ m.data = inode
  BY <1>1, ChangedFacts
<1> HIDE DEF m
<1>4. y \in Minodes /\ y.ref = x.ref /\ y.ino = x.ino /\ y.dirty = TRUE /\ y.data = inode
  <2> HIDE DEF x
  <2> QED BY <1>1 DEF Minodes
<1> HIDE DEF x, y, t
<1>5. y = m
  BY <1>3, <1>4, SameMinode
<1>6. Slotted(s, t, slot, m)
  BY <1>2, <1>3, <1>5, SlottedBy
<1> QED BY <1>6 DEF m, t, x

LEMMA InodeBlocks ==
  ASSUME NEW mode, NEW links, NEW bno, NEW b \in Blocks \ {0}, HasBlock(Inode(mode, links, bno), b)
  PROVE  b = bno
BY SizesFacts DEF Inode, NoBlocks, HasBlock

LEMMA newInodeSound ==
  ASSUME NEW s, Good(s), NEW h, NEW a, Sound(s, h, a), s.status = "ok", Kept,
         NEW mode \in {"dir", "file"}, NEW links \in 0..LinkModulus-1,
         \A q \in Slots : h[q] >= 1 => Mode(s, q) = "dir"
  PROVE  Makes(s, newInode(s, mode, links), h)
<1> DEFINE i == ialloc(s)
           b == balloc(i)
           ino == i.ret
           inode == Inode(mode, links, b.ret)
           t == iget(b, ino)
           w == SetINode(t, t.ret, inode)
           r == iput(w, t.ret)
<1>1. newInode(s, mode, links) = IF t.status = "ok" THEN r ELSE t
  BY DEF newInode, Then
<1>2. /\ Good(i) /\ ino \in 0..NInodes /\ i.status = "ok" /\ i.tab = s.tab
      /\ Sound(i, h, i.disk.imap) /\ s.disk.imap = a
      /\ IF ino = 0 THEN i.disk.imap = a ELSE i.disk.imap = a \cup {ino - 1} /\ ino - 1 \notin a
  BY iallocGood, iallocSound, SoundFacts
<1> DEFINE A == i.disk.imap
<1>3. A = i.disk.imap
  OBVIOUS
<1> HIDE DEF i, A
<1>4. /\ Good(b) /\ b.ret \in Blocks /\ b.status = "ok" /\ b.tab = s.tab
      /\ Sound(b, h, A) /\ (Tidy /\ b.ret # 0 => Spare(b, b.ret))
  BY <1>2, <1>3, ballocGood, ballocSound
<1> HIDE DEF b, ino
<1>5. \A q \in Slots : s.tab[q].ino = 0 \/ s.tab[q].ino - 1 \in a
  BY <1>2, StateFacts DEF Nameable, Written
<1>6. Root - 1 \in a /\ Root # 0
  BY <1>2, StateFacts, SizesFacts DEF GoodDisk, Nameable, Written, Root
<1>7. ino # Root /\ (ino # 0 => \A q \in Slots : s.tab[q].ino # ino)
  BY <1>2, <1>5, <1>6
<1>8. Gets(b, t, h, A, ino)
  BY <1>2, <1>4, igetSound
<1>9. inode \in InodeRecs /\ inode.mode = mode
  <2>1. mode \in ModeSet
    BY DEF ModeSet
  <2> QED BY <1>4, <2>1, InodeFacts
<1>10. \A x \in Blocks \ {0} : HasBlock(inode, x) => x = b.ret
  BY InodeBlocks
<1> HIDE DEF inode, t
<1>11. CASE t.status # "ok"
  <2>1. Sound(t, h, A)
    BY <1>8, <1>11 DEF Gets
  <2>2. Sound(t, h, t.disk.imap)
    BY <2>1, SoundFacts
  <2> QED BY <1>1, <1>11, <2>2 DEF Makes
<1>12. CASE t.status = "ok"
  <2> DEFINE slot == t.ret
             old == t.tab[slot]
             n == Changed(old, TRUE, inode)
             g == More(h, slot)
  <2>1. /\ slot \in Slots /\ Sound(t, g, A) /\ t.disk = b.disk /\ t.imgs = b.imgs /\ t.cwd = b.cwd
        /\ \A q \in Slots \ {slot} : t.tab[q] = s.tab[q]
        /\ old.ino = ino /\ old.ref >= 1 /\ (Loose(old) => old.ref >= 2)
        /\ InUse(s.tab[slot]) => s.tab[slot].ino = ino /\ old.data = s.tab[slot].data
        /\ ~InUse(s.tab[slot]) => old.ref = 1
        /\ \A x \in Blocks \ {0} : \A j : Claimed(t, j, x) => Claimed(b, j, x)
    BY <1>4, <1>8, <1>12 DEF Gets
  <2> HIDE DEF slot
  <2>2. /\ t \in States /\ old \in Minodes /\ old.ref \in Int /\ t.cwd \in Slots /\ RootSlot \in Slots
        /\ Enough(t, g, slot) /\ t.tab[RootSlot].ino = Root /\ Pins(t, slot) \in Nat
        /\ InUse(old)
    BY <2>1, SoundFacts DEF InUse
  <2>3. /\ g \in Held /\ h \in Held /\ g[slot] = h[slot] + 1 /\ h[slot] \in Nat
        /\ \A q \in Slots \ {slot} : g[q] = h[q] /\ h[q] \in Nat
    BY <1>4, <2>1, SoundFacts, MoreFacts
  <2>4. /\ n \in Minodes /\ n.ref = old.ref /\ n.ino = ino /\ n.dirty = TRUE /\ n.data = inode
    BY <1>9, <2>1, <2>2, ChangedFacts
  <2>5. Slotted(t, w, slot, n)
    BY <1>9, <2>1, <2>2, SetINodeSlotted DEF slot
  <2> HIDE DEF n, g, old, w
  <2>6. Safe(w)
    <3>1. Tidy => \A x \in Blocks \ {0} : HasBlock(n.data, x) => MayHave(t, n.ino, x)
      BY <1>4, <1>10, <2>1, <2>4 DEF Spare, MayHave
    <3>2. Safe(t)
      BY <2>1 DEF Sound
    <3> QED BY <1>7, <2>1, <2>4, <2>5, <3>1, <3>2, SafeSlot DEF Slotted
  <2>7. slot # RootSlot
    BY <1>7, <2>1, <2>2 DEF old
  <2>8. slot = t.cwd => ino = 0
    <3>1. slot = t.cwd => Pins(b, slot) >= 1
      BY <2>1 DEF Pins
    <3>2. slot = t.cwd => InUse(s.tab[slot])
      BY <1>4, <2>1, <3>1, SoundFacts
    <3> QED BY <1>7, <2>1, <3>2
  <2>9. Loose(old) => h[slot] = 0
    <3> SUFFICES ASSUME Loose(old), h[slot] >= 1 PROVE FALSE
      BY <2>3
    <3>1. InUse(s.tab[slot])
      BY <1>4, <2>1, SoundFacts
    <3>2. s.tab[slot].data.mode = "dir"
      BY <2>1 DEF Mode, INode
    <3> QED BY <2>1, <3>1, <3>2 DEF Loose
  <2>10. Enough(w, g, slot)
    <3>1. w.tab[slot] = n /\ Pins(w, slot) = Pins(t, slot) /\ t.tab[slot] = old
      BY <2>1, <2>5 DEF Slotted, Pins, old
    <3>2. CASE Loose(n)
      BY <2>1, <2>4, <3>1, <3>2 DEF Enough
    <3>3. CASE ~Loose(n) /\ ~Loose(old)
      <4>1. old.ref >= Pins(t, slot) + g[slot]
        BY <2>2, <3>1, <3>3 DEF Enough
      <4> QED BY <2>4, <3>1, <3>3, <4>1 DEF Enough
    <3>4. CASE ~Loose(n) /\ Loose(old)
      <4>1. Pins(t, slot) <= 1 /\ g[slot] = 1
        BY <2>3, <2>7, <2>9, <3>4 DEF Pins
      <4>2. old.ref >= Pins(t, slot) + g[slot]
        BY <2>1, <2>2, <3>4, <4>1
      <4> QED BY <2>4, <3>1, <3>4, <4>2 DEF Enough
    <3> QED BY <3>2, <3>3, <3>4
  <2>11. \A q \in Slots \ {slot} : InUse(t.tab[q]) => t.tab[q].ino # n.ino
    <3>1. t.tab[slot] = old
      BY DEF old
    <3> QED BY <2>1, <2>2, <2>4, <3>1 DEF Sound
  <2>12. slot = t.cwd => n.data.mode = "dir" \/ Loose(n)
    BY <1>9, <2>4, <2>8 DEF Loose
  <2>13. \A q \in Slots \ {slot} : g[q] <= g[q]
    BY <2>3
  <2>14. Sound(w, g, w.disk.imap)
    BY <2>1, <2>3, <2>4, <2>5, <2>6, <2>7, <2>10, <2>11, <2>12, <2>13, SoundSlot DEF Slotted
  <2>15. Sound(r, h, A)
    <3>1. w.disk.imap = A /\ w.status = "ok"
      BY <1>12, <2>1, <2>5, SoundFacts DEF Slotted
    <3>2. (\A q \in Slots \ {slot} : h[q] <= g[q]) /\ h[slot] + 1 <= g[slot]
      BY <2>3
    <3>3. Sound(iput(w, slot), h, A)
      BY <2>1, <2>3, <2>14, <3>1, <3>2, iputSound
    <3> QED BY <3>3 DEF slot
  <2>16. ASSUME NEW k \in A \ s.disk.imap PROVE Wrote(r, k + 1)
    <3>1. ino # 0 /\ k = ino - 1 /\ k + 1 = ino /\ ino \in Inos
      BY <1>2, <1>3, <2>16, SizesFacts DEF Inos
    <3>2. ~InUse(s.tab[slot]) /\ n.ref = 1
      BY <1>7, <2>1, <2>4, <3>1
    <3>3. w.tab[slot] = n /\ w \in States /\ WritesBack(n)
      BY <2>1, <2>4, <2>5, <3>2 DEF Slotted, WritesBack
    <3>4. /\ \A q \in Slots : r.tab[q] = IF q = slot THEN Released(n) ELSE w.tab[q]
          /\ r.disk.itab = [w.disk.itab EXCEPT ![n.ino] = n.data]
      BY <2>1, <2>4, <3>1, <3>3, iputEffect DEF slot
    <3>5. Released(n).ref = 0
      BY <2>4, <3>3, ReleasedFacts
    <3>6. w.disk.itab \in [Inos -> InodeRecs]
      <4>1. w.disk \in Disks
        BY <3>3 DEF States
      <4> QED BY <4>1 DEF Disks
    <3>7. r.disk.itab[ino] = inode
      BY <2>4, <3>1, <3>4, <3>6
    <3>8. \A q \in Slots : InUse(r.tab[q]) => r.tab[q].ino # ino
      BY <1>7, <2>1, <2>5, <3>1, <3>4, <3>5 DEF Slotted, InUse
    <3> QED BY <1>9, <3>1, <3>7, <3>8 DEF Wrote
  <2>17. r.disk.imap = A
    BY <2>15, SoundFacts
  <2> QED BY <1>1, <1>12, <2>15, <2>16, <2>17 DEF Makes
<1> QED BY <1>11, <1>12

LEMMA FrameTrans ==
  ASSUME NEW s, NEW t, NEW u, Frame(s, t), Frame(t, u)
  PROVE  Frame(s, u)
BY DEF Frame

LEMMA WroteFrame ==
  ASSUME NEW s, NEW t, Frame(s, t), NEW i, Wrote(s, i)
  PROVE  Wrote(t, i)
BY DEF Frame, Wrote, InUse

(* The parent, whose minode is in use, is another inode.                   *)
LEMMA WrotePut ==
  ASSUME NEW s \in States, NEW slot \in Slots, InUse(s.tab[slot]), NEW i, Wrote(s, i)
  PROVE  Wrote(iput(s, slot), i)
<1> DEFINE m == s.tab[slot]
           t == iput(s, slot)
<1>1. /\ \A q \in Slots : t.tab[q] = IF q = slot THEN Released(m) ELSE s.tab[q]
      /\ IF WritesBack(m) /\ m.ino # 0
         THEN t.disk.itab = [s.disk.itab EXCEPT ![m.ino] = m.data]
         ELSE t.disk = s.disk
  BY iputEffect
<1>2. Released(m).ino = m.ino /\ m.ino # i /\ i \in Inos
  <2>1. m \in Minodes
    BY DEF States
  <2> QED BY <2>1, ReleasedFacts DEF Wrote
<1>3. s.disk.itab \in [Inos -> InodeRecs]
  <2>1. s.disk \in Disks
    BY DEF States
  <2> QED BY <2>1 DEF Disks
<1> HIDE DEF t
<1>4. t.disk.itab[i] = s.disk.itab[i]
  BY <1>1, <1>2, <1>3
<1>5. \A q \in Slots : InUse(t.tab[q]) => t.tab[q].ino # i
  BY <1>1, <1>2 DEF Wrote
<1>6. Wrote(t, i)
  BY <1>4, <1>5 DEF Wrote
<1> QED BY <1>6 DEF t

LEMMA MakesFrame ==
  ASSUME NEW s, NEW t, NEW h, Makes(s, t, h), t.status = "ok", NEW u,
         Sound(u, h, t.disk.imap), Frame(t, u)
  PROVE  Makes(s, u, h)
<1>1. u.disk.imap = t.disk.imap
  BY SoundFacts
<1> QED BY <1>1, WroteFrame DEF Makes

LEMMA enterBlockSound ==
  ASSUME NEW t, Good(t), NEW h, NEW a, Sound(t, h, a), NEW pip \in Slots,
         NEW ino \in Nameable(t.disk), NEW name \in EntryNames, NEW i \in 1..NDirect
  PROVE  LET r == enterBlock(t, pip, ino, name, i) IN Sound(r, h, a) /\ Frame(t, r)
<1> DEFINE bno == INode(t, pip).block[i]
           b == t.disk.blk[bno]
           r == enterBlock(t, pip, ino, name, i)
<1>1. /\ bno \in Blocks /\ b \in Block /\ ino \in 0..NInodes /\ 0 \in Nameable(t.disk)
      /\ t \in States /\ t.disk \in Disks
  <2>1. i \in 1..NDirect+1
    BY SizesFacts
  <2>2. bno \in Blocks
    BY <2>1, StateFacts
  <2> HIDE DEF bno
  <2> QED BY <2>2, StateFacts, NameableFacts
<1>2. r \in States
  BY enterBlockGood, StateFacts
<1>3. CASE t.status # "ok" \/ t.ret = 1
  <2>1. r = t
    BY <1>3 DEF enterBlock
  <2> QED BY <2>1 DEF Frame
<1>4. CASE t.status = "ok" /\ t.ret # 1 /\ bno = 0
  <2>1. r = Returns(t, 1) /\ 1 \in Int
    BY <1>4 DEF enterBlock
  <2> HIDE DEF r
  <2>2. Sound(r, h, a)
    BY <1>4, <2>1, ReturnsSound
  <2>3. r.disk = t.disk /\ r.tab = t.tab /\ r.cwd = t.cwd
    BY <1>1, <2>1 DEF Returns, States
  <2> QED BY <2>2, <2>3 DEF r, Frame
<1>5. CASE t.status = "ok" /\ t.ret # 1 /\ bno # 0 /\ Walk(b).end # "end"
  <2>1. r = Fails(t, Walk(b).end)
    BY <1>5 DEF enterBlock
  <2> HIDE DEF b, r
  <2>2. Walk(b).end \in {"hang", "segv", "wild"}
    BY <1>1, <1>5, WalkEnd
  <2>3. Sound(r, h, a)
    BY <1>5, <2>1, <2>2, FailsSound
  <2>4. r.disk = t.disk /\ r.tab = t.tab /\ r.cwd = t.cwd
    BY <1>1, <2>1 DEF Fails, States
  <2> QED BY <2>3, <2>4 DEF r, Frame
<1>6. CASE t.status = "ok" /\ t.ret # 1 /\ bno # 0 /\ Walk(b).end = "end" /\ HasRoom(b)
  <2> DEFINE data == Append1(b, ino, name)
  <2>1. r = PutData(t, bno, data)
    BY <1>6 DEF enterBlock
  <2> HIDE DEF b, data, bno, r
  <2>2. Sound(r, h, a) /\ Frame(t, r)
    BY <1>2, <2>1, PutDataSound
  <2> QED BY <2>2 DEF r
<1>7. CASE t.status = "ok" /\ t.ret # 1 /\ bno # 0 /\ Walk(b).end = "end" /\ ~HasRoom(b)
  <2> DEFINE u == balloc(t)
             v == [u EXCEPT !.tab[pip].data.block[i + 1] = u.ret]
             data == OverflowBlock(v.disk.blk[u.ret], ino, name)
             w == PutData(v, bno, data)
  <2>1. r = Returns(w, 1) /\ 1 \in Int
    BY <1>7 DEF enterBlock
  <2>2. /\ Good(u) /\ u.ret \in Blocks /\ Nameable(u.disk) = Nameable(t.disk)
        /\ Sound(u, h, a) /\ Frame(t, u) /\ u.status = "ok"
        /\ Tidy /\ u.ret # 0 => Spare(u, u.ret)
    BY <1>7, ballocGood, ballocSound
  <2>3. i + 1 \in 1..NDirect+1
    BY SizesFacts
  <2> HIDE DEF u
  <2>4. Good(v) /\ v.disk = u.disk
    BY <2>2, <2>3, BlockGood
  <2>5. Sound(v, h, a) /\ Frame(u, v) /\ v.status = "ok"
    <3>1. Tidy /\ u.ret # 0 => MayHave(u, u.tab[pip].ino, u.ret)
      BY <2>2 DEF Spare, MayHave
    <3> QED BY <2>2, <2>3, <3>1, BlockSound
  <2> HIDE DEF v
  <2>6. v.disk.blk[u.ret] \in Block /\ Refer(v.disk.blk[u.ret], Nameable(v.disk))
    BY <2>2, <2>4, StateFacts
  <2>7. 0 \in Nameable(v.disk) /\ ino \in Nameable(v.disk)
    BY <1>1, <2>2, <2>4
  <2>8. data \in Block /\ Refer(data, Nameable(v.disk))
    BY <1>1, <2>6, <2>7, OverflowBlockKeeps
  <2> HIDE DEF data, bno
  <2>9. w \in States
    BY <1>1, <2>4, <2>8, PutDataGood, StateFacts
  <2>10. Sound(w, h, a) /\ Frame(v, w) /\ w.status = "ok"
    BY <2>5, <2>9, PutDataSound
  <2> HIDE DEF w, r
  <2>11. Sound(r, h, a)
    BY <2>1, <2>10, ReturnsSound
  <2>12. r.disk = w.disk /\ r.tab = w.tab /\ r.cwd = w.cwd
    BY <2>1, <2>9 DEF Returns, States
  <2>13. Frame(t, w)
    BY <2>2, <2>5, <2>10, FrameTrans
  <2>14. Frame(t, r)
    BY <2>12, <2>13 DEF Frame
  <2> QED BY <2>11, <2>14 DEF r
<1> QED BY <1>3, <1>4, <1>5, <1>6, <1>7

\* enter_name, called in state x.s by a command that holds x.h.
EnterSound(x, t, i) == EnterKeeps(x, t, i) /\ Sound(t, x.h, x.a) /\ Frame(x.s, t)

SoundNameLoop == INSTANCE Loops WITH Pass <- EnterPass, Keeps <- EnterSound

LEMMA enter_nameSound ==
  ASSUME NEW s, Good(s), NEW h, NEW a, Sound(s, h, a), s.status = "ok", NEW pip \in Slots,
         NEW ino \in Nameable(s.disk), NEW name \in EntryNames
  PROVE  LET r == enter_name(s, pip, ino, name) IN Sound(r, h, a) /\ Frame(s, r)
<1> DEFINE x == [pip |-> pip, ino |-> ino, name |-> name, h |-> h, a |-> a, s |-> s]
           start == Returns(s, 0)
<1>1. /\ x.pip = pip /\ x.ino = ino /\ x.name = name /\ x.h = h /\ x.a = a /\ x.s = s
      /\ NDirect \in Nat /\ 0 \in Int
  BY SizesFacts
<1> HIDE DEF x
<1>2. enter_name(s, pip, ino, name) = SoundNameLoop!After(x, start, NDirect)
  BY <1>1 DEF enter_name, Loop, SoundNameLoop!After, EnterPass
<1>3. Good(start) /\ start.disk = s.disk /\ start.tab = s.tab /\ start.cwd = s.cwd
  <2>1. s \in States
    BY StateFacts
  <2>2. start.cwd = s.cwd
    BY <1>1, <2>1 DEF Returns, States
  <2> QED BY <1>1, <2>2, ReturnsGood
<1>4. Sound(start, h, a)
  BY <1>1, ReturnsSound
<1>5. EnterSound(x, start, 0)
  BY <1>1, <1>3, <1>4 DEF EnterSound, EnterKeeps, Frame
<1>6. ASSUME NEW i \in 1..NDirect, NEW t, EnterSound(x, t, i - 1)
      PROVE  EnterSound(x, EnterPass(x, t, i), i)
  <2> DEFINE r == enterBlock(t, pip, ino, name, i)
  <2>1. Good(t) /\ ino \in Nameable(t.disk) /\ Sound(t, h, a) /\ Frame(s, t)
    BY <1>1, <1>6 DEF EnterSound, EnterKeeps
  <2>2. Good(r) /\ ino \in Nameable(r.disk)
    BY <2>1, enterBlockGood
  <2>3. Sound(r, h, a) /\ Frame(t, r)
    BY <2>1, enterBlockSound
  <2>4. EnterPass(x, t, i) = r
    BY <1>1 DEF EnterPass
  <2> HIDE DEF r
  <2>5. Frame(s, r)
    BY <2>1, <2>3, FrameTrans
  <2> QED BY <1>1, <2>2, <2>3, <2>4, <2>5 DEF EnterSound, EnterKeeps
<1> HIDE DEF start
<1>7. EnterSound(x, SoundNameLoop!After(x, start, NDirect), NDirect)
  BY <1>1, <1>5, <1>6, NatSet, SoundNameLoop!LoopKeeps
<1> QED BY <1>1, <1>2, <1>7 DEF EnterSound

\* A directory's block, written by mymkdir.
LEMMA DotsGood ==
  ASSUME NEW t, Good(t), NEW slot \in Slots, NEW pip \in Slots
  PROVE  LET m == t.tab[slot]
             bno == m.data.block[1]
             u == PutData(t, bno, DotBlock(t.disk.blk[bno], m.ino, t.tab[pip].ino))
         IN  Good(u) /\ m.ino \in Nameable(u.disk)
<1> DEFINE m == t.tab[slot]
           bno == m.data.block[1]
           data == DotBlock(t.disk.blk[bno], m.ino, t.tab[pip].ino)
           u == PutData(t, bno, data)
<1>1. bno \in Blocks /\ m.ino \in Nameable(t.disk) /\ t.tab[pip].ino \in Nameable(t.disk)
  <2>1. 1 \in 1..NDirect+1
    BY SizesFacts
  <2> QED BY <2>1, StateFacts
<1> HIDE DEF m, bno
<1>2. /\ t.disk.blk[bno] \in Block /\ Refer(t.disk.blk[bno], Nameable(t.disk))
      /\ 0 \in Nameable(t.disk)
      /\ m.ino \in 0..NInodes /\ t.tab[pip].ino \in 0..NInodes
  BY <1>1, StateFacts, NameableFacts
<1>3. data \in Block /\ Refer(data, Nameable(t.disk))
  BY <1>1, <1>2, DotBlockKeeps
<1> HIDE DEF data
<1>4. Good(u) /\ Nameable(u.disk) = Nameable(t.disk)
  BY <1>1, <1>3, PutDataGood
<1> QED BY <1>1, <1>4 DEF m, bno, data

LEMMA mymkdirSound ==
  ASSUME NEW s, Good(s), NEW h, NEW a, Sound(s, h, a), s.status = "ok", Kept,
         NEW pip \in Slots, NEW name \in EntryNames,
         \A q \in Slots : h[q] >= 1 => Mode(s, q) = "dir"
  PROVE  Makes(s, mymkdir(s, pip, name), h)
<1> DEFINE t == newInode(s, "dir", 2)
           m == t.tab[t.ret]
           bno == m.data.block[1]
           data == DotBlock(t.disk.blk[bno], m.ino, t.tab[pip].ino)
           u == PutData(t, bno, data)
           r == enter_name(u, pip, m.ino, name)
<1>1. mymkdir(s, pip, name) = IF t.status = "ok" THEN r ELSE t
  BY DEF mymkdir, Then
<1>2. Good(t) /\ (t.status = "ok" => t.ret \in Slots) /\ Makes(s, t, h)
  BY LinksRange, newInodeGood, newInodeSound DEF Got
<1> HIDE DEF t
<1>3. CASE t.status = "ok"
  <2>1. Good(u) /\ m.ino \in Nameable(u.disk)
    BY <1>2, <1>3, DotsGood
  <2> HIDE DEF m, bno, data
  <2>2. u \in States /\ Sound(t, h, t.disk.imap)
    BY <1>2, <2>1, StateFacts DEF Makes
  <2>3. Sound(u, h, t.disk.imap) /\ Frame(t, u) /\ u.status = "ok"
    BY <1>3, <2>2, PutDataSound
  <2> HIDE DEF u
  <2>4. Sound(r, h, t.disk.imap) /\ Frame(u, r)
    BY <2>1, <2>3, enter_nameSound
  <2> HIDE DEF r
  <2>5. Frame(t, r)
    BY <2>3, <2>4, FrameTrans
  <2>6. Makes(s, r, h)
    BY <1>2, <1>3, <2>4, <2>5, MakesFrame
  <2> QED BY <1>1, <1>3, <2>6 DEF r, u
<1> QED BY <1>1, <1>2, <1>3

LEMMA my_creatSound ==
  ASSUME NEW s, Good(s), NEW h, NEW a, Sound(s, h, a), s.status = "ok", Kept,
         NEW pip \in Slots, NEW name \in EntryNames,
         \A q \in Slots : h[q] >= 1 => Mode(s, q) = "dir"
  PROVE  Makes(s, my_creat(s, pip, name), h)
<1> DEFINE t == newInode(s, "file", 1)
           ino == t.tab[t.ret].ino
           r == enter_name(t, pip, ino, name)
<1>1. my_creat(s, pip, name) = IF t.status = "ok" THEN r ELSE t
  BY DEF my_creat, Then
<1>2. Good(t) /\ (t.status = "ok" => t.ret \in Slots) /\ Makes(s, t, h)
  BY LinksRange, newInodeGood, newInodeSound DEF Got
<1> HIDE DEF t
<1>3. CASE t.status = "ok"
  <2>1. ino \in Nameable(t.disk) /\ Sound(t, h, t.disk.imap)
    BY <1>2, <1>3, StateFacts DEF Makes
  <2> HIDE DEF ino
  <2>2. Sound(r, h, t.disk.imap) /\ Frame(t, r)
    BY <1>2, <1>3, <2>1, enter_nameSound
  <2> HIDE DEF r
  <2>3. Makes(s, r, h)
    BY <1>2, <1>3, <2>2, MakesFrame
  <2> QED BY <1>1, <1>3, <2>3 DEF r, ino
<1> QED BY <1>1, <1>2, <1>3

LEMMA NoneFacts ==
  /\ None \in Held
  /\ \A q \in Slots : None[q] = 0
  /\ \A slot, q \in Slots : More(None, slot)[q] = IF q = slot THEN 1 ELSE 0
  /\ \A slot \in Slots : More(None, slot) \in Held
BY DEF None, Held, More

LEMMA SoundNone ==
  ASSUME NEW s, NEW h, NEW a, Sound(s, h, a)
  PROVE  Sound(s, None, a)
<1>1. \A q \in Slots : None[q] <= h[q]
  BY SoundFacts, NoneFacts
<1> QED BY <1>1, NoneFacts, SoundLess

\* A command that holds only slot puts it.
LEMMA LastPut ==
  ASSUME NEW s, NEW a, NEW slot \in Slots, Sound(s, More(None, slot), a), s.status = "ok"
  PROVE  Sound(iput(s, slot), None, a)
<1> DEFINE h == More(None, slot)
<1>1. h[slot] = 1 /\ \A q \in Slots : None[q] = 0 /\ h[q] \in Nat
  BY NoneFacts
<1> HIDE DEF h
<1>2. (\A q \in Slots \ {slot} : None[q] <= h[q]) /\ None[slot] + 1 <= h[slot]
  BY <1>1
<1> QED BY <1>2, NoneFacts, iputSound DEF h

LEMMA newChildSound ==
  ASSUME NEW s, Good(s), NEW a, Sound(s, None, a), s.status = "ok", Kept,
         NEW p \in Paths, p.names # <<>>, NEW mode \in {"dir", "file"}
  PROVE  Makes(s, newChild(s, p, mode), None)
<1> DEFINE name == basename(p)
           t == getMinode(s, dirname(p))
           h == More(None, t.ret)
           u == search(t, t.ret, name)
           v == IF mode = "dir" THEN mymkdir(u, t.ret, name) ELSE my_creat(u, t.ret, name)
           n == v.tab[t.ret].data.links
           links == IF mode = "dir" THEN Links(n + 1) ELSE 1
           w == [v EXCEPT !.tab[t.ret].data.links = links]
           r == iput(w, t.ret)
<1>1. newChild(s, p, mode) =
        IF t.status # "ok" \/ Mode(t, t.ret) # "dir" THEN t
        ELSE IF u.status # "ok" \/ u.ret # 0 THEN u
        ELSE IF v.status # "ok" THEN v
        ELSE r
  BY DEF newChild, Then
<1>2. dirname(p) \in AnyPaths /\ name \in EntryNames
  BY dirnameFacts
<1>3. GotMore(t, None, a)
  BY <1>2, getMinodeSound
<1>4. s.disk.imap = a
  BY SoundFacts
<1> HIDE DEF t, name, h
<1>5. ASSUME NEW x, NEW g, Sound(x, g, a) PROVE Makes(s, x, None)
  <2>1. Sound(x, None, a)
    BY <1>5, SoundNone
  <2>2. x.disk.imap = a
    BY <2>1, SoundFacts
  <2> QED BY <1>4, <2>1, <2>2 DEF Makes
<1>6. CASE t.status # "ok"
  BY <1>1, <1>3, <1>5, <1>6 DEF GotMore
<1>7. CASE t.status = "ok" /\ Mode(t, t.ret) # "dir"
  BY <1>1, <1>3, <1>5, <1>7 DEF GotMore
<1>8. CASE t.status = "ok" /\ Mode(t, t.ret) = "dir"
  <2>1. Good(t) /\ t.ret \in Slots /\ Sound(t, h, a)
    BY <1>3, <1>8 DEF GotMore, h
  <2>2. Good(u) /\ Sound(u, h, a)
    BY <1>8, <2>1, searchGood, searchSound
  <2>3. u.tab = t.tab
    BY <2>1, searchSame, StateFacts
  <2> HIDE DEF u
  <2>4. CASE u.status # "ok" \/ u.ret # 0
    <3>1. newChild(s, p, mode) = u
      BY <1>1, <1>8, <2>4
    <3> QED BY <1>5, <2>2, <3>1
  <2>5. CASE u.status = "ok" /\ u.ret = 0
    <3>1. \A q \in Slots : h[q] >= 1 => Mode(u, q) = "dir"
      BY <1>8, <2>1, <2>3, NoneFacts DEF h, Mode, INode
    <3>2. Good(v) /\ Makes(u, v, h)
      BY <1>2, <2>1, <2>2, <2>5, <3>1, mymkdirGood, my_creatGood, mymkdirSound, my_creatSound
    <3> DEFINE A == v.disk.imap
    <3> HIDE DEF v, A
    <3>3. Sound(v, h, A)
      BY <3>2 DEF Makes, A
    <3>4. CASE v.status # "ok"
      <4>1. newChild(s, p, mode) = v
        BY <1>1, <1>8, <2>5, <3>4
      <4>2. Sound(v, None, v.disk.imap)
        BY <3>3, SoundNone DEF A
      <4> QED BY <3>4, <4>1, <4>2 DEF Makes
    <3>5. CASE v.status = "ok"
      <4>1. links \in 0..LinkModulus-1
        <5>1. v.tab[t.ret].data \in InodeRecs
          BY <2>1, <3>3, SoundFacts
        <5>2. n \in 0..LinkModulus-1
          BY <5>1 DEF InodeRecs
        <5>3. n \in Int
          BY <5>2, LinksRange
        <5>4. n + 1 \in Int
          BY <5>3
        <5> HIDE DEF n
        <5> QED BY <5>4, LinksRange
      <4> HIDE DEF links
      <4>2. Sound(w, h, A) /\ Frame(v, w) /\ w.status = "ok"
        BY <2>1, <3>3, <3>5, <4>1, LinksSound
      <4> HIDE DEF w
      <4>3. Sound(r, None, A)
        BY <2>1, <4>2, LastPut DEF h
      <4>4. w \in States /\ InUse(w.tab[t.ret])
        <5>1. h[t.ret] >= 1
          BY <2>1, NoneFacts DEF h
        <5> QED BY <2>1, <4>2, <5>1, SoundFacts
      <4>5. ASSUME NEW i \in A \ s.disk.imap PROVE Wrote(r, i + 1)
        <5>1. u.disk.imap = s.disk.imap
          BY <1>4, <2>2, SoundFacts
        <5>2. Wrote(v, i + 1)
          BY <3>2, <3>5, <4>5, <5>1 DEF Makes, A
        <5>3. Wrote(w, i + 1)
          BY <4>2, <5>2, WroteFrame
        <5> QED BY <2>1, <4>4, <5>3, WrotePut
      <4>6. r.disk.imap = A
        BY <4>3, SoundFacts
      <4>7. newChild(s, p, mode) = r
        BY <1>1, <1>8, <2>5, <3>5
      <4> HIDE DEF r
      <4> QED BY <4>3, <4>5, <4>6, <4>7 DEF Makes
    <3> QED BY <3>4, <3>5
  <2> QED BY <2>4, <2>5
<1> QED BY <1>6, <1>7, <1>8

-----------------------------------------------------------------------------
(* link and unlink.                                                        *)

LEMMA linkPaths ==
  ASSUME NEW old \in Paths, old.names # <<>>, NEW new \in Paths, new.names # <<>>
  PROVE  [abs |-> FALSE, names |-> <<basename(old)>>] \in AnyPaths /\ new \in AnyPaths
<1> DEFINE name == <<basename(old)>>
<1>1. basename(old) \in EntryNames
  BY dirnameFacts
<1>2. name \in Seq(EntryNames) /\ name # <<>>
  BY <1>1
<1> HIDE DEF name
<1>3. [abs |-> FALSE, names |-> name] \in AnyPaths
  BY <1>2 DEF AnyPaths, NoPath
<1>4. new # NoPath
  BY DEF NoPath
<1> QED BY <1>3, <1>4, NamedPaths DEF name

LEMMA linkSound ==
  ASSUME NEW s, Good(s), NEW a, Sound(s, None, a), s.status = "ok",
         NEW old \in Paths, old.names # <<>>, NEW new \in Paths, new.names # <<>>
  PROVE  Sound(mylink(s, old, new), None, a)
<1> DEFINE op == [abs |-> FALSE, names |-> <<basename(old)>>]
           t == getMinode(s, op)
           omip == t.ret
           u == getino(t, new)
           v == getMinode(u, dirname(new))
           nmip == v.ret
           w == [v EXCEPT !.tab[omip].dirty = TRUE]
           ino == w.tab[omip].ino
           x == enter_name(w, nmip, ino, basename(new))
           links == Links(x.tab[omip].data.links + 1)
           y == [x EXCEPT !.tab[omip].data.links = links]
           z == iput(y, omip)
           g == More(None, omip)
           h == More(g, nmip)
           r == mylink(s, old, new)
<1>1. r = IF t.status = "ok"
          THEN IF u.status = "ok"
               THEN IF u.ret # 0 THEN u
                    ELSE IF Mode(u, omip) = "file"
                    THEN IF v.status = "ok"
                         THEN IF Mode(v, nmip) # "dir" THEN v
                              ELSE IF x.status = "ok" THEN iput(z, nmip) ELSE x
                         ELSE v
                    ELSE IF Mode(u, omip) = "dir" THEN iput(u, omip) ELSE u
               ELSE u
          ELSE t
  BY DEF mylink, Then
<1>2. /\ basename(new) \in EntryNames /\ dirname(new) \in AnyPaths
      /\ op \in AnyPaths /\ new \in AnyPaths
  BY dirnameFacts, linkPaths
<1> HIDE DEF op, r
<1>3. GotMore(t, None, a)
  BY <1>2, getMinodeSound
<1> HIDE DEF t, g, omip
<1>4. t.status # "ok" => Sound(t, None, a)
  BY <1>3 DEF GotMore
<1>5. t.status = "ok" => /\ omip \in Slots /\ Good(t) /\ Sound(t, g, a)
                         /\ Good(u) /\ Sound(u, g, a)
  <2>1. t.status = "ok" => omip \in Slots /\ Good(t) /\ Sound(t, g, a)
    BY <1>3 DEF GotMore, g, omip
  <2> QED BY <1>2, <2>1, getinoGood, getinoSound DEF Found
<1> HIDE DEF u
<1>6. t.status = "ok" => Sound(u, None, a) /\ (u.status = "ok" => Sound(iput(u, omip), None, a))
  BY <1>5, SoundNone, LastPut DEF g
<1>7. t.status = "ok" /\ u.status = "ok" => GotMore(v, g, a)
  BY <1>2, <1>5, getMinodeSound
<1> HIDE DEF v, h, nmip
<1>8. t.status = "ok" /\ u.status = "ok" =>
        /\ Sound(v, None, a)
        /\ v.status = "ok" => nmip \in Slots /\ Good(v) /\ Sound(v, h, a)
  BY <1>7, SoundNone DEF GotMore, h, nmip
<1>9. ASSUME t.status = "ok", u.status = "ok", v.status = "ok", Mode(v, nmip) = "dir"
      PROVE  IF x.status = "ok" THEN Sound(iput(z, nmip), None, a) ELSE Sound(x, None, a)
  <2>1. omip \in Slots /\ nmip \in Slots /\ Good(v) /\ Sound(v, h, a)
    BY <1>5, <1>8, <1>9
  <2>2. /\ g \in Held /\ h \in Held /\ h[omip] >= 1
        /\ \A q \in Slots : h[q] \in Nat /\ More(None, nmip)[q] \in Nat
        /\ \A q \in Slots \ {omip} : More(None, nmip)[q] <= h[q]
        /\ More(None, nmip)[omip] + 1 <= h[omip]
    <3>1. \A q \in Slots : h[q] = (IF q = omip THEN 1 ELSE 0) + (IF q = nmip THEN 1 ELSE 0)
      BY <2>1, NoneFacts DEF g, h, More, Held
    <3>2. g \in Held /\ h \in Held
      BY <2>1, NoneFacts, MoreFacts DEF g, h
    <3>3. \A q \in Slots : More(None, nmip)[q] = IF q = nmip THEN 1 ELSE 0
      BY <2>1, NoneFacts
    <3> QED BY <2>1, <3>1, <3>2, <3>3
  <2>3. Good(w) /\ Sound(w, h, a) /\ Frame(v, w) /\ w.status = "ok"
    BY <1>9, <2>1, <2>2, DirtyGood, DirtySound
  <2> HIDE DEF w
  <2>4. ino \in Nameable(w.disk)
    BY <2>1, <2>3, StateFacts
  <2> HIDE DEF ino
  <2>5. Good(x) /\ Sound(x, h, a) /\ Frame(w, x)
    BY <1>2, <2>1, <2>3, <2>4, enter_nameGood, enter_nameSound
  <2> HIDE DEF x
  <2>6. CASE x.status # "ok"
    BY <2>5, <2>6, SoundNone
  <2>7. CASE x.status = "ok"
    <3>1. links \in 0..LinkModulus-1
      <4>1. x.tab[omip].data \in InodeRecs
        BY <2>1, <2>5, SoundFacts
      <4>2. x.tab[omip].data.links \in 0..LinkModulus-1
        BY <4>1 DEF InodeRecs
      <4>3. x.tab[omip].data.links \in Int
        BY <4>2, LinksRange
      <4>4. x.tab[omip].data.links + 1 \in Int
        BY <4>3
      <4> QED BY <4>4, LinksRange
    <3> HIDE DEF links
    <3>2. Sound(y, h, a) /\ Frame(x, y) /\ y.status = "ok"
      BY <2>1, <2>5, <2>7, <3>1, LinksSound
    <3> HIDE DEF y
    <3>3. y.tab[nmip].data.mode = "dir"
      BY <1>9, <2>1, <2>3, <2>5, <3>2 DEF Frame, Mode, INode
    <3>4. Sound(z, More(None, nmip), a)
      BY <2>1, <2>2, <3>2, NoneFacts, iputSound
    <3>5. ~Loose(z.tab[nmip])
      <4>1. y \in States /\ y.tab[omip] \in Minodes
        BY <2>1, <3>2, SoundFacts
      <4>2. z.tab[nmip] = IF nmip = omip THEN Released(y.tab[omip]) ELSE y.tab[nmip]
        BY <2>1, <4>1, iputEffect
      <4>3. Released(y.tab[omip]).data = y.tab[omip].data
        BY <4>1, ReleasedFacts
      <4> QED BY <3>3, <4>2, <4>3 DEF Loose
    <3> HIDE DEF z
    <3>6. Sound(iput(z, nmip), None, a)
      <4>1. \A q \in Slots \ {nmip} : None[q] <= More(None, nmip)[q]
        BY <2>1, <2>2, NoneFacts
      <4>2. None[nmip] + 1 <= More(None, nmip)[nmip]
        BY <2>1, NoneFacts
      <4> QED BY <2>1, <3>4, <3>5, <4>1, <4>2, NoneFacts, iputSound
    <3> QED BY <2>7, <3>6
  <2> QED BY <2>6, <2>7
<1> HIDE DEF x, z
<1>10. Sound(r, None, a)
  BY <1>1, <1>4, <1>6, <1>8, <1>9
<1> QED BY <1>10 DEF r

\* A function that only writes blocks or fails.
LEMMA removeRecordSound ==
  ASSUME NEW s, Good(s), NEW h, NEW a, Sound(s, h, a), s.status = "ok", NEW pip \in Slots,
         NEW i \in 1..NDirect, NEW o \in Words,
         s.disk.blk[INode(s, pip).block[i]][o] # Wild
  PROVE  Sound(removeRecord(s, pip, i, o), h, a)
<1> DEFINE bno == INode(s, pip).block[i]
           b == s.disk.blk[bno]
           prev == PrevOffset(s, pip, i, o)
           r == removeRecord(s, pip, i, o)
<1>1. r \in States /\ b \in Block
  <2>1. Good(r)
    BY removeRecordGood
  <2>2. i \in 1..NDirect+1
    BY SizesFacts
  <2>3. bno \in Blocks
    BY <2>2, StateFacts
  <2> HIDE DEF bno, r
  <2> QED BY <2>1, <2>3, StateFacts
<1>2. r = IF IsLastRecord(b, o)
          THEN IF prev = NotFound \/ b[prev] = Wild THEN Fails(s, "wild")
               ELSE PutData(s, bno, Swallow(b, prev, o))
          ELSE IF Walk(b).end # "end" THEN Fails(s, Walk(b).end)
          ELSE IF ~IntHoldsPointer \/ o + b[o].rec > BLKWORDS THEN Fails(s, "segv")
          ELSE PutData(s, bno, CloseGap(b, o))
  BY DEF removeRecord
<1> HIDE DEF bno, b, prev, r
<1>3. Sound(Fails(s, "wild"), h, a) /\ Sound(Fails(s, "segv"), h, a)
  BY FailsSound
<1>4. Walk(b).end # "end" => Sound(Fails(s, Walk(b).end), h, a)
  BY <1>1, WalkEnd, FailsSound
<1>5. ASSUME NEW data, r = PutData(s, bno, data) PROVE Sound(r, h, a)
  BY <1>1, <1>5, PutDataSound
<1>6. Sound(r, h, a)
  BY <1>2, <1>3, <1>4, <1>5
<1> QED BY <1>6 DEF r

LEMMA rmInBlockSound ==
  ASSUME NEW t, Good(t), NEW h, NEW a, Sound(t, h, a), NEW pip \in Slots, NEW name,
         NEW i \in 1..NDirect
  PROVE  Sound(rmInBlock(t, pip, name, i), h, a)
<1> DEFINE bno == INode(t, pip).block[i]
           b == t.disk.blk[bno]
           o == Match(b, name)
           u == removeRecord(t, pip, i, o)
           r == rmInBlock(t, pip, name, i)
<1>1. bno \in Blocks /\ b \in Block
  <2>1. i \in 1..NDirect+1
    BY SizesFacts
  <2>2. bno \in Blocks
    BY <2>1, StateFacts
  <2> HIDE DEF bno
  <2> QED BY <2>2, StateFacts DEF bno
<1>2. r = IF t.status # "ok" \/ t.ret = 1 THEN t
          ELSE IF bno = 0 THEN Returns(t, 1)
          ELSE IF o # NotFound THEN Returns(u, 1)
          ELSE IF Walk(b).end # "end" THEN Fails(t, Walk(b).end)
          ELSE t
  BY DEF rmInBlock
<1>3. t.status = "ok" => Sound(Returns(t, 1), h, a)
  BY ReturnsSound
<1>4. t.status = "ok" /\ o # NotFound => Sound(Returns(u, 1), h, a)
  <2> SUFFICES ASSUME t.status = "ok", o # NotFound PROVE Sound(Returns(u, 1), h, a)
    OBVIOUS
  <2>1. o \in Words /\ b[o] # Wild
    BY <1>1, MatchInside
  <2>2. Sound(u, h, a) /\ Good(u)
    BY <2>1, removeRecordSound, removeRecordGood
  <2> HIDE DEF u
  <2> QED BY <2>2, ReturnsSound
<1>5. t.status = "ok" /\ Walk(b).end # "end" => Sound(Fails(t, Walk(b).end), h, a)
  BY <1>1, WalkEnd, FailsSound
<1> HIDE DEF bno, b, o, u, r
<1>6. Sound(r, h, a)
  BY <1>2, <1>3, <1>4, <1>5
<1> QED BY <1>6 DEF r

\* A loop of a command that holds x.h.
StaysSound(x, t, i) == Good(t) /\ Sound(t, x.h, x.a)
SoundBdealloc(x, t, i) == bdeallocBlock(t, x.inode, i)

SoundRmLoop == INSTANCE Loops WITH Pass <- RmPass, Keeps <- StaysSound
SoundBdeallocLoop == INSTANCE Loops WITH Pass <- SoundBdealloc, Keeps <- StaysSound

LEMMA rm_childSound ==
  ASSUME NEW s, Good(s), NEW h, NEW a, Sound(s, h, a), NEW pip \in Slots, NEW name
  PROVE  Sound(rm_child(s, pip, name), h, a)
<1> DEFINE x == [pip |-> pip, name |-> name, h |-> h, a |-> a]
           start == Returns(s, 0)
<1>1. x.pip = pip /\ x.name = name /\ x.h = h /\ x.a = a /\ NDirect \in Nat /\ 0 \in Int
  BY SizesFacts
<1> HIDE DEF x
<1>2. rm_child(s, pip, name) = SoundRmLoop!After(x, start, NDirect)
  BY <1>1 DEF rm_child, Loop, SoundRmLoop!After, RmPass
<1>3. StaysSound(x, start, 0)
  BY <1>1, ReturnsGood, ReturnsSound DEF StaysSound
<1>4. ASSUME NEW i \in 1..NDirect, NEW t, StaysSound(x, t, i - 1)
      PROVE  StaysSound(x, RmPass(x, t, i), i)
  BY <1>1, <1>4, rmInBlockGood, rmInBlockSound DEF StaysSound, RmPass
<1> HIDE DEF start
<1>5. StaysSound(x, SoundRmLoop!After(x, start, NDirect), NDirect)
  BY <1>1, <1>3, <1>4, NatSet, SoundRmLoop!LoopKeeps
<1> QED BY <1>1, <1>2, <1>5 DEF StaysSound

(* What bdealloc frees only matters to who owns a block.                   *)
LEMMA bdeallocSound ==
  ASSUME NEW s, Good(s), NEW h, NEW a, Sound(s, h, a), ~Tidy, NEW bno
  PROVE  Sound(bdealloc(s, bno), h, a)
<1> DEFINE d == [s.disk EXCEPT !.bmap = @ \ {bno}]
           t == bdealloc(s, bno)
<1>1. s \in States /\ s.disk \in Disks /\ s.disk.imap = a
  BY SoundFacts, StateFacts
<1>2. t = PutBlock(s, d)
  BY DEF bdealloc
<1>3. d \in Disks /\ d.imap = s.disk.imap /\ d.itab = s.disk.itab
  BY <1>1 DEF Disks
<1> HIDE DEF d, t
<1>4. /\ t \in States /\ t.disk = d /\ t.imgs = s.imgs \cup {d}
      /\ t.tab = s.tab /\ t.cwd = s.cwd /\ t.status = s.status
  BY <1>1, <1>2, <1>3, PutBlockEffect
<1>5. Sound(t, h, t.disk.imap)
  BY <1>3, <1>4, SoundSame
<1> QED BY <1>1, <1>3, <1>4, <1>5 DEF t

LEMMA truncateSound ==
  ASSUME NEW s, Good(s), NEW h, NEW a, Sound(s, h, a), ~Tidy, NEW slot \in Slots
  PROVE  Sound(truncate(s, slot), h, a)
<1> DEFINE x == [inode |-> INode(s, slot), h |-> h, a |-> a]
           t == bdeallocAll(s, INode(s, slot))
<1>1. x.inode = INode(s, slot) /\ x.h = h /\ x.a = a /\ NDirect \in Nat
  BY SizesFacts
<1> HIDE DEF x
<1>2. t = SoundBdeallocLoop!After(x, s, NDirect)
  BY <1>1 DEF bdeallocAll, Loop, SoundBdeallocLoop!After, SoundBdealloc
<1>3. ASSUME NEW i \in 1..NDirect, NEW u, StaysSound(x, u, i - 1)
      PROVE  StaysSound(x, SoundBdealloc(x, u, i), i)
  BY <1>3, bdeallocGood, bdeallocSound DEF StaysSound, SoundBdealloc, bdeallocBlock
<1>4. StaysSound(x, s, 0)
  BY <1>1 DEF StaysSound
<1>5. StaysSound(x, t, NDirect)
  BY <1>1, <1>2, <1>3, <1>4, NatSet, SoundBdeallocLoop!LoopKeeps
<1>6. Good(t) /\ Sound(t, h, a)
  BY <1>1, <1>5 DEF StaysSound
<1> DEFINE old == t.tab[slot].data
           block == [i \in 1..NDirect+1 |-> IF i <= NDirect THEN 0 ELSE old.block[i]]
           inode == [old EXCEPT !.block = block]
           u == [t EXCEPT !.tab[slot].data = inode]
           m == Changed(t.tab[slot], t.tab[slot].dirty, inode)
<1>7. truncate(s, slot) = u
  BY DEF truncate
<1> HIDE DEF t
<1>8. t \in States /\ t.tab[slot] \in Minodes /\ t.tab[slot].dirty \in BOOLEAN /\ old \in InodeRecs
  BY <1>6, SoundFacts DEF Minodes
<1> HIDE DEF old
<1>9. block \in [1..NDirect+1 -> Blocks]
  <2>1. \A i \in 1..NDirect+1 : old.block[i] \in Blocks /\ 0 \in Blocks
    BY <1>8, SizesFacts DEF InodeRecs
  <2> QED BY <2>1
<1> HIDE DEF block
<1>10. inode \in InodeRecs /\ inode.mode = old.mode
  BY <1>8, <1>9 DEF InodeRecs
<1> HIDE DEF inode
<1>11. Slotted(t, u, slot, m)
  BY <1>8, <1>10, DataSlotted
<1>12. /\ m \in Minodes /\ m.ref = t.tab[slot].ref /\ m.ino = t.tab[slot].ino
       /\ m.dirty = t.tab[slot].dirty /\ m.data = inode
  BY <1>8, <1>10, ChangedFacts
<1> HIDE DEF m, u
<1>13. Sound(u, h, a)
  BY <1>6, <1>10, <1>11, <1>12, MinodeSound DEF old
<1> QED BY <1>7, <1>13 DEF u

LEMMA unlinkSound ==
  ASSUME NEW s, Good(s), NEW a, Sound(s, None, a), s.status = "ok", ~Tidy,
         NEW p \in Paths, p.names # <<>>
  PROVE  Sound(my_unlink(s, p), None, a)
<1> DEFINE t == getMinode(s, p)
           umip == t.ret
           u == getMinode(t, dirname(p))
           links == Links(u.tab[umip].data.links + LinkModulus - 1)
           v == [u EXCEPT !.tab[umip].data.links = links]
           w == IF INode(v, umip).links = 0 THEN truncate(v, umip) ELSE v
           g == More(None, umip)
           h == More(g, u.ret)
           r == my_unlink(s, p)
<1>1. r = IF t.status # "ok" THEN t
          ELSE IF u.status # "ok" \/ Mode(u, umip) # "file" THEN u
          ELSE rm_child(w, u.ret, basename(p))
  BY DEF my_unlink, Then
<1>2. p \in AnyPaths /\ dirname(p) \in AnyPaths
  BY dirnameFacts, NamedPaths DEF NoPath
<1> HIDE DEF r
<1>3. GotMore(t, None, a)
  BY <1>2, getMinodeSound
<1> HIDE DEF t, g, umip
<1>4. t.status # "ok" => Sound(t, None, a)
  BY <1>3 DEF GotMore
<1>5. t.status = "ok" => umip \in Slots /\ GotMore(u, g, a)
  <2>1. t.status = "ok" => umip \in Slots /\ Good(t) /\ Sound(t, g, a)
    BY <1>3 DEF GotMore, g, umip
  <2> QED BY <1>2, <2>1, getMinodeSound
<1> HIDE DEF u, h
<1>6. t.status = "ok" =>
        /\ Sound(u, None, a)
        /\ u.status = "ok" => u.ret \in Slots /\ Good(u) /\ Sound(u, h, a)
  BY <1>5, SoundNone DEF GotMore, h
<1>7. ASSUME t.status = "ok", u.status = "ok"
      PROVE  Sound(rm_child(w, u.ret, basename(p)), None, a)
  <2>1. umip \in Slots /\ u.ret \in Slots /\ Good(u) /\ Sound(u, h, a)
    BY <1>5, <1>6, <1>7
  <2>2. links \in 0..LinkModulus-1
    BY <2>1, CountDown
  <2> HIDE DEF links
  <2>3. Good(v)
    BY <2>1, <2>2, LinksGood
  <2>4. Sound(v, h, a) /\ v.status = u.status
    BY <2>1, <2>2, LinksSound
  <2> HIDE DEF v
  <2>5. Good(w) /\ Sound(w, h, a)
    BY <1>7, <2>1, <2>3, <2>4, truncateGood, truncateSound
  <2> HIDE DEF w
  <2>6. Sound(rm_child(w, u.ret, basename(p)), h, a)
    BY <2>1, <2>5, rm_childSound
  <2> QED BY <2>6, SoundNone
<1> HIDE DEF w
<1>8. Sound(r, None, a)
  BY <1>1, <1>4, <1>6, <1>7
<1> QED BY <1>8 DEF r

-----------------------------------------------------------------------------
(* cd, ls, stat, pwd and quit.                                             *)

\* cwd may move to a directory whose minode the command got, which then holds the
\* reference of the old cwd.
LEMMA CwdSound ==
  ASSUME NEW s, NEW slot \in Slots, NEW a, Sound(s, More(None, slot), a), s.status = "ok",
         Mode(s, slot) = "dir"
  PROVE  LET t == [s EXCEPT !.cwd = slot] IN Sound(t, More(None, s.cwd), a)
<1> DEFINE t == [s EXCEPT !.cwd = slot]
           g == More(None, s.cwd)
           h == More(None, slot)
<1>1. s \in States /\ s.cwd \in Slots /\ \A q \in Slots : Enough(s, h, q)
  BY SoundFacts
<1>2. /\ t \in States /\ t.disk = s.disk /\ t.imgs = s.imgs /\ t.tab = s.tab /\ t.cwd = slot
      /\ t.status = s.status
  BY <1>1 DEF States
<1> HIDE DEF t
<1>3. Safe(t)
  BY <1>2, SafeSame DEF Sound
<1>4. g \in Held
  BY <1>1, NoneFacts
<1>5. ASSUME NEW q \in Slots PROVE Enough(t, g, q)
  <2>1. Pins(t, q) + g[q] = Pins(s, q) + h[q]
    BY <1>1, <1>2, NoneFacts DEF Pins
  <2>2. Enough(s, h, q)
    BY <1>1
  <2> HIDE DEF g, h
  <2> QED BY <1>2, <2>1, <2>2 DEF Enough
<1>6. t.tab[t.cwd].data.mode = "dir"
  BY <1>2 DEF Mode, INode
<1>7. Sound(t, g, a)
  BY <1>2, <1>3, <1>4, <1>5, <1>6 DEF Sound
<1> QED BY <1>7 DEF t

LEMMA chdirSound ==
  ASSUME NEW s, Good(s), NEW a, Sound(s, None, a), s.status = "ok", NEW p \in Paths, p # NoPath
  PROVE  Sound(chdir(s, p), None, a)
<1> DEFINE t == getMinode(s, p)
           u == iput(t, t.cwd)
           r == [u EXCEPT !.cwd = t.ret]
           v == [t EXCEPT !.cwd = t.ret]
           w == iput(v, t.cwd)
<1>1. chdir(s, p) = IF t.status # "ok" \/ Mode(t, t.ret) # "dir" THEN t ELSE r
  BY DEF chdir, Then
<1>2. GotMore(t, None, a)
  BY NamedPaths, getMinodeSound
<1> HIDE DEF t
<1>3. CASE t.status # "ok" \/ Mode(t, t.ret) # "dir"
  <2>1. Sound(t, None, a)
    BY <1>2, SoundNone DEF GotMore
  <2> QED BY <1>1, <1>3, <2>1
<1>4. CASE t.status = "ok" /\ Mode(t, t.ret) = "dir"
  <2>1. /\ t.ret \in Slots /\ t.cwd \in Slots /\ Good(t) /\ t \in States
        /\ Sound(t, More(None, t.ret), a)
    BY <1>2, <1>4, StateFacts DEF GotMore
  <2>2. Sound(v, More(None, t.cwd), a)
    BY <1>4, <2>1, CwdSound
  <2>3. /\ v \in States /\ v.disk = t.disk /\ v.imgs = t.imgs /\ v.tab = t.tab /\ v.cwd = t.ret
        /\ v.status = t.status
    BY <2>1 DEF States
  <2> HIDE DEF v
  <2>4. Sound(w, None, a)
    BY <1>4, <2>1, <2>2, <2>3, LastPut
  <2> DEFINE m == t.tab[t.cwd]
  <2>5. /\ w \in States
        /\ \A q \in Slots : w.tab[q] = IF q = t.cwd THEN Released(m) ELSE t.tab[q]
        /\ w.cwd = t.ret
        /\ w.disk.bmap = t.disk.bmap
        /\ w.status = IF WritesBack(m) /\ m.ino = 0 THEN "wild" ELSE t.status
        /\ IF WritesBack(m) /\ m.ino # 0
           THEN /\ w.disk.itab = [t.disk.itab EXCEPT ![m.ino] = m.data]
                /\ w.imgs = t.imgs \cup {w.disk}
           ELSE w.disk = t.disk /\ w.imgs = t.imgs
    <3>1. /\ w \in States
          /\ \A q \in Slots : w.tab[q] = IF q = t.cwd THEN Released(v.tab[t.cwd]) ELSE v.tab[q]
          /\ w.cwd = v.cwd /\ w.disk.bmap = v.disk.bmap
          /\ w.status = IF WritesBack(v.tab[t.cwd]) /\ v.tab[t.cwd].ino = 0 THEN "wild"
                        ELSE v.status
          /\ IF WritesBack(v.tab[t.cwd]) /\ v.tab[t.cwd].ino # 0
             THEN /\ w.disk.itab = [v.disk.itab EXCEPT ![v.tab[t.cwd].ino] = v.tab[t.cwd].data]
                  /\ w.imgs = v.imgs \cup {w.disk}
             ELSE w.disk = v.disk /\ w.imgs = v.imgs
      <4>1. v \in States /\ t.cwd \in Slots
        BY <2>1, <2>3
      <4> QED BY <4>1, iputEffect
    <3> HIDE DEF w
    <3> QED BY <2>3, <3>1
  <2>6. /\ u \in States
        /\ \A q \in Slots : u.tab[q] = IF q = t.cwd THEN Released(m) ELSE t.tab[q]
        /\ u.disk.imap = t.disk.imap /\ u.disk.bmap = t.disk.bmap
        /\ u.status = IF WritesBack(m) /\ m.ino = 0 THEN "wild" ELSE t.status
        /\ IF WritesBack(m) /\ m.ino # 0
           THEN /\ u.disk.itab = [t.disk.itab EXCEPT ![m.ino] = m.data]
                /\ u.imgs = t.imgs \cup {u.disk}
           ELSE u.disk = t.disk /\ u.imgs = t.imgs
    BY <2>1, iputEffect
  <2> HIDE DEF u, w, m
  <2>7. /\ r \in States /\ r.disk = u.disk /\ r.imgs = u.imgs /\ r.tab = u.tab /\ r.cwd = t.ret
        /\ r.status = u.status
    BY <2>1, <2>6 DEF States
  <2> HIDE DEF r
  <2>8. r.tab = w.tab
    <3>1. r.tab \in [Slots -> Minodes] /\ w.tab \in [Slots -> Minodes]
      BY <2>5, <2>7 DEF States
    <3>2. \A q \in Slots : r.tab[q] = w.tab[q]
      BY <2>5, <2>6, <2>7
    <3> QED BY <3>1, <3>2
  <2>9. r.disk.itab = w.disk.itab /\ r.imgs \subseteq w.imgs \cup {r.disk}
    BY <2>5, <2>6, <2>7
  <2>10. Sound(r, None, r.disk.imap)
    BY <2>4, <2>5, <2>6, <2>7, <2>8, <2>9, SoundSame
  <2>11. r.disk.imap = a
    BY <2>1, <2>6, <2>7, SoundFacts
  <2> QED BY <1>1, <1>4, <2>10, <2>11
<1> QED BY <1>3, <1>4

LEMMA printSound ==
  ASSUME NEW s, Good(s), NEW h, NEW a, Sound(s, h, a), s.status = "ok", NEW slot \in Slots
  PROVE  Sound(print(s, slot), h, a)
<1> DEFINE inode == INode(s, slot)
           i == Lowest(Stops(s, inode))
           end == Walk(DataBlock(s, inode, i)).end
           r == print(s, slot)
<1>1. r = s \/ r = Fails(s, "wild") \/ r = Fails(s, end)
  BY DEF print
<1>2. r \in States /\ s \in States
  BY printGood, StateFacts
<1> HIDE DEF end, r
<1>3. r.disk = s.disk /\ r.imgs = s.imgs /\ r.tab = s.tab /\ r.cwd = s.cwd
  BY <1>1, <1>2 DEF Fails, States
<1>4. Sound(r, h, a)
  BY <1>2, <1>3, SoundRest
<1> QED BY <1>4 DEF r

LEMMA lsSound ==
  ASSUME NEW s, Good(s), NEW a, Sound(s, None, a), s.status = "ok", NEW p \in Paths
  PROVE  Sound(ls(s, p), None, a) /\ (p # NoPath => Sound(my_stat(s, p), None, a))
<1> DEFINE t == getMinode(s, p)
<1>1. CASE p = NoPath
  <2>1. s.cwd \in Slots
    BY StateFacts
  <2> QED BY <1>1, <2>1, printSound DEF ls
<1>2. CASE p # NoPath
  <2>1. ls(s, p) = (IF t.status = "ok" THEN print(t, t.ret) ELSE t)
        /\ my_stat(s, p) = (IF t.status = "ok" THEN iput(t, t.ret) ELSE t)
    BY <1>2 DEF ls, my_stat, Then
  <2>2. GotMore(t, None, a)
    BY <1>2, NamedPaths, getMinodeSound
  <2> HIDE DEF t
  <2>3. CASE t.status # "ok"
    BY <2>1, <2>2, <2>3 DEF GotMore
  <2>4. CASE t.status = "ok"
    <3>1. Good(t) /\ t.ret \in Slots /\ Sound(t, More(None, t.ret), a)
      BY <2>2, <2>4 DEF GotMore
    <3>2. Sound(print(t, t.ret), None, a)
      BY <2>4, <3>1, printSound, SoundNone
    <3>3. Sound(iput(t, t.ret), None, a)
      BY <2>4, <3>1, LastPut
    <3> QED BY <2>1, <2>4, <3>2, <3>3
  <2> QED BY <2>3, <2>4
<1> QED BY <1>1, <1>2

LEMMA rpwdUpSound ==
  ASSUME NEW t, Good(t), NEW h, NEW a, Sound(t, h, a)
  PROVE  Sound(rpwdUp(t), h, a)
<1> DEFINE u == search(t, t.mip, ".")
           v == search(u, u.mip, "..")
           w == iget(v, v.ret)
           b == w.disk.blk[INode(w, w.ret).block[1]]
           r == rpwdUp(t)
<1>1. \/ r = t
      \/ /\ t.status = "ok"
         /\ \/ r = u
            \/ /\ u.status = "ok"
               /\ \/ r = v
                  \/ /\ v.status = "ok"
                     /\ \/ r = w
                        \/ /\ w.status = "ok"
                           /\ \/ r = [w EXCEPT !.mip = w.ret]
                              \/ r = Fails(w, "wild") \/ r = Fails(w, Walk(b).end)
  BY DEF rpwdUp, Then
<1>2. r \in States
  BY rpwdUpGood, StateFacts
<1> HIDE DEF r
<1>3. t.status = "ok" => Good(u) /\ Sound(u, h, a)
  BY StateFacts, searchGood, searchSound
<1> HIDE DEF u
<1>4. t.status = "ok" /\ u.status = "ok" =>
        Good(v) /\ Sound(v, h, a) /\ (v.status = "ok" => v.ret \in Nameable(v.disk))
  BY <1>3, StateFacts, searchGood, searchSound
<1> HIDE DEF v
<1>5. ASSUME t.status = "ok", u.status = "ok", v.status = "ok" PROVE Sound(w, h, a)
  <2>1. v.ret \in 0..NInodes
    BY <1>4, <1>5, NameableFacts
  <2>2. Gets(v, w, h, a, v.ret)
    BY <1>4, <1>5, <2>1, igetSound
  <2>3. CASE w.status = "ok"
    <3>1. w.ret \in Slots /\ Sound(w, More(h, w.ret), a)
      BY <2>2, <2>3 DEF Gets
    <3>2. h \in Held /\ \A q \in Slots : h[q] <= More(h, w.ret)[q]
      BY <3>1, SoundFacts, MoreFacts
    <3> QED BY <3>1, <3>2, SoundLess
  <2>4. CASE w.status # "ok"
    BY <2>2, <2>4 DEF Gets
  <2> QED BY <2>3, <2>4
<1> HIDE DEF w, b
<1>6. ASSUME t.status = "ok", u.status = "ok", v.status = "ok", w.status = "ok",
             \/ r = [w EXCEPT !.mip = w.ret]
             \/ r = Fails(w, "wild") \/ r = Fails(w, Walk(b).end)
      PROVE  Sound(r, h, a)
  <2>1. Sound(w, h, a) /\ w \in States
    BY <1>5, <1>6, SoundFacts
  <2>2. r.disk = w.disk /\ r.imgs = w.imgs /\ r.tab = w.tab /\ r.cwd = w.cwd
    BY <1>6, <2>1 DEF Fails, States
  <2> QED BY <1>2, <1>6, <2>1, <2>2, SoundRest
<1>7. Sound(r, h, a)
  BY <1>1, <1>3, <1>4, <1>5, <1>6
<1> QED BY <1>7 DEF r

SoundRpwdLoop == INSTANCE Loops WITH Pass <- RpwdPass, Keeps <- StaysSound

LEMMA pwdSound ==
  ASSUME NEW s, Good(s), NEW a, Sound(s, None, a), s.status = "ok"
  PROVE  Sound(pwd(s), None, a)
<1> DEFINE x == [h |-> None, a |-> a]
           start == [s EXCEPT !.mip = s.cwd]
           top == SoundRpwdLoop!After(x, start, NInodes)
<1>1. pwd(s) = IF top.status = "ok" /\ top.mip # RootSlot THEN Fails(top, "segv") ELSE top
  BY DEF pwd, rpwd, Loop, SoundRpwdLoop!After, RpwdPass
<1>2. NInodes \in Nat /\ s.cwd \in Slots /\ s \in States /\ x.h = None /\ x.a = a
  BY SizesFacts, StateFacts
<1> HIDE DEF x
<1>3. /\ start \in States /\ start.disk = s.disk /\ start.imgs = s.imgs /\ start.tab = s.tab
      /\ start.cwd = s.cwd
  BY <1>2 DEF States
<1>4. Good(start)
  BY <1>2, WalksGood
<1> HIDE DEF start
<1>5. StaysSound(x, start, 0)
  BY <1>2, <1>3, <1>4, SoundRest DEF StaysSound
<1>6. ASSUME NEW i \in 1..NInodes, NEW t, StaysSound(x, t, i - 1)
      PROVE  StaysSound(x, RpwdPass(x, t, i), i)
  BY <1>6, rpwdUpGood, rpwdUpSound DEF StaysSound, RpwdPass
<1>7. Sound(top, None, a)
  BY <1>2, <1>5, <1>6, NatSet, SoundRpwdLoop!LoopKeeps DEF StaysSound
<1> HIDE DEF top
<1> QED BY <1>1, <1>7, FailsSound

StaysSafe(x, t, i) == Safe(t)

SafePutLoop == INSTANCE Loops WITH Pass <- PutPass, Keeps <- StaysSafe

LEMMA putAllSafe ==
  ASSUME NEW s, Safe(s)
  PROVE  Safe(putAll(s))
<1>1. putAll(s) = SafePutLoop!After(0, s, NMINODE)
  BY DEF putAll, Loop, SafePutLoop!After, PutPass
<1>2. NMINODE \in Nat /\ StaysSafe(0, s, 0)
  BY SizesFacts DEF StaysSafe
<1>3. ASSUME NEW i \in 1..NMINODE, NEW t, StaysSafe(0, t, i - 1)
      PROVE  StaysSafe(0, PutPass(0, t, i), i)
  <2>1. i \in Slots /\ Safe(t)
    BY <1>3 DEF Slots, StaysSafe
  <2>2. t.tab[i].ref > 0 => InUse(t.tab[i])
    BY <2>1, SafeFacts DEF InUse
  <2> QED BY <2>1, <2>2, iputSafe DEF StaysSafe, PutPass, putSlot
<1>4. StaysSafe(0, SafePutLoop!After(0, s, NMINODE), NMINODE)
  BY <1>2, <1>3, NatSet, SafePutLoop!LoopKeeps
<1> QED BY <1>1, <1>4 DEF StaysSafe

-----------------------------------------------------------------------------
(* The program, with its minodes and blocks.                               *)

(* The inductive invariant: between commands none holds a reference.       *)
Serves ==
  /\ Inv
  /\ Sound(Here, None, disk.imap)
  /\ cmds \in Nat /\ kills \in Nat

\* A command that returns in state s.
Ended(s) == Good(s) /\ Makes(Here, s, None)

LEMMA MountedSound ==
  ASSUME NEW d, GoodDisk(d), SafeDisk(d)
  PROVE  Sound([disk |-> d, imgs |-> {}, tab |-> MountedTable(d), cwd |-> RootSlot,
                status |-> "ok", ret |-> 0, mip |-> RootSlot], None, d.imap)
<1> DEFINE t == [disk |-> d, imgs |-> {}, tab |-> MountedTable(d), cwd |-> RootSlot,
                 status |-> "ok", ret |-> 0, mip |-> RootSlot]
           root == [ref |-> 3, ino |-> Root, dirty |-> FALSE, data |-> d.itab[Root]]
<1>1. t \in States /\ RootSlot \in Slots /\ Root \in Inos /\ Root # 0
  BY MountedGood, StateFacts, SizesFacts DEF Root
<1>2. /\ t.disk = d /\ t.imgs = {} /\ t.cwd = RootSlot
      /\ \A q \in Slots : t.tab[q] = IF q = RootSlot THEN root ELSE FreeMinode
  BY DEF MountedTable
<1>3. /\ root.ref = 3 /\ root.ino = Root /\ ~Loose(root) /\ root.data = d.itab[Root]
      /\ root.data.mode = "dir"
      /\ FreeMinode.ref = 0 /\ FreeMinode.ino = 0 /\ ~Loose(FreeMinode) /\ ~InUse(FreeMinode)
  BY <1>1 DEF Loose, FreeMinode, InUse, SafeDisk
<1> HIDE DEF t, root
<1>4. Safe(t)
  <2>1. \A i, b : Claimed(t, i, b) => i \in Inos /\ HasBlock(d.itab[i], b)
    BY <1>1, <1>2, <1>3 DEF Claimed
  <2>2. Tidy => Owned(t)
    BY <1>2, <2>1 DEF Owned, OwnedOnDisk, SafeDisk
  <2> QED BY <1>1, <1>2, <1>3, <2>2 DEF Safe, SafeDisk
<1>5. ASSUME NEW q \in Slots PROVE Enough(t, None, q)
  BY <1>2, <1>3, NoneFacts DEF Enough, Pins
<1>6. \A q, r \in Slots : InUse(t.tab[q]) /\ InUse(t.tab[r]) /\ t.tab[q].ino = t.tab[r].ino => q = r
  BY <1>2, <1>3
<1>7. Sound(t, None, d.imap)
  BY <1>1, <1>2, <1>3, <1>4, <1>5, <1>6, NoneFacts DEF Sound
<1> QED BY <1>7 DEF t

LEMMA ImageSafe == SafeDisk(Image)
<1>1. Image.itab = [i \in Inos |-> IF i = Root THEN Inode("dir", 2, RootBlock) ELSE FreeInode]
  BY DEF Image
<1>2. Image.bmap = {RootBlock - 1, NBlocks - 1}
  BY DEF Image
<1>3. Inode("dir", 2, RootBlock).mode = "dir"
  BY DEF Inode
<1>4. \A b \in Blocks \ {0} : /\ HasBlock(Inode("dir", 2, RootBlock), b) => b = RootBlock
                              /\ ~HasBlock(FreeInode, b)
  BY InodeBlocks DEF FreeInode
<1>5. OwnedOnDisk(Image)
  BY <1>1, <1>2, <1>4 DEF OwnedOnDisk
<1> QED BY <1>1, <1>3, <1>5, SizesFacts DEF SafeDisk

LEMMA SoundBetween ==
  ASSUME NEW s, Good(s), NEW a, Sound(s, None, a)
  PROVE  Sound([disk |-> s.disk, imgs |-> {}, tab |-> s.tab, cwd |-> s.cwd,
                status |-> s.status, ret |-> 0, mip |-> RootSlot], None, s.disk.imap)
<1> DEFINE t == [disk |-> s.disk, imgs |-> {}, tab |-> s.tab, cwd |-> s.cwd,
                 status |-> s.status, ret |-> 0, mip |-> RootSlot]
<1>1. /\ t \in States /\ t.disk = s.disk /\ t.imgs = {} /\ t.tab = s.tab /\ t.cwd = s.cwd
      /\ t.status = s.status
  BY BetweenCommands, StateFacts
<1> HIDE DEF t
<1>2. Sound(t, None, t.disk.imap)
  BY <1>1, SoundSame
<1> QED BY <1>1, <1>2 DEF t

LEMMA InitServes == Init => Serves
<1> SUFFICES ASSUME Init PROVE Serves
  OBVIOUS
<1> DEFINE d == Image
<1>1. Here = [disk |-> d, imgs |-> {}, tab |-> MountedTable(d), cwd |-> RootSlot,
              status |-> "ok", ret |-> 0, mip |-> RootSlot]
      /\ disk = d
  BY DEF Init, Here
<1>2. GoodDisk(d) /\ SafeDisk(d)
  BY ImageGood, ImageSafe
<1> HIDE DEF d
<1>3. Sound(Here, None, disk.imap)
  BY <1>1, <1>2, MountedSound
<1> QED BY <1>3, InitInv DEF Serves, Init

LEMMA MountServes == \A d : GoodDisk(d) /\ SafeDisk(d) /\ Mount(d) => Sound(Here, None, disk.imap)'
<1> SUFFICES ASSUME NEW CONSTANT d, GoodDisk(d), SafeDisk(d), Mount(d)
             PROVE  Sound(Here, None, disk.imap)'
  OBVIOUS
<1> QED BY MountedSound DEF Mount, Here

LEMMA KillServes == \A s : Ended(s) /\ KillIn(s) => Sound(Here, None, disk.imap)'
BY MountServes DEF Ended, KillIn, Good, Makes, Sound, Safe

LEMMA FinishServes ==
  \A s : Ended(s) /\ Finish(s) =>
    /\ Sound(Here, None, disk.imap)'
    /\ status' = "ok" => \A b \in disk'.imap \ disk.imap : Wrote(Here, b + 1)'
<1> SUFFICES ASSUME NEW CONSTANT s, Ended(s), Finish(s)
             PROVE  /\ Sound(Here, None, disk.imap)'
                    /\ status' = "ok" => \A b \in disk'.imap \ disk.imap : Wrote(Here, b + 1)'
  OBVIOUS
<1>1. Good(s) /\ Sound(s, None, s.disk.imap)
  BY DEF Ended, Makes
<1>2. Sound(Here, None, disk.imap)'
  BY <1>1, SoundBetween DEF Finish, Here
<1>3. Here.disk = disk
  BY DEF Here
<1>4. s.status = "ok" => \A b \in s.disk.imap \ disk.imap : Wrote(s, b + 1)
  BY <1>3 DEF Ended, Makes
<1>5. \A i : Wrote(s, i) => Wrote(Here, i)'
  BY DEF Finish, Here, Wrote
<1> QED BY <1>2, <1>4, <1>5 DEF Finish

(* A command that allocates no inode.                                      *)
LEMMA EndedSame ==
  ASSUME NEW s, Good(s), Sound(s, None, disk.imap)
  PROVE  Ended(s)
<1>1. s.disk.imap = disk.imap /\ Here.disk.imap = disk.imap
  BY SoundFacts DEF Here
<1> QED BY <1>1 DEF Ended, Makes

LEMMA CommandsEnd ==
  ASSUME Calm, Serves, status = "ok"
  PROVE  /\ Ended(pwd(Here))
         /\ \A p \in MkdirPaths : Ended(make_dir(Here, p))
         /\ \A p \in CreatPaths : Ended(creat_file(Here, p))
         /\ \A lp \in LinkPairs : Ended(mylink(Here, lp[1], lp[2]))
         /\ \A p \in UnlinkPaths : Ended(my_unlink(Here, p))
         /\ \A p \in CdPaths : Ended(chdir(Here, p))
         /\ \A p \in LookPaths : /\ Ended(ls(Here, p))
                                 /\ p # NoPath => Ended(my_stat(Here, p))
<1> DEFINE h == Here
           a == disk.imap
<1>0. Inv /\ Good(h) /\ Sound(h, None, a) /\ h.status = "ok" /\ Kept
  BY DEF Serves, Inv, Here, Calm, Kept
<1>1. h = Here
  OBVIOUS
<1> HIDE DEF h, a
<1>2. Ended(pwd(h))
  BY <1>0, <1>1, pwdSound, CommandsGood, EndedSame DEF a
<1>3. ASSUME NEW p \in MkdirPaths PROVE Ended(make_dir(h, p))
  BY <1>0, <1>1, <1>3, PathsAssumption, newChildSound, CommandsGood DEF make_dir, Ended
<1>4. ASSUME NEW p \in CreatPaths PROVE Ended(creat_file(h, p))
  BY <1>0, <1>1, <1>4, PathsAssumption, newChildSound, CommandsGood DEF creat_file, Ended
<1>5. ASSUME NEW lp \in LinkPairs PROVE Ended(mylink(h, lp[1], lp[2]))
  <2>1. \A i \in 1..2 : lp[i] \in Paths /\ lp[i].names # <<>>
    BY PathsAssumption
  <2>2. 1 \in 1..2 /\ 2 \in 1..2
    OBVIOUS
  <2>3. lp[1] \in Paths /\ lp[1].names # <<>> /\ lp[2] \in Paths /\ lp[2].names # <<>>
    BY <2>1, <2>2
  <2>4. Sound(mylink(h, lp[1], lp[2]), None, a)
    BY <1>0, <2>3, linkSound
  <2> QED BY <1>0, <1>1, <2>4, CommandsGood, EndedSame DEF a
<1>6. ASSUME NEW p \in UnlinkPaths PROVE Ended(my_unlink(h, p))
  <2>1. ~Tidy
    BY <1>6 DEF Tidy
  <2>2. Sound(my_unlink(h, p), None, a)
    BY <1>0, <1>6, <2>1, PathsAssumption, unlinkSound
  <2> QED BY <1>0, <1>1, <1>6, <2>2, CommandsGood, EndedSame DEF a
<1>7. ASSUME NEW p \in CdPaths PROVE Ended(chdir(h, p))
  <2>1. p \in Paths /\ p # NoPath
    BY <1>7, PathsAssumption DEF Calm
  <2>2. Sound(chdir(h, p), None, a)
    BY <1>0, <2>1, chdirSound
  <2> QED BY <1>0, <1>1, <1>7, <2>2, CommandsGood, EndedSame DEF a
<1>8. ASSUME NEW p \in LookPaths PROVE Ended(ls(h, p)) /\ (p # NoPath => Ended(my_stat(h, p)))
  <2>1. Sound(ls(h, p), None, a) /\ (p # NoPath => Sound(my_stat(h, p), None, a))
    BY <1>0, <1>8, PathsAssumption, lsSound
  <2> QED BY <1>0, <1>1, <1>8, <2>1, CommandsGood, EndedSame DEF a
<1> QED BY <1>1, <1>2, <1>3, <1>4, <1>5, <1>6, <1>7, <1>8

LEMMA QuitServes ==
  ASSUME Serves
  PROVE  /\ GoodDisk(putAll(Here).disk) /\ SafeDisk(putAll(Here).disk)
         /\ GoodDisk(disk) /\ SafeDisk(disk)
         /\ \A d \in putAll(Here).imgs : GoodDisk(d) /\ SafeDisk(d)
<1> DEFINE h == Here
<1>1. Good(h) /\ Safe(h) /\ h.disk = disk
  BY DEF Serves, Inv, Sound, Here
<1>2. h = Here
  OBVIOUS
<1> HIDE DEF h
<1>3. Good(putAll(h)) /\ Safe(putAll(h))
  BY <1>1, putAllGood, putAllSafe
<1> QED BY <1>1, <1>2, <1>3, SafeNow DEF Good, Safe

\* What a step does to the minodes, and to an inode that it allocates.
Steps ==
  /\ Sound(Here, None, disk.imap)'
  /\ CommandEnds /\ status' = "ok" => \A b \in disk'.imap \ disk.imap : Wrote(Here, b + 1)'

LEMMA NextSteps == Calm /\ Serves /\ Next => Steps
<1> SUFFICES ASSUME Calm, Serves, Next PROVE Steps
  OBVIOUS
<1>0. cmds \in Nat /\ kills \in Nat
  BY DEF Serves
<1>1. \A s : Ended(s) /\ Finish(s) => Steps
  BY FinishServes DEF Steps
<1>2. CASE Mkdir
  BY <1>1, <1>2, CommandsEnd DEF Mkdir, Command
<1>3. CASE Creat
  BY <1>1, <1>3, CommandsEnd DEF Creat, Command
<1>4. CASE Rmdir
  BY <1>4 DEF Rmdir, Calm
<1>5. CASE Link
  BY <1>1, <1>5, CommandsEnd DEF Link, Command
<1>6. CASE Unlink
  BY <1>1, <1>6, CommandsEnd DEF Unlink, Command
<1>7. CASE Cd
  BY <1>1, <1>7, CommandsEnd DEF Cd, Command
<1>8. CASE Ls
  BY <1>1, <1>8, CommandsEnd DEF Ls, Command
<1>9. CASE Stat
  BY <1>1, <1>9, CommandsEnd DEF Stat, Command
<1>10. CASE Pwd
  BY <1>1, <1>10, CommandsEnd DEF Pwd, Command
<1>11. CASE Quit
  <2>1. ~CommandEnds
    BY <1>0, <1>11 DEF Quit, CommandEnds
  <2> QED BY <1>11, <2>1, QuitServes, MountServes DEF Quit, Steps
<1>12. CASE Restart
  <2>1. ~CommandEnds
    BY <1>0, <1>12 DEF Restart, CommandEnds
  <2> QED BY <1>12, <2>1, QuitServes, MountServes DEF Restart, Steps
<1>13. CASE Kill
  <2>1. ~CommandEnds
    BY <1>0, <1>13 DEF Kill, CommandEnds
  <2>2. status = "ok"
    BY <1>13 DEF Kill, Command
  <2>3. Sound(Here, None, disk.imap)'
    <3>1. \/ \E p \in MkdirPaths : KillIn(make_dir(Here, p))
          \/ \E p \in CreatPaths : KillIn(creat_file(Here, p))
          \/ \E lp \in LinkPairs : KillIn(mylink(Here, lp[1], lp[2]))
          \/ \E p \in UnlinkPaths : KillIn(my_unlink(Here, p))
          \/ KillIn(putAll(Here))
          \/ Mount(disk)
      BY <1>13 DEF Kill, Calm
    <3>2. KillIn(putAll(Here)) \/ Mount(disk) => Sound(Here, None, disk.imap)'
      BY QuitServes, MountServes DEF KillIn
    <3> QED BY <2>2, <3>1, <3>2, CommandsEnd, KillServes
  <2> QED BY <2>1, <2>3 DEF Steps
<1> QED BY <1>2, <1>3, <1>4, <1>5, <1>6, <1>7, <1>8, <1>9, <1>10, <1>11, <1>12, <1>13 DEF Next

LEMMA NextServes == Calm /\ Serves /\ [Next]_vars => Serves'
<1> SUFFICES ASSUME Calm, Serves, [Next]_vars PROVE Serves'
  OBVIOUS
<1>1. Inv'
  BY NextInv DEF Serves
<1>2. CASE UNCHANGED vars
  BY <1>1, <1>2 DEF vars, Serves, Here
<1>3. CASE Next
  <2>1. Sound(Here, None, disk.imap)'
    BY <1>3, NextSteps DEF Steps
  <2>2. cmds' \in Nat /\ kills' \in Nat
    BY <1>3 DEF Serves, Next, Mkdir, Creat, Rmdir, Link, Unlink, Cd, Ls, Stat, Pwd, Quit, Restart,
                Kill, Command, Finish
  <2> QED BY <1>1, <2>1, <2>2 DEF Serves
<1> QED BY <1>2, <1>3

(* The invariant holds of every behaviour in which no directory is removed *)
(* and every cd names a directory: whatever commands run, fail for want of *)
(* an inode, a block or a minode, or are killed.                           *)
THEOREM AlwaysServes ==
  ASSUME Calm
  PROVE  Spec => []Serves
BY InitServes, NextServes, PTL DEF Spec

LEMMA ServesFacts ==
  ASSUME Serves
  PROVE  /\ Sound(Here, None, disk.imap)
         /\ Here.disk = disk /\ Here.tab = tab /\ Here.cwd = cwd /\ Here.status = status
         /\ tab \in [Slots -> Minodes] /\ cwd \in Slots /\ RootSlot \in Slots
<1>1. /\ Sound(Here, None, disk.imap)
      /\ Here.disk = disk /\ Here.tab = tab /\ Here.cwd = cwd /\ Here.status = status
  BY DEF Serves, Here
<1> DEFINE h == Here
<1>2. Sound(h, None, disk.imap) /\ h.tab = tab /\ h.cwd = cwd
  BY <1>1
<1> HIDE DEF h
<1>3. h \in States
  BY <1>2, SoundFacts
<1> QED BY <1>1, <1>2, <1>3, SizesFacts DEF States

(* RefCountsUsers: as long as no directory is removed and no cd goes to    *)
(* the root without a path, a minode is never put more often than it was   *)
(* got by those who keep a pointer to it: root, proc[0].cwd, proc[1].cwd.  *)
THEOREM ReferencesCounted ==
  ASSUME RmdirPaths = {}, NoPath \notin CdPaths
  PROVE  Spec => []RefCountsUsers
<1>1. Calm
  BY DEF Calm
<1>2. Serves => RefCountsUsers
  <2> SUFFICES ASSUME Serves, status = "ok", NEW s \in Slots
               PROVE  tab[s].ref >= (IF s = RootSlot THEN 2 ELSE 0) + (IF s = cwd THEN 1 ELSE 0)
    BY DEF RefCountsUsers
  <2> DEFINE h == Here
  <2>1. Sound(h, None, disk.imap) /\ h.tab = tab /\ h.cwd = cwd /\ h.status = status
    BY ServesFacts
  <2> HIDE DEF h
  <2>2. Enough(h, None, s) /\ ~Loose(h.tab[RootSlot]) /\ h.tab[s].ref \in Int
    BY <2>1, SoundFacts
  <2>3. CASE Loose(h.tab[s])
    BY <2>1, <2>2, <2>3 DEF Enough
  <2>4. CASE ~Loose(h.tab[s])
    BY <2>1, <2>2, <2>4, NoneFacts DEF Enough, Pins
  <2> QED BY <2>3, <2>4
<1> QED BY <1>1, <1>2, AlwaysServes, PTL

(* MinodesSound: then two slots never hold the same inode, root keeps its  *)
(* slot, and the working directory's minode is never taken for a free one. *)
THEOREM TableSound ==
  ASSUME RmdirPaths = {}, NoPath \notin CdPaths
  PROVE  Spec => []MinodesSound
<1>1. Calm
  BY DEF Calm
<1>2. Serves => MinodesSound
  <2> SUFFICES ASSUME Serves PROVE MinodesSound
    OBVIOUS
  <2> DEFINE h == Here
  <2>1. Sound(h, None, disk.imap) /\ h.tab = tab /\ h.cwd = cwd
    BY ServesFacts
  <2> HIDE DEF h
  <2>2. /\ \A s, r \in Slots :
             InUse(h.tab[s]) /\ InUse(h.tab[r]) /\ h.tab[s].ino = h.tab[r].ino => s = r
        /\ InUse(h.tab[RootSlot]) /\ h.tab[RootSlot].ino = Root
    BY <2>1, SoundFacts DEF Sound
  <2>3. h.tab[h.cwd].data.mode = "dir" => InUse(h.tab[h.cwd])
    <3>1. h.cwd \in Slots /\ Enough(h, None, h.cwd) /\ h.tab[h.cwd].ref \in Int
      BY <2>1, SoundFacts
    <3> QED BY <3>1, NoneFacts DEF Enough, Pins, Loose, InUse
  <2> QED BY <2>1, <2>2, <2>3 DEF MinodesSound
<1> QED BY <1>1, <1>2, AlwaysServes, PTL

(* NewInodeWritten: when a mkdir or creat returns, the inode that it       *)
(* allocated is on the disk and no older copy of it is in memory, whatever *)
(* blocks and slots were free, and whatever the commands before it left.   *)
THEOREM MadeOnDisk ==
  ASSUME RmdirPaths = {}, NoPath \notin CdPaths
  PROVE  Spec => NewInodeWritten
<1>1. Calm
  BY DEF Calm
<1>2. ASSUME Serves, Serves', Next, CommandEnds, status' = "ok",
             NEW b \in disk'.imap \ disk.imap
      PROVE  /\ disk'.itab[b + 1].mode \in {"dir", "file"}
             /\ disk'.itab[b + 1] = Seen(b + 1)'
  <2>1. Wrote(Here, b + 1)'
    BY <1>1, <1>2, NextSteps DEF Steps
  <2>2. disk'.itab[b + 1].mode \in {"dir", "file"}
        /\ \A q \in Slots : InUse(tab'[q]) => tab'[q].ino # b + 1
    BY <2>1 DEF Wrote, Here
  <2>3. tab' \in [Slots -> Minodes]
    BY <1>2 DEF Serves, Inv, Good, Here, States
  <2>4. Cached(tab, b + 1)' = {}
    BY <2>2, <2>3 DEF Cached
  <2> QED BY <2>2, <2>4 DEF Seen
<1>3. Serves /\ Serves' /\ [Next]_vars =>
        [CommandEnds /\ status' = "ok" =>
           \A b \in disk'.imap \ disk.imap :
             /\ disk'.itab[b + 1].mode \in {"dir", "file"}
             /\ disk'.itab[b + 1] = Seen(b + 1)']_vars
  BY <1>2
<1> QED BY <1>1, <1>3, AlwaysServes, PTL DEF Spec, NewInodeWritten

(* BlocksOwnedOnce: as long as nothing is removed, no data block belongs   *)
(* to two inodes, and each block of an inode is marked in the bitmap, in   *)
(* memory and on the disk, killed or not: balloc puts the bitmap before an *)
(* inode or a directory gets the block.                                    *)
THEOREM BlocksOwned ==
  ASSUME RmdirPaths = {}, UnlinkPaths = {}, NoPath \notin CdPaths
  PROVE  Spec => []BlocksOwnedOnce
<1>1. Calm /\ Tidy
  BY DEF Calm, Tidy
<1>2. Serves => BlocksOwnedOnce
  <2> SUFFICES ASSUME Serves, NEW i \in Inos, NEW b \in BlocksOf(Seen(i)) \cup BlocksOf(disk.itab[i])
               PROVE  /\ b - 1 \in disk.bmap
                      /\ \A j \in Inos \ {i} : b \notin BlocksOf(Seen(j)) \cup BlocksOf(disk.itab[j])
    BY DEF BlocksOwnedOnce
  <2> DEFINE h == Here
  <2>1. Sound(h, None, disk.imap) /\ h.tab = tab /\ h.disk = disk /\ h \in States
    BY ServesFacts, SoundFacts
  <2> HIDE DEF h
  <2>2. ASSUME NEW j \in Inos, NEW c \in BlocksOf(Seen(j)) \cup BlocksOf(disk.itab[j])
        PROVE  c \in Blocks \ {0} /\ Claimed(h, j, c)
    <3>1. \A inode \in InodeRecs : \A x \in BlocksOf(inode) : x \in Blocks \ {0} /\ HasBlock(inode, x)
      <4> SUFFICES ASSUME NEW inode \in InodeRecs, NEW x \in BlocksOf(inode)
                   PROVE  x \in Blocks \ {0} /\ HasBlock(inode, x)
        OBVIOUS
      <4>1. PICK k \in 1..NDirect : x = inode.block[k] /\ \A l \in 1..k : inode.block[l] # 0
        BY DEF BlocksOf
      <4>2. k \in 1..k /\ k \in 1..NDirect+1
        BY <4>1, SizesFacts
      <4> QED BY <4>1, <4>2 DEF InodeRecs, HasBlock
    <3>2. disk.itab[j] \in InodeRecs
      <4>1. disk \in Disks
        BY <2>1 DEF States
      <4> QED BY <4>1 DEF Disks
    <3>3. CASE c \in BlocksOf(disk.itab[j])
      BY <2>1, <3>1, <3>2, <3>3 DEF Claimed
    <3>4. CASE c \in BlocksOf(Seen(j)) /\ Cached(tab, j) = {}
      BY <2>1, <3>1, <3>2, <3>4 DEF Claimed, Seen
    <3>5. CASE c \in BlocksOf(Seen(j)) /\ Cached(tab, j) # {}
      <4> DEFINE hits == Cached(tab, j)
                 q == Lowest(hits)
      <4>1. tab \in [Slots -> Minodes] /\ hits \subseteq Slots
        BY ServesFacts DEF Cached
      <4>2. q \in hits
        <5>1. hits \in SUBSET Nat
          BY <4>1, SizesFacts
        <5> HIDE DEF hits
        <5> QED BY <3>5, <5>1, LowestIn DEF hits
      <4>3. q \in Slots /\ InUse(tab[q]) /\ tab[q].ino = j /\ tab[q].data \in InodeRecs
        BY <4>1, <4>2 DEF Cached, Minodes
      <4>4. Seen(j) = tab[q].data
        BY <3>5 DEF Seen
      <4> HIDE DEF q
      <4> QED BY <2>1, <3>1, <3>5, <4>3, <4>4 DEF Claimed
    <3> QED BY <2>2, <3>3, <3>4, <3>5
  <2>3. Owned(h)
    BY <1>1, <2>1 DEF Sound, Safe
  <2>4. Inos \subseteq 0..NInodes
    BY SizesFacts DEF Inos
  <2> QED BY <2>1, <2>2, <2>3, <2>4 DEF Owned
<1> QED BY <1>1, <1>2, AlwaysServes, PTL

-----------------------------------------------------------------------------
(* The records of a block.                                                 *)

\* What a name in a block's records stands for.
Ents(b) == {<<c.name, c.ino>> : c \in Records(b)}

\* The records at offsets q follow each other and fill the block.
Chain(b, q) ==
  /\ q \in Seq(Words) /\ q # <<>> /\ q[1] = 0
  /\ \A k \in 1..Len(q) : b[q[k]].rec > 0
  /\ \A k \in 1..Len(q) : k < Len(q) => q[k + 1] = q[k] + b[q[k]].rec
  /\ q[Len(q)] + b[q[Len(q)]].rec = BLKWORDS

LEMMA WalkUnfolds ==
  ASSUME NEW b \in Block
  PROVE  \E f : Walk(b) = f[0] /\ \A o \in Nat : f[o] = WalkFrom(b, f, o)
<1> DEFINE from[o \in Nat] ==
      IF o >= BLKWORDS THEN [offs |-> <<>>, end |-> "end"]
      ELSE IF b[o] = Wild THEN [offs |-> <<>>, end |-> "wild"]
      ELSE IF b[o].rec = 0 THEN [offs |-> <<o>>, end |-> "hang"]
      ELSE LET rest == from[o + b[o].rec]
           IN  [offs |-> <<o>> \o rest.offs, end |-> rest.end]
<1>1. Walk(b) = from[0]
  BY DEF Walk
<1>2. from = [o \in Nat |-> WalkFrom(b, from, o)]
  BY WalkDef DEF WalkFrom
<1> HIDE DEF from
<1>3. \A o \in Nat : from[o] = WalkFrom(b, from, o)
  BY <1>2
<1> QED BY <1>1, <1>3

LEMMA ChainFacts ==
  ASSUME NEW b \in Block, NEW q, Chain(b, q)
  PROVE  /\ Len(q) \in Nat /\ Len(q) >= 1
         /\ \A k \in 1..Len(q) : /\ q[k] \in Words /\ q[k] \in Nat /\ q[k] < BLKWORDS
                                 /\ b[q[k]] \in Cells /\ b[q[k]].rec \in Nat
                                 /\ b[q[k]].rec > 0 /\ b[q[k]] # Wild /\ b[q[k]] # Zero
                                 /\ b[q[k]].len \in Nat
<1>1. q \in Seq(Words) /\ q # <<>>
  BY DEF Chain
<1>2. Len(q) \in Nat /\ Len(q) >= 1
  BY <1>1, EmptySeq
<1>3. ASSUME NEW k \in 1..Len(q)
      PROVE  /\ q[k] \in Words /\ b[q[k]] \in Cells /\ b[q[k]].rec > 0
  <2>1. q[k] \in Words
    BY <1>1
  <2>2. b[q[k]] \in Cells
    BY <2>1 DEF Block
  <2> QED BY <2>1, <2>2 DEF Chain
<1>4. \A o \in Words : o \in Nat /\ o < BLKWORDS
  BY BlockAssumption DEF Words
<1>5. \A c \in Cells : c.rec > 0 => c.rec \in Nat /\ c.len \in Nat /\ c # Wild /\ c # Zero
  <2>1. Wild.rec = -1 /\ Zero.rec = 0
    BY DEF Wild, Zero, Cell
  <2> QED BY <2>1 DEF Cells
<1> QED BY <1>2, <1>3, <1>4, <1>5

(* A walk visits the records of a chain, and gets to the end.              *)
LEMMA ChainWalk ==
  ASSUME NEW b \in Block, NEW q, Chain(b, q)
  PROVE  Walk(b) = [offs |-> q, end |-> "end"]
<1>0. q \in Seq(Words) /\ q[1] = 0 /\ BLKWORDS \in Nat
  BY BlockAssumption DEF Chain
<1>1. PICK f : Walk(b) = f[0] /\ \A o \in Nat : f[o] = WalkFrom(b, f, o)
  BY WalkUnfolds
<1> DEFINE n == Len(q)
           Rest(k) == [offs |-> SubSeq(q, k, n), end |-> "end"]
           S == {k \in Nat : k # 0 => f[q[k]] = Rest(k)}
<1>2. /\ n \in Nat /\ n >= 1
      /\ \A k \in 1..n : /\ q[k] \in Words /\ q[k] \in Nat /\ q[k] < BLKWORDS
                         /\ b[q[k]].rec \in Nat /\ b[q[k]].rec > 0 /\ b[q[k]] # Wild
  BY ChainFacts
<1>3. ASSUME NEW k \in 0..n, \A m \in k + 1..n : m \in S PROVE k \in S
  <2> SUFFICES ASSUME k # 0 PROVE f[q[k]] = Rest(k)
    BY <1>2
  <2>1. k \in 1..n /\ q[k] \in Nat /\ q[k] < BLKWORDS /\ b[q[k]].rec \in Nat
        /\ b[q[k]].rec > 0 /\ b[q[k]] # Wild
    BY <1>2
  <2> DEFINE r == q[k] + b[q[k]].rec
  <2>2. f[q[k]] = [offs |-> <<q[k]>> \o f[r].offs, end |-> f[r].end]
    <3>1. ~(q[k] >= BLKWORDS) /\ b[q[k]].rec # 0
      BY <1>0, <2>1
    <3> QED BY <1>1, <2>1, <3>1 DEF WalkFrom
  <2>3. SubSeq(q, k, n) = <<q[k]>> \o SubSeq(q, k + 1, n)
    <3>1. n \in k..Len(q)
      BY <1>2
    <3> QED BY <1>0, <2>1, <3>1, SubSeqRecursiveFirst
  <2>4. f[r] = Rest(k + 1)
    <3>1. CASE k = n
      <4>1. r = BLKWORDS
        BY <3>1 DEF Chain
      <4>2. f[r] = [offs |-> <<>>, end |-> "end"]
        <5>1. BLKWORDS >= BLKWORDS
          BY <1>0
        <5>2. f[BLKWORDS] = WalkFrom(b, f, BLKWORDS)
          BY <1>0, <1>1
        <5>3. f[BLKWORDS] = [offs |-> <<>>, end |-> "end"]
          BY <5>1, <5>2 DEF WalkFrom
        <5> QED BY <4>1, <5>3
      <4>3. SubSeq(q, k + 1, n) = <<>>
        <5>1. k + 1 \in Int /\ n \in Int /\ n < k + 1
          BY <1>2, <3>1
        <5> QED BY <5>1, SubSeqEmpty
      <4> QED BY <4>2, <4>3
    <3>2. CASE k # n
      <4>1. k + 1 \in k + 1..n /\ k + 1 # 0 /\ k < n
        BY <1>2, <3>2
      <4>2. k + 1 \in S
        BY <1>3, <4>1
      <4>3. q[k + 1] = r
        BY <2>1, <4>1 DEF Chain
      <4> QED BY <4>1, <4>2, <4>3
    <3> QED BY <3>1, <3>2
  <2> HIDE DEF r
  <2> QED BY <2>2, <2>3, <2>4
<1>4. 1 \in S
  <2> HIDE DEF S
  <2>1. \A k \in 0..n : k \in S
    BY <1>2, <1>3, DownSet
  <2> QED BY <1>2, <2>1
<1>5. f[0] = Rest(1)
  BY <1>0, <1>4
<1>6. SubSeq(q, 1, n) = q
  BY <1>0, SubSeqFull
<1> QED BY <1>1, <1>5, <1>6

LEMMA ChainRecords ==
  ASSUME NEW b \in Block, NEW q, Chain(b, q)
  PROVE  /\ Walk(b).end = "end" /\ Walk(b).offs = q
         /\ LastOffset(b) = q[Len(q)]
         /\ Visited(b) = {q[k] : k \in 1..Len(q)}
         /\ Ents(b) = {<<b[q[k]].name, b[q[k]].ino>> : k \in 1..Len(q)}
         /\ b # ZeroBlock
<1>1. Walk(b).end = "end" /\ Walk(b).offs = q
  BY ChainWalk
<1>2. LastOffset(b) = q[Len(q)]
  BY <1>1 DEF LastOffset
<1>3. Visited(b) = {q[k] : k \in 1..Len(q)}
  BY <1>1 DEF Visited
<1>4. \A k \in 1..Len(q) : b[q[k]] # Zero
  BY ChainFacts
<1>5. Records(b) = {b[q[k]] : k \in 1..Len(q)}
  BY <1>3, <1>4 DEF Records
<1>6. Ents(b) = {<<b[q[k]].name, b[q[k]].ino>> : k \in 1..Len(q)}
  BY <1>5 DEF Ents
<1>7. b # ZeroBlock
  <2>1. 1 \in 1..Len(q) /\ q[1] \in Words /\ b[q[1]] # Zero
    BY ChainFacts
  <2> QED BY <2>1 DEF ZeroBlock
<1> QED BY <1>1, <1>2, <1>3, <1>6, <1>7

(* A block that nobody wrote: the first loop over it never ends.           *)
LEMMA ZeroWalk ==
  /\ Walk(ZeroBlock) = [offs |-> <<0>>, end |-> "hang"]
  /\ Records(ZeroBlock) = {} /\ Ents(ZeroBlock) = {}
<1>0. ZeroBlock \in Block /\ 0 \in Words /\ ~(0 >= BLKWORDS)
  BY ZeroBlockOK, BlockAssumption DEF Words
<1>1. PICK f : Walk(ZeroBlock) = f[0] /\ \A o \in Nat : f[o] = WalkFrom(ZeroBlock, f, o)
  BY <1>0, WalkUnfolds
<1>2. \A o \in Words : ZeroBlock[o] = Zero
  BY DEF ZeroBlock
<1>3. ZeroBlock[0] = Zero /\ Zero.rec = 0 /\ Zero # Wild
  <2>1. Zero.rec = 0 /\ Wild.rec = -1
    BY DEF Zero, Wild, Cell
  <2> QED BY <1>0, <1>2, <2>1
<1>4. Walk(ZeroBlock) = [offs |-> <<0>>, end |-> "hang"]
  BY <1>0, <1>1, <1>3 DEF WalkFrom
<1>5. Records(ZeroBlock) = {}
  <2>1. \A o \in Visited(ZeroBlock) : o \in Words
    BY <1>0, VisitedInside
  <2> QED BY <1>2, <2>1 DEF Records
<1>6. Ents(ZeroBlock) = {}
  BY <1>5 DEF Ents
<1> QED BY <1>4, <1>5, <1>6

LEMMA InBlock ==
  ASSUME NEW b \in Block
  PROVE  Refer(b, 0..NInodes)
BY DEF Block, Refer, Cells

LEMMA WriteCells ==
  ASSUME NEW b \in Block, NEW o \in Words, NEW c
  PROVE  \A w \in Words :
           WriteRecord(b, o, c)[w] = IF w = o THEN c
                                     ELSE IF w \in o+1..o+IdealLen(c.len)-1 THEN Wild
                                     ELSE b[w]
BY DEF WriteRecord

LEMMA CellParts ==
  ASSUME NEW ino, NEW rec, NEW len, NEW name
  PROVE  /\ Cell(ino, rec, len, name).ino = ino /\ Cell(ino, rec, len, name).rec = rec
         /\ Cell(ino, rec, len, name).len = len /\ Cell(ino, rec, len, name).name = name
BY DEF Cell

(* mymkdir makes a block with two records, whatever the block held.        *)
LEMMA DotBlockEnts ==
  ASSUME NEW b \in Block, NEW ino \in 0..NInodes, NEW pino \in 0..NInodes
  PROVE  /\ \E q : Chain(DotBlock(b, ino, pino), q)
         /\ DotBlock(b, ino, pino) \in Block
         /\ Ents(DotBlock(b, ino, pino)) = {<<".", ino>>, <<"..", pino>>}
<1>0. BLKWORDS \in Nat /\ BLKWORDS >= 6 /\ 0 \in Words /\ 3 \in Words
  BY BlockAssumption DEF Words
<1> DEFINE c == Cell(ino, 3, NameLen, ".")
           e == Cell(pino, BLKWORDS - 3, NameLen, "..")
           a == WriteRecord(b, 0, c)
           d == DotBlock(b, ino, pino)
           q == <<0, 3>>
<1>1. d \in Block
  BY InBlock, DotBlockKeeps, SizesFacts
<1>2. a \in Block
  <2>1. c \in Cells /\ c.ino = ino
    BY CellFields DEF NameLen, EntryNames
  <2> HIDE DEF c
  <2> QED BY <2>1, InBlock, WriteRecordKeeps, SizesFacts
<1>3. a[0] = c
  BY <1>0, WriteCells
<1>4. d[3] = e
  <2> HIDE DEF a
  <2>1. d = WriteRecord(a, 3, e)
    BY DEF DotBlock, a
  <2> QED BY <1>0, <1>2, <2>1, WriteCells
<1>5. d[0] = c
  <2>1. d = WriteRecord(a, 3, e)
    BY DEF DotBlock
  <2>2. 0 # 3 /\ 0 \notin 3+1..3+IdealLen(e.len)-1
    BY DEF IdealLen
  <2> HIDE DEF a, d, e, c
  <2>3. d[0] = a[0]
    BY <1>0, <1>2, <2>1, <2>2, WriteCells
  <2> QED BY <1>3, <2>3
<1>6. /\ c.ino = ino /\ c.rec = 3 /\ c.name = "."
      /\ e.ino = pino /\ e.rec = BLKWORDS - 3 /\ e.name = ".."
  BY CellParts
<1> HIDE DEF c, e, d, a
<1>7. q \in Seq(Words) /\ q # <<>> /\ Len(q) = 2 /\ q[1] = 0 /\ q[2] = 3
  BY <1>0
<1> HIDE DEF q
<1>8. Chain(d, q)
  <2>1. \A k \in 1..Len(q) : k = 1 \/ k = 2
    BY <1>7
  <2>2. \A k \in 1..Len(q) : d[q[k]].rec > 0
    BY <1>0, <1>4, <1>5, <1>6, <1>7, <2>1
  <2>3. \A k \in 1..Len(q) : k < Len(q) => q[k + 1] = q[k] + d[q[k]].rec
    BY <1>5, <1>6, <1>7, <2>1
  <2>4. q[Len(q)] + d[q[Len(q)]].rec = BLKWORDS
    BY <1>0, <1>4, <1>6, <1>7
  <2> QED BY <1>7, <2>2, <2>3, <2>4 DEF Chain
<1>9. Ents(d) = {<<d[q[k]].name, d[q[k]].ino>> : k \in 1..Len(q)}
  BY <1>1, <1>8, ChainRecords
<1>10. Ents(d) = {<<".", ino>>, <<"..", pino>>}
  <2>1. 1..Len(q) = {1, 2}
    BY <1>7
  <2>2. Ents(d) = {<<d[q[k]].name, d[q[k]].ino>> : k \in {1, 2}}
    BY <1>9, <2>1
  <2> QED BY <1>4, <1>5, <1>6, <1>7, <2>2
<1> QED BY <1>1, <1>8, <1>10 DEF d

(* enter_name's overflow leaves one record.                                *)
LEMMA OverflowEnts ==
  ASSUME NEW b \in Block, NEW ino \in 0..NInodes, NEW name \in EntryNames
  PROVE  /\ \E q : Chain(OverflowBlock(b, ino, name), q)
         /\ OverflowBlock(b, ino, name) \in Block
         /\ Ents(OverflowBlock(b, ino, name)) = {<<name, ino>>}
<1>0. BLKWORDS \in Nat /\ BLKWORDS >= 6 /\ 0 \in Words
  BY BlockAssumption DEF Words
<1> DEFINE c == Cell(ino, BLKWORDS, NeedLength, name)
           d == OverflowBlock(b, ino, name)
           q == <<0>>
<1>1. d \in Block
  BY InBlock, OverflowBlockKeeps, SizesFacts
<1>2. d[0] = c
  BY <1>0, WriteCells DEF OverflowBlock
<1>3. c.ino = ino /\ c.rec = BLKWORDS /\ c.name = name
  BY CellParts
<1> HIDE DEF c, d
<1>4. q \in Seq(Words) /\ q # <<>> /\ Len(q) = 1 /\ q[1] = 0
  BY <1>0
<1> HIDE DEF q
<1>5. \A k \in 1..Len(q) : k = 1
  BY <1>4
<1>6. Chain(d, q)
  BY <1>0, <1>2, <1>3, <1>4, <1>5 DEF Chain
<1>7. Ents(d) = {<<d[q[k]].name, d[q[k]].ino>> : k \in 1..Len(q)}
  BY <1>1, <1>6, ChainRecords
<1>8. Ents(d) = {<<name, ino>>}
  <2>1. 1..Len(q) = {1}
    BY <1>4
  <2>2. Ents(d) = {<<d[q[k]].name, d[q[k]].ino>> : k \in {1}}
    BY <1>7, <2>1
  <2> QED BY <1>2, <1>3, <1>4, <2>2
<1> QED BY <1>1, <1>6, <1>8 DEF d

(* A record that goes behind the last one leaves all others in place.      *)
LEMMA AppendEnts ==
  ASSUME NEW b \in Block, NEW q, Chain(b, q), HasRoom(b),
         NEW ino \in 0..NInodes, NEW name \in EntryNames
  PROVE  /\ \E r : Chain(Append1(b, ino, name), r)
         /\ Append1(b, ino, name) \in Block
         /\ Ents(Append1(b, ino, name)) = Ents(b) \cup {<<name, ino>>}
<1>0. BLKWORDS \in Nat
  BY BlockAssumption
<1> DEFINE n == Len(q)
           l == LastOffset(b)
           ideal == IdealLen(b[l].len)
           p == l + ideal
           c == Cell(ino, Remaining(b), NameLen, name)
           a == [b EXCEPT ![l].rec = ideal]
           d == Append1(b, ino, name)
           r == Append(q, p)
<1>1. /\ n \in Nat /\ n >= 1 /\ n \in 1..n
      /\ \A k \in 1..n : /\ q[k] \in Words /\ q[k] \in Nat /\ q[k] < BLKWORDS
                         /\ b[q[k]] \in Cells /\ b[q[k]].rec \in Nat
                         /\ b[q[k]].rec > 0 /\ b[q[k]].len \in Nat
  BY ChainFacts
<1>2. l = q[n] /\ Walk(b).end = "end" /\ Ents(b) = {<<b[q[k]].name, b[q[k]].ino>> : k \in 1..n}
  BY ChainRecords
<1>3. l \in Words /\ l \in Nat /\ b[l] \in Cells /\ b[l].rec \in Nat /\ b[l].len \in Nat
  BY <1>1, <1>2
<1>4. l + b[l].rec = BLKWORDS
  BY <1>2 DEF Chain
<1>5. Remaining(b) = b[l].rec - ideal
  BY DEF Remaining
<1>6. ideal \in Nat /\ ideal >= 2 /\ Remaining(b) > 3
  BY <1>3 DEF HasRoom, NeedLength, IdealLen, NameLen
<1>7. /\ p \in Nat /\ p < BLKWORDS /\ p >= l + 2 /\ p + Remaining(b) = BLKWORDS
      /\ Remaining(b) \in Nat
  BY <1>0, <1>3, <1>4, <1>5, <1>6
<1>8. p \in Words
  BY <1>0, <1>7 DEF Words
<1>9. d \in Block
  BY <1>2, InBlock, Append1Keeps, SizesFacts
<1>10. a \in Block
  BY <1>3, <1>6, InBlock, LengthenKeeps
<1>11. d = WriteRecord(a, p, c)
  BY DEF Append1
<1>12. c.ino = ino /\ c.rec = Remaining(b) /\ c.name = name /\ c.len = 1
  BY CellParts DEF NameLen
<1>13. /\ a[l].rec = ideal /\ a[l].name = b[l].name /\ a[l].ino = b[l].ino
       /\ \A w \in Words : w # l => a[w] = b[w]
  BY <1>3 DEF Block, Cells
<1> HIDE DEF a, c, d, l, ideal, p, n
<1>14. d[p] = c
  BY <1>8, <1>10, <1>11, WriteCells
<1>15. \A w \in Words : w <= l => d[w] = a[w]
  <2> SUFFICES ASSUME NEW w \in Words, w <= l PROVE d[w] = a[w]
    OBVIOUS
  <2>1. w \in Nat
    BY DEF Words
  <2>2. w # p /\ w \notin p+1..p+IdealLen(c.len)-1
    BY <1>3, <1>7, <2>1
  <2> QED BY <1>8, <1>10, <1>11, <2>2, WriteCells
\* The records lie in the order of the walk.
<1>16. \A k \in 1..n : k < n => q[k] < l
  <2> DEFINE S == {k \in Nat : k # 0 /\ k < n => q[k] < l}
  <2>1. ASSUME NEW k \in 0..n, \A m \in k + 1..n : m \in S PROVE k \in S
    <3> SUFFICES ASSUME k # 0, k < n PROVE q[k] < l
      BY <1>1
    <3>1. k \in 1..n /\ k + 1 \in 1..n /\ k + 1 \in k + 1..n
      BY <1>1
    <3>2. q[k + 1] = q[k] + b[q[k]].rec
      BY <3>1 DEF Chain, n
    <3>3. q[k] < q[k + 1] /\ q[k] \in Nat /\ q[k + 1] \in Nat
      BY <1>1, <3>1, <3>2
    <3>4. q[k + 1] <= l
      <4>1. CASE k + 1 = n
        BY <1>2, <1>3, <4>1
      <4>2. CASE k + 1 # n
        <5>1. k + 1 < n /\ k + 1 # 0
          BY <1>1, <4>2
        <5>2. q[k + 1] < l
          BY <2>1, <3>1, <5>1
        <5> QED BY <1>3, <3>3, <5>2
      <4> QED BY <4>1, <4>2
    <3> QED BY <1>3, <3>3, <3>4
  <2>2. \A k \in 0..n : k \in S
    <3> HIDE DEF S
    <3> QED BY <1>1, <2>1, DownSet
  <2> QED BY <1>1, <2>2
<1>17. \A k \in 1..n : k < n => d[q[k]] = b[q[k]]
  <2> SUFFICES ASSUME NEW k \in 1..n, k < n PROVE d[q[k]] = b[q[k]]
    OBVIOUS
  <2>1. q[k] \in Words /\ q[k] \in Nat /\ q[k] < l
    BY <1>1, <1>16
  <2>2. q[k] <= l /\ q[k] # l
    BY <1>3, <2>1
  <2> QED BY <1>13, <1>15, <2>1, <2>2
<1>18. d[l].rec = ideal /\ d[l].name = b[l].name /\ d[l].ino = b[l].ino
  <2>1. l <= l
    BY <1>3
  <2>2. d[l] = a[l]
    BY <1>3, <1>15, <2>1
  <2> QED BY <1>13, <2>2
<1>19. /\ r \in Seq(Words) /\ r # <<>> /\ Len(r) = n + 1 /\ r[n + 1] = p
       /\ \A k \in 1..n : r[k] = q[k]
  BY <1>8 DEF Chain, n
<1> HIDE DEF r
<1>20. \A k \in 1..n + 1 : k = n + 1 \/ k = n \/ (k \in 1..n /\ k < n)
  BY <1>1
<1>21. Chain(d, r)
  <2>1. r[1] = 0
    BY <1>1, <1>19 DEF Chain
  <2>2. \A k \in 1..Len(r) : d[r[k]].rec > 0
    <3> SUFFICES ASSUME NEW k \in 1..n + 1 PROVE d[r[k]].rec > 0
      BY <1>19
    <3>1. CASE k = n + 1
      BY <1>7, <1>6, <1>12, <1>14, <1>19, <3>1
    <3>2. CASE k = n
      BY <1>1, <1>2, <1>6, <1>18, <1>19, <3>2
    <3>3. CASE k \in 1..n /\ k < n
      BY <1>1, <1>17, <1>19, <3>3
    <3> QED BY <1>20, <3>1, <3>2, <3>3
  <2>3. \A k \in 1..Len(r) : k < Len(r) => r[k + 1] = r[k] + d[r[k]].rec
    <3> SUFFICES ASSUME NEW k \in 1..n + 1, k < n + 1 PROVE r[k + 1] = r[k] + d[r[k]].rec
      BY <1>19
    <3>1. CASE k = n
      BY <1>1, <1>2, <1>18, <1>19, <3>1 DEF p
    <3>2. CASE k \in 1..n /\ k < n
      <4>1. k + 1 \in 1..n /\ r[k + 1] = q[k + 1] /\ r[k] = q[k]
        BY <1>1, <1>19, <3>2
      <4>2. q[k + 1] = q[k] + b[q[k]].rec
        BY <3>2 DEF Chain, n
      <4> QED BY <1>17, <3>2, <4>1, <4>2
    <3> QED BY <1>1, <1>20, <3>1, <3>2
  <2>4. r[Len(r)] + d[r[Len(r)]].rec = BLKWORDS
    BY <1>7, <1>12, <1>14, <1>19
  <2> QED BY <1>19, <2>1, <2>2, <2>3, <2>4 DEF Chain
<1>22. Ents(d) = {<<d[r[k]].name, d[r[k]].ino>> : k \in 1..n + 1}
  BY <1>9, <1>19, <1>21, ChainRecords
<1>23. \A k \in 1..n : d[r[k]].name = b[q[k]].name /\ d[r[k]].ino = b[q[k]].ino
  <2> SUFFICES ASSUME NEW k \in 1..n
               PROVE  d[r[k]].name = b[q[k]].name /\ d[r[k]].ino = b[q[k]].ino
    OBVIOUS
  <2>1. CASE k = n
    BY <1>2, <1>18, <1>19, <2>1
  <2>2. CASE k < n
    BY <1>17, <1>19, <2>2
  <2> QED BY <1>1, <2>1, <2>2
<1>24. d[r[n + 1]].name = name /\ d[r[n + 1]].ino = ino
  BY <1>12, <1>14, <1>19
<1>25. Ents(d) = Ents(b) \cup {<<name, ino>>}
  <2>1. \A e \in Ents(d) : e \in Ents(b) \cup {<<name, ino>>}
    <3> SUFFICES ASSUME NEW e \in Ents(d) PROVE e \in Ents(b) \cup {<<name, ino>>}
      OBVIOUS
    <3>1. PICK k \in 1..n + 1 : e = <<d[r[k]].name, d[r[k]].ino>>
      BY <1>22
    <3>2. CASE k = n + 1
      BY <1>24, <3>1, <3>2
    <3>3. CASE k # n + 1
      <4>1. k \in 1..n
        BY <1>1, <3>3
      <4> QED BY <1>2, <1>23, <3>1, <4>1
    <3> QED BY <3>2, <3>3
  <2>2. Ents(b) \subseteq Ents(d)
    <3> SUFFICES ASSUME NEW k \in 1..n PROVE <<b[q[k]].name, b[q[k]].ino>> \in Ents(d)
      BY <1>2
    <3>1. k \in 1..n + 1
      BY <1>1
    <3> QED BY <1>22, <1>23, <3>1
  <2>3. <<name, ino>> \in Ents(d)
    <3>1. n + 1 \in 1..n + 1
      BY <1>1
    <3> QED BY <1>22, <1>24, <3>1
  <2> QED BY <2>1, <2>2, <2>3
<1> QED BY <1>9, <1>21, <1>25 DEF d

-----------------------------------------------------------------------------
(* The order of the directories on a disk.                                 *)

\* What a search of block b of a disk finds: an inode, or 0.
LookIn(d, b, name) ==
  IF b = 0 \/ Match(d.blk[b], name) = NotFound THEN 0
  ELSE d.blk[b][Match(d.blk[b], name)].ino

Used == Blocks \ {0}

\* Nobody has written the block, or its records fill it.
Shaped(b) == b = ZeroBlock \/ \E q : Chain(b, q)

\* A name may go into block b: it is not there, unless a record of inode 0 is.
Absent(b, name) == (\E e \in Ents(b) : e[2] = 0) \/ \A e \in Ents(b) : e[1] # name
Unique(b) == (\E e \in Ents(b) : e[2] = 0) \/ \A e, f \in Ents(b) : e[1] = f[1] => e = f
Selves(b, i) == \A e \in Ents(b) : e[1] = "." => e[2] = i
Parents(b, i) == \A e \in Ents(b) : e[1] = ".." => e[2] = i

First(d, i) == d.itab[i].block[1]
IsDir(d, i) == i \in Inos /\ d.itab[i].mode = "dir"

BlocksShaped(d) ==
  \A b \in Used : Shaped(d.blk[b]) /\ (b - 1 \notin d.bmap => d.blk[b] = ZeroBlock)

\* enter_name's overflow leaves the new block unwritten.
RestZero(d, inode) ==
  \A k \in 2..NDirect+1 : inode.block[k] # 0 => d.blk[inode.block[k]] = ZeroBlock
RestsZero(d) == \A i \in Inos : RestZero(d, d.itab[i])

FirstsUnique(d) ==
  \A i \in Inos : First(d, i) # 0 => Unique(d.blk[First(d, i)]) /\ Selves(d.blk[First(d, i)], i)

OneNameEach(d) ==
  \A b, c \in Used : \A e \in Ents(d.blk[b]), f \in Ents(d.blk[c]) :
    e[1] \notin Dots /\ f[1] \notin Dots /\ e[2] = f[2] /\ IsDir(d, e[2]) => b = c /\ e = f

BackToParent(d) ==
  \A i, k \in Inos : First(d, i) # 0 /\ First(d, k) # 0 /\ IsDir(d, k) =>
    ((\E e \in Ents(d.blk[First(d, i)]) : e[1] \notin Dots /\ e[2] = k)
       => Parents(d.blk[First(d, k)], i))

Orderly(d) ==
  /\ BlocksShaped(d)
  /\ RestsZero(d)
  /\ FirstsUnique(d)
  /\ OneNameEach(d)
  /\ BackToParent(d)

\* No directory has a record of inode i, but for dots.
Unnamed(d, i) == \A b \in Used : \A e \in Ents(d.blk[b]) : e[1] \notin Dots => e[2] # i

\* What a put of a minode or of a bitmap leaves alone.
Steady(d, e) ==
  /\ e.blk = d.blk
  /\ d.imap \subseteq e.imap /\ d.bmap \subseteq e.bmap
  /\ \A i \in Inos : e.itab[i].mode = d.itab[i].mode /\ First(e, i) = First(d, i)

LEMMA SteadyFacts ==
  /\ \A d : Steady(d, d)
  /\ \A d, e, f : Steady(d, e) /\ Steady(e, f) => Steady(d, f)
BY DEF Steady

LEMMA FirstIn ==
  ASSUME NEW d \in Disks, NEW i \in Inos
  PROVE  /\ d.itab[i] \in InodeRecs /\ First(d, i) \in Blocks
         /\ First(d, i) # 0 => First(d, i) \in Used
         /\ \A b \in Blocks : d.blk[b] \in Block
BY SizesFacts DEF Disks, InodeRecs, First, Used

LEMMA UsedIn == \A b \in Used : b \in Blocks /\ b # 0
BY DEF Used

LEMMA OrderlySteady ==
  ASSUME NEW d, Orderly(d), NEW e, Steady(d, e), RestsZero(e)
  PROVE  Orderly(e)
<1>1. \A i : IsDir(e, i) = IsDir(d, i)
  BY DEF Steady, IsDir
<1>2. \A i \in Inos : First(e, i) = First(d, i)
  BY DEF Steady
<1>3. e.blk = d.blk /\ d.bmap \subseteq e.bmap
  BY DEF Steady
<1>4. BlocksShaped(e)
  BY <1>3 DEF Orderly, BlocksShaped
<1>5. FirstsUnique(e)
  BY <1>2, <1>3 DEF Orderly, FirstsUnique
<1>6. OneNameEach(e)
  BY <1>1, <1>3 DEF Orderly, OneNameEach
<1>7. BackToParent(e)
  BY <1>1, <1>2, <1>3 DEF Orderly, BackToParent
<1> QED BY <1>4, <1>5, <1>6, <1>7 DEF Orderly

(* What search takes from a block.                                         *)
LEMMA LookInEnts ==
  ASSUME NEW d, NEW b, d.blk[b] \in Block, Shaped(d.blk[b]), NEW name, b # 0
  PROVE  /\ LookIn(d, b, name) = 0 => Absent(d.blk[b], name)
         /\ LookIn(d, b, name) # 0 => <<name, LookIn(d, b, name)>> \in Ents(d.blk[b])
<1> DEFINE c == d.blk[b]
           w == Walk(c)
           hits == {k \in 1..Len(w.offs) : c[w.offs[k]].name = name}
           k0 == CHOOSE k \in hits : \A l \in hits : k <= l
<1>1. CASE c = ZeroBlock
  <2>1. Ents(c) = {}
    BY <1>1, ZeroWalk
  <2>2. LookIn(d, b, name) = 0
    <3>1. CASE Match(c, name) = NotFound
      BY <3>1 DEF LookIn
    <3>2. CASE Match(c, name) # NotFound
      <4>1. Match(c, name) \in Words
        BY <3>2, MatchInside
      <4>2. c[Match(c, name)] = Zero
        BY <1>1, <4>1 DEF ZeroBlock
      <4>3. Zero.ino = 0
        BY SpecialCells
      <4> QED BY <3>2, <4>2, <4>3 DEF LookIn
    <3> QED BY <3>1, <3>2
  <2> QED BY <2>1, <2>2 DEF Absent
<1>2. ASSUME NEW q, Chain(c, q)
      PROVE  /\ LookIn(d, b, name) = 0 => Absent(c, name)
             /\ LookIn(d, b, name) # 0 => <<name, LookIn(d, b, name)>> \in Ents(c)
  <2>1. w.offs = q /\ Ents(c) = {<<c[q[k]].name, c[q[k]].ino>> : k \in 1..Len(q)}
    BY <1>2, ChainRecords
  <2>2. hits \in SUBSET Nat /\ \A k \in 1..Len(q) : q[k] \in Words /\ q[k] \in Nat
    BY <1>2, <2>1, ChainFacts
  <2>3. CASE hits = {}
    <3>1. Match(c, name) = NotFound
      BY <2>3 DEF Match
    <3>2. LookIn(d, b, name) = 0
      BY <3>1 DEF LookIn
    <3>3. \A e \in Ents(c) : e[1] # name
      BY <2>1, <2>3
    <3> QED BY <3>2, <3>3 DEF Absent
  <2>4. CASE hits # {}
    <3>1. k0 \in hits
      <4> HIDE DEF hits
      <4>1. \E k \in hits : \A l \in hits : k <= l
        BY <2>2, <2>4, SmallestNat
      <4> QED BY <4>1
    <3>2. Match(c, name) = q[k0]
      BY <2>1, <2>4 DEF Match
    <3> HIDE DEF k0
    <3>3. k0 \in 1..Len(q) /\ c[q[k0]].name = name /\ q[k0] # NotFound
      BY <2>1, <2>2, <3>1 DEF NotFound
    <3>4. LookIn(d, b, name) = c[q[k0]].ino
      BY <3>2, <3>3 DEF LookIn
    <3>5. <<name, LookIn(d, b, name)>> \in Ents(c)
      BY <2>1, <3>3, <3>4
    <3>6. LookIn(d, b, name) = 0 => Absent(c, name)
      <4> SUFFICES ASSUME LookIn(d, b, name) = 0 PROVE Absent(c, name)
        OBVIOUS
      <4>1. <<name, 0>> \in Ents(c)
        BY <3>5
      <4>2. <<name, 0>>[2] = 0
        OBVIOUS
      <4> QED BY <4>1, <4>2 DEF Absent
    <3> QED BY <3>5, <3>6
  <2> QED BY <2>3, <2>4
<1> QED BY <1>1, <1>2 DEF Shaped

(* A record names what the cells of its block name.                        *)
LEMMA EntsRefer ==
  ASSUME NEW b \in Block, NEW I, Refer(b, I)
  PROVE  \A e \in Ents(b) : e[2] \in I
<1> SUFFICES ASSUME NEW e \in Ents(b) PROVE e[2] \in I
  OBVIOUS
<1>1. PICK c \in Records(b) : e = <<c.name, c.ino>>
  BY DEF Ents
<1>2. PICK o \in Visited(b) : c = b[o]
  BY DEF Records
<1>3. o \in Words
  BY VisitedInside
<1> QED BY <1>1, <1>2, <1>3 DEF Refer

(* The inode of a bit that is not set is named nowhere.                    *)
LEMMA FreeUnnamed ==
  ASSUME Kept, NEW d, GoodDisk(d), NEW j \in Inos, j - 1 \notin d.imap
  PROVE  Unnamed(d, j)
<1>1. j \notin Nameable(d)
  <2>1. j # 0
    BY SizesFacts DEF Inos
  <2> QED BY <2>1 DEF Nameable, Written
<1>2. \A b \in Used : \A e \in Ents(d.blk[b]) : e[2] \in Nameable(d)
  <2> SUFFICES ASSUME NEW b \in Used PROVE \A e \in Ents(d.blk[b]) : e[2] \in Nameable(d)
    OBVIOUS
  <2>1. b \in Blocks /\ d.blk[b] \in Block /\ Refer(d.blk[b], Nameable(d))
    BY UsedIn, SizesFacts DEF GoodDisk, Disks
  <2> QED BY <2>1, EntsRefer
<1> QED BY <1>1, <1>2 DEF Unnamed

LEMMA InodeParts ==
  ASSUME NEW mode, NEW links, NEW bno
  PROVE  /\ Inode(mode, links, bno).mode = mode
         /\ Inode(mode, links, bno).block[1] = bno
         /\ \A k \in 2..NDirect+1 : Inode(mode, links, bno).block[k] = 0
<1>1. 1 \in 1..NDirect+1 /\ \A k \in 2..NDirect+1 : k \in 1..NDirect+1 /\ k # 1
  BY SizesFacts
<1> QED BY <1>1 DEF Inode, NoBlocks

\* The inode that newInode puts: one that no record names, with a block of its own.
NewIn(d, e, j, inode) ==
  /\ d \in Disks /\ e.blk = d.blk /\ d.bmap \subseteq e.bmap
  /\ j \in Inos /\ Unnamed(d, j)
  /\ \A i \in Inos : e.itab[i] = IF i = j THEN inode ELSE d.itab[i]
  /\ inode \in InodeRecs
  /\ inode.block[1] # 0 => d.blk[inode.block[1]] = ZeroBlock
  /\ \A k \in 2..NDirect+1 : inode.block[k] = 0

LEMMA OrderlyNew ==
  ASSUME NEW d, Orderly(d), NEW e, NEW j, NEW inode, NewIn(d, e, j, inode)
  PROVE  Orderly(e)
<1>0. /\ d \in Disks /\ e.blk = d.blk /\ d.bmap \subseteq e.bmap
      /\ j \in Inos /\ Unnamed(d, j)
      /\ \A i \in Inos : e.itab[i] = IF i = j THEN inode ELSE d.itab[i]
      /\ inode.block[1] # 0 => d.blk[inode.block[1]] = ZeroBlock
      /\ \A k \in 2..NDirect+1 : inode.block[k] = 0
  BY DEF NewIn
<1>1. /\ \A i \in Inos \ {j} : e.itab[i] = d.itab[i] /\ First(e, i) = First(d, i)
      /\ e.itab[j] = inode /\ First(e, j) = inode.block[1]
      /\ \A i : i # j => IsDir(e, i) = IsDir(d, i)
  BY <1>0 DEF First, IsDir
<1>2. First(e, j) # 0 => Ents(e.blk[First(e, j)]) = {}
  BY <1>0, <1>1, ZeroWalk
<1>3. \A i \in Inos : First(d, i) # 0 => First(d, i) \in Used
  BY <1>0, FirstIn
<1>4. \A b \in Used : \A n \in Ents(d.blk[b]) : n[1] \notin Dots => n[2] # j
  BY <1>0 DEF Unnamed
<1>5. BlocksShaped(e)
  BY <1>0 DEF Orderly, BlocksShaped
<1>6. RestsZero(e)
  BY <1>0 DEF Orderly, RestsZero, RestZero
<1>7. FirstsUnique(e)
  <2> SUFFICES ASSUME NEW i \in Inos, First(e, i) # 0
               PROVE  Unique(e.blk[First(e, i)]) /\ Selves(e.blk[First(e, i)], i)
    BY DEF FirstsUnique
  <2>1. CASE i = j
    BY <1>2, <2>1 DEF Unique, Selves
  <2>2. CASE i # j
    BY <1>0, <1>1, <2>2 DEF Orderly, FirstsUnique
  <2> QED BY <2>1, <2>2
<1>8. OneNameEach(e)
  BY <1>0, <1>1, <1>4 DEF Orderly, OneNameEach
<1>9. BackToParent(e)
  <2> SUFFICES ASSUME NEW i \in Inos, NEW k \in Inos, First(e, i) # 0, First(e, k) # 0,
                      IsDir(e, k), NEW n \in Ents(e.blk[First(e, i)]), n[1] \notin Dots, n[2] = k
               PROVE  Parents(e.blk[First(e, k)], i)
    BY DEF BackToParent
  <2>1. i # j /\ First(e, i) = First(d, i) /\ First(e, i) \in Used
    BY <1>1, <1>2, <1>3
  <2>2. k # j
    BY <1>0, <1>4, <2>1
  <2>3. First(e, k) = First(d, k) /\ IsDir(d, k)
    BY <1>1, <2>2
  <2> QED BY <1>0, <2>1, <2>3 DEF Orderly, BackToParent
<1> QED BY <1>5, <1>6, <1>7, <1>8, <1>9 DEF Orderly

\* A block of a disk is written.
PutIn(d, e, b, data) ==
  /\ d \in Disks /\ e.itab = d.itab /\ d.bmap \subseteq e.bmap
  /\ b \in Used /\ b - 1 \in e.bmap
  /\ \A c \in Used : e.blk[c] = IF c = b THEN data ELSE d.blk[c]
  /\ \E q : Chain(data, q)
  /\ \A i \in Inos : \A k \in 2..NDirect+1 : d.itab[i].block[k] # b

LEMMA PutInFacts ==
  ASSUME NEW d, Orderly(d), NEW e, NEW b, NEW data, PutIn(d, e, b, data)
  PROVE  /\ BlocksShaped(e) /\ RestsZero(e)
         /\ \A i \in Inos : /\ First(e, i) = First(d, i)
                            /\ First(e, i) # 0 => First(e, i) \in Used
         /\ \A i : IsDir(e, i) = IsDir(d, i)
<1>0. /\ d \in Disks /\ e.itab = d.itab /\ d.bmap \subseteq e.bmap
      /\ b \in Used /\ b - 1 \in e.bmap
      /\ \A c \in Used : e.blk[c] = IF c = b THEN data ELSE d.blk[c]
      /\ \E q : Chain(data, q)
      /\ \A i \in Inos : \A k \in 2..NDirect+1 : d.itab[i].block[k] # b
  BY DEF PutIn
<1>1. BlocksShaped(e)
  BY <1>0 DEF Orderly, BlocksShaped, Shaped
<1>2. RestsZero(e)
  <2> SUFFICES ASSUME NEW i \in Inos, NEW k \in 2..NDirect+1, e.itab[i].block[k] # 0
               PROVE  e.blk[e.itab[i].block[k]] = ZeroBlock
    BY DEF RestsZero, RestZero
  <2>1. d.itab[i].block[k] \in Used
    <3>1. d.itab[i] \in InodeRecs /\ k \in 1..NDirect+1
      BY <1>0, FirstIn, SizesFacts
    <3> QED BY <1>0, <3>1 DEF InodeRecs, Used
  <2>2. d.blk[d.itab[i].block[k]] = ZeroBlock
    BY <1>0 DEF Orderly, RestsZero, RestZero
  <2> QED BY <1>0, <2>1, <2>2
<1>3. \A i \in Inos : First(e, i) = First(d, i) /\ (First(e, i) # 0 => First(e, i) \in Used)
  BY <1>0, FirstIn DEF First
<1>4. \A i : IsDir(e, i) = IsDir(d, i)
  BY <1>0 DEF IsDir
<1> QED BY <1>1, <1>2, <1>3, <1>4

\* Block b, if an inode has it, is that of inode j, which is named nowhere.
NewBlock(d, b, j) ==
  /\ j \in Inos => Unnamed(d, j)
  /\ \A i \in Inos : First(d, i) = b => i = j

(* mymkdir writes the first records of a new directory.                    *)
LEMMA OrderlyDots ==
  ASSUME NEW d, Orderly(d), NEW e, NEW b, NEW data, PutIn(d, e, b, data),
         NEW j, NEW pino, Ents(data) = {<<".", j>>, <<"..", pino>>},
         NewBlock(d, b, j)
  PROVE  Orderly(e)
<1>0. /\ d \in Disks /\ b \in Used
      /\ \A c \in Used : e.blk[c] = IF c = b THEN data ELSE d.blk[c]
  BY DEF PutIn
<1>1. /\ BlocksShaped(e) /\ RestsZero(e)
      /\ \A i \in Inos : /\ First(e, i) = First(d, i)
                         /\ First(e, i) # 0 => First(e, i) \in Used
      /\ \A i : IsDir(e, i) = IsDir(d, i)
  BY PutInFacts
<1>2. \A n \in Ents(data) : n = <<".", j>> \/ n = <<"..", pino>>
  OBVIOUS
<1>3. \A n \in Ents(data) : n[1] \in Dots /\ (n[1] = "." => n[2] = j)
  BY <1>2 DEF Dots
<1>4. \A n, m \in Ents(data) : n[1] = m[1] => n = m
  BY <1>2
<1>5. FirstsUnique(e)
  <2> SUFFICES ASSUME NEW i \in Inos, First(e, i) # 0
               PROVE  Unique(e.blk[First(e, i)]) /\ Selves(e.blk[First(e, i)], i)
    BY DEF FirstsUnique
  <2>1. CASE First(e, i) = b
    BY <1>0, <1>1, <1>3, <1>4, <2>1 DEF Unique, Selves, NewBlock
  <2>2. CASE First(e, i) # b
    BY <1>0, <1>1, <2>2 DEF Orderly, FirstsUnique
  <2> QED BY <2>1, <2>2
<1>6. \A c \in Used : \A n \in Ents(e.blk[c]) :
        n[1] \notin Dots => c # b /\ n \in Ents(d.blk[c])
  BY <1>0, <1>3
<1>7. OneNameEach(e)
  BY <1>1, <1>6 DEF Orderly, OneNameEach
<1>8. BackToParent(e)
  <2> SUFFICES ASSUME NEW i \in Inos, NEW k \in Inos, First(e, i) # 0, First(e, k) # 0,
                      IsDir(e, k), NEW n \in Ents(e.blk[First(e, i)]), n[1] \notin Dots, n[2] = k
               PROVE  Parents(e.blk[First(e, k)], i)
    BY DEF BackToParent
  <2>1. /\ First(e, i) = First(d, i) /\ First(e, k) = First(d, k) /\ IsDir(d, k)
        /\ First(d, i) \in Used /\ First(d, k) \in Used
    BY <1>1
  <2>2. n \in Ents(d.blk[First(d, i)])
    BY <1>6, <2>1
  <2>3. First(d, k) # b
    BY <2>1, <2>2 DEF NewBlock, Unnamed
  <2>4. e.blk[First(e, k)] = d.blk[First(d, k)]
    BY <1>0, <2>1, <2>3
  <2> QED BY <2>1, <2>2, <2>4 DEF Orderly, BackToParent
<1> QED BY <1>1, <1>5, <1>7, <1>8 DEF Orderly

\* A record of inode ino may go into block b, which directory pino has.
MayName(d, b, name, ino, pino) ==
  /\ name \notin Dots
  /\ \A i \in Inos : First(d, i) = b => i = pino /\ Absent(d.blk[b], name)
  /\ IsDir(d, ino) => /\ Unnamed(d, ino)
                      /\ First(d, ino) # 0 => Parents(d.blk[First(d, ino)], pino)

(* enter_name puts a record.                                               *)
LEMMA OrderlyNamed ==
  ASSUME NEW d, Orderly(d), NEW e, NEW b, NEW data, PutIn(d, e, b, data),
         NEW name, NEW ino, NEW pino, MayName(d, b, name, ino, pino),
         \/ Ents(data) = {<<name, ino>>}
         \/ Ents(data) = Ents(d.blk[b]) \cup {<<name, ino>>}
  PROVE  Orderly(e)
<1>0. /\ d \in Disks /\ b \in Used
      /\ \A c \in Used : e.blk[c] = IF c = b THEN data ELSE d.blk[c]
  BY DEF PutIn
<1>1. /\ BlocksShaped(e) /\ RestsZero(e)
      /\ \A i \in Inos : /\ First(e, i) = First(d, i)
                         /\ First(e, i) # 0 => First(e, i) \in Used
      /\ \A i : IsDir(e, i) = IsDir(d, i)
  BY PutInFacts
<1> DEFINE new == <<name, ino>>
<1>2. new[1] = name /\ new[2] = ino /\ name \notin Dots
  BY DEF MayName
<1> HIDE DEF new
<1>3. Ents(data) \subseteq Ents(d.blk[b]) \cup {new}
  BY DEF new
<1>4. \A c \in Used : \A n \in Ents(e.blk[c]) : n \in Ents(d.blk[c]) \/ (c = b /\ n = new)
  BY <1>0, <1>3
<1>5. FirstsUnique(e)
  <2> SUFFICES ASSUME NEW i \in Inos, First(e, i) # 0
               PROVE  Unique(e.blk[First(e, i)]) /\ Selves(e.blk[First(e, i)], i)
    BY DEF FirstsUnique
  <2>0. Unique(d.blk[First(d, i)]) /\ Selves(d.blk[First(d, i)], i) /\ First(e, i) = First(d, i)
    BY <1>1 DEF Orderly, FirstsUnique
  <2>1. CASE First(e, i) # b
    BY <1>0, <1>1, <2>0, <2>1
  <2>2. CASE First(e, i) = b
    <3>1. Selves(data, i)
      BY <1>2, <1>3, <2>0, <2>2 DEF Selves, Dots
    <3>2. Absent(d.blk[b], name)
      BY <2>0, <2>2 DEF MayName
    <3>3. Unique(data)
      <4>1. CASE Ents(data) = {new}
        BY <4>1 DEF Unique
      <4>2. CASE Ents(data) = Ents(d.blk[b]) \cup {new}
        <5>1. CASE \E n \in Ents(d.blk[b]) : n[2] = 0
          BY <4>2, <5>1 DEF Unique
        <5>2. CASE ~\E n \in Ents(d.blk[b]) : n[2] = 0
          <6>1. \A n \in Ents(d.blk[b]) : n[1] # name
            BY <3>2, <5>2 DEF Absent
          <6>2. \A n, m \in Ents(d.blk[b]) : n[1] = m[1] => n = m
            BY <2>0, <2>2, <5>2 DEF Unique
          <6> QED BY <1>2, <4>2, <6>1, <6>2 DEF Unique
        <5> QED BY <5>1, <5>2
      <4> QED BY <4>1, <4>2 DEF new
    <3> QED BY <1>0, <2>2, <3>1, <3>3
  <2> QED BY <2>1, <2>2
<1>6. OneNameEach(e)
  <2> SUFFICES ASSUME NEW c1 \in Used, NEW c2 \in Used, NEW n \in Ents(e.blk[c1]),
                      NEW m \in Ents(e.blk[c2]), n[1] \notin Dots, m[1] \notin Dots,
                      n[2] = m[2], IsDir(e, n[2])
               PROVE  c1 = c2 /\ n = m
    BY DEF OneNameEach
  <2>1. IsDir(d, n[2]) /\ IsDir(d, m[2])
    BY <1>1
  <2>2. CASE n \in Ents(d.blk[c1]) /\ m \in Ents(d.blk[c2])
    BY <2>1, <2>2 DEF Orderly, OneNameEach
  <2>3. n = new \/ m = new => Unnamed(d, ino)
    BY <1>2, <2>1 DEF MayName
  <2>4. \A c \in Used : \A x \in Ents(d.blk[c]) : Unnamed(d, ino) /\ x[1] \notin Dots => x[2] # ino
    BY DEF Unnamed
  <2> QED BY <1>2, <1>4, <2>2, <2>3, <2>4
<1>7. BackToParent(e)
  <2> SUFFICES ASSUME NEW i \in Inos, NEW k \in Inos, First(e, i) # 0, First(e, k) # 0,
                      IsDir(e, k), NEW n \in Ents(e.blk[First(e, i)]), n[1] \notin Dots, n[2] = k
               PROVE  Parents(e.blk[First(e, k)], i)
    BY DEF BackToParent
  <2>1. /\ First(e, i) = First(d, i) /\ First(e, k) = First(d, k) /\ IsDir(d, k)
        /\ First(d, i) \in Used /\ First(d, k) \in Used /\ First(d, k) # 0 /\ First(d, i) # 0
    BY <1>1
  <2>2. Parents(d.blk[First(d, k)], i)
    <3>1. CASE n \in Ents(d.blk[First(d, i)])
      BY <2>1, <3>1 DEF Orderly, BackToParent
    <3>2. CASE First(d, i) = b /\ n = new
      <4>1. i = pino /\ ino = k
        BY <1>2, <3>2 DEF MayName
      <4> QED BY <2>1, <4>1 DEF MayName
    <3> QED BY <1>4, <2>1, <3>1, <3>2
  <2>3. CASE First(d, k) # b
    BY <1>0, <2>1, <2>2, <2>3
  <2>4. CASE First(d, k) = b
    BY <1>0, <1>2, <1>3, <2>1, <2>2, <2>4 DEF Parents, Dots
  <2> QED BY <2>3, <2>4
<1> QED BY <1>1, <1>5, <1>6, <1>7 DEF Orderly

-----------------------------------------------------------------------------
(* What a command does to the directories.                                 *)

\* What a minode in use says of its inode is what the disk says.
Agrees(d, m) ==
  /\ m.ino # 0 => m.data.mode = d.itab[m.ino].mode /\ m.data.block[1] = First(d, m.ino)
  /\ RestZero(d, m.data)
  /\ m.data.block[1] # 0 => Selves(d.blk[m.data.block[1]], m.ino)

\* Inodes keep their first block.
FirstsStay(d, e) == \A i \in Inos : i - 1 \in d.imap => First(e, i) = First(d, i)

\* Records were added, unless a block was full.
Grows(d, e) ==
  /\ d.imap \subseteq e.imap
  /\ FirstsStay(d, e)
  /\ \A b \in Used : \/ Walk(d.blk[b]).end = "end" /\ ~HasRoom(d.blk[b])
                     \/ Ents(d.blk[b]) \subseteq Ents(e.blk[b])

\* None was added but in a block that nobody had written.
Same(d, e) ==
  /\ d.imap \subseteq e.imap
  /\ FirstsStay(d, e)
  /\ \A b \in Used : e.blk[b] = d.blk[b] \/ d.blk[b] = ZeroBlock

\* A command that found disk d0 is in state s.
Laid(s, d0) ==
  /\ Orderly(s.disk)
  /\ Grows(d0, s.disk)
  /\ \A d \in s.imgs : Orderly(d) /\ Grows(d0, d)
  /\ \A q \in Slots : InUse(s.tab[q]) => Agrees(s.disk, s.tab[q])

LEMMA SteadyGrows ==
  ASSUME NEW d0, NEW d, NEW e, Steady(d, e)
  PROVE  /\ Grows(d0, d) => Grows(d0, e)
         /\ Same(d0, d) => Same(d0, e)
<1>1. /\ e.blk = d.blk /\ d.imap \subseteq e.imap
      /\ \A i \in Inos : First(e, i) = First(d, i)
  BY DEF Steady
<1>2. FirstsStay(d0, d) => FirstsStay(d0, e)
  BY <1>1 DEF FirstsStay
<1>3. Grows(d0, d) => Grows(d0, e)
  BY <1>1, <1>2 DEF Grows
<1>4. Same(d0, d) => Same(d0, e)
  BY <1>1, <1>2 DEF Same
<1> QED BY <1>3, <1>4

LEMMA SameGrows ==
  /\ \A d, e : Same(d, e) => Grows(d, e)
  /\ \A d : Same(d, d)
<1>1. ASSUME NEW d, NEW e, Same(d, e) PROVE Grows(d, e)
  <2>1. \A b \in Used : Ents(d.blk[b]) \subseteq Ents(e.blk[b])
    BY <1>1, ZeroWalk DEF Same
  <2> QED BY <1>1, <2>1 DEF Same, Grows
<1>2. \A d : Same(d, d)
  BY DEF Same, FirstsStay
<1> QED BY <1>1, <1>2

LEMMA AgreesSteady ==
  ASSUME NEW d, NEW e, Steady(d, e), NEW m \in Minodes, Agrees(d, m)
  PROVE  Agrees(e, m)
<1>1. m.ino # 0 => m.ino \in Inos
  BY SizesFacts DEF Minodes, Inos
<1>2. e.blk = d.blk /\ \A i \in Inos : e.itab[i].mode = d.itab[i].mode /\ First(e, i) = First(d, i)
  BY DEF Steady
<1> QED BY <1>1, <1>2 DEF Agrees, RestZero

\* Only the inode number, the mode and the blocks matter.
Alike(m, n) == m.ino = n.ino /\ m.data.mode = n.data.mode /\ m.data.block = n.data.block

LEMMA AgreesAlike ==
  ASSUME NEW d, NEW m, NEW n, Alike(m, n), Agrees(d, m)
  PROVE  Agrees(d, n)
BY DEF Agrees, Alike, RestZero

LEMMA AgreesLoaded ==
  ASSUME NEW d \in Disks, Orderly(d), NEW ino \in 0..NInodes, NEW data,
         IF ino = 0 THEN data = JunkInode ELSE data = d.itab[ino]
  PROVE  Agrees(d, Loaded(ino, data))
<1> DEFINE m == Loaded(ino, data)
<1>1. m.ino = ino /\ m.data = data
  BY DEF Loaded
<1> HIDE DEF m
<1>2. CASE ino = 0
  <2>1. data.block[1] = 0 /\ \A k \in 2..NDirect+1 : data.block[k] = 0
    BY <1>2, InodeParts DEF JunkInode
  <2> QED BY <1>1, <1>2, <2>1 DEF Agrees, RestZero, m
<1>3. CASE ino # 0
  <2>1. ino \in Inos
    BY <1>3, SizesFacts DEF Inos
  <2>2. RestZero(d, data)
    BY <1>3, <2>1 DEF Orderly, RestsZero
  <2>3. data.block[1] = First(d, ino)
    BY <1>3 DEF First
  <2>4. data.block[1] # 0 => Selves(d.blk[data.block[1]], ino)
    BY <2>1, <2>3 DEF Orderly, FirstsUnique
  <2> QED BY <1>1, <1>3, <2>2, <2>3, <2>4 DEF Agrees, m
<1> QED BY <1>2, <1>3

(* A minode or a bitmap is put, or less.                                   *)
LEMMA LaidSteady ==
  ASSUME NEW s, NEW d0, Laid(s, d0), NEW t \in States, Steady(s.disk, t.disk),
         RestsZero(t.disk), t.imgs \subseteq s.imgs \cup {t.disk},
         \A q \in Slots : InUse(t.tab[q]) => Agrees(s.disk, t.tab[q])
  PROVE  Laid(t, d0)
<1>1. Orderly(t.disk)
  BY OrderlySteady DEF Laid
<1>2. Grows(d0, t.disk)
  BY SteadyGrows DEF Laid
<1>3. \A d \in t.imgs : Orderly(d) /\ Grows(d0, d)
  BY <1>1, <1>2 DEF Laid
<1>4. \A q \in Slots : t.tab[q] \in Minodes
  BY DEF States
<1>5. \A q \in Slots : InUse(t.tab[q]) => Agrees(t.disk, t.tab[q])
  BY <1>4, AgreesSteady
<1> QED BY <1>1, <1>2, <1>3, <1>5 DEF Laid

LEMMA LaidTable ==
  ASSUME NEW s, NEW d0, Laid(s, d0), NEW t, t.disk = s.disk, t.imgs = s.imgs,
         \A q \in Slots : InUse(t.tab[q]) => Agrees(s.disk, t.tab[q])
  PROVE  Laid(t, d0)
BY DEF Laid

\* The minodes that the program or the command points to keep what they hold.
Stay(s, t, h) ==
  /\ t.cwd = s.cwd
  /\ \A q \in Slots : h[q] >= 1 \/ Pins(s, q) >= 1 =>
       t.tab[q].ino = s.tab[q].ino /\ t.tab[q].data = s.tab[q].data

\* What a function does that only finds, gets or puts minodes.
Leaves(s, t, h, d0) ==
  /\ Laid(t, d0)
  /\ Steady(s.disk, t.disk)
  /\ Stay(s, t, h)

LEMMA LeavesTrans ==
  ASSUME NEW s, NEW t, NEW u, NEW h, NEW d0, Leaves(s, t, h, d0), Leaves(t, u, h, d0)
  PROVE  Leaves(s, u, h, d0)
<1>1. Steady(s.disk, u.disk)
  BY SteadyFacts DEF Leaves
<1>2. Stay(s, u, h)
  BY DEF Leaves, Stay, Pins
<1> QED BY <1>1, <1>2 DEF Leaves

LEMMA LeavesSame ==
  ASSUME NEW s, NEW d0, Laid(s, d0), NEW t, NEW h,
         t.disk = s.disk, t.imgs = s.imgs, t.tab = s.tab, t.cwd = s.cwd
  PROVE  Leaves(s, t, h, d0)
<1>1. Laid(t, d0)
  BY DEF Laid
<1>2. Steady(s.disk, t.disk)
  BY SteadyFacts
<1> QED BY <1>1, <1>2 DEF Leaves, Stay

LEMMA igetLeaves ==
  ASSUME NEW s, Good(s), NEW h, NEW a, Sound(s, h, a), s.status = "ok",
         NEW d0, Laid(s, d0), NEW ino \in 0..NInodes
  PROVE  Leaves(s, iget(s, ino), h, d0)
<1> DEFINE t == iget(s, ino)
<1>0. /\ s \in States /\ s.disk \in Disks /\ Orderly(s.disk)
      /\ \A q \in Slots : s.tab[q] \in Minodes
      /\ \A q \in Slots : InUse(s.tab[q]) => Agrees(s.disk, s.tab[q])
  BY StateFacts DEF Laid
<1>1. CASE t = Fails(s, "segv")
  <2>1. t.disk = s.disk /\ t.imgs = s.imgs /\ t.tab = s.tab /\ t.cwd = s.cwd
    BY <1>0, <1>1 DEF Fails, States
  <2> HIDE DEF t
  <2> QED BY <2>1, LeavesSame DEF t
<1>2. ASSUME NEW slot \in Slots, NEW m \in Minodes, Agrees(s.disk, m),
             t = Returns([s EXCEPT !.tab[slot] = m], slot),
             InUse(s.tab[slot]) => m.ino = s.tab[slot].ino /\ m.data = s.tab[slot].data
      PROVE  Leaves(s, t, h, d0)
  <2>1. /\ t.disk = s.disk /\ t.imgs = s.imgs /\ t.cwd = s.cwd
        /\ \A q \in Slots : t.tab[q] = IF q = slot THEN m ELSE s.tab[q]
    BY <1>0, <1>2, SlotEffect
  <2> HIDE DEF t
  <2>2. \A q \in Slots : InUse(t.tab[q]) => Agrees(s.disk, t.tab[q])
    BY <1>0, <1>2, <2>1
  <2>3. Laid(t, d0)
    BY <2>1, <2>2, LaidTable
  <2>4. \A q \in Slots : h[q] >= 1 \/ Pins(s, q) >= 1 => InUse(s.tab[q])
    BY SoundFacts
  <2>5. Stay(s, t, h)
    BY <1>2, <2>1, <2>4 DEF Stay
  <2>6. Steady(s.disk, t.disk)
    BY <2>1, SteadyFacts
  <2> QED BY <2>3, <2>5, <2>6 DEF Leaves
<1>3. ASSUME NEW slot \in Slots, slot \in Cached(s.tab, ino),
             t = Returns([s EXCEPT !.tab[slot] = Shared(s.tab[slot])], slot)
      PROVE  Leaves(s, t, h, d0)
  <2> DEFINE m == Shared(s.tab[slot])
  <2>1. s.tab[slot] \in Minodes /\ Agrees(s.disk, s.tab[slot])
    BY <1>0, <1>3 DEF Cached
  <2>2. m \in Minodes /\ m.ino = s.tab[slot].ino /\ m.data = s.tab[slot].data
    BY <2>1 DEF Shared, Minodes
  <2>3. t = Returns([s EXCEPT !.tab[slot] = m], slot)
    BY <1>3
  <2> HIDE DEF m, t
  <2>4. Agrees(s.disk, m)
    BY <2>1, <2>2, AgreesAlike DEF Alike
  <2> QED BY <1>2, <2>2, <2>3, <2>4 DEF t
<1>4. ASSUME NEW slot \in Slots, NEW data \in InodeRecs, ~InUse(s.tab[slot]),
             IF ino = 0 THEN data = JunkInode ELSE data = s.disk.itab[ino],
             t = Returns([s EXCEPT !.tab[slot] = Loaded(ino, data)], slot)
      PROVE  Leaves(s, t, h, d0)
  <2>1. Loaded(ino, data) \in Minodes
    BY DEF Loaded, Minodes
  <2>2. Agrees(s.disk, Loaded(ino, data))
    BY <1>0, <1>4, AgreesLoaded
  <2> QED BY <1>2, <1>4, <2>1, <2>2
<1>5. Fetches(s, ino, t)
  BY igetCases
<1> HIDE DEF t
<1> QED BY <1>1, <1>3, <1>4, <1>5 DEF Fetches, t

LEMMA iputLeaves ==
  ASSUME NEW s \in States, NEW slot \in Slots, InUse(s.tab[slot]), NEW d0, Laid(s, d0), NEW h
  PROVE  Leaves(s, iput(s, slot), h, d0)
<1> DEFINE t == iput(s, slot)
           m == s.tab[slot]
<1>0. /\ m \in Minodes /\ s.disk \in Disks /\ Orderly(s.disk) /\ Agrees(s.disk, m)
      /\ \A q \in Slots : s.tab[q] \in Minodes
      /\ \A q \in Slots : InUse(s.tab[q]) => Agrees(s.disk, s.tab[q])
  BY DEF Laid, States
<1>1. /\ t \in States
      /\ \A q \in Slots : t.tab[q] = IF q = slot THEN Released(m) ELSE s.tab[q]
      /\ t.cwd = s.cwd
      /\ t.disk.imap = s.disk.imap /\ t.disk.bmap = s.disk.bmap
      /\ IF WritesBack(m) /\ m.ino # 0
         THEN /\ t.disk.itab = [s.disk.itab EXCEPT ![m.ino] = m.data]
              /\ t.imgs = s.imgs \cup {t.disk}
         ELSE t.disk = s.disk /\ t.imgs = s.imgs
  BY iputEffect
<1>2. t.disk.blk = s.disk.blk
  <2> DEFINE u == [s EXCEPT !.tab[slot] = Released(m)]
  <2>1. u.disk = s.disk
    BY DEF States
  <2>2. CASE WritesBack(m) /\ m.ino # 0
    <3>1. t = PutBlock(u, [u.disk EXCEPT !.itab[m.ino] = m.data])
      BY <2>2 DEF iput
    <3>2. [u.disk EXCEPT !.itab[m.ino] = m.data].blk = s.disk.blk
      BY <1>0, <2>1 DEF Disks
    <3>3. u \in States
      <4>1. Released(m) \in Minodes
        BY <1>0, ReleasedFacts
      <4> QED BY <4>1 DEF States
    <3> HIDE DEF u, t
    <3>4. t.disk = [u.disk EXCEPT !.itab[m.ino] = m.data]
      BY <3>1, <3>3 DEF PutBlock, States
    <3> QED BY <3>2, <3>4
  <2>3. CASE ~(WritesBack(m) /\ m.ino # 0)
    BY <1>1, <2>3
  <2> QED BY <2>2, <2>3
<1> HIDE DEF t
<1>3. ASSUME WritesBack(m) /\ m.ino # 0
      PROVE  Steady(s.disk, t.disk) /\ RestsZero(t.disk)
  <2>1. m.ino \in Inos
    BY <1>0, <1>3, SizesFacts DEF Minodes, Inos
  <2>2. \A i \in Inos : t.disk.itab[i] = IF i = m.ino THEN m.data ELSE s.disk.itab[i]
    BY <1>0, <1>1, <1>3, <2>1 DEF Disks
  <2>3. m.data.mode = s.disk.itab[m.ino].mode /\ m.data.block[1] = First(s.disk, m.ino)
    BY <1>0, <1>3 DEF Agrees
  <2>4. \A i \in Inos : t.disk.itab[i].mode = s.disk.itab[i].mode /\ First(t.disk, i) = First(s.disk, i)
    BY <2>2, <2>3 DEF First
  <2>5. Steady(s.disk, t.disk)
    BY <1>1, <1>2, <2>4 DEF Steady
  <2>6. RestZero(s.disk, m.data) /\ \A i \in Inos : RestZero(s.disk, s.disk.itab[i])
    BY <1>0 DEF Agrees, Orderly, RestsZero
  <2>7. RestsZero(t.disk)
    BY <1>2, <2>2, <2>6 DEF RestsZero, RestZero
  <2> QED BY <2>5, <2>7
<1>4. Steady(s.disk, t.disk) /\ RestsZero(t.disk)
  <2>1. CASE ~(WritesBack(m) /\ m.ino # 0)
    BY <1>0, <1>1, <2>1, SteadyFacts DEF Orderly
  <2> QED BY <1>3, <2>1
<1>5. /\ Released(m).ino = m.ino /\ Released(m).data = m.data
  BY <1>0, ReleasedFacts
<1>6. Agrees(s.disk, Released(m))
  BY <1>0, <1>5, AgreesAlike DEF Alike
<1>7. \A q \in Slots : InUse(t.tab[q]) => Agrees(s.disk, t.tab[q])
  BY <1>0, <1>1, <1>6
<1>8. t.imgs \subseteq s.imgs \cup {t.disk}
  BY <1>1
<1>9. Laid(t, d0)
  BY <1>1, <1>4, <1>7, <1>8, LaidSteady
<1>10. Stay(s, t, h)
  BY <1>1, <1>5 DEF Stay
<1> QED BY <1>4, <1>9, <1>10 DEF Leaves, t

-----------------------------------------------------------------------------
(* Paths, and where they lead.                                             *)

(* A search looks at the first block only: the blocks behind it are        *)
(* missing, or the walk over them does not end.                            *)
LEMMA searchLooks ==
  ASSUME NEW s, Good(s), s.status = "ok", NEW slot \in Slots, NEW name,
         RestZero(s.disk, INode(s, slot)), search(s, slot, name).status = "ok"
  PROVE  search(s, slot, name).ret = LookIn(s.disk, INode(s, slot).block[1], name)
<1> DEFINE inode == INode(s, slot)
           bs(i) == DataBlock(s, inode, i)
           hits == {i \in 1..NDirect : Match(bs(i), name) # NotFound}
           ends == hits \cup Stops(s, inode)
           i0 == Lowest(ends)
           b0 == bs(i0)
           t == search(s, slot, name)
<1>1. t = IF ends = {} \/ inode.block[i0] = 0 THEN Returns(s, 0)
          ELSE IF i0 \in hits THEN Returns(s, b0[Match(b0, name)].ino)
          ELSE Fails(s, Walk(b0).end)
  BY DEF search
<1>2. /\ s \in States /\ inode \in InodeRecs /\ 1 \in 1..NDirect
      /\ 1..NDirect \subseteq Nat /\ 1..NDirect \subseteq 1..NDirect+1
      /\ \A i \in 1..NDirect : inode.block[i] \in Blocks /\ bs(i) \in Block
  BY StateFacts, SizesFacts DEF DataBlock
<1>3. \A r : Returns(s, r).ret = r
  BY <1>2 DEF Returns, States
<1>4. \A i \in Stops(s, inode) : i \in 1..NDirect /\ (inode.block[i] = 0 \/ Walk(bs(i)).end # "end")
  BY DEF Stops
<1>5. \A i \in 1..NDirect : i \in Stops(s, inode) <=> inode.block[i] = 0 \/ Walk(bs(i)).end # "end"
  BY DEF Stops
<1>6. ends \in SUBSET Nat
  BY <1>2, <1>4
<1>7. ends # {} => i0 \in ends /\ \A i \in ends : i0 <= i
  <2> SUFFICES ASSUME ends # {} PROVE i0 \in ends /\ \A i \in ends : i0 <= i
    OBVIOUS
  <2> HIDE DEF ends
  <2>1. \E b \in ends : \A c \in ends : b <= c
    BY <1>6, SmallestNat
  <2> QED BY <2>1 DEF Lowest
<1>8. ASSUME NEW how, t = Fails(s, Walk(bs(how)).end), how \in Stops(s, inode), inode.block[how] # 0
      PROVE  FALSE
  <2>1. Walk(bs(how)).end # "end" /\ bs(how) \in Block
    BY <1>2, <1>4, <1>8
  <2>2. Walk(bs(how)).end # "ok"
    <3>1. Walk(bs(how)).end \in {"hang", "segv", "wild"}
      BY <2>1, WalkEnd
    <3> QED BY <3>1
  <2>3. t.status = Walk(bs(how)).end
    BY <1>2, <1>8 DEF Fails, States
  <2> QED BY <2>2, <2>3
<1>9. ASSUME NEW i \in 1..NDirect, i # 1, inode.block[i] # 0
      PROVE  bs(i) = ZeroBlock /\ i \in Stops(s, inode)
  <2>1. i \in 2..NDirect+1
    BY <1>9, SizesFacts
  <2>2. bs(i) = ZeroBlock
    BY <1>9, <2>1 DEF RestZero, DataBlock
  <2> QED BY <1>5, <2>2, ZeroWalk
<1> DEFINE r == LookIn(s.disk, inode.block[1], name)
<1>10. LookIn(s.disk, inode.block[1], name) =
         IF inode.block[1] = 0 \/ 1 \notin hits THEN 0 ELSE bs(1)[Match(bs(1), name)].ino
  BY <1>2 DEF LookIn, DataBlock
<1> HIDE DEF t, r
<1>11. CASE inode.block[1] = 0
  <2>1. 1 \in ends
    BY <1>2, <1>5, <1>11
  <2>2. i0 = 1
    <3> HIDE DEF i0
    <3>1. i0 <= 1 /\ i0 \in 1..NDirect
      BY <1>4, <1>7, <2>1
    <3> QED BY <3>1
  <2>3. t = Returns(s, 0)
    BY <1>1, <1>11, <2>2
  <2> QED BY <1>3, <1>10, <1>11, <2>3 DEF t
<1>12. CASE inode.block[1] # 0 /\ 1 \in ends
  <2>1. i0 = 1
    <3> HIDE DEF i0
    <3>1. i0 <= 1 /\ i0 \in 1..NDirect
      BY <1>4, <1>7, <1>12
    <3> QED BY <3>1
  <2>2. CASE 1 \in hits
    <3>1. t = Returns(s, bs(1)[Match(bs(1), name)].ino)
      BY <1>1, <1>12, <2>1, <2>2
    <3> QED BY <1>3, <1>10, <1>12, <2>2, <3>1 DEF t
  <2>3. CASE 1 \notin hits
    <3>1. t = Fails(s, Walk(bs(1)).end) /\ 1 \in Stops(s, inode)
      BY <1>1, <1>12, <2>1, <2>3
    <3> QED BY <1>8, <1>12, <3>1
  <2> QED BY <2>2, <2>3
<1>13. CASE inode.block[1] # 0 /\ 1 \notin ends
  <2>1. LookIn(s.disk, inode.block[1], name) = 0
    BY <1>10, <1>13
  <2>2. CASE ends = {} \/ inode.block[i0] = 0
    BY <1>1, <1>3, <2>1, <2>2 DEF t
  <2>3. CASE ends # {} /\ inode.block[i0] # 0
    <3>1. i0 \in 1..NDirect /\ i0 # 1
      <4> HIDE DEF i0
      <4> QED BY <1>4, <1>7, <1>13, <2>3
    <3>2. bs(i0) = ZeroBlock /\ i0 \in Stops(s, inode)
      BY <1>9, <2>3, <3>1
    <3>3. CASE i0 \in hits
      <4>1. t = Returns(s, b0[Match(b0, name)].ino)
        BY <1>1, <2>3, <3>3
      <4>2. Match(b0, name) \in Words
        BY <1>2, <3>1, <3>3, MatchInside
      <4>3. b0[Match(b0, name)].ino = 0
        BY <3>2, <4>2, SpecialCells DEF ZeroBlock
      <4> QED BY <1>3, <2>1, <4>1, <4>3 DEF t
    <3>4. CASE i0 \notin hits
      <4>1. t = Fails(s, Walk(bs(i0)).end)
        BY <1>1, <2>3, <3>4
      <4> QED BY <1>8, <2>3, <3>2, <4>1
    <3> QED BY <3>3, <3>4
  <2> QED BY <2>2, <2>3
<1> QED BY <1>11, <1>12, <1>13

(* A place on a path: the inode that was found (-1 where the path starts), *)
(* its mode and its first block.                                           *)
Nowhere == [ret |-> 0, mode |-> "free", first |-> 0]
Place(d, i) == [ret |-> i, mode |-> d.itab[i].mode, first |-> First(d, i)]

Onward(d, y, name) ==
  IF y.ret = 0 \/ y.mode # "dir" \/ LookIn(d, y.first, name) = 0 THEN Nowhere
  ELSE Place(d, LookIn(d, y.first, name))

\* getino is at place y.
IsAt(t, y) ==
  t.status = "ok" =>
    /\ t.ret = y.ret
    /\ t.ret # 0 => /\ InUse(t.tab[t.mip])
                    /\ t.tab[t.mip].data.mode = y.mode
                    /\ t.tab[t.mip].data.block[1] = y.first

LEMMA OnwardSteady ==
  ASSUME NEW d, NEW e, Steady(d, e), NEW y, NEW name,
         LookIn(d, y.first, name) # 0 => LookIn(d, y.first, name) \in Inos
  PROVE  Onward(e, y, name) = Onward(d, y, name)
<1>1. LookIn(e, y.first, name) = LookIn(d, y.first, name)
  BY DEF Steady, LookIn
<1>2. \A i \in Inos : Place(e, i) = Place(d, i)
  BY DEF Steady, Place
<1> QED BY <1>1, <1>2 DEF Onward

LEMMA LookInRange ==
  ASSUME NEW s, Good(s), NEW b \in Blocks, NEW name
  PROVE  LookIn(s.disk, b, name) \in 0..NInodes
         /\ (LookIn(s.disk, b, name) # 0 => LookIn(s.disk, b, name) \in Inos)
<1>1. LookIn(s.disk, b, name) \in Nameable(s.disk)
  <2>1. CASE b = 0 \/ Match(s.disk.blk[b], name) = NotFound
    BY <2>1, NameableFacts DEF LookIn
  <2>2. CASE b # 0 /\ Match(s.disk.blk[b], name) # NotFound
    <3>1. s.disk.blk[b] \in Block
      BY StateFacts
    <3>2. Match(s.disk.blk[b], name) \in Words
      BY <2>2, <3>1, MatchInside
    <3>3. s.disk.blk[b][Match(s.disk.blk[b], name)].ino \in Nameable(s.disk)
      BY <3>2, StateFacts
    <3> QED BY <2>2, <3>3 DEF LookIn
  <2> QED BY <2>1, <2>2
<1> QED BY <1>1, NameableFacts, SizesFacts DEF Inos

LEMMA enterLeaves ==
  ASSUME NEW s, Good(s), NEW h, NEW a, Walking(s, h, a), NEW d0, Laid(s, d0),
         NEW d, Steady(d, s.disk), NEW y, IsAt(s, y), NEW name
  PROVE  /\ Leaves(s, enter(s, name), h, d0)
         /\ IsAt(enter(s, name), Onward(d, y, name))
<1> DEFINE t == enter(s, name)
           u == search(s, s.mip, name)
           v == iget(u, u.ret)
<1>1. /\ s.mip \in Slots /\ Sound(s, h, a)
      /\ s \in States /\ INode(s, s.mip) = s.tab[s.mip].data
      /\ Mode(s, s.mip) = s.tab[s.mip].data.mode
      /\ s.tab[s.mip].data.block[1] \in Blocks
  <2>1. Sound(s, h, a)
    BY DEF Walking
  <2>2. s.mip \in Slots /\ s \in States
    BY StateFacts
  <2>3. /\ INode(s, s.mip) = s.tab[s.mip].data /\ INode(s, s.mip) \in InodeRecs
        /\ Mode(s, s.mip) = s.tab[s.mip].data.mode
    BY <2>2, StateFacts
  <2>4. 1 \in 1..NDirect+1
    BY SizesFacts
  <2>5. INode(s, s.mip).block[1] \in Blocks
    BY <2>3, <2>4 DEF InodeRecs
  <2> QED BY <2>1, <2>2, <2>3, <2>5
<1>2. CASE s.status # "ok" \/ s.ret = 0
  <2>1. t = s
    BY <1>2 DEF enter
  <2>2. Leaves(s, t, h, d0)
    BY <2>1, LeavesSame
  <2>3. s.status = "ok" => Onward(d, y, name) = Nowhere /\ Nowhere.ret = 0
    BY <1>2 DEF IsAt, Onward, Nowhere
  <2>4. IsAt(t, Onward(d, y, name))
    BY <1>2, <2>1, <2>3 DEF IsAt
  <2> QED BY <2>2, <2>4
<1>3. CASE s.status = "ok" /\ s.ret # 0 /\ Mode(s, s.mip) # "dir"
  <2> DEFINE w == iput(s, s.mip)
  <2>1. t = Returns(w, 0)
    BY <1>3 DEF enter
  <2>2. InUse(s.tab[s.mip]) /\ y.mode # "dir"
    BY <1>1, <1>3 DEF IsAt
  <2>3. Leaves(s, w, h, d0) /\ w \in States
    BY <1>1, <2>2, iputLeaves, iputEffect
  <2> HIDE DEF w, t
  <2>4. /\ t.disk = w.disk /\ t.imgs = w.imgs /\ t.tab = w.tab /\ t.cwd = w.cwd /\ t.ret = 0
    BY <2>1, <2>3 DEF Returns, States
  <2>5. Laid(w, d0)
    BY <2>3 DEF Leaves
  <2>6. Leaves(w, t, h, d0)
    BY <2>4, <2>5, LeavesSame
  <2>7. Leaves(s, t, h, d0)
    BY <2>3, <2>6, LeavesTrans
  <2>8. IsAt(t, Onward(d, y, name))
    BY <2>2, <2>4 DEF IsAt, Onward, Nowhere
  <2> QED BY <2>7, <2>8 DEF t
<1>4. CASE s.status = "ok" /\ s.ret # 0 /\ Mode(s, s.mip) = "dir"
  <2>0. InUse(s.tab[s.mip]) /\ y.mode = "dir" /\ y.ret # 0 /\ y.first = s.tab[s.mip].data.block[1]
    BY <1>1, <1>4 DEF IsAt
  <2>1. /\ Good(u) /\ (u.status = "ok" => u.ret \in Nameable(u.disk))
        /\ Sound(u, h, a)
    BY <1>1, <1>4, searchGood, searchSound
  <2>2. t = IF u.status # "ok" \/ u.ret = 0 THEN u
            ELSE IF v.status # "ok" THEN v
            ELSE [v EXCEPT !.mip = v.ret, !.ret = u.ret]
    BY <1>4 DEF enter, Then
  <2>3. u.disk = s.disk /\ u.imgs = s.imgs /\ u.tab = s.tab /\ u.cwd = s.cwd
    BY <1>1, searchSame
  <2>4. Leaves(s, u, h, d0) /\ Laid(u, d0)
    BY <2>3, LeavesSame DEF Leaves
  <2>5. RestZero(s.disk, INode(s, s.mip))
    BY <1>1, <2>0 DEF Laid, Agrees
  <2>6. u.status = "ok" => u.ret = LookIn(s.disk, y.first, name)
    BY <1>1, <1>4, <2>0, <2>5, searchLooks
  <2>7. Onward(d, y, name) = Onward(s.disk, y, name)
    <3>1. LookIn(d, y.first, name) = LookIn(s.disk, y.first, name)
      BY DEF Steady, LookIn
    <3>2. LookIn(d, y.first, name) # 0 => LookIn(d, y.first, name) \in Inos
      BY <1>1, <2>0, <3>1, LookInRange
    <3> QED BY <3>2, OnwardSteady
  <2>8. u.status = "ok" => Onward(d, y, name) = IF u.ret = 0 THEN Nowhere ELSE Place(s.disk, u.ret)
    BY <2>0, <2>6, <2>7 DEF Onward
  <2> HIDE DEF u, t
  <2>9. CASE u.status # "ok" \/ u.ret = 0
    <3>1. t = u
      BY <2>2, <2>9
    <3>2. IsAt(t, Onward(d, y, name))
      BY <2>8, <2>9, <3>1 DEF IsAt, Nowhere
    <3> QED BY <2>4, <3>1, <3>2 DEF t
  <2>10. CASE u.status = "ok" /\ u.ret # 0
    <3>1. u.ret \in 0..NInodes
      BY <2>1, <2>10, NameableFacts
    <3>2. Good(v) /\ Gets(u, v, h, a, u.ret) /\ Leaves(u, v, h, d0)
      BY <2>1, <2>4, <2>10, <3>1, igetGood, igetSound, igetLeaves
    <3>3. Leaves(s, v, h, d0) /\ Laid(v, d0)
      BY <2>4, <3>2, LeavesTrans DEF Leaves
    <3> HIDE DEF v
    <3>4. CASE v.status # "ok"
      <4>1. t = v
        BY <2>2, <2>10, <3>4
      <4> QED BY <3>3, <3>4, <4>1 DEF IsAt, t
    <3>5. CASE v.status = "ok"
      <4>1. t = [v EXCEPT !.mip = v.ret, !.ret = u.ret]
        BY <2>2, <2>10, <3>5
      <4>2. v.ret \in Slots /\ v.tab[v.ret].ino = u.ret /\ v.tab[v.ret].ref >= 1
            /\ v.disk = s.disk /\ v \in States /\ v.tab[v.ret] \in Minodes
        BY <2>3, <3>2, <3>5, StateFacts DEF Gets
      <4>3. /\ t.disk = v.disk /\ t.imgs = v.imgs /\ t.tab = v.tab
            /\ t.cwd = v.cwd /\ t.mip = v.ret /\ t.ret = u.ret
        BY <4>1, <4>2 DEF States
      <4>4. Leaves(s, t, h, d0)
        <5>1. Leaves(v, t, h, d0)
          BY <3>3, <4>3, LeavesSame
        <5> QED BY <3>3, <5>1, LeavesTrans
      <4>5. InUse(v.tab[v.ret])
        BY <4>2 DEF InUse, Minodes
      <4>6. Agrees(s.disk, v.tab[v.ret])
        BY <3>3, <4>2, <4>5 DEF Laid
      <4>7. /\ v.tab[v.ret].data.mode = s.disk.itab[u.ret].mode
            /\ v.tab[v.ret].data.block[1] = First(s.disk, u.ret)
        BY <2>10, <4>2, <4>6 DEF Agrees
      <4>8. Onward(d, y, name) = Place(s.disk, u.ret)
        BY <2>8, <2>10
      <4>9. IsAt(t, Onward(d, y, name))
        BY <4>3, <4>5, <4>7, <4>8 DEF IsAt, Place
      <4> QED BY <4>4, <4>9 DEF t
    <3> QED BY <3>4, <3>5
  <2> QED BY <2>9, <2>10
<1> QED BY <1>2, <1>3, <1>4

\* f are the places along path p from y on.
Trail(f, d, p, y) ==
  /\ f[0] = y
  /\ \A i \in 1..Len(p.names) : f[i] = Onward(d, f[i - 1], p.names[i])

TrailPass(x, y, i) == Onward(x.d, y, x.path.names[i])
AnyPlace(x, y, i) == TRUE

TrailLoop == INSTANCE Loops WITH Pass <- TrailPass, Keeps <- AnyPlace

LEMMA TrailExists ==
  ASSUME NEW d, NEW p \in AnyPaths, NEW y
  PROVE  \E f : Trail(f, d, p, y)
<1> DEFINE x == [d |-> d, path |-> p]
           n == Len(p.names)
<1>0. x.d = d /\ x.path = p
  OBVIOUS
<1> HIDE DEF x
<1>1. n \in Nat
  <2>1. p.names \in Seq(EntryNames)
    BY DEF AnyPaths
  <2> QED BY <2>1
<1> HIDE DEF n
<1>2. PICK f : TrailLoop!Runs(f, x, y, n)
  BY <1>1, NatSet, TrailLoop!LoopRuns
<1>3. f = [i \in 0..n |-> IF i = 0 THEN y ELSE TrailPass(x, f[i - 1], i)]
  BY <1>2 DEF TrailLoop!Runs
<1>4. 0 \in 0..n /\ \A i \in 1..n : i \in 0..n /\ i # 0
  BY <1>1
<1>5. \A i \in 0..n : f[i] = IF i = 0 THEN y ELSE TrailPass(x, f[i - 1], i)
  BY <1>3
<1>6. f[0] = y /\ \A i \in 1..n : f[i] = TrailPass(x, f[i - 1], i)
  BY <1>4, <1>5
<1> QED BY <1>0, <1>6 DEF Trail, TrailPass, n

StartSlot(s, p) == IF p.abs THEN RootSlot ELSE s.cwd
Start(s, p) == [ret |-> -1, mode |-> s.tab[StartSlot(s, p)].data.mode,
                first |-> s.tab[StartSlot(s, p)].data.block[1]]

\* getino, called in state x.s.
OnTrail(x, t, i) ==
  EnteringPath(x, t, i) /\ Leaves(x.s, t, x.h, x.d0) /\ IsAt(t, x.f[i])

TrailWalk == INSTANCE Loops WITH Pass <- EnterPath, Keeps <- OnTrail

LEMMA getinoLeaves ==
  ASSUME NEW s, Good(s), NEW h, NEW a, Sound(s, h, a), s.status = "ok",
         NEW d0, Laid(s, d0), NEW p \in AnyPaths, p # Slash,
         NEW d, Steady(d, s.disk), NEW f, Trail(f, d, p, Start(s, p))
  PROVE  /\ Leaves(s, getino(s, p), h, d0)
         /\ IsAt(getino(s, p), f[Len(p.names)])
<1> DEFINE start == [s EXCEPT !.mip = IF p.abs THEN RootSlot ELSE s.cwd, !.ret = -1]
           slot == StartSlot(s, p)
           walk == [s EXCEPT !.mip = slot]
           x == [path |-> p, h |-> h, a |-> a, s |-> s, d0 |-> d0, f |-> f]
<1>0. x.path = p /\ x.h = h /\ x.a = a /\ x.s = s /\ x.d0 = d0 /\ x.f = f
  OBVIOUS
<1> HIDE DEF x
<1>1. getino(s, p) = TrailWalk!After(x, start, Len(p.names))
  BY <1>0 DEF getino, Loop, TrailWalk!After, EnterPath
<1>2. slot \in Slots /\ s \in States /\ -1 \in Int
  BY StateFacts, SizesFacts DEF StartSlot
<1>3. start = [s EXCEPT !.mip = slot, !.ret = -1]
  BY DEF StartSlot
<1>4. Pins(s, slot) >= 1
  <2>1. s.cwd \in Slots /\ RootSlot \in Slots
    BY SoundFacts
  <2>2. CASE slot = RootSlot
    BY <2>2 DEF Pins
  <2>3. CASE slot # RootSlot
    <3>1. slot = s.cwd
      BY <2>3 DEF StartSlot
    <3> QED BY <3>1, <2>3 DEF Pins
  <2> QED BY <2>2, <2>3
<1> DEFINE y == Start(s, p)
<1>5. y.ret = -1 /\ y.mode = s.tab[slot].data.mode /\ y.first = s.tab[slot].data.block[1]
  BY DEF Start
<1> HIDE DEF slot, start, y
<1>6. /\ start \in States /\ start.disk = s.disk /\ start.imgs = s.imgs /\ start.tab = s.tab
      /\ start.cwd = s.cwd /\ start.mip = slot /\ start.ret = -1
  BY <1>2, <1>3 DEF States
<1>7. start = Returns(walk, -1)
  BY <1>2, <1>3 DEF Returns, States
<1>8. Good(walk)
  BY <1>2, WalksGood
<1> HIDE DEF walk
<1>9. Good(start)
  BY <1>2, <1>7, <1>8, ReturnsGood
<1>10. s.tab[slot].data.mode = "dir" \/ Loose(s.tab[slot])
  BY DEF Sound, StartSlot, slot
<1>11. Walking(start, h, a)
  BY <1>6, <1>10, SoundRest DEF Walking, Mode, INode
<1>12. Len(p.names) \in Nat
  <2>1. p.names \in Seq(EntryNames)
    BY DEF AnyPaths
  <2> QED BY <2>1
<1>13. InUse(s.tab[slot])
  BY <1>2, <1>4, SoundFacts
<1>14. IsAt(start, y)
  BY <1>5, <1>6, <1>13 DEF IsAt
<1>15. f[0] = y /\ \A i \in 1..Len(p.names) : f[i] = Onward(d, f[i - 1], p.names[i])
  BY DEF Trail, y
<1>16. Leaves(s, start, h, d0)
  BY <1>6, LeavesSame
<1>17. OnTrail(x, start, 0)
  BY <1>0, <1>9, <1>11, <1>14, <1>15, <1>16 DEF OnTrail, EnteringPath
<1>18. ASSUME NEW i \in 1..Len(p.names), NEW t, OnTrail(x, t, i - 1)
       PROVE  OnTrail(x, EnterPath(x, t, i), i)
  <2> DEFINE u == enter(t, p.names[i])
  <2>1. /\ Good(t) /\ Walking(t, h, a) /\ Leaves(s, t, h, d0) /\ IsAt(t, f[i - 1])
    BY <1>0, <1>18 DEF OnTrail, EnteringPath
  <2>2. Laid(t, d0) /\ Steady(d, t.disk)
    BY <2>1, SteadyFacts DEF Leaves
  <2>3. Good(u) /\ Walking(u, h, a)
    BY <2>1, enterGood, enterSound DEF Found
  <2>4. Leaves(t, u, h, d0) /\ IsAt(u, Onward(d, f[i - 1], p.names[i]))
    BY <2>1, <2>2, enterLeaves
  <2>5. u = EnterPath(x, t, i)
    BY <1>0 DEF EnterPath
  <2> HIDE DEF u
  <2>6. Leaves(s, u, h, d0)
    BY <2>1, <2>4, LeavesTrans
  <2> QED BY <1>0, <1>15, <2>3, <2>4, <2>5, <2>6 DEF OnTrail, EnteringPath
<1>19. OnTrail(x, TrailWalk!After(x, start, Len(p.names)), Len(p.names))
  BY <1>12, <1>17, <1>18, NatSet, TrailWalk!LoopKeeps
<1> QED BY <1>0, <1>1, <1>19 DEF OnTrail

LEMMA getinoLays ==
  ASSUME NEW s, Good(s), NEW h, NEW a, Sound(s, h, a), s.status = "ok",
         NEW d0, Laid(s, d0), NEW p \in AnyPaths
  PROVE  Leaves(s, getino(s, p), h, d0)
<1>1. CASE p = Slash
  <2>1. getino(s, p) = Returns(s, Root) /\ s \in States
    BY <1>1, StateFacts DEF getino
  <2> DEFINE t == Returns(s, Root)
  <2>2. t.disk = s.disk /\ t.imgs = s.imgs /\ t.tab = s.tab /\ t.cwd = s.cwd
    BY <2>1 DEF Returns, States
  <2> HIDE DEF t
  <2>3. Leaves(s, t, h, d0)
    BY <2>2, LeavesSame
  <2> QED BY <2>1, <2>3 DEF t
<1>2. CASE p # Slash
  <2>1. PICK f : Trail(f, s.disk, p, Start(s, p))
    BY TrailExists
  <2>2. Steady(s.disk, s.disk)
    BY SteadyFacts
  <2> QED BY <1>2, <2>1, <2>2, getinoLeaves
<1> QED BY <1>1, <1>2

\* A minode that getMinode returns, and what the command leaves alone.
Fetched(s, t, h, a, d0) ==
  /\ GotMore(t, h, a)
  /\ Leaves(s, t, h, d0)
  /\ t.status = "ok" => InUse(t.tab[t.ret]) /\ Agrees(t.disk, t.tab[t.ret])

LEMMA igetFetches ==
  ASSUME NEW s, Good(s), NEW h, NEW a, Sound(s, h, a), s.status = "ok",
         NEW d0, Laid(s, d0), NEW ino \in Nameable(s.disk)
  PROVE  /\ Fetched(s, iget(s, ino), h, a, d0)
         /\ iget(s, ino).status = "ok" => iget(s, ino).tab[iget(s, ino).ret].ino = ino
<1> DEFINE t == iget(s, ino)
<1>1. ino \in 0..NInodes
  BY NameableFacts
<1>2. Good(t) /\ Gets(s, t, h, a, ino) /\ Leaves(s, t, h, d0)
  BY <1>1, igetGood, igetSound, igetLeaves
<1> HIDE DEF t
<1>3. t.status = "ok" => t.ret \in Slots /\ t.tab[t.ret].ref >= 1 /\ t.tab[t.ret].ino = ino
  BY <1>2 DEF Gets
<1>4. t.status = "ok" => t.tab[t.ret].ref \in Int
  <2>1. t.status = "ok" => t.tab[t.ret] \in Minodes
    BY <1>2, <1>3, StateFacts
  <2> QED BY <2>1 DEF Minodes
<1>5. t.status = "ok" => InUse(t.tab[t.ret])
  BY <1>3, <1>4 DEF InUse
<1>6. t.status = "ok" => Agrees(t.disk, t.tab[t.ret])
  BY <1>2, <1>3, <1>5 DEF Leaves, Laid
<1>7. GotMore(t, h, a)
  BY <1>2 DEF GotMore, Gets
<1> QED BY <1>2, <1>3, <1>5, <1>6, <1>7 DEF Fetched, t

LEMMA getMinodeLeaves ==
  ASSUME NEW s, Good(s), NEW h, NEW a, Sound(s, h, a), s.status = "ok",
         NEW d0, Laid(s, d0), NEW p \in AnyPaths
  PROVE  /\ Fetched(s, getMinode(s, p), h, a, d0)
         /\ getMinode(s, p).status = "ok" =>
              /\ getino(s, p).status = "ok"
              /\ getMinode(s, p).tab[getMinode(s, p).ret].ino = getino(s, p).ret
              /\ Steady(getino(s, p).disk, getMinode(s, p).disk)
<1> DEFINE t == getino(s, p)
           u == iget(t, t.ret)
<1>1. Good(t) /\ Sound(t, h, a) /\ (t.status = "ok" => t.ret \in Nameable(t.disk))
  BY getinoGood, getinoSound DEF Found
<1>2. Leaves(s, t, h, d0)
  BY getinoLays
<1>3. getMinode(s, p) = IF t.status = "ok" THEN u ELSE t
  BY DEF getMinode, Then
<1>4. Laid(t, d0)
  BY <1>2 DEF Leaves
<1> HIDE DEF t
<1>5. CASE t.status # "ok"
  BY <1>1, <1>2, <1>3, <1>5 DEF Fetched, GotMore, t
<1>6. CASE t.status = "ok"
  <2>1. /\ Fetched(t, u, h, a, d0)
        /\ u.status = "ok" => u.tab[u.ret].ino = t.ret
    BY <1>1, <1>4, <1>6, igetFetches
  <2> HIDE DEF u
  <2>2. Leaves(s, u, h, d0) /\ Steady(t.disk, u.disk)
    BY <1>2, <2>1, LeavesTrans DEF Fetched, Leaves
  <2>3. Fetched(s, u, h, a, d0)
    BY <2>1, <2>2 DEF Fetched
  <2> QED BY <1>3, <1>6, <2>1, <2>2, <2>3 DEF t, u
<1> QED BY <1>5, <1>6

-----------------------------------------------------------------------------
(* A new inode.                                                            *)

\* What ialloc and balloc do.
Allots(s, t, h, d0) ==
  /\ Leaves(s, t, h, d0)
  /\ t.tab = s.tab /\ t.cwd = s.cwd /\ t.status = s.status /\ t.mip = s.mip
  /\ t.disk.itab = s.disk.itab /\ t.disk.blk = s.disk.blk
  /\ t.imgs \subseteq s.imgs \cup {t.disk}

\* A bit of a bitmap is set.
Marks(s, t, r) ==
  \E d \in Disks :
    /\ t = Returns(PutBlock(s, d), r)
    /\ d.itab = s.disk.itab /\ d.blk = s.disk.blk
    /\ s.disk.imap \subseteq d.imap /\ s.disk.bmap \subseteq d.bmap

LEMMA MarksAllots ==
  ASSUME NEW s \in States, NEW d0, Laid(s, d0), NEW h, NEW t, NEW r \in Int,
         t = Returns(s, r) \/ Marks(s, t, r)
  PROVE  Allots(s, t, h, d0) /\ t.ret = r
<1>1. CASE t = Returns(s, r)
  <2>1. /\ t.disk = s.disk /\ t.imgs = s.imgs /\ t.tab = s.tab /\ t.cwd = s.cwd
        /\ t.status = s.status /\ t.mip = s.mip /\ t.ret = r
    BY <1>1 DEF Returns, States
  <2>2. Leaves(s, t, h, d0)
    BY <2>1, LeavesSame
  <2> QED BY <2>1, <2>2 DEF Allots
<1>2. CASE Marks(s, t, r)
  <2>1. PICK d \in Disks :
          /\ t = Returns(PutBlock(s, d), r)
          /\ d.itab = s.disk.itab /\ d.blk = s.disk.blk
          /\ s.disk.imap \subseteq d.imap /\ s.disk.bmap \subseteq d.bmap
    BY <1>2 DEF Marks
  <2> DEFINE u == PutBlock(s, d)
  <2>2. /\ u \in States /\ u.disk = d /\ u.imgs = s.imgs \cup {d}
        /\ u.tab = s.tab /\ u.cwd = s.cwd /\ u.status = s.status /\ u.mip = s.mip
    BY PutBlockEffect
  <2>3. t = Returns(u, r)
    BY <2>1
  <2> HIDE DEF u
  <2>4. /\ t \in States /\ t.disk = d /\ t.imgs = s.imgs \cup {d} /\ t.tab = s.tab
        /\ t.cwd = s.cwd /\ t.status = s.status /\ t.mip = s.mip /\ t.ret = r
    BY <2>2, <2>3 DEF Returns, States
  <2>5. Steady(s.disk, t.disk)
    BY <2>1, <2>4 DEF Steady, First
  <2>6. RestsZero(t.disk)
    BY <2>1, <2>4 DEF Laid, Orderly, RestsZero, RestZero
  <2>7. \A q \in Slots : InUse(t.tab[q]) => Agrees(s.disk, t.tab[q])
    BY <2>4 DEF Laid
  <2>8. t.imgs \subseteq s.imgs \cup {t.disk}
    BY <2>4
  <2>9. Laid(t, d0)
    BY <2>4, <2>5, <2>6, <2>7, <2>8, LaidSteady
  <2>10. Stay(s, t, h)
    BY <2>4 DEF Stay
  <2> QED BY <2>1, <2>4, <2>5, <2>8, <2>9, <2>10 DEF Allots, Leaves
<1> QED BY <1>1, <1>2

LEMMA ballocAllots ==
  ASSUME NEW s, Good(s), NEW d0, Laid(s, d0), NEW h
  PROVE  /\ Allots(s, balloc(s), h, d0)
         /\ balloc(s).ret \in Blocks
         /\ balloc(s).ret # 0 => /\ balloc(s).ret - 1 \notin s.disk.bmap
                                 /\ balloc(s).ret - 1 \in balloc(s).disk.bmap
<1> DEFINE free == 0..NBlocks-1 \ s.disk.bmap
           low == Lowest(free)
           d == [s.disk EXCEPT !.bmap = @ \cup {low}]
           t == balloc(s)
<1>1. s \in States /\ s.disk \in Disks
  BY StateFacts
<1>2. CASE free = {}
  <2>1. t = Returns(s, 0) /\ 0 \in Int /\ 0 \in Blocks
    BY <1>2, SizesFacts DEF balloc
  <2> HIDE DEF t
  <2>2. Allots(s, t, h, d0) /\ t.ret = 0
    BY <1>1, <2>1, MarksAllots
  <2> QED BY <2>1, <2>2 DEF t
<1>3. CASE free # {}
  <2>1. free \in SUBSET Nat
    OBVIOUS
  <2>2. low \in free
    <3> HIDE DEF free
    <3> QED BY <1>3, <2>1, LowestIn
  <2>3. /\ low + 1 \in Blocks /\ low \in 0..NBlocks /\ low + 1 \in Int /\ (low + 1) - 1 = low
        /\ low \notin s.disk.bmap
    BY <2>2, SizesFacts DEF Blocks
  <2>4. t = Returns(PutBlock(s, d), low + 1)
    BY <1>3 DEF balloc
  <2> HIDE DEF low, free, t
  <2>5. /\ d \in Disks /\ d.imap = s.disk.imap /\ d.bmap = s.disk.bmap \cup {low}
        /\ d.itab = s.disk.itab /\ d.blk = s.disk.blk
    BY <1>1, <2>3 DEF Disks
  <2> HIDE DEF d
  <2>6. Marks(s, t, low + 1)
    BY <2>4, <2>5 DEF Marks
  <2>7. Allots(s, t, h, d0) /\ t.ret = low + 1
    BY <1>1, <2>3, <2>6, MarksAllots
  <2>8. t.disk = d
    <3>1. PutBlock(s, d).disk = d /\ PutBlock(s, d) \in States
      BY <1>1, <2>5, PutBlockEffect
    <3> QED BY <2>4, <3>1 DEF Returns, States
  <2>9. low \in t.disk.bmap
    BY <2>5, <2>8
  <2> QED BY <2>3, <2>7, <2>9 DEF t
<1> QED BY <1>2, <1>3

LEMMA iallocAllots ==
  ASSUME NEW s, Good(s), NEW d0, Laid(s, d0), NEW h
  PROVE  Allots(s, ialloc(s), h, d0)
<1> DEFINE free == 0..NInodes-1 \ s.disk.imap
           low == Lowest(free)
           d == [s.disk EXCEPT !.imap = @ \cup {low}]
           t == ialloc(s)
<1>1. s \in States /\ s.disk \in Disks
  BY StateFacts
<1>2. CASE free = {}
  <2>1. t = Returns(s, 0) /\ 0 \in Int
    BY <1>2, SizesFacts DEF ialloc
  <2> HIDE DEF t
  <2> QED BY <1>1, <2>1, MarksAllots DEF t
<1>3. CASE free # {}
  <2>1. free \in SUBSET Nat
    OBVIOUS
  <2>2. low \in free
    <3> HIDE DEF free
    <3> QED BY <1>3, <2>1, LowestIn
  <2>3. low \in 0..NInodes /\ low + 1 \in Int
    BY <2>2, SizesFacts
  <2>4. t = Returns(PutBlock(s, d), low + 1)
    BY <1>3 DEF ialloc
  <2> HIDE DEF low, free, t
  <2>5. /\ d \in Disks /\ d.bmap = s.disk.bmap /\ d.imap = s.disk.imap \cup {low}
        /\ d.itab = s.disk.itab /\ d.blk = s.disk.blk
    BY <1>1, <2>3 DEF Disks
  <2> HIDE DEF d
  <2>6. Marks(s, t, low + 1)
    BY <2>4, <2>5 DEF Marks
  <2> QED BY <1>1, <2>3, <2>6, MarksAllots DEF t
<1> QED BY <1>2, <1>3

\* What newInode(s) returns in: the inode of slot t.ret, with an unwritten block.
\* Without a free inode it is the minode of inode 0, which was in use.
MadeInode(s, t, mode, d0) ==
  LET m == t.tab[t.ret]
      bno == m.data.block[1]
  IN  /\ Same(d0, t.disk)
      /\ t.ret \in Slots /\ t.cwd = s.cwd /\ t.disk.blk = s.disk.blk
      /\ \A q \in Slots \ {t.ret} : t.tab[q] = s.tab[q]
      /\ m.data.mode = mode /\ \A k \in 2..NDirect+1 : m.data.block[k] = 0
      /\ bno # 0 => bno - 1 \notin s.disk.bmap /\ bno - 1 \in t.disk.bmap
      /\ IF m.ino = 0 THEN InUse(s.tab[t.ret]) /\ s.tab[t.ret].ino = 0 /\ InUse(m)
         ELSE /\ m.ino \in Inos /\ Unnamed(t.disk, m.ino) /\ t.disk.itab[m.ino] = m.data
              /\ \A q \in Slots : InUse(t.tab[q]) => t.tab[q].ino # m.ino
              /\ ~InUse(s.tab[t.ret])

LEMMA newInodeLaid ==
  ASSUME NEW s, Good(s), NEW h, NEW a, Sound(s, h, a), s.status = "ok", Kept,
         NEW mode \in {"dir", "file"}, NEW links \in 0..LinkModulus-1,
         NEW d0, Laid(s, d0), Same(d0, s.disk)
  PROVE  LET t == newInode(s, mode, links)
         IN  Laid(t, d0) /\ (t.status = "ok" => MadeInode(s, t, mode, d0))
<1> DEFINE i == ialloc(s)
           b == balloc(i)
           ino == i.ret
           bno == b.ret
           inode == Inode(mode, links, bno)
           t == iget(b, ino)
           w == SetINode(t, t.ret, inode)
           r == iput(w, t.ret)
<1>1. newInode(s, mode, links) = IF t.status = "ok" THEN r ELSE t
  BY DEF newInode, Then
<1>2. /\ Good(i) /\ ino \in 0..NInodes /\ i.status = "ok"
      /\ Sound(i, h, i.disk.imap) /\ s.disk.imap = a
      /\ IF ino = 0 THEN i.disk.imap = a ELSE i.disk.imap = a \cup {ino - 1} /\ ino - 1 \notin a
  BY iallocGood, iallocSound, SoundFacts
<1>3. Allots(s, i, h, d0)
  BY iallocAllots
<1>4. Laid(i, d0) /\ i.tab = s.tab /\ i.cwd = s.cwd /\ i.disk.blk = s.disk.blk
      /\ Steady(s.disk, i.disk)
  BY <1>3 DEF Allots, Leaves
<1> HIDE DEF i
<1>5. /\ Good(b) /\ bno \in Blocks /\ b.status = "ok" /\ Sound(b, h, i.disk.imap)
  BY <1>2, ballocGood, ballocSound
<1>6. /\ Allots(i, b, h, d0)
      /\ bno # 0 => bno - 1 \notin i.disk.bmap /\ bno - 1 \in b.disk.bmap
  BY <1>2, <1>4, ballocAllots
<1>7. /\ Laid(b, d0) /\ b.tab = s.tab /\ b.cwd = s.cwd /\ b.disk.blk = s.disk.blk
      /\ Steady(s.disk, b.disk) /\ s.disk.bmap \subseteq i.disk.bmap
  BY <1>4, <1>6, SteadyFacts DEF Allots, Leaves, Steady
<1> HIDE DEF b, ino
<1>8. \A q \in Slots : s.tab[q].ino = 0 \/ s.tab[q].ino - 1 \in a
  BY <1>2, StateFacts DEF Nameable, Written
<1>9. ino # 0 => \A q \in Slots : s.tab[q].ino # ino
  BY <1>2, <1>8
<1>10. Gets(b, t, h, i.disk.imap, ino) /\ Leaves(b, t, h, d0)
  BY <1>2, <1>5, <1>7, igetSound, igetLeaves
<1>11. inode \in InodeRecs /\ inode.mode = mode /\ inode.block[1] = bno
       /\ \A k \in 2..NDirect+1 : inode.block[k] = 0
  <2>1. mode \in ModeSet
    BY DEF ModeSet
  <2> QED BY <1>5, <2>1, InodeFacts, InodeParts
<1>12. Laid(t, d0)
  BY <1>10 DEF Leaves
<1> HIDE DEF inode, t, bno
<1>13. CASE t.status # "ok"
  BY <1>1, <1>12, <1>13
<1>14. CASE t.status = "ok"
  <2> DEFINE slot == t.ret
             old == t.tab[slot]
             n == Changed(old, TRUE, inode)
  <2>1. /\ slot \in Slots /\ t.disk = b.disk /\ t.imgs = b.imgs /\ t.cwd = s.cwd
        /\ \A q \in Slots \ {slot} : t.tab[q] = s.tab[q]
        /\ old.ino = ino /\ old.ref >= 1 /\ Sound(t, More(h, slot), i.disk.imap)
        /\ InUse(s.tab[slot]) => s.tab[slot].ino = ino
        /\ ~InUse(s.tab[slot]) => old.ref = 1
    BY <1>7, <1>10, <1>14 DEF Gets
  <2>2. t \in States /\ old \in Minodes /\ old.ref \in Int /\ InUse(old)
        /\ \A q \in Slots \ {slot} : InUse(t.tab[q]) => t.tab[q].ino # ino
    <3>1. t \in States /\ old \in Minodes /\ old.ref \in Int
      BY <2>1, SoundFacts
    <3>2. InUse(old)
      BY <2>1, <3>1 DEF InUse
    <3> QED BY <2>1, <3>1, <3>2 DEF Sound
  <2>3. /\ n \in Minodes /\ n.ref = old.ref /\ n.ino = ino /\ n.dirty = TRUE /\ n.data = inode
    BY <1>11, <2>1, <2>2, ChangedFacts
  <2>4. Slotted(t, w, slot, n)
    BY <1>11, <2>1, <2>2, SetINodeSlotted
  <2> HIDE DEF n, old, w, slot
  <2>5. /\ w \in States /\ w.disk = b.disk /\ w.imgs = b.imgs /\ w.cwd = s.cwd
        /\ w.status = "ok" /\ w.tab[slot] = n
        /\ \A q \in Slots \ {slot} : w.tab[q] = s.tab[q]
    BY <1>14, <2>1, <2>4 DEF Slotted
  <2>6. /\ r \in States
        /\ r.cwd = w.cwd /\ r.ret = w.ret
        /\ \A q \in Slots : r.tab[q] = IF q = slot THEN Released(n) ELSE w.tab[q]
        /\ r.disk.imap = w.disk.imap /\ r.disk.bmap = w.disk.bmap
        /\ r.status = IF WritesBack(n) /\ ino = 0 THEN "wild" ELSE "ok"
        /\ IF WritesBack(n) /\ ino # 0
           THEN /\ r.disk.itab = [w.disk.itab EXCEPT ![ino] = inode]
                /\ r.imgs = w.imgs \cup {r.disk}
           ELSE r.disk = w.disk /\ r.imgs = w.imgs
    BY <2>1, <2>3, <2>5, iputEffect DEF slot
  <2>7. r.ret = slot
    BY <2>4, <2>6 DEF Slotted, slot
  <2>8. r.disk.blk = w.disk.blk
    <3>1. w.disk \in Disks
      BY <2>5 DEF States
    <3> DEFINE u == [w EXCEPT !.tab[slot] = Released(n)]
    <3>2. u \in States /\ u.disk = w.disk
      <4>1. Released(n) \in Minodes
        BY <2>3, ReleasedFacts
      <4> QED BY <2>5, <4>1 DEF States
    <3>3. CASE WritesBack(n) /\ ino # 0
      <4>1. r = PutBlock(u, [u.disk EXCEPT !.itab[ino] = inode])
        BY <2>3, <2>5, <3>3 DEF iput, slot
      <4>2. [u.disk EXCEPT !.itab[ino] = inode].blk = w.disk.blk
        BY <3>1, <3>2 DEF Disks
      <4> HIDE DEF u, r
      <4>3. r.disk = [u.disk EXCEPT !.itab[ino] = inode]
        BY <3>2, <4>1 DEF PutBlock, States
      <4> QED BY <4>2, <4>3
    <3> QED BY <2>6, <3>3
  <2> HIDE DEF r
  <2>9. /\ Released(n).ino = ino /\ Released(n).data = inode
        /\ Released(n).ref = IF WritesBack(n) THEN 0 ELSE n.ref - 1
    BY <2>3, ReleasedFacts
  <2>10. w.disk.itab \in [Inos -> InodeRecs] /\ w.disk \in Disks
    <3>1. w.disk \in Disks
      BY <2>5 DEF States
    <3> QED BY <3>1 DEF Disks
  <2>11. ino # 0 => /\ ino \in Inos /\ ~InUse(s.tab[slot]) /\ n.ref = 1 /\ WritesBack(n)
                    /\ r.disk.itab = [w.disk.itab EXCEPT ![ino] = inode]
    <3> SUFFICES ASSUME ino # 0
                 PROVE  /\ ino \in Inos /\ ~InUse(s.tab[slot]) /\ n.ref = 1 /\ WritesBack(n)
                        /\ r.disk.itab = [w.disk.itab EXCEPT ![ino] = inode]
      OBVIOUS
    <3>1. ino \in Inos
      BY <1>2, SizesFacts DEF Inos
    <3>2. ~InUse(s.tab[slot]) /\ n.ref = 1
      BY <1>9, <2>1, <2>3
    <3>3. WritesBack(n)
      BY <2>3, <3>2 DEF WritesBack
    <3> QED BY <2>6, <3>1, <3>2, <3>3
  <2>12. ino = 0 => r.disk = w.disk /\ r.imgs = w.imgs
    BY <2>6
  <2>13. \A j \in Inos : r.disk.itab[j] = IF ino # 0 /\ j = ino THEN inode ELSE b.disk.itab[j]
    BY <2>5, <2>10, <2>11, <2>12
  <2>14. bno # 0 => s.disk.blk[bno] = ZeroBlock /\ bno - 1 \notin s.disk.bmap
                    /\ bno - 1 \in r.disk.bmap
    <3>1. bno # 0 => bno \in Used
      BY <1>5 DEF Used
    <3>2. bno # 0 => bno - 1 \notin s.disk.bmap /\ bno - 1 \in r.disk.bmap
      BY <1>6, <1>7, <2>5, <2>6
    <3> QED BY <3>1, <3>2 DEF Laid, Orderly, BlocksShaped
  <2>15. ino # 0 => Unnamed(s.disk, ino)
    <3> SUFFICES ASSUME ino # 0 PROVE Unnamed(s.disk, ino)
      OBVIOUS
    <3>1. ino - 1 \notin s.disk.imap /\ GoodDisk(s.disk)
      BY <1>2, StateFacts
    <3> QED BY <2>11, <3>1, FreeUnnamed
  <2>16. r.disk.blk = s.disk.blk /\ b.disk.blk = s.disk.blk
    BY <1>7, <2>5, <2>8
  <2>17. ino # 0 => Unnamed(r.disk, ino) /\ Unnamed(b.disk, ino)
    BY <2>15, <2>16 DEF Unnamed
  <2>18. Orderly(r.disk)
    <3>1. CASE ino = 0
      BY <1>7, <2>5, <2>12, <3>1 DEF Laid
    <3>2. CASE ino # 0
      <4>1. NewIn(b.disk, r.disk, ino, inode)
        BY <1>11, <2>5, <2>6, <2>10, <2>11, <2>13, <2>14, <2>16, <2>17, <3>2 DEF NewIn
      <4> QED BY <1>7, <4>1, OrderlyNew DEF Laid
    <3> QED BY <3>1, <3>2
  <2>19. Same(d0, r.disk)
    <3>1. Same(d0, b.disk)
      BY <1>7, SteadyGrows
    <3>2. ino # 0 => ino - 1 \notin d0.imap
      BY <1>2 DEF Same
    <3>3. FirstsStay(d0, r.disk)
      BY <2>13, <3>1, <3>2 DEF Same, FirstsStay, First
    <3>4. d0.imap \subseteq r.disk.imap
      BY <2>5, <2>6, <3>1 DEF Same
    <3> QED BY <2>16, <3>1, <3>3, <3>4 DEF Same
  <2>20. r.imgs \subseteq b.imgs \cup {r.disk}
    BY <2>5, <2>6
  <2>21. ASSUME NEW q \in Slots, InUse(r.tab[q]) PROVE Agrees(r.disk, r.tab[q])
    <3>1. CASE q # slot
      <4>1. r.tab[q] = t.tab[q] /\ t.tab[q].ino # ino /\ Agrees(b.disk, t.tab[q])
            /\ t.tab[q] \in Minodes
        BY <1>12, <2>1, <2>2, <2>5, <2>6, <2>21, <3>1, SoundFacts DEF Laid
      <4>2. t.tab[q].ino # 0 => t.tab[q].ino \in Inos
        BY <4>1, SizesFacts DEF Minodes, Inos
      <4> QED BY <2>13, <2>16, <4>1, <4>2 DEF Agrees, RestZero, First
    <3>2. CASE q = slot
      <4>1. r.tab[q] = Released(n) /\ ~WritesBack(n)
        BY <2>6, <2>9, <2>21, <3>2 DEF InUse
      <4>2. ino = 0
        BY <2>11, <4>1
      <4>3. RestZero(r.disk, inode)
        BY <1>11 DEF RestZero
      <4>4. bno # 0 => Selves(r.disk.blk[bno], ino)
        BY <2>14, <2>16, ZeroWalk DEF Selves
      <4> QED BY <1>11, <2>9, <4>1, <4>2, <4>3, <4>4 DEF Agrees
    <3> QED BY <3>1, <3>2
  <2>22. Laid(r, d0)
    <3>1. Grows(d0, r.disk)
      BY <2>19, SameGrows
    <3> QED BY <1>7, <2>18, <2>20, <2>21, <3>1 DEF Laid
  <2>23. ASSUME r.status = "ok" PROVE MadeInode(s, r, mode, d0)
    <3>1. r.tab[r.ret].ino = ino /\ r.tab[r.ret].data = inode /\ r.ret \in Slots /\ r.cwd = s.cwd
      BY <2>1, <2>5, <2>6, <2>7, <2>9
    <3>2. \A q \in Slots \ {r.ret} : r.tab[q] = s.tab[q]
      BY <2>5, <2>6, <2>7
    <3>3. ino = 0 => InUse(s.tab[slot]) /\ s.tab[slot].ino = 0 /\ InUse(r.tab[slot])
      <4> SUFFICES ASSUME ino = 0
                   PROVE  InUse(s.tab[slot]) /\ s.tab[slot].ino = 0 /\ InUse(r.tab[slot])
        OBVIOUS
      <4>1. ~WritesBack(n)
        BY <2>6, <2>23
      <4>2. n.ref # 1 /\ n.ref - 1 # 0 /\ n.ref \in Int
        BY <2>2, <2>3, <4>1 DEF WritesBack
      <4>3. InUse(s.tab[slot]) /\ s.tab[slot].ino = 0
        BY <2>1, <2>3, <4>2
      <4>4. r.tab[slot] = Released(n)
        BY <2>1, <2>6
      <4> QED BY <2>9, <4>1, <4>2, <4>3, <4>4 DEF InUse
    <3>4. ino # 0 => \A q \in Slots : InUse(r.tab[q]) => r.tab[q].ino # ino
      <4>1. ino # 0 => r.tab[slot].ref = 0
        BY <2>1, <2>6, <2>9, <2>11
      <4>2. \A q \in Slots \ {slot} : r.tab[q] = t.tab[q]
        BY <2>1, <2>5, <2>6
      <4> QED BY <2>2, <4>1, <4>2 DEF InUse
    <3>5. ino # 0 => ino \in Inos /\ Unnamed(r.disk, ino) /\ r.disk.itab[ino] = inode
                     /\ ~InUse(s.tab[slot])
      BY <2>11, <2>13, <2>17
    <3> QED BY <1>11, <2>7, <2>14, <2>16, <2>19, <3>1, <3>2, <3>3, <3>4, <3>5 DEF MadeInode
  <2> QED BY <1>1, <1>14, <2>22, <2>23 DEF r, slot
<1> QED BY <1>13, <1>14

-----------------------------------------------------------------------------
(* A name goes into a directory.                                           *)

LEMMA PutDataEffect ==
  ASSUME NEW s \in States, NEW b \in Blocks, NEW data \in Block
  PROVE  LET t == PutData(s, b, data)
         IN  /\ t \in States /\ t.tab = s.tab /\ t.cwd = s.cwd /\ t.status = s.status
             /\ t.ret = s.ret /\ t.mip = s.mip
             /\ t.imgs = s.imgs \cup {t.disk}
             /\ t.disk.imap = s.disk.imap /\ t.disk.bmap = s.disk.bmap
             /\ t.disk.itab = s.disk.itab
             /\ \A c \in Blocks : t.disk.blk[c] = IF c = b THEN data ELSE s.disk.blk[c]
<1> DEFINE d == [s.disk EXCEPT !.blk[b] = data]
           t == PutData(s, b, data)
<1>1. s.disk \in Disks
  BY DEF States
<1>2. d \in Disks /\ d.imap = s.disk.imap /\ d.bmap = s.disk.bmap /\ d.itab = s.disk.itab
  BY <1>1 DEF Disks
<1>3. \A c \in Blocks : d.blk[c] = IF c = b THEN data ELSE s.disk.blk[c]
  BY <1>1 DEF Disks
<1>4. t = PutBlock(s, d)
  BY DEF PutData
<1> HIDE DEF d, t
<1>5. /\ t \in States /\ t.disk = d /\ t.imgs = s.imgs \cup {d}
      /\ t.tab = s.tab /\ t.cwd = s.cwd /\ t.status = s.status
      /\ t.ret = s.ret /\ t.mip = s.mip
  BY <1>2, <1>4, PutBlockEffect
<1> QED BY <1>2, <1>3, <1>5 DEF t

\* A record <<name, ino>> goes into block b, with others or, if the block is full, alone.
NameGoes(d, b, data, name, ino) ==
  /\ b \in Used /\ d.blk[b] # ZeroBlock
  /\ data \in Block /\ \E q : Chain(data, q)
  /\ name \notin Dots
  /\ \/ /\ Ents(data) = {<<name, ino>>}
        /\ Walk(d.blk[b]).end = "end" /\ ~HasRoom(d.blk[b])
     \/ Ents(data) = Ents(d.blk[b]) \cup {<<name, ino>>}

LEMMA putNameLaid ==
  ASSUME NEW s \in States, NEW d0, Laid(s, d0), Same(d0, s.disk),
         NEW b, NEW data, NEW name, NEW ino, NEW pino,
         NameGoes(s.disk, b, data, name, ino), MayName(s.disk, b, name, ino, pino)
  PROVE  Laid(PutData(s, b, data), d0)
<1> DEFINE t == PutData(s, b, data)
           d == s.disk
           e == t.disk
<1>1. b \in Used /\ b \in Blocks /\ data \in Block /\ d.blk[b] # ZeroBlock /\ d \in Disks
  BY UsedIn DEF NameGoes, States
<1>2. /\ t \in States /\ t.tab = s.tab /\ t.imgs = s.imgs \cup {e}
      /\ e.imap = d.imap /\ e.bmap = d.bmap /\ e.itab = d.itab
      /\ \A c \in Blocks : e.blk[c] = IF c = b THEN data ELSE d.blk[c]
  BY <1>1, PutDataEffect
<1>3. Orderly(d) /\ Grows(d0, d)
  BY DEF Laid
<1> HIDE DEF t, e
<1>4. PutIn(d, e, b, data)
  <2>1. b - 1 \in d.bmap
    BY <1>1, <1>3 DEF Orderly, BlocksShaped
  <2>2. \A i \in Inos : \A k \in 2..NDirect+1 : d.itab[i].block[k] # b
    BY <1>1, <1>3, UsedIn DEF Orderly, RestsZero, RestZero
  <2>3. \A c \in Used : e.blk[c] = IF c = b THEN data ELSE d.blk[c]
    BY <1>2, UsedIn
  <2> QED BY <1>1, <1>2, <2>1, <2>2, <2>3 DEF PutIn, NameGoes
<1>5. Orderly(e)
  <2>1. Ents(data) = {<<name, ino>>} \/ Ents(data) = Ents(d.blk[b]) \cup {<<name, ino>>}
    BY DEF NameGoes
  <2> QED BY <1>3, <1>4, <2>1, OrderlyNamed
<1>6. Grows(d0, e)
  <2>1. d0.imap \subseteq e.imap /\ FirstsStay(d0, e)
    BY <1>2 DEF Same, FirstsStay, First
  <2>2. ASSUME NEW c \in Used
        PROVE  \/ Walk(d0.blk[c]).end = "end" /\ ~HasRoom(d0.blk[c])
               \/ Ents(d0.blk[c]) \subseteq Ents(e.blk[c])
    <3>1. CASE d0.blk[c] = ZeroBlock
      BY <3>1, ZeroWalk
    <3>2. CASE d0.blk[c] = d.blk[c]
      <4>1. CASE c # b
        BY <1>2, <3>2, <4>1, UsedIn
      <4>2. CASE c = b
        <5>1. e.blk[c] = data
          BY <1>1, <1>2, <4>2
        <5> QED BY <3>2, <4>2, <5>1 DEF NameGoes
      <4> QED BY <4>1, <4>2
    <3> QED BY <3>1, <3>2 DEF Same
  <2> QED BY <2>1, <2>2 DEF Grows
<1>7. ASSUME NEW q \in Slots, InUse(t.tab[q]) PROVE Agrees(e, t.tab[q])
  <2> DEFINE m == s.tab[q]
             c == m.data.block[1]
  <2>1. Agrees(d, m) /\ t.tab[q] = m /\ m \in Minodes
    BY <1>2, <1>7 DEF Laid, States
  <2>2. \A k \in 1..NDirect+1 : m.data.block[k] \in Blocks
    BY <2>1 DEF Minodes, InodeRecs
  <2>3. 1 \in 1..NDirect+1 /\ 2..NDirect+1 \subseteq 1..NDirect+1
    BY SizesFacts
  <2>4. RestZero(e, m.data)
    BY <1>1, <1>2, <2>1, <2>2, <2>3 DEF Agrees, RestZero
  <2>5. c \in Blocks
    BY <2>2, <2>3
  <2>6. c # 0 => Selves(e.blk[c], m.ino)
    <3>1. CASE c # b
      BY <1>2, <2>1, <2>5, <3>1 DEF Agrees
    <3>2. CASE c = b
      <4>1. e.blk[c] = data
        BY <1>1, <1>2, <3>2
      <4>2. c # 0 => Selves(d.blk[b], m.ino)
        BY <2>1, <3>2 DEF Agrees
      <4> HIDE DEF c, m
      <4>3. \A x \in Ents(data) : x \in Ents(d.blk[b]) \/ x[1] # "."
        BY DEF NameGoes, Dots
      <4> QED BY <4>1, <4>2, <4>3 DEF Selves
    <3> QED BY <3>1, <3>2
  <2>7. m.ino # 0 => m.data.mode = e.itab[m.ino].mode /\ c = First(e, m.ino)
    BY <1>2, <2>1 DEF Agrees, First
  <2> HIDE DEF m
  <2> QED BY <2>1, <2>4, <2>6, <2>7 DEF Agrees
<1>8. \A x \in t.imgs : Orderly(x) /\ Grows(d0, x)
  BY <1>2, <1>5, <1>6 DEF Laid
<1>9. Laid(t, d0)
  BY <1>5, <1>6, <1>7, <1>8 DEF Laid, e
<1> QED BY <1>9 DEF t

\* Directory pip may get a record with this name.
ParentReady(t, pip, name, d0) ==
  LET m == t.tab[pip]
      b == m.data.block[1]
  IN  /\ Laid(t, d0) /\ Same(d0, t.disk) /\ InUse(m)
      /\ name \notin Dots
      /\ m.ino # 0 /\ b # 0 => Absent(t.disk.blk[b], name)

\* Inode ino, if it is a directory, is named nowhere and has pip for its parent.
ChildReady(t, pip, ino) ==
  LET d == t.disk
  IN  IsDir(d, ino) =>
        /\ Unnamed(d, ino)
        /\ First(d, ino) # 0 => Parents(d.blk[First(d, ino)], t.tab[pip].ino)

EnterReady(t, pip, ino, name, d0) == ParentReady(t, pip, name, d0) /\ ChildReady(t, pip, ino)

LEMMA ReadyMayName ==
  ASSUME NEW t, Good(t), NEW h, NEW a, Sound(t, h, a), Tidy, NEW pip \in Slots, NEW ino, NEW name,
         NEW d0, EnterReady(t, pip, ino, name, d0), INode(t, pip).block[1] # 0
  PROVE  MayName(t.disk, INode(t, pip).block[1], name, ino, t.tab[pip].ino)
<1> DEFINE d == t.disk
           m == t.tab[pip]
           b == m.data.block[1]
<1>1. INode(t, pip) = m.data
  BY DEF INode
<1>2. b \in Blocks \ {0} /\ 1 \in 1..NDirect+1 /\ m.ino \in 0..NInodes
  <2>1. 1 \in 1..NDirect+1
    BY SizesFacts
  <2>2. b \in Blocks
    BY <1>1, <2>1, StateFacts
  <2>3. m.ino \in 0..NInodes
    BY SoundFacts
  <2> QED BY <1>1, <2>1, <2>2, <2>3
<1>3. Claimed(t, m.ino, b)
  BY <1>2 DEF Claimed, HasBlock, EnterReady, ParentReady, ChildReady
<1>4. Owned(t)
  BY DEF Sound, Safe
<1>5. ASSUME NEW i \in Inos, First(d, i) = b
      PROVE  i = m.ino /\ Absent(d.blk[b], name)
  <2>1. Claimed(t, i, b)
    BY <1>2, <1>5 DEF Claimed, HasBlock, First
  <2>2. i \in 0..NInodes /\ i # 0
    BY SizesFacts DEF Inos
  <2>3. i = m.ino
    BY <1>2, <1>3, <1>4, <2>1, <2>2 DEF Owned
  <2> QED BY <1>2, <2>2, <2>3 DEF EnterReady, ParentReady, ChildReady
<1> QED BY <1>1, <1>5 DEF EnterReady, ParentReady, ChildReady, MayName

\* What is left of enter_name once a record was put or there is no block for it.
Entered(t, pip, d0) == Laid(t, d0) /\ InUse(t.tab[pip])

LEMMA enterFirst ==
  ASSUME NEW t, Good(t), NEW h, NEW a, Sound(t, h, a), Tidy, t.status = "ok", t.ret = 0,
         NEW pip \in Slots, NEW ino \in Nameable(t.disk), NEW name \in EntryNames,
         NEW d0, EnterReady(t, pip, ino, name, d0)
  PROVE  Entered(enterBlock(t, pip, ino, name, 1), pip, d0)
<1> DEFINE d == t.disk
           m == t.tab[pip]
           bno == INode(t, pip).block[1]
           b == t.disk.blk[bno]
           r == enterBlock(t, pip, ino, name, 1)
<1>1. /\ bno \in Blocks /\ b \in Block /\ ino \in 0..NInodes /\ 1 \in 1..NDirect+1
      /\ t \in States /\ d \in Disks /\ m \in Minodes
  <2>1. 1 \in 1..NDirect+1
    BY SizesFacts
  <2>2. bno \in Blocks
    BY <2>1, StateFacts
  <2> HIDE DEF bno
  <2> QED BY <2>1, <2>2, StateFacts, NameableFacts
<1>2. Laid(t, d0) /\ Same(d0, d) /\ InUse(m) /\ name \notin Dots
  BY DEF EnterReady, ParentReady, ChildReady
<1>3. CASE bno = 0
  <2>1. r = Returns(t, 1)
    BY <1>3 DEF enterBlock
  <2>2. r.disk = t.disk /\ r.imgs = t.imgs /\ r.tab = t.tab
    BY <1>1, <2>1 DEF Returns, States
  <2> HIDE DEF r
  <2>3. Laid(r, d0)
    BY <1>2, <2>2, LaidTable DEF Laid
  <2> QED BY <1>2, <2>2, <2>3 DEF Entered, r
<1>4. CASE bno # 0 /\ Walk(b).end # "end"
  <2>1. r = Fails(t, Walk(b).end)
    BY <1>4 DEF enterBlock
  <2>2. r.disk = t.disk /\ r.imgs = t.imgs /\ r.tab = t.tab
    BY <1>1, <2>1 DEF Fails, States
  <2> HIDE DEF r
  <2>3. Laid(r, d0)
    BY <1>2, <2>2, LaidTable DEF Laid
  <2> QED BY <1>2, <2>2, <2>3 DEF Entered, r
<1>5. ASSUME bno # 0, Walk(b).end = "end"
      PROVE  /\ bno \in Used /\ b # ZeroBlock /\ \E q : Chain(b, q)
             /\ MayName(d, bno, name, ino, m.ino) /\ bno - 1 \in d.bmap
  <2>1. bno \in Used
    BY <1>1, <1>5 DEF Used
  <2>2. b # ZeroBlock
    BY <1>5, ZeroWalk
  <2>3. Shaped(b) /\ bno - 1 \in d.bmap
    BY <1>2, <2>1, <2>2 DEF Laid, Orderly, BlocksShaped
  <2>4. MayName(d, bno, name, ino, m.ino)
    BY <1>5, ReadyMayName
  <2> QED BY <2>1, <2>2, <2>3, <2>4 DEF Shaped
<1>6. CASE bno # 0 /\ Walk(b).end = "end" /\ HasRoom(b)
  <2> DEFINE data == Append1(b, ino, name)
  <2>1. r = PutData(t, bno, data)
    BY <1>6 DEF enterBlock
  <2>2. bno \in Used /\ b # ZeroBlock /\ MayName(d, bno, name, ino, m.ino)
    BY <1>5, <1>6
  <2>3. PICK q : Chain(b, q)
    BY <1>5, <1>6
  <2> HIDE DEF b, bno, r
  <2>4. /\ data \in Block /\ \E p : Chain(data, p)
        /\ Ents(data) = Ents(b) \cup {<<name, ino>>}
    BY <1>1, <1>6, <2>3, AppendEnts
  <2> HIDE DEF data
  <2>5. NameGoes(d, bno, data, name, ino)
    BY <1>2, <2>2, <2>4 DEF NameGoes, b
  <2>6. Laid(r, d0)
    BY <1>1, <1>2, <2>1, <2>2, <2>5, putNameLaid
  <2>7. r.tab = t.tab
    BY <1>1, <2>1, <2>4, PutDataEffect
  <2> QED BY <1>2, <2>6, <2>7 DEF Entered, r
<1>7. CASE bno # 0 /\ Walk(b).end = "end" /\ ~HasRoom(b)
  <2> DEFINE u == balloc(t)
             v == [u EXCEPT !.tab[pip].data.block[1 + 1] = u.ret]
             data == OverflowBlock(v.disk.blk[u.ret], ino, name)
             w == PutData(v, bno, data)
  <2>1. r = Returns(w, 1) /\ 1 \in Int
    BY <1>7 DEF enterBlock
  <2>2. /\ bno \in Used /\ b # ZeroBlock /\ MayName(d, bno, name, ino, m.ino)
        /\ bno - 1 \in d.bmap
    BY <1>5, <1>7
  <2>3. /\ Allots(t, u, h, d0) /\ u.ret \in Blocks /\ Good(u)
        /\ u.ret # 0 => u.ret - 1 \notin d.bmap
    BY <1>2, ballocAllots, ballocGood
  <2> HIDE DEF u, b, bno, r
  <2>4. /\ Laid(u, d0) /\ u.tab = t.tab /\ u.disk.blk = d.blk /\ u.disk.itab = d.itab
        /\ u \in States /\ Steady(d, u.disk)
    BY <2>3, StateFacts DEF Allots, Leaves
  <2>5. Same(d0, u.disk)
    BY <1>2, <2>4, SteadyGrows
  <2>6. u.ret # 0 => u.disk.blk[u.ret] = ZeroBlock /\ u.ret # bno
    <3>1. u.ret # 0 => u.ret \in Used
      BY <2>3 DEF Used
    <3> QED BY <1>2, <2>2, <2>3, <2>4, <3>1 DEF Laid, Orderly, BlocksShaped
  <2> DEFINE inode == [m.data EXCEPT !.block[1 + 1] = u.ret]
             n == Changed(m, m.dirty, inode)
  <2>7. m.data \in InodeRecs /\ m.dirty \in BOOLEAN /\ 2 \in 1..NDirect+1
    BY <1>1, SizesFacts DEF Minodes
  <2>8. /\ inode \in InodeRecs /\ inode.mode = m.data.mode
        /\ \A k \in 1..NDirect+1 : inode.block[k] = IF k = 2 THEN u.ret ELSE m.data.block[k]
    <3>1. inode = [m.data EXCEPT !.block[2] = u.ret]
      OBVIOUS
    <3> HIDE DEF inode, m
    <3> QED BY <2>3, <2>7, <3>1 DEF InodeRecs
  <2>9. v = [u EXCEPT !.tab[pip].data = inode]
    BY <2>4
  <2> HIDE DEF inode, v
  <2>10. Slotted(u, v, pip, n)
    BY <2>4, <2>8, <2>9, DataSlotted
  <2>11. n.ino = m.ino /\ n.data = inode /\ n.ref = m.ref
    BY <1>1, <2>7, <2>8, ChangedFacts
  <2> HIDE DEF n
  <2>12. /\ v \in States /\ v.disk = u.disk /\ v.imgs = u.imgs
         /\ \A q \in Slots : v.tab[q] = IF q = pip THEN n ELSE u.tab[q]
    BY <2>10 DEF Slotted
  <2>13. Agrees(u.disk, n)
    <3>1. Agrees(u.disk, m)
      BY <1>2, <2>4 DEF Laid
    <3>2. inode.block[1] = m.data.block[1]
      BY <1>1, <2>8
    <3>3. RestZero(u.disk, inode)
      <4>1. 2..NDirect+1 \subseteq 1..NDirect+1
        BY SizesFacts
      <4> QED BY <2>6, <2>8, <3>1, <4>1 DEF Agrees, RestZero
    <3> QED BY <2>8, <2>11, <3>1, <3>2, <3>3 DEF Agrees
  <2>14. Laid(v, d0)
    <3>1. \A q \in Slots : InUse(v.tab[q]) => Agrees(u.disk, v.tab[q])
      BY <2>4, <2>12, <2>13 DEF Laid
    <3> QED BY <2>4, <2>12, <3>1, LaidTable
  <2>15. v.disk.blk[u.ret] \in Block /\ v.disk.blk[bno] = b
    <3>1. v.disk.blk = d.blk
      BY <2>4, <2>12
    <3> QED BY <1>1, <2>3, <3>1 DEF Disks, b
  <2>16. /\ data \in Block /\ \E p : Chain(data, p) /\ Ents(data) = {<<name, ino>>}
    BY <1>1, <2>15, OverflowEnts
  <2> HIDE DEF data
  <2>17. NameGoes(v.disk, bno, data, name, ino)
    BY <1>2, <1>7, <2>2, <2>15, <2>16 DEF NameGoes
  <2>18. MayName(v.disk, bno, name, ino, m.ino)
    BY <2>2, <2>4, <2>12 DEF MayName, IsDir, First, Unnamed
  <2>19. Laid(w, d0)
    BY <2>5, <2>12, <2>14, <2>17, <2>18, putNameLaid
  <2>20. w.tab = v.tab /\ w \in States
    BY <1>1, <2>12, <2>16, PutDataEffect
  <2> HIDE DEF w
  <2>21. r.disk = w.disk /\ r.imgs = w.imgs /\ r.tab = w.tab
    BY <2>1, <2>20 DEF Returns, States
  <2>22. Laid(r, d0)
    BY <2>19, <2>21, LaidTable DEF Laid
  <2>23. InUse(r.tab[pip])
    BY <1>2, <2>11, <2>12, <2>20, <2>21 DEF InUse
  <2> QED BY <2>22, <2>23 DEF Entered, r
<1> QED BY <1>3, <1>4, <1>6, <1>7

(* The blocks behind a directory's first one take no record.               *)
LEMMA enterLater ==
  ASSUME NEW t, Good(t), NEW pip \in Slots, NEW d0, Entered(t, pip, d0),
         NEW ino, NEW name, NEW i \in 2..NDirect
  PROVE  Entered(enterBlock(t, pip, ino, name, i), pip, d0)
<1> DEFINE bno == INode(t, pip).block[i]
           r == enterBlock(t, pip, ino, name, i)
<1>1. t \in States /\ i \in 2..NDirect+1
  BY StateFacts, SizesFacts
<1>2. bno # 0 => t.disk.blk[bno] = ZeroBlock
  BY <1>1 DEF Entered, Laid, Agrees, RestZero, INode
<1>3. bno # 0 => Walk(t.disk.blk[bno]).end = "hang"
  BY <1>2, ZeroWalk
<1>4. r = t \/ r = Returns(t, 1) \/ r = Fails(t, "hang")
  BY <1>3 DEF enterBlock
<1> HIDE DEF r
<1>5. r.disk = t.disk /\ r.imgs = t.imgs /\ r.tab = t.tab
  BY <1>1, <1>4 DEF Returns, Fails, States
<1>6. Laid(r, d0)
  BY <1>5, LaidTable DEF Entered, Laid
<1> QED BY <1>5, <1>6 DEF Entered, r

\* enter_name, from state x.start on.
EnterLaid(x, t, i) ==
  EnterKeeps(x, t, i) /\ IF i = 0 THEN t = x.start ELSE Entered(t, x.pip, x.d0)

LaidNameLoop == INSTANCE Loops WITH Pass <- EnterPass, Keeps <- EnterLaid

LEMMA enter_nameLaid ==
  ASSUME NEW s, Good(s), NEW h, NEW a, Sound(s, h, a), Tidy, s.status = "ok",
         NEW pip \in Slots, NEW ino \in Nameable(s.disk), NEW name \in EntryNames,
         NEW d0, EnterReady(s, pip, ino, name, d0)
  PROVE  Entered(enter_name(s, pip, ino, name), pip, d0)
<1> DEFINE start == Returns(s, 0)
           x == [pip |-> pip, ino |-> ino, name |-> name, start |-> start, d0 |-> d0]
<1>1. /\ x.pip = pip /\ x.ino = ino /\ x.name = name /\ x.start = start /\ x.d0 = d0
      /\ NDirect \in Nat /\ NDirect >= 1 /\ 0 \in Int
  BY SizesFacts, SizesAssumption
<1> HIDE DEF x
<1>2. enter_name(s, pip, ino, name) = LaidNameLoop!After(x, start, NDirect)
  BY <1>1 DEF enter_name, Loop, LaidNameLoop!After, EnterPass
<1>3. /\ Good(start) /\ start.disk = s.disk /\ start.tab = s.tab /\ start.imgs = s.imgs
      /\ start.status = "ok" /\ start.ret = 0
  <2>1. s \in States
    BY StateFacts
  <2>2. start.imgs = s.imgs
    BY <1>1, <2>1 DEF Returns, States
  <2> QED BY <1>1, <2>2, ReturnsGood
<1>4. Sound(start, h, a)
  BY <1>1, ReturnsSound
<1> HIDE DEF start
<1>5. EnterReady(start, pip, ino, name, d0)
  <2>1. Laid(start, d0)
    BY <1>3, LaidTable DEF EnterReady, ParentReady, ChildReady, Laid
  <2> QED BY <1>3, <2>1 DEF EnterReady, ParentReady, ChildReady
<1>6. EnterLaid(x, start, 0)
  BY <1>1, <1>3 DEF EnterLaid, EnterKeeps
<1>7. ASSUME NEW i \in 1..NDirect, NEW t, EnterLaid(x, t, i - 1)
      PROVE  EnterLaid(x, EnterPass(x, t, i), i)
  <2> DEFINE r == enterBlock(t, pip, ino, name, i)
  <2>1. Good(t) /\ ino \in Nameable(t.disk)
    BY <1>1, <1>7 DEF EnterLaid, EnterKeeps
  <2>2. Good(r) /\ ino \in Nameable(r.disk)
    BY <2>1, enterBlockGood
  <2>3. Entered(r, pip, d0)
    <3>1. CASE i = 1
      <4>1. t = start
        BY <1>1, <1>7, <3>1 DEF EnterLaid
      <4>2. ino \in Nameable(start.disk)
        BY <1>3
      <4>3. Entered(enterBlock(start, pip, ino, name, 1), pip, d0)
        BY <1>3, <1>4, <1>5, <4>2, enterFirst
      <4> QED BY <3>1, <4>1, <4>3
    <3>2. CASE i # 1
      <4>1. i \in 2..NDirect /\ i - 1 # 0
        BY <1>1, <3>2
      <4>2. Entered(t, pip, d0)
        BY <1>1, <1>7, <4>1 DEF EnterLaid
      <4> QED BY <2>1, <4>1, <4>2, enterLater
    <3> QED BY <3>1, <3>2
  <2>4. EnterPass(x, t, i) = r
    BY <1>1 DEF EnterPass
  <2> HIDE DEF r
  <2>5. i # 0
    OBVIOUS
  <2> QED BY <1>1, <2>2, <2>3, <2>4, <2>5 DEF EnterLaid, EnterKeeps
<1>8. EnterLaid(x, LaidNameLoop!After(x, start, NDirect), NDirect)
  BY <1>1, <1>6, <1>7, NatSet, LaidNameLoop!LoopKeeps
<1> QED BY <1>1, <1>2, <1>8 DEF EnterLaid

-----------------------------------------------------------------------------
(* mkdir and creat make a child.                                           *)

\* The parent is none of newInode's business, unless it is the minode of inode 0.
LEMMA MadeParent ==
  ASSUME NEW s, NEW t, NEW mode, NEW d0, MadeInode(s, t, mode, d0), Laid(t, d0),
         NEW pip \in Slots, NEW name, ParentReady(s, pip, name, d0)
  PROVE  /\ ParentReady(t, pip, name, d0)
         /\ t.tab[pip].ino # 0 => pip # t.ret
<1>1. CASE pip = t.ret
  BY <1>1 DEF MadeInode, ParentReady
<1>2. CASE pip # t.ret
  BY <1>2 DEF MadeInode, ParentReady
<1> QED BY <1>1, <1>2

LEMMA my_creatLaid ==
  ASSUME NEW s, Good(s), NEW h, NEW a, Sound(s, h, a), s.status = "ok", Kept, Tidy,
         NEW pip \in Slots, NEW name \in EntryNames,
         \A q \in Slots : h[q] >= 1 => Mode(s, q) = "dir",
         NEW d0, ParentReady(s, pip, name, d0)
  PROVE  Laid(my_creat(s, pip, name), d0)
<1> DEFINE t == newInode(s, "file", 1)
           ino == t.tab[t.ret].ino
           r == enter_name(t, pip, ino, name)
<1>1. my_creat(s, pip, name) = IF t.status = "ok" THEN r ELSE t
  BY DEF my_creat, Then
<1>2. Good(t) /\ (t.status = "ok" => t.ret \in Slots) /\ Makes(s, t, h)
  BY LinksRange, newInodeGood, newInodeSound DEF Got
<1>3. Laid(t, d0) /\ (t.status = "ok" => MadeInode(s, t, "file", d0))
  BY LinksRange, newInodeLaid DEF ParentReady
<1> HIDE DEF t
<1>4. CASE t.status = "ok"
  <2>1. ino \in Nameable(t.disk) /\ Sound(t, h, t.disk.imap)
    BY <1>2, <1>4, StateFacts DEF Makes
  <2>2. ParentReady(t, pip, name, d0)
    BY <1>3, <1>4, MadeParent
  <2>3. ChildReady(t, pip, ino)
    <3>1. IsDir(t.disk, ino) => ino # 0
      BY SizesFacts DEF IsDir, Inos
    <3>2. ino # 0 => t.disk.itab[ino].mode = "file"
      BY <1>3, <1>4 DEF MadeInode
    <3> HIDE DEF ino
    <3> QED BY <3>1, <3>2 DEF ChildReady, IsDir
  <2> HIDE DEF ino
  <2>4. EnterReady(t, pip, ino, name, d0)
    BY <2>2, <2>3 DEF EnterReady
  <2>5. Entered(r, pip, d0)
    BY <1>2, <1>4, <2>1, <2>4, enter_nameLaid
  <2> QED BY <1>1, <1>4, <2>5 DEF Entered, ino
<1> QED BY <1>1, <1>3, <1>4

(* Block 0 belongs to nobody.                                              *)
LEMMA ZerothBlock ==
  ASSUME NEW d \in Disks, Orderly(d), NEW e, e.itab = d.itab, d.bmap = e.bmap,
         \A b \in Used : e.blk[b] = d.blk[b]
  PROVE  /\ Orderly(e)
         /\ \A m \in Minodes : Agrees(d, m) => Agrees(e, m)
<1>1. \A i \in Inos : /\ First(e, i) = First(d, i)
                      /\ First(d, i) # 0 => First(d, i) \in Used
                      /\ \A k \in 2..NDirect+1 : d.itab[i].block[k] # 0 => d.itab[i].block[k] \in Used
  <2> SUFFICES ASSUME NEW i \in Inos
               PROVE  /\ First(e, i) = First(d, i)
                      /\ First(d, i) # 0 => First(d, i) \in Used
                      /\ \A k \in 2..NDirect+1 : d.itab[i].block[k] # 0 => d.itab[i].block[k] \in Used
    OBVIOUS
  <2>1. d.itab[i] \in InodeRecs /\ 2..NDirect+1 \subseteq 1..NDirect+1
    BY FirstIn, SizesFacts
  <2>2. \A k \in 2..NDirect+1 : d.itab[i].block[k] # 0 => d.itab[i].block[k] \in Used
    BY <2>1 DEF InodeRecs, Used
  <2> QED BY <2>2, FirstIn DEF First
<1>2. \A i : IsDir(e, i) = IsDir(d, i)
  BY DEF IsDir
<1>3. BlocksShaped(e)
  BY DEF Orderly, BlocksShaped
<1>4. RestsZero(e)
  BY <1>1 DEF Orderly, RestsZero, RestZero
<1>5. FirstsUnique(e)
  BY <1>1 DEF Orderly, FirstsUnique
<1>6. OneNameEach(e)
  BY <1>2 DEF Orderly, OneNameEach
<1>7. BackToParent(e)
  BY <1>1, <1>2 DEF Orderly, BackToParent
<1>8. ASSUME NEW m \in Minodes, Agrees(d, m) PROVE Agrees(e, m)
  <2>1. m.data \in InodeRecs /\ 2..NDirect+1 \subseteq 1..NDirect+1 /\ 1 \in 1..NDirect+1
    BY SizesFacts DEF Minodes
  <2>2. \A k \in 1..NDirect+1 : m.data.block[k] # 0 => m.data.block[k] \in Used
    BY <2>1 DEF InodeRecs, Used
  <2>3. RestZero(e, m.data)
    BY <1>8, <2>1, <2>2 DEF Agrees, RestZero
  <2>4. m.data.block[1] # 0 => Selves(e.blk[m.data.block[1]], m.ino)
    BY <1>8, <2>1, <2>2 DEF Agrees
  <2> QED BY <1>8, <2>3, <2>4 DEF Agrees, First
<1> QED BY <1>3, <1>4, <1>5, <1>6, <1>7, <1>8 DEF Orderly

\* The new inode has its block alone.
MadeAlone(t, ino, bno) ==
  /\ \A i \in Inos : \A k \in 1..NDirect+1 : t.disk.itab[i].block[k] = bno => i = ino /\ k = 1
  /\ \A q \in Slots : \A k \in 1..NDirect+1 :
       InUse(t.tab[q]) /\ t.tab[q].data.block[k] = bno => ino = 0 /\ q = t.ret /\ k = 1

LEMMA MadeOwns ==
  ASSUME NEW s, NEW t, NEW h, NEW a, Sound(t, h, a), Tidy, NEW mode, NEW d0,
         MadeInode(s, t, mode, d0), t.tab[t.ret].data.block[1] # 0
  PROVE  MadeAlone(t, t.tab[t.ret].ino, t.tab[t.ret].data.block[1])
<1> DEFINE m == t.tab[t.ret]
           ino == m.ino
           bno == m.data.block[1]
           d == t.disk
<1>1. /\ t.ret \in Slots /\ ino \in 0..NInodes /\ bno \in Blocks \ {0} /\ 1 \in 1..NDirect+1
  <2>1. t.ret \in Slots
    BY DEF MadeInode
  <2>2. ino \in 0..NInodes /\ m.data \in InodeRecs
    BY <2>1, SoundFacts
  <2> QED BY <2>1, <2>2, SizesFacts DEF InodeRecs
<1>2. Claimed(t, ino, bno)
  <2>1. CASE ino = 0
    BY <1>1, <2>1 DEF MadeInode, Claimed, HasBlock
  <2>2. CASE ino # 0
    BY <1>1, <2>2 DEF MadeInode, Claimed, HasBlock
  <2> QED BY <2>1, <2>2
<1>3. Owned(t)
  BY DEF Sound, Safe
<1>4. \A k \in 1..NDirect+1 : m.data.block[k] = bno => k = 1
  <2>1. \A k \in 1..NDirect+1 : k # 1 => k \in 2..NDirect+1
    BY SizesFacts
  <2> QED BY <1>1, <2>1 DEF MadeInode
<1>5. ASSUME NEW i \in Inos, NEW k \in 1..NDirect+1, d.itab[i].block[k] = bno
      PROVE  i = ino /\ k = 1
  <2>1. Claimed(t, i, bno) /\ i \in 0..NInodes /\ i # 0
    BY <1>5, SizesFacts DEF Claimed, HasBlock, Inos
  <2>2. i = ino
    BY <1>1, <1>2, <1>3, <2>1 DEF Owned
  <2>3. d.itab[i] = m.data
    BY <2>1, <2>2 DEF MadeInode
  <2> QED BY <1>4, <1>5, <2>2, <2>3
<1>6. ASSUME NEW q \in Slots, NEW k \in 1..NDirect+1, InUse(t.tab[q]), t.tab[q].data.block[k] = bno
      PROVE  ino = 0 /\ q = t.ret /\ k = 1
  <2>1. Claimed(t, t.tab[q].ino, bno) /\ t.tab[q].ino \in 0..NInodes
    BY <1>6, SoundFacts DEF Claimed, HasBlock
  <2>2. t.tab[q].ino = ino
    BY <1>1, <1>2, <1>3, <2>1 DEF Owned
  <2>3. ino = 0
    BY <1>6, <2>2 DEF MadeInode
  <2>4. q = t.ret
    BY <1>1, <1>6, <2>2, <2>3 DEF MadeInode, Sound
  <2> QED BY <1>4, <1>6, <2>3, <2>4
<1> HIDE DEF ino, bno
<1>7. MadeAlone(t, ino, bno)
  BY <1>5, <1>6 DEF MadeAlone
<1> QED BY <1>7 DEF ino, bno

\* The first two records of a new directory, whose inode t returns.
PutDots(t, pino) ==
  LET m == t.tab[t.ret]
      bno == m.data.block[1]
  IN  PutData(t, bno, DotBlock(t.disk.blk[bno], m.ino, pino))

HasDots(t, u, pino, d0) ==
  LET m == t.tab[t.ret]
      bno == m.data.block[1]
  IN  /\ Laid(u, d0) /\ Same(d0, u.disk) /\ u.disk.itab = t.disk.itab
      /\ \A b \in Used : b # bno => u.disk.blk[b] = t.disk.blk[b]
      /\ bno # 0 => Ents(u.disk.blk[bno]) = {<<".", m.ino>>, <<"..", pino>>}

LEMMA DotsLaid ==
  ASSUME NEW s, NEW d0, Laid(s, d0), NEW t, Good(t), NEW h, NEW a, Sound(t, h, a), Tidy,
         NEW mode, MadeInode(s, t, mode, d0), Laid(t, d0), NEW pino \in 0..NInodes
  PROVE  HasDots(t, PutDots(t, pino), pino, d0)
<1> DEFINE m == t.tab[t.ret]
           ino == m.ino
           bno == m.data.block[1]
           d == t.disk
           u == PutDots(t, pino)
           e == u.disk
           data == DotBlock(d.blk[bno], ino, pino)
<1>1. /\ t \in States /\ d \in Disks /\ t.ret \in Slots
      /\ ino \in 0..NInodes /\ bno \in Blocks /\ d.blk[bno] \in Block
  <2>1. t.ret \in Slots /\ 1 \in 1..NDirect+1
    BY SizesFacts DEF MadeInode
  <2>2. t \in States /\ d \in Disks /\ m \in Minodes /\ bno \in Blocks
    BY <2>1, StateFacts DEF INode
  <2> HIDE DEF bno
  <2>3. d.blk[bno] \in Block
    BY <2>2, StateFacts
  <2> QED BY <2>1, <2>2, <2>3 DEF Minodes
<1>2. u = PutData(t, bno, data)
  BY DEF PutDots
<1> HIDE DEF u
<1>3. bno # 0 => MadeAlone(t, ino, bno)
  BY MadeOwns
<1>4. bno # 0 => d.blk[bno] = ZeroBlock /\ bno - 1 \in d.bmap /\ bno \in Used
  <2>1. bno # 0 => bno \in Used
    BY <1>1 DEF Used
  <2>2. bno # 0 => bno - 1 \notin s.disk.bmap /\ bno - 1 \in d.bmap /\ d.blk = s.disk.blk
    BY DEF MadeInode
  <2> QED BY <2>1, <2>2 DEF Laid, Orderly, BlocksShaped
<1>5. ino \in Inos => Unnamed(d, ino)
  <2>1. ino \in Inos => ino # 0
    BY SizesFacts DEF Inos
  <2> QED BY <2>1 DEF MadeInode
<1>6. Same(d0, d) /\ Orderly(d) /\ Grows(d0, d)
  BY DEF MadeInode, Laid
<1> HIDE DEF m, ino, bno, data
<1>7. /\ data \in Block /\ \E q : Chain(data, q)
      /\ Ents(data) = {<<".", ino>>, <<"..", pino>>}
  BY <1>1, DotBlockEnts DEF data
<1>8. /\ u \in States /\ u.tab = t.tab /\ u.imgs = t.imgs \cup {e}
      /\ e.imap = d.imap /\ e.bmap = d.bmap /\ e.itab = d.itab
      /\ \A c \in Blocks : e.blk[c] = IF c = bno THEN data ELSE d.blk[c]
  BY <1>1, <1>2, <1>7, PutDataEffect
<1>9. \A b \in Used : e.blk[b] = IF b = bno THEN data ELSE d.blk[b]
  BY <1>8, UsedIn
<1>10. Same(d0, e)
  <2>1. d0.imap \subseteq e.imap /\ FirstsStay(d0, e)
    BY <1>6, <1>8 DEF Same, FirstsStay, First
  <2>2. ASSUME NEW b \in Used PROVE e.blk[b] = d0.blk[b] \/ d0.blk[b] = ZeroBlock
    <3>1. CASE b # bno
      BY <1>6, <1>9, <3>1 DEF Same
    <3>2. CASE b = bno
      BY <1>4, <1>6, <3>2, UsedIn DEF Same
    <3> QED BY <3>1, <3>2
  <2> QED BY <2>1, <2>2 DEF Same
<1>11. Orderly(e) /\ \A q \in Slots : InUse(u.tab[q]) => Agrees(e, u.tab[q])
  <2>1. CASE bno = 0
    <3>1. \A b \in Used : e.blk[b] = d.blk[b]
      BY <1>9, <2>1, UsedIn
    <3>2. Orderly(e) /\ \A n \in Minodes : Agrees(d, n) => Agrees(e, n)
      BY <1>1, <1>6, <1>8, <3>1, ZerothBlock
    <3> QED BY <1>1, <1>8, <3>2, StateFacts DEF Laid
  <2>2. CASE bno # 0
    <3>1. PutIn(d, e, bno, data)
      <4>1. \A k \in 2..NDirect+1 : k # 1 /\ k \in 1..NDirect+1
        BY SizesFacts
      <4>2. \A i \in Inos : \A k \in 2..NDirect+1 : d.itab[i].block[k] # bno
        BY <1>3, <2>2, <4>1 DEF MadeAlone
      <4> QED BY <1>1, <1>4, <1>7, <1>8, <1>9, <2>2, <4>2 DEF PutIn
    <3>2. \A i \in Inos : First(d, i) = bno => i = ino
      BY <1>3, <2>2, SizesFacts DEF MadeAlone, First
    <3>3. Orderly(e)
      <4>1. NewBlock(d, bno, ino)
        BY <1>5, <3>2 DEF NewBlock
      <4> HIDE DEF d, e
      <4> QED BY <1>6, <1>7, <3>1, <4>1, OrderlyDots
    <3>4. ASSUME NEW q \in Slots, InUse(u.tab[q]) PROVE Agrees(e, u.tab[q])
      <4> DEFINE n == t.tab[q]
                 c == n.data.block[1]
      <4>1. Agrees(d, n) /\ n \in Minodes /\ u.tab[q] = n
        BY <1>8, <3>4, StateFacts DEF Laid
      <4>2. 1 \in 1..NDirect+1 /\ \A k \in 2..NDirect+1 : k # 1 /\ k \in 1..NDirect+1
        BY SizesFacts
      <4>3. \A k \in 1..NDirect+1 : n.data.block[k] \in Blocks
        BY <4>1 DEF Minodes, InodeRecs
      <4>4. RestZero(e, n.data)
        <5>1. \A k \in 2..NDirect+1 : n.data.block[k] # bno
          BY <1>3, <1>8, <2>2, <3>4, <4>2 DEF MadeAlone
        <5> QED BY <1>8, <4>1, <4>2, <4>3, <5>1 DEF Agrees, RestZero
      <4>5. c # 0 => Selves(e.blk[c], n.ino)
        <5>1. CASE c # bno
          BY <1>8, <4>1, <4>2, <4>3, <5>1 DEF Agrees
        <5>2. CASE c = bno
          <6>1. q = t.ret
            BY <1>3, <1>8, <2>2, <3>4, <4>2, <5>2 DEF MadeAlone
          <6>2. e.blk[c] = data /\ n.ino = ino
            BY <1>1, <1>8, <5>2, <6>1 DEF ino, m
          <6> HIDE DEF n, c
          <6>3. Selves(data, ino)
            BY <1>7 DEF Selves
          <6> QED BY <6>2, <6>3
        <5> QED BY <5>1, <5>2
      <4> HIDE DEF n
      <4> QED BY <1>8, <4>1, <4>4, <4>5 DEF Agrees, First
    <3> QED BY <3>3, <3>4
  <2> QED BY <2>1, <2>2
<1>12. Laid(u, d0)
  <2>1. Grows(d0, e)
    BY <1>10, SameGrows
  <2> QED BY <1>8, <1>11, <2>1 DEF Laid
<1>13. bno # 0 => Ents(e.blk[bno]) = {<<".", ino>>, <<"..", pino>>}
  BY <1>4, <1>7, <1>9
<1> HIDE DEF e
<1>14. \A b \in Used : b # bno => e.blk[b] = d.blk[b]
  BY <1>9
<1>15. HasDots(t, u, pino, d0)
  BY <1>8, <1>10, <1>12, <1>13, <1>14 DEF HasDots, e, m, ino, bno
<1> QED BY <1>15 DEF u

LEMMA mymkdirLaid ==
  ASSUME NEW s, Good(s), NEW h, NEW a, Sound(s, h, a), s.status = "ok", Kept, Tidy,
         NEW pip \in Slots, NEW name \in EntryNames,
         \A q \in Slots : h[q] >= 1 => Mode(s, q) = "dir",
         NEW d0, ParentReady(s, pip, name, d0)
  PROVE  Laid(mymkdir(s, pip, name), d0)
<1> DEFINE t == newInode(s, "dir", 2)
           m == t.tab[t.ret]
           bno == m.data.block[1]
           pino == t.tab[pip].ino
           u == PutData(t, bno, DotBlock(t.disk.blk[bno], m.ino, pino))
           r == enter_name(u, pip, m.ino, name)
<1>1. mymkdir(s, pip, name) = IF t.status = "ok" THEN r ELSE t
  BY DEF mymkdir, Then
<1>2. Good(t) /\ (t.status = "ok" => t.ret \in Slots) /\ Makes(s, t, h)
  BY LinksRange, newInodeGood, newInodeSound DEF Got
<1>3. Laid(t, d0) /\ (t.status = "ok" => MadeInode(s, t, "dir", d0))
  BY LinksRange, newInodeLaid DEF ParentReady
<1> HIDE DEF t
<1>4. CASE t.status = "ok"
  <2>1. Good(u) /\ m.ino \in Nameable(u.disk)
    BY <1>2, <1>4, DotsGood
  <2>2. u \in States /\ Sound(t, h, t.disk.imap) /\ pino \in 0..NInodes
    <3>1. Sound(t, h, t.disk.imap)
      BY <1>2 DEF Makes
    <3> HIDE DEF u
    <3> QED BY <2>1, <3>1, StateFacts, SoundFacts
  <2>3. Sound(u, h, t.disk.imap) /\ u.status = "ok" /\ u.tab = t.tab
    <3> DEFINE data == DotBlock(t.disk.blk[bno], m.ino, pino)
    <3> HIDE DEF m, bno, pino, data
    <3> QED BY <1>4, <2>2, PutDataSound DEF data
  <2>4. MadeInode(s, t, "dir", d0) /\ ParentReady(t, pip, name, d0) /\ (pino # 0 => pip # t.ret)
    BY <1>3, <1>4, MadeParent
  <2>5. /\ Laid(u, d0) /\ Same(d0, u.disk) /\ u.disk.itab = t.disk.itab
        /\ \A b \in Used : b # bno => u.disk.blk[b] = t.disk.blk[b]
        /\ bno # 0 => Ents(u.disk.blk[bno]) = {<<".", m.ino>>, <<"..", pino>>}
    <3>1. Laid(s, d0)
      BY DEF ParentReady
    <3>2. u = PutDots(t, pino)
      BY DEF PutDots
    <3>3. HasDots(t, PutDots(t, pino), pino, d0)
      BY <1>2, <1>3, <1>4, <2>2, <2>4, <3>1, DotsLaid
    <3> HIDE DEF u
    <3> QED BY <3>2, <3>3 DEF HasDots
  <2>6. bno # 0 => MadeAlone(t, m.ino, bno)
    BY <2>2, <2>4, MadeOwns
  <2> DEFINE ino == m.ino
  <2>7. ino # 0 => ino \in Inos /\ Unnamed(t.disk, ino) /\ First(t.disk, ino) = bno
    BY <2>4 DEF MadeInode, First
  <2>8. t.tab[pip] \in Minodes
    BY <1>2, StateFacts
  <2> HIDE DEF m, bno, pino, u, ino
  <2>9. ParentReady(u, pip, name, d0)
    <3> DEFINE b == t.tab[pip].data.block[1]
    <3>1. ASSUME pino # 0, b # 0 PROVE Absent(u.disk.blk[b], name)
      <4>1. 1 \in 1..NDirect+1
        BY SizesFacts
      <4>2. b \in Used
        BY <2>8, <3>1, <4>1 DEF Minodes, InodeRecs, Used
      <4>3. b # bno
        BY <2>4, <2>6, <3>1, <4>1 DEF MadeAlone, ParentReady
      <4> QED BY <2>4, <2>5, <3>1, <4>2, <4>3 DEF ParentReady, pino
    <3> QED BY <2>3, <2>4, <2>5, <3>1 DEF ParentReady, pino
  <2>10. ChildReady(u, pip, ino)
    <3> SUFFICES ASSUME IsDir(u.disk, ino)
                 PROVE  /\ Unnamed(u.disk, ino)
                        /\ First(u.disk, ino) # 0 => Parents(u.disk.blk[First(u.disk, ino)], pino)
      BY <2>3 DEF ChildReady, pino
    <3>1. ino # 0
      BY SizesFacts DEF IsDir, Inos
    <3>2. First(u.disk, ino) = bno /\ Unnamed(t.disk, ino)
      BY <2>5, <2>7, <3>1 DEF First
    <3>3. ASSUME NEW b \in Used, NEW x \in Ents(u.disk.blk[b]), x[1] \notin Dots
          PROVE  x[2] # ino
      <4>1. CASE b # bno
        BY <2>5, <3>2, <3>3, <4>1 DEF Unnamed
      <4>2. CASE b = bno
        BY <2>5, <3>3, <4>2, UsedIn DEF Dots
      <4> QED BY <4>1, <4>2
    <3>4. bno # 0 => Parents(u.disk.blk[bno], pino)
      BY <2>5 DEF Parents
    <3> QED BY <3>2, <3>3, <3>4 DEF Unnamed
  <2>11. EnterReady(u, pip, ino, name, d0)
    BY <2>9, <2>10 DEF EnterReady
  <2>12. Entered(r, pip, d0)
    BY <2>1, <2>3, <2>11, enter_nameLaid DEF ino
  <2> QED BY <1>1, <1>4, <2>12 DEF Entered, u, m, bno, pino
<1> QED BY <1>1, <1>3, <1>4

(* The link count or the dirty mark of a minode changes.                   *)
LEMMA SlottedLaid ==
  ASSUME NEW s, NEW d0, Laid(s, d0), NEW slot \in Slots, NEW t, NEW m, Slotted(s, t, slot, m),
         Alike(s.tab[slot], m), m.ref = s.tab[slot].ref
  PROVE  Laid(t, d0)
<1>1. t.disk = s.disk /\ t.imgs = s.imgs
      /\ \A q \in Slots : t.tab[q] = IF q = slot THEN m ELSE s.tab[q]
  BY DEF Slotted
<1>2. ASSUME NEW q \in Slots, InUse(t.tab[q]) PROVE Agrees(s.disk, t.tab[q])
  <2>1. CASE q # slot
    BY <1>1, <1>2, <2>1 DEF Laid
  <2>2. CASE q = slot
    <3>1. InUse(s.tab[slot]) /\ t.tab[q] = m
      BY <1>1, <1>2, <2>2 DEF InUse
    <3>2. Agrees(s.disk, s.tab[slot])
      BY <3>1 DEF Laid
    <3>3. Agrees(s.disk, m)
      BY <3>2, AgreesAlike
    <3> QED BY <3>1, <3>3
  <2> QED BY <2>1, <2>2
<1> QED BY <1>1, <1>2, LaidTable

LEMMA LinksLaid ==
  ASSUME NEW s \in States, NEW d0, Laid(s, d0), NEW slot \in Slots, NEW n \in 0..LinkModulus-1
  PROVE  Laid([s EXCEPT !.tab[slot].data.links = n], d0)
<1> DEFINE x == s.tab[slot]
           inode == [x.data EXCEPT !.links = n]
           m == Changed(x, x.dirty, inode)
           t == [s EXCEPT !.tab[slot].data.links = n]
<1>1. x \in Minodes /\ x.dirty \in BOOLEAN /\ x.data \in InodeRecs
  BY DEF States, Minodes
<1>2. inode \in InodeRecs /\ inode.mode = x.data.mode /\ inode.block = x.data.block
  BY <1>1 DEF InodeRecs
<1>3. t = [s EXCEPT !.tab[slot].data = inode]
  OBVIOUS
<1> HIDE DEF inode, t
<1>4. Slotted(s, t, slot, m)
  BY <1>2, <1>3, DataSlotted
<1>5. m.ref = x.ref /\ m.ino = x.ino /\ m.data = inode
  BY <1>1, <1>2, ChangedFacts
<1> HIDE DEF m
<1>6. Alike(x, m)
  BY <1>2, <1>5 DEF Alike
<1>7. Laid(t, d0)
  BY <1>4, <1>5, <1>6, SlottedLaid
<1> QED BY <1>7 DEF t

LEMMA DirtyLaid ==
  ASSUME NEW s \in States, NEW d0, Laid(s, d0), NEW slot \in Slots
  PROVE  Laid([s EXCEPT !.tab[slot].dirty = TRUE], d0)
<1> DEFINE x == s.tab[slot]
           m == Changed(x, TRUE, x.data)
           t == [s EXCEPT !.tab[slot].dirty = TRUE]
<1>1. x \in Minodes /\ x.data \in InodeRecs
  BY DEF States, Minodes
<1>2. Slotted(s, t, slot, m)
  BY DirtySlotted
<1>3. m.ref = x.ref /\ m.ino = x.ino /\ m.data = x.data
  BY <1>1, ChangedFacts
<1> HIDE DEF m, t
<1>4. Alike(x, m)
  BY <1>3 DEF Alike
<1>5. Laid(t, d0)
  BY <1>2, <1>3, <1>4, SlottedLaid
<1> QED BY <1>5 DEF t

\* The name that a search did not find.
LEMMA NotFoundAbsent ==
  ASSUME NEW s, Good(s), NEW d0, Laid(s, d0), NEW b \in Blocks, b # 0, NEW name,
         LookIn(s.disk, b, name) = 0
  PROVE  Absent(s.disk.blk[b], name)
<1>1. b \in Used
  BY DEF Used
<1>2. Shaped(s.disk.blk[b])
  BY <1>1 DEF Laid, Orderly, BlocksShaped
<1>3. s.disk.blk[b] \in Block
  BY StateFacts
<1> QED BY <1>2, <1>3, LookInEnts

LEMMA newChildLaid ==
  ASSUME NEW s, Good(s), NEW a, Sound(s, None, a), s.status = "ok", Kept, Tidy,
         NEW p \in Paths, p.names # <<>>, basename(p) \notin Dots, NEW mode \in {"dir", "file"},
         NEW d0, Laid(s, d0), Same(d0, s.disk)
  PROVE  Laid(newChild(s, p, mode), d0)
<1> DEFINE name == basename(p)
           t == getMinode(s, dirname(p))
           pip == t.ret
           h == More(None, pip)
           u == search(t, pip, name)
           v == IF mode = "dir" THEN mymkdir(u, pip, name) ELSE my_creat(u, pip, name)
           n == v.tab[pip].data.links
           links == IF mode = "dir" THEN Links(n + 1) ELSE 1
           w == [v EXCEPT !.tab[pip].data.links = links]
           r == iput(w, pip)
<1>1. newChild(s, p, mode) =
        IF t.status # "ok" \/ Mode(t, pip) # "dir" THEN t
        ELSE IF u.status # "ok" \/ u.ret # 0 THEN u
        ELSE IF v.status # "ok" THEN v
        ELSE r
  BY DEF newChild, Then
<1>2. dirname(p) \in AnyPaths /\ name \in EntryNames
  BY dirnameFacts
<1>3. Fetched(s, t, None, a, d0)
  BY <1>2, getMinodeLeaves
<1>4. Laid(t, d0) /\ Same(d0, t.disk)
  BY <1>3, SteadyGrows DEF Fetched, Leaves
<1> HIDE DEF t, name, h, pip
<1>5. CASE t.status # "ok" \/ Mode(t, pip) # "dir"
  BY <1>1, <1>4, <1>5
<1>6. CASE t.status = "ok" /\ Mode(t, pip) = "dir"
  <2>1. /\ Good(t) /\ pip \in Slots /\ Sound(t, h, a)
        /\ InUse(t.tab[pip]) /\ Agrees(t.disk, t.tab[pip])
    BY <1>3, <1>6 DEF Fetched, GotMore, h, pip
  <2>2. Good(u) /\ Sound(u, h, a)
    BY <1>6, <2>1, searchGood, searchSound
  <2>3. u.disk = t.disk /\ u.imgs = t.imgs /\ u.tab = t.tab
    BY <2>1, searchSame, StateFacts
  <2>4. u.status = "ok" => u.ret = LookIn(t.disk, t.tab[pip].data.block[1], name)
    <3>1. RestZero(t.disk, INode(t, pip)) /\ INode(t, pip).block[1] = t.tab[pip].data.block[1]
      BY <2>1 DEF Agrees, INode
    <3> QED BY <1>6, <2>1, <3>1, searchLooks
  <2> HIDE DEF u
  <2>5. Laid(u, d0)
    BY <1>4, <2>3, LaidTable DEF Laid
  <2>6. CASE u.status # "ok" \/ u.ret # 0
    BY <1>1, <1>6, <2>5, <2>6
  <2>7. CASE u.status = "ok" /\ u.ret = 0
    <3>1. \A q \in Slots : h[q] >= 1 => Mode(u, q) = "dir"
      BY <1>6, <2>1, <2>3, NoneFacts DEF h, Mode, INode
    <3>2. ParentReady(u, pip, name, d0)
      <4> DEFINE b == t.tab[pip].data.block[1]
      <4>1. b \in Blocks
        <5>1. 1 \in 1..NDirect+1
          BY SizesFacts
        <5> QED BY <2>1, <5>1, StateFacts DEF INode
      <4>2. b # 0 => Absent(t.disk.blk[b], name)
        BY <1>4, <2>1, <2>4, <2>7, <4>1, NotFoundAbsent
      <4> QED BY <1>4, <2>1, <2>3, <2>5, <4>2 DEF ParentReady, name
    <3>3. Good(v) /\ Makes(u, v, h)
      BY <1>2, <2>1, <2>2, <2>7, <3>1, mymkdirGood, my_creatGood, mymkdirSound, my_creatSound
    <3>4. Laid(v, d0)
      BY <1>2, <2>1, <2>2, <2>7, <3>1, <3>2, mymkdirLaid, my_creatLaid
    <3> DEFINE A == v.disk.imap
    <3> HIDE DEF v, A
    <3>5. Sound(v, h, A)
      BY <3>3 DEF Makes, A
    <3>6. CASE v.status # "ok"
      BY <1>1, <1>6, <2>7, <3>4, <3>6
    <3>7. CASE v.status = "ok"
      <4>1. links \in 0..LinkModulus-1
        <5>1. v.tab[pip].data \in InodeRecs
          BY <2>1, <3>5, SoundFacts
        <5>2. n \in 0..LinkModulus-1
          BY <5>1 DEF InodeRecs
        <5>3. n \in Int
          BY <5>2, LinksRange
        <5>4. n + 1 \in Int
          BY <5>3
        <5> HIDE DEF n
        <5> QED BY <5>4, LinksRange
      <4> HIDE DEF links
      <4>2. Sound(w, h, A) /\ w.status = "ok"
        BY <2>1, <3>5, <3>7, <4>1, LinksSound
      <4>3. Laid(w, d0)
        BY <2>1, <3>3, <3>4, <4>1, StateFacts, LinksLaid
      <4> HIDE DEF w
      <4>4. w \in States /\ InUse(w.tab[pip])
        <5>1. h[pip] >= 1
          BY <2>1, NoneFacts DEF h
        <5> QED BY <2>1, <4>2, <5>1, SoundFacts
      <4>5. Laid(r, d0)
        BY <2>1, <4>3, <4>4, iputLeaves DEF Leaves
      <4> QED BY <1>1, <1>6, <2>7, <3>7, <4>5
    <3> QED BY <3>6, <3>7
  <2> QED BY <2>6, <2>7
<1> QED BY <1>5, <1>6

-----------------------------------------------------------------------------
(* link looks up the new name and then its directory: two walks that share *)
(* their first steps.                                                      *)

LEMMA dirnameSplit ==
  ASSUME NEW p \in Paths, p.names # <<>>
  PROVE  /\ Len(p.names) \in Nat /\ Len(p.names) >= 1 /\ basename(p) = p.names[Len(p.names)]
         /\ Len(p.names) = 1 /\ ~p.abs => dirname(p) = Dot
         /\ Len(p.names) = 1 /\ p.abs => dirname(p) = Slash
         /\ Len(p.names) # 1 =>
              /\ dirname(p).abs = p.abs /\ dirname(p) # Slash
              /\ Len(dirname(p).names) = Len(p.names) - 1
              /\ \A i \in 1..Len(p.names)-1 : dirname(p).names[i] = p.names[i]
<1> DEFINE q == p.names
           f == Front(q)
<1>1. q \in Seq(STRING) /\ p.abs \in BOOLEAN
  BY DEF Paths
<1>2. Len(q) \in Nat /\ Len(q) >= 1
  BY <1>1
<1>3. /\ f \in Seq(STRING) /\ Len(f) = Len(q) - 1
      /\ \A i \in 1..Len(q)-1 : f[i] = q[i]
  BY <1>1, <1>2 DEF Front
<1>4. ~(Len(q) = 1 /\ ~p.abs) => dirname(p) = [p EXCEPT !.names = f]
  BY DEF dirname, Paths
<1>5. Len(q) = 1 /\ ~p.abs => dirname(p) = Dot
  BY DEF dirname
<1> HIDE DEF f
<1>6. ~(Len(q) = 1 /\ ~p.abs) =>
        dirname(p).abs = p.abs /\ dirname(p).names = f /\ dirname(p) = [abs |-> p.abs, names |-> f]
  BY <1>4 DEF Paths
<1>7. Len(q) = 1 /\ p.abs => dirname(p) = Slash
  <2>1. Len(q) = 1 => f = <<>>
    BY <1>3
  <2>2. p.abs => p.abs = TRUE
    BY <1>1
  <2> QED BY <1>6, <2>1, <2>2 DEF Slash
<1>8. Len(q) # 1 => dirname(p) # Slash
  <2>1. Len(q) # 1 => Len(f) # 0
    BY <1>2, <1>3
  <2>2. Slash.names = <<>> /\ Len(<<>>) = 0
    BY DEF Slash
  <2> QED BY <1>6, <2>1, <2>2
<1> QED BY <1>2, <1>3, <1>5, <1>6, <1>7, <1>8 DEF basename

LEMMA StartStays ==
  ASSUME NEW t, NEW u, NEW h, NEW a, Sound(t, h, a), Stay(t, u, h), NEW p, NEW q, q.abs = p.abs
  PROVE  Start(u, q) = Start(t, p)
<1>1. t.cwd \in Slots /\ RootSlot \in Slots /\ u.cwd = t.cwd
  BY SoundFacts DEF Stay
<1>2. Pins(t, RootSlot) >= 1 /\ Pins(t, t.cwd) >= 1
  BY DEF Pins
<1>3. u.tab[RootSlot].data = t.tab[RootSlot].data /\ u.tab[t.cwd].data = t.tab[t.cwd].data
  BY <1>1, <1>2 DEF Stay
<1>4. StartSlot(u, q) = StartSlot(t, p) /\ (StartSlot(t, p) = RootSlot \/ StartSlot(t, p) = t.cwd)
  BY <1>1 DEF StartSlot
<1> QED BY <1>3, <1>4 DEF Start

LEMMA SteadyPlace ==
  ASSUME NEW d, NEW e, Steady(d, e), NEW m, Agrees(e, m), m.ino \in Inos
  PROVE  m.data.mode = d.itab[m.ino].mode /\ m.data.block[1] = First(d, m.ino)
<1>1. m.ino # 0
  BY SizesFacts DEF Inos
<1> QED BY <1>1 DEF Agrees, Steady

\* The minode is that of the directory at place z.
AtPlace(z, m) == z.ret # 0 /\ z.mode = "dir" /\ z.first = m.data.block[1]

LEMMA NotOnward ==
  ASSUME NEW d, NEW z, NEW m, AtPlace(z, m), NEW name, Onward(d, z, name).ret = 0
  PROVE  LookIn(d, m.data.block[1], name) = 0
BY DEF AtPlace, Onward, Place

\* getino(t, new) finds nothing, and the directory of new is there.
LinkLooks(t, new) ==
  LET u == getino(t, new)
      v == getMinode(u, dirname(new))
  IN  /\ u.status = "ok" /\ u.ret = 0
      /\ v.status = "ok" /\ Mode(v, v.ret) = "dir"

LinkAt(t, new) == LET v == getMinode(getino(t, new), dirname(new)) IN v.tab[v.ret]

LEMMA LinkPlace ==
  ASSUME NEW t, Good(t), NEW h, NEW a, Sound(t, h, a), t.status = "ok",
         NEW d0, Laid(t, d0), NEW new \in Paths, new.names # <<>>, LinkLooks(t, new),
         NEW f, Trail(f, t.disk, new, Start(t, new)),
         LinkAt(t, new).ino # 0
  PROVE  AtPlace(f[Len(new.names) - 1], LinkAt(t, new))
<1> DEFINE d == t.disk
           n == Len(new.names)
           u == getino(t, new)
           dir == dirname(new)
           y == getino(u, dir)
           v == getMinode(u, dir)
           m == LinkAt(t, new)
           z == f[n - 1]
<1>1. /\ n \in Nat /\ n >= 1
      /\ n = 1 /\ ~new.abs => dir = Dot
      /\ n = 1 /\ new.abs => dir = Slash
      /\ n # 1 => /\ dir.abs = new.abs /\ dir # Slash /\ Len(dir.names) = n - 1
                  /\ \A i \in 1..n-1 : dir.names[i] = new.names[i]
  BY dirnameSplit
<1>2. dir \in AnyPaths /\ new \in AnyPaths
  <2>1. new # NoPath
    BY DEF NoPath
  <2> QED BY <2>1, dirnameFacts, NamedPaths
<1>3. /\ f[0] = Start(t, new)
      /\ \A i \in 1..n : f[i] = Onward(d, f[i - 1], new.names[i])
  BY DEF Trail
<1>4. u.status = "ok" /\ u.ret = 0 /\ v.status = "ok" /\ m.data.mode = "dir" /\ m = v.tab[v.ret]
  BY DEF LinkLooks, LinkAt, Mode, INode
<1> HIDE DEF dir, n, m, u
<1>5. Good(u) /\ Sound(u, h, a) /\ Leaves(t, u, h, d0)
  BY <1>2, getinoGood, getinoSound, getinoLays DEF Found, u
<1>6. Laid(u, d0) /\ Steady(d, u.disk) /\ Stay(t, u, h)
  BY <1>5 DEF Leaves
<1>7. /\ Fetched(u, v, h, a, d0) /\ y.status = "ok"
      /\ v.tab[v.ret].ino = y.ret /\ Steady(y.disk, v.disk)
  BY <1>2, <1>4, <1>5, <1>6, getMinodeLeaves
<1> HIDE DEF v, y
<1>8. /\ m.ino = y.ret /\ m.ino # 0 /\ m.ino \in Inos /\ Agrees(v.disk, m) /\ Steady(d, v.disk)
  <2>1. Agrees(v.disk, m) /\ Steady(u.disk, v.disk) /\ m \in Minodes
    BY <1>4, <1>7, StateFacts DEF Fetched, Leaves, GotMore
  <2>2. Steady(d, v.disk)
    BY <1>6, <2>1, SteadyFacts
  <2>3. m.ino \in 0..NInodes /\ m.ino # 0
    BY <2>1 DEF Minodes, m
  <2>4. m.ino \in Inos
    BY <2>3, SizesFacts DEF Inos
  <2> QED BY <1>4, <1>7, <2>1, <2>2, <2>3, <2>4
<1>9. m.data.mode = d.itab[m.ino].mode /\ m.data.block[1] = First(d, m.ino)
  BY <1>8, SteadyPlace
<1>10. ASSUME z = Place(d, m.ino) PROVE AtPlace(z, m)
  BY <1>4, <1>8, <1>9, <1>10 DEF AtPlace, Place
<1>11. ASSUME n # 1 PROVE AtPlace(z, m)
  <2>1. Start(u, dir) = f[0]
    BY <1>1, <1>3, <1>6, <1>11, StartStays
  <2>2. Trail(f, d, dir, Start(u, dir))
    <3>1. \A i \in 1..n-1 : i \in 1..n
      BY <1>1
    <3> QED BY <1>1, <1>3, <1>11, <2>1, <3>1 DEF Trail
  <2>3. IsAt(y, f[n - 1])
    <3>1. IsAt(getino(u, dir), f[Len(dir.names)])
      BY <1>1, <1>2, <1>4, <1>5, <1>6, <1>11, <2>2, getinoLeaves
    <3> QED BY <1>1, <1>11, <3>1 DEF y
  <2>4. z.ret = m.ino
    BY <1>7, <1>8, <2>3 DEF IsAt
  <2>5. z = Onward(d, f[n - 1 - 1], new.names[n - 1])
    <3>1. n - 1 \in 1..n
      BY <1>1, <1>11
    <3> QED BY <1>3, <3>1
  <2> HIDE DEF z
  <2>6. z = Place(d, m.ino)
    BY <1>8, <2>4, <2>5 DEF Onward, Nowhere, Place
  <2> QED BY <1>10, <2>6
<1> DEFINE slot == StartSlot(t, new)
           c == t.tab[slot]
<1>12. /\ c \in Minodes /\ InUse(c) /\ Agrees(d, c)
       /\ f[0].ret = -1 /\ f[0].mode = c.data.mode /\ f[0].first = c.data.block[1]
  <2>1. t.cwd \in Slots /\ RootSlot \in Slots
    BY SoundFacts
  <2>2. Pins(t, RootSlot) >= 1 /\ Pins(t, t.cwd) >= 1
    BY DEF Pins
  <2>3. c \in Minodes /\ InUse(c)
    BY <2>1, <2>2, SoundFacts DEF StartSlot
  <2>4. Agrees(d, c)
    BY <2>1, <2>3 DEF Laid, StartSlot
  <2> QED BY <1>3, <2>3, <2>4 DEF Start
<1>13. ASSUME c.ino = m.ino, n = 1 PROVE AtPlace(z, m)
  <2>1. c.data.mode = d.itab[m.ino].mode /\ c.data.block[1] = First(d, m.ino)
    BY <1>8, <1>12, <1>13 DEF Agrees
  <2>2. z = f[0]
    BY <1>13
  <2> QED BY <1>4, <1>9, <1>12, <2>1, <2>2 DEF AtPlace
<1>14. ASSUME n = 1, new.abs PROVE AtPlace(z, m)
  <2>1. y = Returns(u, Root) /\ u \in States
    BY <1>1, <1>5, <1>14, StateFacts DEF getino, y
  <2>2. y.ret = Root
    BY <2>1 DEF Returns, States
  <2>3. c.ino = Root
    BY <1>14, SoundFacts DEF StartSlot
  <2> QED BY <1>8, <1>13, <1>14, <2>2, <2>3
<1>15. ASSUME n = 1, ~new.abs PROVE AtPlace(z, m)
  <2>1. dir = Dot /\ dir.abs = FALSE /\ dir.names = <<".">> /\ dir # Slash
    BY <1>1, <1>15 DEF Dot, Slash
  <2>2. Start(u, dir) = f[0]
    <3>1. new.abs = dir.abs
      BY <1>15, <2>1 DEF Paths
    <3> QED BY <1>3, <1>6, <3>1, StartStays
  <2>3. PICK k : Trail(k, d, dir, Start(u, dir))
    BY <1>2, TrailExists
  <2>4. Len(dir.names) = 1 /\ dir.names[1] = "."
    BY <2>1
  <2>5. k[1] = Onward(d, f[0], ".")
    BY <2>2, <2>3, <2>4 DEF Trail
  <2>6. IsAt(y, k[1])
    BY <1>2, <1>4, <1>5, <1>6, <2>1, <2>3, <2>4, getinoLeaves DEF y
  <2>7. k[1].ret = m.ino
    BY <1>7, <1>8, <2>6 DEF IsAt
  <2> DEFINE b == f[0].first
             i == LookIn(d, b, ".")
  <2>8. i = m.ino /\ b # 0
    <3>1. k[1] = Nowhere \/ (k[1] = Place(d, i) /\ i # 0)
      BY <2>5 DEF Onward
    <3>2. k[1] # Nowhere
      BY <1>8, <2>7 DEF Nowhere
    <3>3. i = m.ino /\ i # 0
      BY <2>7, <3>1, <3>2 DEF Place
    <3>4. LookIn(d, 0, ".") = 0
      BY DEF LookIn
    <3> HIDE DEF b
    <3>5. b # 0
      BY <3>3, <3>4
    <3> QED BY <3>3, <3>5
  <2>9. b \in Blocks
    <3>1. 1 \in 1..NDirect+1
      BY SizesFacts
    <3> QED BY <1>12, <3>1 DEF Minodes, InodeRecs
  <2>10. Shaped(d.blk[b]) /\ d.blk[b] \in Block
    BY <2>8, <2>9, StateFacts DEF Laid, Orderly, BlocksShaped, Used
  <2> HIDE DEF b
  <2>11. <<".", i>> \in Ents(d.blk[b])
    BY <1>8, <2>8, <2>10, LookInEnts
  <2>12. Selves(d.blk[b], c.ino)
    BY <1>12, <2>8 DEF Agrees, b
  <2>13. i = c.ino
    <3> HIDE DEF i
    <3> QED BY <2>11, <2>12 DEF Selves
  <2> QED BY <1>13, <1>15, <2>8, <2>13
<1>16. AtPlace(z, m)
  BY <1>11, <1>14, <1>15
<1> QED BY <1>16 DEF z, n, m

LEMMA LinkAbsent ==
  ASSUME NEW t, Good(t), NEW h, NEW a, Sound(t, h, a), t.status = "ok",
         NEW d0, Laid(t, d0), NEW new \in Paths, new.names # <<>>, LinkLooks(t, new),
         LinkAt(t, new) \in Minodes, LinkAt(t, new).ino # 0, LinkAt(t, new).data.block[1] # 0
  PROVE  Absent(t.disk.blk[LinkAt(t, new).data.block[1]], basename(new))
<1> DEFINE d == t.disk
           n == Len(new.names)
           m == LinkAt(t, new)
           b == m.data.block[1]
<1>1. new \in AnyPaths
  <2>1. new # NoPath
    BY DEF NoPath
  <2> QED BY <2>1, NamedPaths
<1>2. PICK f : Trail(f, d, new, Start(t, new))
  BY <1>1, TrailExists
<1>3. AtPlace(f[n - 1], m)
  BY <1>2, LinkPlace
<1>4. n \in 1..n /\ basename(new) = new.names[n]
  BY dirnameSplit
<1>5. f[n] = Onward(d, f[n - 1], basename(new))
  BY <1>2, <1>4 DEF Trail
<1>6. f[n].ret = 0
  <2>1. new # Slash
    BY DEF Slash
  <2>2. Steady(d, d)
    BY SteadyFacts
  <2>3. IsAt(getino(t, new), f[n])
    BY <1>1, <1>2, <2>1, <2>2, getinoLeaves
  <2> QED BY <2>3 DEF IsAt, LinkLooks
<1>7. LookIn(d, b, basename(new)) = 0
  <2> HIDE DEF m, n, d
  <2> QED BY <1>3, <1>5, <1>6, NotOnward
<1>8. b \in Blocks
  <2>1. 1 \in 1..NDirect+1
    BY SizesFacts
  <2> QED BY <2>1 DEF Minodes, InodeRecs
<1> QED BY <1>7, <1>8, NotFoundAbsent

LEMMA mylinkLaid ==
  ASSUME NEW s, Good(s), NEW a, Sound(s, None, a), s.status = "ok", Tidy,
         NEW old \in Paths, old.names # <<>>, NEW new \in Paths, new.names # <<>>,
         basename(new) \notin Dots, NEW d0, Laid(s, d0), Same(d0, s.disk)
  PROVE  Laid(mylink(s, old, new), d0)
<1> DEFINE op == [abs |-> FALSE, names |-> <<basename(old)>>]
           t == getMinode(s, op)
           omip == t.ret
           u == getino(t, new)
           v == getMinode(u, dirname(new))
           nmip == v.ret
           w == [v EXCEPT !.tab[omip].dirty = TRUE]
           ino == w.tab[omip].ino
           x == enter_name(w, nmip, ino, basename(new))
           links == Links(x.tab[omip].data.links + 1)
           y == [x EXCEPT !.tab[omip].data.links = links]
           z == iput(y, omip)
           g == More(None, omip)
           h == More(g, nmip)
           r == mylink(s, old, new)
<1>1. r = IF t.status = "ok"
          THEN IF u.status = "ok"
               THEN IF u.ret # 0 THEN u
                    ELSE IF Mode(u, omip) = "file"
                    THEN IF v.status = "ok"
                         THEN IF Mode(v, nmip) # "dir" THEN v
                              ELSE IF x.status = "ok" THEN iput(z, nmip) ELSE x
                         ELSE v
                    ELSE IF Mode(u, omip) = "dir" THEN iput(u, omip) ELSE u
               ELSE u
          ELSE t
  BY DEF mylink, Then
<1>2. /\ basename(new) \in EntryNames /\ dirname(new) \in AnyPaths
      /\ op \in AnyPaths /\ new \in AnyPaths
  BY dirnameFacts, linkPaths
<1> HIDE DEF op, r
<1>3. Fetched(s, t, None, a, d0)
  BY <1>2, getMinodeLeaves
<1>4. Laid(t, d0) /\ Same(d0, t.disk)
  BY <1>3, SteadyGrows DEF Fetched, Leaves
<1>5. t.status = "ok" => /\ omip \in Slots /\ Good(t) /\ Sound(t, g, a)
                         /\ g \in Held /\ g[omip] >= 1
  <2>1. t.status = "ok" => omip \in Slots /\ Good(t) /\ Sound(t, g, a)
    BY <1>3 DEF Fetched, GotMore
  <2> QED BY <2>1, NoneFacts
<1> HIDE DEF t, g, omip
<1>6. t.status = "ok" => Good(u) /\ Sound(u, g, a) /\ Leaves(t, u, g, d0)
  BY <1>2, <1>4, <1>5, getinoGood, getinoSound, getinoLays DEF Found
<1>7. t.status = "ok" => Laid(u, d0) /\ Same(d0, u.disk) /\ Steady(t.disk, u.disk)
  BY <1>4, <1>6, SteadyGrows DEF Leaves
<1>8. ASSUME t.status = "ok", u.status = "ok" PROVE Laid(iput(u, omip), d0)
  <2>1. u \in States /\ InUse(u.tab[omip])
    BY <1>5, <1>6, <1>8, SoundFacts
  <2> QED BY <1>5, <1>7, <1>8, <2>1, iputLeaves DEF Leaves
<1>9. t.status = "ok" /\ u.status = "ok" => Fetched(u, v, g, a, d0)
  BY <1>2, <1>6, <1>7, getMinodeLeaves
<1>10. t.status = "ok" /\ u.status = "ok" =>
         Laid(v, d0) /\ Same(d0, v.disk) /\ Steady(t.disk, v.disk)
  BY <1>7, <1>9, SteadyGrows, SteadyFacts DEF Fetched, Leaves
<1>11. ASSUME t.status = "ok", u.status = "ok", u.ret = 0, Mode(u, omip) = "file",
              v.status = "ok", Mode(v, nmip) = "dir"
       PROVE  Laid(IF x.status = "ok" THEN iput(z, nmip) ELSE x, d0)
  <2>1. LinkLooks(t, new) /\ LinkAt(t, new) = v.tab[nmip]
    BY <1>11 DEF LinkLooks, LinkAt
  <2> HIDE DEF u, v, nmip
  <2>2. /\ omip \in Slots /\ nmip \in Slots /\ Good(v) /\ Sound(v, h, a)
        /\ InUse(v.tab[nmip]) /\ v.tab[nmip] \in Minodes
    <3>1. nmip \in Slots /\ Good(v) /\ Sound(v, h, a) /\ InUse(v.tab[nmip])
      BY <1>9, <1>11 DEF Fetched, GotMore, nmip
    <3> QED BY <1>5, <1>11, <3>1, StateFacts
  <2>3. /\ h \in Held /\ h[omip] >= 1 /\ h[nmip] >= 1
        /\ \A q \in Slots : h[q] \in Nat /\ More(None, nmip)[q] \in Nat
        /\ \A q \in Slots \ {omip} : More(None, nmip)[q] <= h[q]
        /\ More(None, nmip)[omip] + 1 <= h[omip]
        /\ More(None, nmip)[nmip] >= 1
    <3>1. \A q \in Slots : h[q] = (IF q = omip THEN 1 ELSE 0) + (IF q = nmip THEN 1 ELSE 0)
      BY <1>5, <1>11, <2>2, NoneFacts DEF g, h, More, Held
    <3>2. h \in Held
      BY <1>5, <1>11, <2>2, MoreFacts DEF h
    <3>3. \A q \in Slots : More(None, nmip)[q] = IF q = nmip THEN 1 ELSE 0
      BY <2>2, NoneFacts
    <3> QED BY <2>2, <3>1, <3>2, <3>3
  <2>4. v.tab[omip].data.mode = "file" /\ InUse(v.tab[omip]) /\ v.tab[omip] \in Minodes
    <3>1. v.tab[omip].data = u.tab[omip].data
      BY <1>5, <1>9, <1>11 DEF Fetched, Leaves, Stay
    <3> QED BY <1>11, <2>2, <2>3, <3>1, SoundFacts DEF Mode, INode
  <2>5. Good(w) /\ Sound(w, h, a) /\ w.status = "ok"
    BY <1>11, <2>2, <2>3, DirtyGood, DirtySound
  <2>6. Slotted(v, w, omip, Changed(v.tab[omip], TRUE, v.tab[omip].data))
    BY <2>2, StateFacts, DirtySlotted
  <2>7. Laid(w, d0)
    BY <1>10, <1>11, <2>2, StateFacts, DirtyLaid
  <2> HIDE DEF w
  <2>8. /\ w.disk = v.disk /\ w.tab[omip].ino = v.tab[omip].ino
        /\ InUse(w.tab[nmip]) /\ w.tab[nmip].ino = v.tab[nmip].ino
        /\ w.tab[nmip].data = v.tab[nmip].data
    <3> DEFINE m == Changed(v.tab[omip], TRUE, v.tab[omip].data)
    <3>1. m.ref = v.tab[omip].ref /\ m.ino = v.tab[omip].ino /\ m.data = v.tab[omip].data
      <4>1. v.tab[omip].data \in InodeRecs
        BY <2>4 DEF Minodes
      <4> QED BY <2>4, <4>1, ChangedFacts
    <3> HIDE DEF m
    <3> QED BY <2>2, <2>6, <3>1 DEF Slotted, InUse, m
  <2>9. ParentReady(w, nmip, basename(new), d0)
    <3> DEFINE m == v.tab[nmip]
               b == m.data.block[1]
    <3>1. ASSUME m.ino # 0, b # 0 PROVE Absent(t.disk.blk[b], basename(new))
      BY <1>4, <1>5, <1>11, <2>1, <2>2, <3>1, LinkAbsent
    <3>2. v.disk.blk = t.disk.blk
      BY <1>10, <1>11 DEF Steady
    <3> QED BY <1>10, <1>11, <2>7, <2>8, <3>1, <3>2 DEF ParentReady
  <2>10. ~IsDir(w.disk, ino)
    <3>1. Agrees(v.disk, v.tab[omip])
      BY <1>10, <1>11, <2>2, <2>4 DEF Laid
    <3>2. ino \in Inos => ino # 0
      BY SizesFacts DEF Inos
    <3> QED BY <2>4, <2>8, <3>1, <3>2 DEF IsDir, Agrees
  <2>11. ino \in Nameable(w.disk)
    BY <2>2, <2>5, StateFacts
  <2> HIDE DEF ino
  <2>12. EnterReady(w, nmip, ino, basename(new), d0)
    BY <2>9, <2>10 DEF EnterReady, ChildReady
  <2>13. Laid(x, d0)
    BY <1>2, <2>2, <2>5, <2>11, <2>12, enter_nameLaid DEF Entered
  <2>14. Good(x) /\ Sound(x, h, a) /\ Frame(w, x)
    BY <1>2, <2>2, <2>5, <2>11, enter_nameGood, enter_nameSound
  <2> HIDE DEF x
  <2>15. CASE x.status # "ok"
    BY <2>13, <2>15
  <2>16. CASE x.status = "ok"
    <3>1. links \in 0..LinkModulus-1
      <4>1. x.tab[omip].data \in InodeRecs
        BY <2>2, <2>14, SoundFacts
      <4>2. x.tab[omip].data.links \in 0..LinkModulus-1
        BY <4>1 DEF InodeRecs
      <4>3. x.tab[omip].data.links \in Int
        BY <4>2, LinksRange
      <4>4. x.tab[omip].data.links + 1 \in Int
        BY <4>3
      <4> QED BY <4>4, LinksRange
    <3> HIDE DEF links
    <3>2. Sound(y, h, a) /\ y.status = "ok"
      BY <2>2, <2>14, <2>16, <3>1, LinksSound
    <3>3. Laid(y, d0)
      BY <2>2, <2>13, <2>14, <3>1, StateFacts, LinksLaid
    <3> HIDE DEF y
    <3>4. y \in States /\ InUse(y.tab[omip]) /\ InUse(y.tab[nmip]) /\ y.tab[omip] \in Minodes
      BY <2>2, <2>3, <3>2, SoundFacts
    <3>5. Laid(z, d0)
      BY <2>2, <3>3, <3>4, iputLeaves DEF Leaves
    <3>6. z \in States /\ InUse(z.tab[nmip])
      <4>1. z \in States /\ \A q \in Slots \ {omip} : z.tab[q] = y.tab[q]
        BY <2>2, <3>4, iputEffect
      <4>2. nmip # omip
        BY <1>11, <2>4 DEF Mode, INode
      <4> QED BY <2>2, <3>4, <4>1, <4>2
    <3>7. Laid(iput(z, nmip), d0)
      BY <2>2, <3>5, <3>6, iputLeaves DEF Leaves
    <3> QED BY <2>16, <3>7
  <2> QED BY <2>15, <2>16
<1> HIDE DEF x, z
<1>12. Laid(r, d0)
  BY <1>1, <1>4, <1>7, <1>8, <1>10, <1>11
<1> QED BY <1>12 DEF r

-----------------------------------------------------------------------------
(* cd, ls, stat, pwd and quit add no record.                               *)

LEMMA chdirLaid ==
  ASSUME NEW s, Good(s), NEW a, Sound(s, None, a), s.status = "ok", NEW p \in Paths, p # NoPath,
         NEW d0, Laid(s, d0)
  PROVE  Laid(chdir(s, p), d0)
<1> DEFINE t == getMinode(s, p)
           u == iput(t, t.cwd)
           r == [u EXCEPT !.cwd = t.ret]
<1>1. chdir(s, p) = IF t.status # "ok" \/ Mode(t, t.ret) # "dir" THEN t ELSE r
  BY DEF chdir, Then
<1>2. Fetched(s, t, None, a, d0)
  BY NamedPaths, getMinodeLeaves
<1> HIDE DEF t
<1>3. Laid(t, d0)
  BY <1>2 DEF Fetched, Leaves
<1>4. ASSUME t.status = "ok" PROVE Laid(r, d0)
  <2>1. t.ret \in Slots /\ t.cwd \in Slots /\ t \in States /\ InUse(t.tab[t.cwd])
    <3>1. t.ret \in Slots /\ Sound(t, More(None, t.ret), a)
      BY <1>2, <1>4 DEF Fetched, GotMore
    <3>2. t.cwd \in Slots /\ Pins(t, t.cwd) >= 1
      BY <3>1, SoundFacts DEF Pins
    <3> QED BY <1>4, <3>1, <3>2, SoundFacts
  <2>2. Laid(u, d0)
    BY <1>3, <2>1, iputLeaves DEF Leaves
  <2>3. u \in States
    BY <2>1, iputEffect
  <2> HIDE DEF u
  <2>4. r.disk = u.disk /\ r.imgs = u.imgs /\ r.tab = u.tab
    BY <2>3 DEF States
  <2> QED BY <2>2, <2>4, LaidTable DEF Laid
<1> QED BY <1>1, <1>3, <1>4

LEMMA printLaid ==
  ASSUME NEW s, Good(s), NEW slot, NEW d0, Laid(s, d0)
  PROVE  Laid(print(s, slot), d0)
<1> DEFINE inode == INode(s, slot)
           i == Lowest(Stops(s, inode))
           end == Walk(DataBlock(s, inode, i)).end
           r == print(s, slot)
<1>1. r = s \/ r = Fails(s, "wild") \/ r = Fails(s, end)
  BY DEF print
<1>2. s \in States
  BY StateFacts
<1> HIDE DEF end, r
<1>3. r.disk = s.disk /\ r.imgs = s.imgs /\ r.tab = s.tab
  BY <1>1, <1>2 DEF Fails, States
<1>4. Laid(r, d0)
  BY <1>3, LaidTable DEF Laid
<1> QED BY <1>4 DEF r

LEMMA lsLaid ==
  ASSUME NEW s, Good(s), NEW a, Sound(s, None, a), s.status = "ok", NEW p \in Paths,
         NEW d0, Laid(s, d0)
  PROVE  Laid(ls(s, p), d0) /\ (p # NoPath => Laid(my_stat(s, p), d0))
<1> DEFINE t == getMinode(s, p)
<1>1. CASE p = NoPath
  BY <1>1, printLaid DEF ls
<1>2. CASE p # NoPath
  <2>1. ls(s, p) = (IF t.status = "ok" THEN print(t, t.ret) ELSE t)
        /\ my_stat(s, p) = (IF t.status = "ok" THEN iput(t, t.ret) ELSE t)
    BY <1>2 DEF ls, my_stat, Then
  <2>2. Fetched(s, t, None, a, d0)
    BY <1>2, NamedPaths, getMinodeLeaves
  <2> HIDE DEF t
  <2>3. Laid(t, d0) /\ Good(t)
    BY <2>2 DEF Fetched, Leaves, GotMore
  <2>4. Laid(print(t, t.ret), d0)
    BY <2>3, printLaid
  <2>5. t.status = "ok" => Laid(iput(t, t.ret), d0)
    <3>1. t.status = "ok" => t.ret \in Slots /\ InUse(t.tab[t.ret])
      BY <2>2 DEF Fetched, GotMore
    <3> QED BY <2>3, <3>1, StateFacts, iputLeaves DEF Leaves
  <2> QED BY <2>1, <2>3, <2>4, <2>5
<1> QED BY <1>1, <1>2

LEMMA searchLaid ==
  ASSUME NEW s, Good(s), NEW slot, NEW name, NEW d0, Laid(s, d0)
  PROVE  Laid(search(s, slot, name), d0)
<1> DEFINE t == search(s, slot, name)
<1>1. t.disk = s.disk /\ t.imgs = s.imgs /\ t.tab = s.tab
  BY StateFacts, searchSame
<1> HIDE DEF t
<1>2. Laid(t, d0)
  BY <1>1, LaidTable DEF Laid
<1> QED BY <1>2 DEF t

LEMMA rpwdUpLaid ==
  ASSUME NEW t, Good(t), NEW h, NEW a, Sound(t, h, a), NEW d0, Laid(t, d0)
  PROVE  Laid(rpwdUp(t), d0)
<1> DEFINE u == search(t, t.mip, ".")
           v == search(u, u.mip, "..")
           w == iget(v, v.ret)
           b == w.disk.blk[INode(w, w.ret).block[1]]
           r == rpwdUp(t)
<1>1. \/ r = t
      \/ /\ t.status = "ok"
         /\ \/ r = u
            \/ /\ u.status = "ok"
               /\ \/ r = v
                  \/ /\ v.status = "ok"
                     /\ \/ r = w
                        \/ r = [w EXCEPT !.mip = w.ret]
                        \/ r = Fails(w, "wild") \/ r = Fails(w, Walk(b).end)
  BY DEF rpwdUp, Then
<1> HIDE DEF r
<1>2. t.status = "ok" => Good(u) /\ Sound(u, h, a) /\ Laid(u, d0)
  BY StateFacts, searchGood, searchSound, searchLaid
<1> HIDE DEF u
<1>3. t.status = "ok" /\ u.status = "ok" =>
        /\ Good(v) /\ Sound(v, h, a) /\ Laid(v, d0)
        /\ v.status = "ok" => v.ret \in Nameable(v.disk)
  BY <1>2, StateFacts, searchGood, searchSound, searchLaid
<1> HIDE DEF v
<1>4. t.status = "ok" /\ u.status = "ok" /\ v.status = "ok" => Laid(w, d0) /\ Good(w)
  BY <1>3, NameableFacts, igetLeaves, igetGood DEF Leaves
<1> HIDE DEF w, b
<1>5. ASSUME Laid(w, d0), Good(w),
             \/ r = [w EXCEPT !.mip = w.ret]
             \/ r = Fails(w, "wild") \/ r = Fails(w, Walk(b).end)
      PROVE  Laid(r, d0)
  <2>1. w \in States
    BY <1>5, StateFacts
  <2>2. r.disk = w.disk /\ r.imgs = w.imgs /\ r.tab = w.tab
    BY <1>5, <2>1 DEF Fails, States
  <2> QED BY <1>5, <2>2, LaidTable DEF Laid
<1>6. Laid(r, d0)
  BY <1>1, <1>2, <1>3, <1>4, <1>5
<1> QED BY <1>6 DEF r

\* pwd, by a command that found disk x.d0.
StaysLaid(x, t, i) == StaysSound(x, t, i) /\ Laid(t, x.d0)

LaidRpwdLoop == INSTANCE Loops WITH Pass <- RpwdPass, Keeps <- StaysLaid

LEMMA pwdLaid ==
  ASSUME NEW s, Good(s), NEW a, Sound(s, None, a), s.status = "ok", NEW d0, Laid(s, d0)
  PROVE  Laid(pwd(s), d0)
<1> DEFINE x == [h |-> None, a |-> a, d0 |-> d0]
           start == [s EXCEPT !.mip = s.cwd]
           top == LaidRpwdLoop!After(x, start, NInodes)
<1>1. pwd(s) = IF top.status = "ok" /\ top.mip # RootSlot THEN Fails(top, "segv") ELSE top
  BY DEF pwd, rpwd, Loop, LaidRpwdLoop!After, RpwdPass
<1>2. NInodes \in Nat /\ s.cwd \in Slots /\ s \in States /\ x.h = None /\ x.a = a /\ x.d0 = d0
  BY SizesFacts, StateFacts
<1> HIDE DEF x
<1>3. /\ start \in States /\ start.disk = s.disk /\ start.imgs = s.imgs /\ start.tab = s.tab
      /\ start.cwd = s.cwd
  BY <1>2 DEF States
<1>4. Good(start)
  BY <1>2, WalksGood
<1> HIDE DEF start
<1>5. Laid(start, d0)
  BY <1>3, LaidTable DEF Laid
<1>6. StaysLaid(x, start, 0)
  BY <1>2, <1>3, <1>4, <1>5, SoundRest DEF StaysLaid, StaysSound
<1>7. ASSUME NEW i \in 1..NInodes, NEW t, StaysLaid(x, t, i - 1)
      PROVE  StaysLaid(x, RpwdPass(x, t, i), i)
  BY <1>7, rpwdUpGood, rpwdUpSound, rpwdUpLaid DEF StaysLaid, StaysSound, RpwdPass
<1>8. Laid(top, d0) /\ top \in States
  BY <1>2, <1>6, <1>7, NatSet, LaidRpwdLoop!LoopKeeps, StateFacts DEF StaysLaid, StaysSound
<1> HIDE DEF top
<1> DEFINE r == Fails(top, "segv")
<1>9. r.disk = top.disk /\ r.imgs = top.imgs /\ r.tab = top.tab
  BY <1>8 DEF Fails, States
<1> HIDE DEF r
<1>10. Laid(r, d0)
  BY <1>8, <1>9, LaidTable DEF Laid
<1> QED BY <1>1, <1>8, <1>10 DEF r

PutsLaid(x, t, i) == t \in States /\ Laid(t, x)

LaidPutLoop == INSTANCE Loops WITH Pass <- PutPass, Keeps <- PutsLaid

LEMMA putAllLaid ==
  ASSUME NEW s \in States, NEW d0, Laid(s, d0)
  PROVE  Laid(putAll(s), d0)
<1>1. putAll(s) = LaidPutLoop!After(d0, s, NMINODE)
  BY DEF putAll, Loop, LaidPutLoop!After, PutPass
<1>2. NMINODE \in Nat /\ PutsLaid(d0, s, 0)
  BY SizesFacts DEF PutsLaid
<1>3. ASSUME NEW i \in 1..NMINODE, NEW t, PutsLaid(d0, t, i - 1)
      PROVE  PutsLaid(d0, PutPass(d0, t, i), i)
  <2>1. i \in Slots /\ t \in States /\ Laid(t, d0)
    BY <1>3 DEF Slots, PutsLaid
  <2>2. t.tab[i].ref > 0 => InUse(t.tab[i])
    BY <2>1 DEF InUse, States, Minodes
  <2>3. t.tab[i].ref > 0 => iput(t, i) \in States /\ Laid(iput(t, i), d0)
    BY <2>1, <2>2, iputEffect, iputLeaves DEF Leaves
  <2> QED BY <2>1, <2>3 DEF PutsLaid, PutPass, putSlot
<1>4. PutsLaid(d0, LaidPutLoop!After(d0, s, NMINODE), NMINODE)
  BY <1>2, <1>3, NatSet, LaidPutLoop!LoopKeeps
<1> QED BY <1>1, <1>4 DEF PutsLaid

-----------------------------------------------------------------------------
(* The program, with its directories: nothing is removed, and nothing is   *)
(* made with the name "." or "..".                                         *)

Plain ==
  /\ \A p \in MkdirPaths \cup CreatPaths : basename(p) \notin Dots
  /\ \A lp \in LinkPairs : basename(lp[2]) \notin Dots

(* The inductive invariant: the directories on the disk are in order, and  *)
(* each minode says of its inode what the disk says.                       *)
InOrder ==
  /\ Orderly(disk)
  /\ \A q \in Slots : InUse(tab[q]) => Agrees(disk, tab[q])

LEMMA ImageOrderly == Orderly(Image)
<1> DEFINE root == DotBlock(ZeroBlock, Root, Root)
           d == Image
<1>1. /\ Root \in 0..NInodes /\ Root \in Inos /\ RootBlock \in Used
      /\ RootBlock - 1 \in d.bmap
  BY SizesFacts DEF Image, Inos, Used, RootBlock
<1>2. (\E q : Chain(root, q)) /\ Ents(root) = {<<".", Root>>, <<"..", Root>>}
  BY <1>1, ZeroBlockOK, DotBlockEnts
<1>3. /\ \A b \in Used : d.blk[b] = IF b = RootBlock THEN root ELSE ZeroBlock
      /\ \A i \in Inos : d.itab[i] = IF i = Root THEN Inode("dir", 2, RootBlock) ELSE FreeInode
  BY DEF Image, Used
<1> HIDE DEF root, d
<1>4. /\ \A i \in Inos : First(d, i) = IF i = Root THEN RootBlock ELSE 0
      /\ \A i \in Inos : \A k \in 2..NDirect+1 : d.itab[i].block[k] = 0
  BY <1>3, InodeParts DEF First, FreeInode
<1>5. \A b \in Used : \A e \in Ents(d.blk[b]) :
        b = RootBlock /\ (e = <<".", Root>> \/ e = <<"..", Root>>)
  BY <1>2, <1>3, ZeroWalk
<1>6. \A b \in Used : \A e \in Ents(d.blk[b]) : e[1] \in Dots /\ e[2] = Root
  BY <1>5 DEF Dots
<1>7. BlocksShaped(d)
  BY <1>1, <1>2, <1>3 DEF BlocksShaped, Shaped
<1>8. RestsZero(d)
  BY <1>4 DEF RestsZero, RestZero
<1>9. FirstsUnique(d)
  <2>1. RootBlock # 0 /\ Root # 0
    BY <1>1 DEF Used, Root
  <2>2. Unique(d.blk[RootBlock])
    <3>1. <<".", Root>>[1] # <<"..", Root>>[1]
      OBVIOUS
    <3> QED BY <1>1, <1>5, <3>1 DEF Unique
  <2>3. Selves(d.blk[RootBlock], Root)
    BY <1>1, <1>6 DEF Selves
  <2> QED BY <1>4, <2>2, <2>3 DEF FirstsUnique
<1>10. OneNameEach(d)
  BY <1>6 DEF OneNameEach
<1>11. BackToParent(d)
  <2>1. \A i \in Inos : First(d, i) # 0 => First(d, i) \in Used
    BY <1>1, <1>4
  <2> QED BY <1>6, <2>1 DEF BackToParent
<1> QED BY <1>7, <1>8, <1>9, <1>10, <1>11 DEF Orderly, d

(* init() and mount_root() load the root's inode.                          *)
LEMMA MountedAgrees ==
  ASSUME NEW d \in Disks, Orderly(d)
  PROVE  \A q \in Slots : InUse(MountedTable(d)[q]) => Agrees(d, MountedTable(d)[q])
<1> DEFINE root == [ref |-> 3, ino |-> Root, dirty |-> FALSE, data |-> d.itab[Root]]
<1>1. \A q \in Slots : MountedTable(d)[q] = IF q = RootSlot THEN root ELSE FreeMinode
  BY DEF MountedTable
<1>2. ~InUse(FreeMinode)
  BY DEF InUse, FreeMinode
<1>3. Agrees(d, root)
  <2>1. Root \in 0..NInodes /\ Root # 0
    BY SizesFacts DEF Inos, Root
  <2>2. Agrees(d, Loaded(Root, d.itab[Root]))
    BY <2>1, AgreesLoaded
  <2>3. Alike(Loaded(Root, d.itab[Root]), root)
    BY DEF Alike, Loaded
  <2> HIDE DEF root
  <2> QED BY <2>2, <2>3, AgreesAlike
<1> QED BY <1>1, <1>2, <1>3

\* What a step does to the directories.
Order == InOrder' /\ Grows(disk, disk')

LEMMA FinishOrder == \A s : Laid(s, disk) /\ Finish(s) => Order
BY DEF Laid, Finish, InOrder, Order

LEMMA MountOrder ==
  \A d : GoodDisk(d) /\ Orderly(d) /\ Grows(disk, d) /\ Mount(d) => Order
<1> SUFFICES ASSUME NEW CONSTANT d, GoodDisk(d), Orderly(d), Grows(disk, d), Mount(d)
             PROVE  Order
  OBVIOUS
<1>1. d \in Disks
  BY DEF GoodDisk
<1> QED BY <1>1, MountedAgrees DEF Mount, InOrder, Order

LEMMA KillOrder == \A s : Good(s) /\ Laid(s, disk) /\ KillIn(s) => Order
BY MountOrder DEF KillIn, Good, Laid

LEMMA InitOrder == Init => InOrder
<1> SUFFICES ASSUME Init PROVE InOrder
  OBVIOUS
<1>1. Image \in Disks
  BY ImageGood DEF GoodDisk
<1> QED BY <1>1, ImageOrderly, MountedAgrees DEF Init, InOrder

LEMMA HereLaid ==
  ASSUME InOrder
  PROVE  Laid(Here, disk) /\ Same(disk, Here.disk) /\ Grows(disk, disk)
<1>1. Here.disk = disk /\ Here.imgs = {} /\ Here.tab = tab
  BY DEF Here
<1> QED BY <1>1, SameGrows DEF Laid, InOrder

LEMMA CommandsLaid ==
  ASSUME Calm, Tidy, Plain, Serves, InOrder, status = "ok"
  PROVE  /\ Laid(pwd(Here), disk)
         /\ \A p \in MkdirPaths : Laid(make_dir(Here, p), disk)
         /\ \A p \in CreatPaths : Laid(creat_file(Here, p), disk)
         /\ \A lp \in LinkPairs : Laid(mylink(Here, lp[1], lp[2]), disk)
         /\ \A p \in CdPaths : Laid(chdir(Here, p), disk)
         /\ \A p \in LookPaths : /\ Laid(ls(Here, p), disk)
                                 /\ p # NoPath => Laid(my_stat(Here, p), disk)
<1> DEFINE h == Here
           a == disk.imap
           d0 == disk
<1>0. /\ Good(h) /\ Sound(h, None, a) /\ h.status = "ok" /\ Kept /\ Laid(h, d0)
      /\ Same(d0, h.disk)
  BY HereLaid DEF Serves, Inv, Here, Calm, Kept
<1>1. h = Here /\ d0 = disk
  OBVIOUS
<1> HIDE DEF h, a, d0
<1>2. Laid(pwd(h), d0)
  BY <1>0, pwdLaid
<1>3. ASSUME NEW p \in MkdirPaths PROVE Laid(make_dir(h, p), d0)
  <2>1. p \in Paths /\ p.names # <<>> /\ basename(p) \notin Dots
    BY <1>3, PathsAssumption DEF Plain
  <2> QED BY <1>0, <2>1, newChildLaid DEF make_dir
<1>4. ASSUME NEW p \in CreatPaths PROVE Laid(creat_file(h, p), d0)
  <2>1. p \in Paths /\ p.names # <<>> /\ basename(p) \notin Dots
    BY <1>4, PathsAssumption DEF Plain
  <2> QED BY <1>0, <2>1, newChildLaid DEF creat_file
<1>5. ASSUME NEW lp \in LinkPairs PROVE Laid(mylink(h, lp[1], lp[2]), d0)
  <2>1. \A i \in 1..2 : lp[i] \in Paths /\ lp[i].names # <<>>
    BY PathsAssumption
  <2>2. 1 \in 1..2 /\ 2 \in 1..2
    OBVIOUS
  <2>3. lp[1] \in Paths /\ lp[1].names # <<>> /\ lp[2] \in Paths /\ lp[2].names # <<>>
    BY <2>1, <2>2
  <2>4. basename(lp[2]) \notin Dots
    BY <1>5 DEF Plain
  <2> QED BY <1>0, <2>3, <2>4, mylinkLaid
<1>6. ASSUME NEW p \in CdPaths PROVE Laid(chdir(h, p), d0)
  <2>1. p \in Paths /\ p # NoPath
    BY <1>6, PathsAssumption DEF Calm
  <2> QED BY <1>0, <2>1, chdirLaid
<1>7. ASSUME NEW p \in LookPaths PROVE Laid(ls(h, p), d0) /\ (p # NoPath => Laid(my_stat(h, p), d0))
  BY <1>0, <1>7, PathsAssumption, lsLaid
<1> QED BY <1>1, <1>2, <1>3, <1>4, <1>5, <1>6, <1>7

LEMMA QuitLaid ==
  ASSUME Serves, InOrder
  PROVE  Good(putAll(Here)) /\ Laid(putAll(Here), disk)
<1> DEFINE h == Here
           d0 == disk
<1>1. Good(h) /\ Laid(h, d0)
  BY HereLaid DEF Serves, Inv
<1>2. h = Here /\ d0 = disk
  OBVIOUS
<1> HIDE DEF h, d0
<1>3. h \in States
  BY <1>1, StateFacts
<1> QED BY <1>1, <1>2, <1>3, putAllGood, putAllLaid

LEMMA NextOrder == Calm /\ Tidy /\ Plain /\ Serves /\ InOrder /\ Next => Order
<1> SUFFICES ASSUME Calm, Tidy, Plain, Serves, InOrder, Next PROVE Order
  OBVIOUS
<1>1. CASE Mkdir
  BY <1>1, FinishOrder, CommandsLaid DEF Mkdir, Command
<1>2. CASE Creat
  BY <1>2, FinishOrder, CommandsLaid DEF Creat, Command
<1>3. CASE Rmdir
  BY <1>3 DEF Rmdir, Calm
<1>4. CASE Link
  BY <1>4, FinishOrder, CommandsLaid DEF Link, Command
<1>5. CASE Unlink
  BY <1>5 DEF Unlink, Tidy
<1>6. CASE Cd
  BY <1>6, FinishOrder, CommandsLaid DEF Cd, Command
<1>7. CASE Ls
  BY <1>7, FinishOrder, CommandsLaid DEF Ls, Command
<1>8. CASE Stat
  BY <1>8, FinishOrder, CommandsLaid DEF Stat, Command
<1>9. CASE Pwd
  BY <1>9, FinishOrder, CommandsLaid DEF Pwd, Command
<1>10. CASE Quit
  BY <1>10, QuitLaid, MountOrder DEF Quit, Good, Laid
<1>11. CASE Restart
  BY <1>11, QuitServes, HereLaid, MountOrder DEF Restart, InOrder
<1>12. CASE Kill
  <2>1. status = "ok"
    BY <1>12 DEF Kill, Command
  <2>2. \/ \E p \in MkdirPaths : KillIn(make_dir(Here, p))
        \/ \E p \in CreatPaths : KillIn(creat_file(Here, p))
        \/ \E lp \in LinkPairs : KillIn(mylink(Here, lp[1], lp[2]))
        \/ KillIn(putAll(Here))
        \/ Mount(disk)
    BY <1>12 DEF Kill, Calm, Tidy
  <2>3. \A s : Ended(s) => Good(s)
    BY DEF Ended
  <2>4. Mount(disk) => Order
    BY QuitServes, HereLaid, MountOrder DEF InOrder
  <2> QED BY <2>1, <2>2, <2>3, <2>4, CommandsEnd, CommandsLaid, QuitLaid, KillOrder
<1> QED BY <1>1, <1>2, <1>3, <1>4, <1>5, <1>6, <1>7, <1>8, <1>9, <1>10, <1>11, <1>12 DEF Next

(* The invariant holds of every behaviour in which nothing is removed,     *)
(* every cd names a directory and nothing is named "." or "..": whatever   *)
(* commands run, fail for want of an inode, a block or a minode, overrun a *)
(* directory block, or are killed.                                         *)
THEOREM AlwaysInOrder ==
  ASSUME Calm, Tidy, Plain
  PROVE  Spec => [](Serves /\ InOrder)
<1>1. Serves /\ InOrder /\ [Next]_vars => InOrder'
  <2> SUFFICES ASSUME Serves, InOrder, [Next]_vars PROVE InOrder'
    OBVIOUS
  <2>1. CASE UNCHANGED vars
    BY <2>1 DEF vars, InOrder
  <2> QED BY <2>1, NextOrder DEF Order
<1> QED BY <1>1, InitOrder, AlwaysServes, PTL DEF Spec

-----------------------------------------------------------------------------
(* The names in a directory are those of its first block.                  *)

\* The copy of inode i that the commands see.
Copy(d, t, i) == IF Cached(t, i) = {} THEN d.itab[i] ELSE t[Lowest(Cached(t, i))].data

EntsIn(d, i) == IF First(d, i) = 0 THEN {} ELSE Ents(d.blk[First(d, i)])

LEMMA CopyAgrees ==
  ASSUME NEW d \in Disks, NEW t \in [Slots -> Minodes], Orderly(d),
         \A q \in Slots : InUse(t[q]) => Agrees(d, t[q]), NEW i \in Inos
  PROVE  /\ Copy(d, t, i) \in InodeRecs
         /\ Copy(d, t, i).mode = d.itab[i].mode /\ Copy(d, t, i).block[1] = First(d, i)
         /\ RestZero(d, Copy(d, t, i))
<1> DEFINE hits == Cached(t, i)
           q == Lowest(hits)
<1>1. CASE hits = {}
  <2>1. d.itab[i] \in InodeRecs /\ RestZero(d, d.itab[i])
    BY FirstIn DEF Orderly, RestsZero
  <2> QED BY <1>1, <2>1 DEF Copy, First
<1>2. CASE hits # {}
  <2>1. q \in hits
    <3>1. hits \in SUBSET Nat
      BY SizesFacts DEF Cached
    <3> HIDE DEF hits
    <3> QED BY <1>2, <3>1, LowestIn DEF hits
  <2>2. q \in Slots /\ InUse(t[q]) /\ t[q].ino = i /\ t[q].data \in InodeRecs
    BY <2>1 DEF Cached, Minodes
  <2>3. Copy(d, t, i) = t[q].data
    BY <1>2 DEF Copy
  <2>4. Agrees(d, t[q]) /\ i # 0
    BY <2>2 DEF Inos
  <2> HIDE DEF q
  <2> QED BY <2>2, <2>3, <2>4 DEF Agrees
<1> QED BY <1>1, <1>2

LEMMA RecordsEnts ==
  ASSUME NEW d \in Disks, NEW inode \in InodeRecs, RestZero(d, inode), NEW i
  PROVE  {<<i, c.name, c.ino>> : c \in UNION {Records(d.blk[b]) : b \in BlocksOf(inode)}}
           = IF inode.block[1] = 0 THEN {} ELSE {<<i, e[1], e[2]>> : e \in Ents(d.blk[inode.block[1]])}
<1> DEFINE b1 == inode.block[1]
           R == UNION {Records(d.blk[b]) : b \in BlocksOf(inode)}
<1>1. NDirect \in Nat /\ NDirect >= 1
  BY SizesAssumption
<1>2. CASE b1 = 0
  <2>1. BlocksOf(inode) = {}
    BY <1>1, <1>2 DEF BlocksOf
  <2> QED BY <1>2, <2>1
<1>3. CASE b1 # 0
  <2>1. b1 \in BlocksOf(inode)
    <3>1. 1 \in {j \in 1..NDirect : \A l \in 1..j : inode.block[l] # 0}
      BY <1>1, <1>3
    <3> QED BY <3>1 DEF BlocksOf
  <2>2. ASSUME NEW b \in BlocksOf(inode) PROVE b = b1 \/ Records(d.blk[b]) = {}
    <3>1. PICK k \in 1..NDirect : b = inode.block[k] /\ \A l \in 1..k : inode.block[l] # 0
      BY DEF BlocksOf
    <3>2. k = 1 \/ k \in 2..NDirect+1
      BY <1>1
    <3>3. b # 0
      BY <3>1
    <3> QED BY <3>1, <3>2, <3>3, ZeroWalk DEF RestZero
  <2>3. R = Records(d.blk[b1])
    BY <2>1, <2>2
  <2> HIDE DEF R
  <2>4. {<<i, c.name, c.ino>> : c \in Records(d.blk[b1])} = {<<i, e[1], e[2]>> : e \in Ents(d.blk[b1])}
    <3> DEFINE S == Records(d.blk[b1])
               E == Ents(d.blk[b1])
    <3>1. E = {<<c.name, c.ino>> : c \in S}
      BY DEF Ents
    <3> HIDE DEF S, E
    <3>2. ASSUME NEW c \in S PROVE <<i, c.name, c.ino>> \in {<<i, e[1], e[2]>> : e \in E}
      <4>1. <<c.name, c.ino>> \in E
        BY <3>1
      <4> QED BY <4>1
    <3>3. ASSUME NEW e \in E PROVE <<i, e[1], e[2]>> \in {<<i, c.name, c.ino>> : c \in S}
      <4>1. PICK c \in S : e = <<c.name, c.ino>>
        BY <3>1
      <4>2. e[1] = c.name /\ e[2] = c.ino
        BY <4>1
      <4> QED BY <4>2
    <3>4. {<<i, c.name, c.ino>> : c \in S} = {<<i, e[1], e[2]>> : e \in E}
      BY <3>2, <3>3
    <3> QED BY <3>4 DEF S, E
  <2> QED BY <1>3, <2>3, <2>4 DEF R
<1> QED BY <1>2, <1>3

\* What the commands see of inode i is what is on the disk, but for the link count.
SeesDisk(i) ==
  /\ Seen(i).mode = disk.itab[i].mode
  /\ Seen(i).block[1] = First(disk, i)
  /\ Names(i) = {<<i, e[1], e[2]>> : e \in EntsIn(disk, i)}

LEMMA DiskSeen == Serves /\ InOrder => \A i \in Inos : SeesDisk(i)
<1> SUFFICES ASSUME Serves, InOrder, NEW i \in Inos PROVE SeesDisk(i)
  OBVIOUS
<1> DEFINE inode == Copy(disk, tab, i)
<1>1. disk \in Disks /\ tab \in [Slots -> Minodes]
  BY ServesFacts, SoundFacts DEF Serves, Inv, Good, GoodDisk
<1>2. Seen(i) = inode
  BY DEF Seen, Copy
<1>3. /\ inode \in InodeRecs /\ RestZero(disk, inode)
      /\ inode.mode = disk.itab[i].mode /\ inode.block[1] = First(disk, i)
  BY <1>1, CopyAgrees DEF InOrder
<1> HIDE DEF inode
<1>4. Names(i) = {<<i, e[1], e[2]>> : e \in EntsIn(disk, i)}
  <2>1. Names(i) = {<<i, c.name, c.ino>> : c \in UNION {Records(disk.blk[b]) : b \in BlocksOf(inode)}}
    BY <1>2 DEF Names, RecordsOf
  <2>2. Names(i) = IF inode.block[1] = 0 THEN {}
                   ELSE {<<i, e[1], e[2]>> : e \in Ents(disk.blk[inode.block[1]])}
    BY <1>1, <1>3, <2>1, RecordsEnts
  <2>3. CASE inode.block[1] = 0
    BY <1>3, <2>2, <2>3 DEF EntsIn
  <2>4. CASE inode.block[1] # 0
    BY <1>3, <2>2, <2>4 DEF EntsIn
  <2> QED BY <2>3, <2>4
<1> QED BY <1>2, <1>3, <1>4 DEF SeesDisk

\* A directory's names, and its first block.
LEMMA NameIn ==
  ASSUME Serves, InOrder, NEW i \in Dirs
  PROVE  /\ i \in Inos /\ i - 1 \in disk.imap /\ IsDir(disk, i)
         /\ \A x \in Names(i) : \E e \in Ents(disk.blk[First(disk, i)]) :
              First(disk, i) \in Used /\ x = <<i, e[1], e[2]>>
<1>1. i \in Inos /\ Marked(i) /\ Seen(i).mode = "dir"
  BY DEF Dirs
<1>2. SeesDisk(i)
  BY <1>1, DiskSeen
<1>3. disk \in Disks
  BY DEF Serves, Inv, Good, GoodDisk, Here
<1>4. First(disk, i) # 0 => First(disk, i) \in Used
  BY <1>1, <1>3, FirstIn
<1> QED BY <1>1, <1>2, <1>4 DEF SeesDisk, EntsIn, IsDir, Marked

(* NamesUnique: as long as nothing is removed, no directory has a name     *)
(* twice, whatever was free and wherever a command was killed: what the    *)
(* search before an enter_name overlooks is only a record of inode 0.      *)
THEOREM NamesStayUnique ==
  ASSUME RmdirPaths = {}, UnlinkPaths = {}, NoPath \notin CdPaths,
         \A p \in MkdirPaths \cup CreatPaths : basename(p) \notin Dots,
         \A lp \in LinkPairs : basename(lp[2]) \notin Dots
  PROVE  Spec => []NamesUnique
<1>1. Calm /\ Tidy /\ Plain
  BY DEF Calm, Tidy, Plain
<1>2. Serves /\ InOrder => NamesUnique
  <2> SUFFICES ASSUME Serves, InOrder, NEW i \in Dirs, \A z \in Names(i) : z[3] # 0,
                      NEW x \in Names(i), NEW y \in Names(i), x[2] = y[2]
               PROVE  x = y
    BY DEF NamesUnique
  <2> DEFINE B == disk.blk[First(disk, i)]
  <2>1. i \in Inos /\ First(disk, i) \in Used
    BY NameIn
  <2>2. PICK e \in Ents(B) : x = <<i, e[1], e[2]>>
    BY NameIn
  <2>3. PICK f \in Ents(B) : y = <<i, f[1], f[2]>>
    BY NameIn
  <2>4. \A g \in Ents(B) : g[2] # 0
    <3>1. \A g \in Ents(B) : <<i, g[1], g[2]>> \in Names(i)
      BY <2>1, DiskSeen DEF SeesDisk, EntsIn, Used
    <3> QED BY <3>1
  <2>5. Unique(B)
    BY <2>1 DEF InOrder, Orderly, FirstsUnique, Used
  <2> HIDE DEF B
  <2>6. e[1] = f[1]
    BY <2>2, <2>3
  <2>7. e = f
    BY <2>4, <2>5, <2>6 DEF Unique
  <2> QED BY <2>2, <2>3, <2>7
<1> QED BY <1>1, <1>2, AlwaysInOrder, PTL

(* TreeShaped: as long as nothing is removed, one record only names a      *)
(* directory, and its ".." leads back to the directory of that record,     *)
(* killed or not, and when a full block was overrun: mkdir takes an inode  *)
(* that no record names, and link refuses a directory.                     *)
THEOREM TreeKept ==
  ASSUME RmdirPaths = {}, UnlinkPaths = {}, NoPath \notin CdPaths,
         \A p \in MkdirPaths \cup CreatPaths : basename(p) \notin Dots,
         \A lp \in LinkPairs : basename(lp[2]) \notin Dots
  PROVE  Spec => []TreeShaped
<1>1. Calm /\ Tidy /\ Plain
  BY DEF Calm, Tidy, Plain
<1>2. Serves /\ InOrder => TreeShaped
  <2> SUFFICES ASSUME Serves, InOrder, NEW i \in Dirs, NEW k \in Dirs,
                      NEW x \in Names(i), NEW y \in Names(k), x[2] \notin Dots, x[3] \in Dirs
               PROVE  /\ y[2] \notin Dots /\ y[3] = x[3] => x = y
                      /\ k = x[3] /\ y[2] = ".." => y[3] = i
    BY DEF TreeShaped
  <2> DEFINE d == disk
             A == d.blk[First(d, i)]
             B == d.blk[First(d, k)]
  <2>1. i \in Inos /\ First(d, i) \in Used /\ k \in Inos /\ First(d, k) \in Used
    BY NameIn
  <2>2. PICK e \in Ents(A) : x = <<i, e[1], e[2]>>
    BY NameIn
  <2>3. PICK f \in Ents(B) : y = <<k, f[1], f[2]>>
    BY NameIn
  <2>4. IsDir(d, x[3]) /\ x[3] = e[2] /\ e[1] \notin Dots
    BY <2>2, NameIn
  <2>5. OneNameEach(d) /\ BackToParent(d) /\ OwnedOnDisk(d)
    <3>1. SafeDisk(d)
      BY SafeNow, QuitServes
    <3> QED BY <1>1, <3>1 DEF InOrder, Orderly, SafeDisk
  <2> HIDE DEF d
  <2>6. ASSUME y[2] \notin Dots, y[3] = x[3] PROVE x = y
    <3>1. f[1] \notin Dots /\ f[2] = e[2]
      BY <2>2, <2>3, <2>6
    <3>2. First(d, i) = First(d, k) /\ e = f
      <4>1. IsDir(d, e[2])
        BY <2>4
      <4> QED BY <2>1, <2>4, <2>5, <3>1, <4>1 DEF OneNameEach
    <3>3. \A j \in Inos : HasBlock(d.itab[j], First(d, j))
      BY SizesFacts DEF HasBlock, First
    <3>4. i = k
      BY <2>1, <2>5, <3>2, <3>3 DEF OwnedOnDisk, Used
    <3> QED BY <2>2, <2>3, <3>2, <3>4
  <2>7. ASSUME k = x[3], y[2] = ".." PROVE y[3] = i
    <3>1. f[1] = ".." /\ f[2] = y[3]
      BY <2>3, <2>7
    <3>2. Parents(B, i)
      <4>1. First(d, i) # 0 /\ First(d, k) # 0 /\ IsDir(d, k) /\ e[2] = k
        BY <2>1, <2>4, <2>7 DEF Used
      <4> QED BY <2>1, <2>4, <2>5, <4>1 DEF BackToParent
    <3> QED BY <3>1, <3>2 DEF Parents
  <2> QED BY <2>6, <2>7
<1> QED BY <1>1, <1>2, AlwaysInOrder, PTL

(* RecordsStay: as long as nothing is removed, no step takes a record from *)
(* a directory, unless its block is full: a killed command neither, for    *)
(* each of its writes only adds to the blocks that others read.            *)
THEOREM RecordsKept ==
  ASSUME RmdirPaths = {}, UnlinkPaths = {}, NoPath \notin CdPaths,
         \A p \in MkdirPaths \cup CreatPaths : basename(p) \notin Dots,
         \A lp \in LinkPairs : basename(lp[2]) \notin Dots
  PROVE  Spec => RecordsStay
<1>1. Calm /\ Tidy /\ Plain
  BY DEF Calm, Tidy, Plain
<1> DEFINE Sees == \A i \in Inos : SeesDisk(i)
<1>2. Serves /\ InOrder => Sees
  BY DiskSeen
<1>3. ASSUME Serves, InOrder, Sees', Next, NEW i \in Dirs, ~Full(i)
      PROVE  Names(i) \subseteq Names(i)'
  <2>1. Grows(disk, disk')
    BY <1>1, <1>3, NextOrder DEF Order
  <2>2. i \in Inos /\ i - 1 \in disk.imap
    BY <1>3, NameIn
  <2>3. First(disk', i) = First(disk, i)
    BY <2>1, <2>2 DEF Grows, FirstsStay
  <2>4. Names(i)' = {<<i, e[1], e[2]>> : e \in EntsIn(disk', i)}
    BY <1>3, <2>2 DEF SeesDisk
  <2> SUFFICES ASSUME NEW x \in Names(i) PROVE x \in Names(i)'
    OBVIOUS
  <2>5. PICK e \in Ents(disk.blk[First(disk, i)]) : First(disk, i) \in Used /\ x = <<i, e[1], e[2]>>
    BY <1>3, NameIn
  <2>6. First(disk, i) \in BlocksOf(Seen(i))
    <3>1. Seen(i).block[1] = First(disk, i)
      BY <1>2, <1>3, <2>2 DEF SeesDisk
    <3>2. First(disk, i) # 0
      BY <2>5 DEF Used
    <3>3. 1 \in {j \in 1..NDirect : \A l \in 1..j : Seen(i).block[l] # 0}
      BY <3>1, <3>2, SizesFacts
    <3> QED BY <3>1, <3>3 DEF BlocksOf
  <2>7. e \in Ents(disk'.blk[First(disk, i)])
    BY <1>3, <2>1, <2>5, <2>6 DEF Grows, Full
  <2>8. e \in EntsIn(disk', i)
    BY <2>3, <2>5, <2>7 DEF EntsIn, Used
  <2> QED BY <2>4, <2>5, <2>8
<1>4. Serves /\ InOrder /\ Sees' /\ [Next]_vars =>
        [\A i \in Dirs : ~Full(i) => Names(i) \subseteq Names(i)']_vars
  BY <1>3
<1> QED BY <1>1, <1>2, <1>4, AlwaysInOrder, PTL DEF Spec, RecordsStay

=============================================================================

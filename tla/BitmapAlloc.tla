---------------------------- MODULE BitmapAlloc ----------------------------
(***************************************************************************)
(* project/ialloc_balloc.c: ialloc/idealloc over the inode bitmap and      *)
(* balloc/bdealloc over the block bitmap.  The two pairs are the same      *)
(* program over another bitmap, except for the bit that a release clears   *)
(* (FreeBit), so one module models both, chosen by Kind.                   *)
(*                                                                         *)
(* Everything lives on the disk: the bitmap block, the free count of the   *)
(* superblock and that of the group descriptor.  Each step below ends with *)
(* one put_block, so the simulator can be killed (Kill) between any two    *)
(* writes; the disk then keeps what was written and the call never         *)
(* returns.  Numbers (of inodes or blocks) are 1..NBits, bits 0..NBits-1.  *)
(***************************************************************************)
EXTENDS Integers, FiniteSets

CONSTANTS
  Kind,         \* "inode" or "block"
  NBits,        \* ninodes or nblocks, as read by mount_root
  Held,         \* numbers that files of the image hold when it is mounted
  Reserved,     \* numbers marked in the image that no file ever holds
  SuperWidth,   \* modulus of the superblock's free count (2^32)
  GroupWidth,   \* modulus of the group descriptor's free count (2^16)
  MaxKills      \* BOUND: how often the program is killed

NoAnswer == -1   \* no allocation has returned since the program started
Numbers == 1..NBits
Bits == 0..NBits-1

ASSUME KindAssumption == Kind \in {"inode", "block"}
ASSUME SizeAssumption == NBits \in Nat \ {0}
ASSUME ImageAssumption ==
  /\ Held \subseteq Numbers
  /\ Reserved \subseteq Numbers
  /\ Held \cap Reserved = {}
ASSUME KillAssumption == MaxKills \in Nat
ASSUME WidthAssumption ==
  /\ SuperWidth \in Nat /\ GroupWidth \in Nat
  /\ SuperWidth > NBits + MaxKills + 2
  /\ GroupWidth > NBits + MaxKills + 2

VARIABLES
  map,     \* the bits set in the bitmap block on disk
  super,   \* s_free_inodes_count or s_free_blocks_count on disk
  group,   \* bg_free_inodes_count or bg_free_blocks_count on disk
  pc,      \* the write the running call does next, "idle" between calls
  buf,     \* the allocator's copy of the bitmap block
  bit,     \* the bit it took
  ret,     \* what the last allocation returned
  given,   \* history: the numbers held by files and calls
  kills    \* how often the program was killed

disk == <<map, super, group>>
vars == <<map, super, group, pc, buf, bit, ret, given, kills>>

(* Mutant: a counter that is signed. *)
WrapDecSigned(c, width) == c - 1

(* A C unsigned counter of the given modulus, decremented or incremented. *)
WrapDec(c, width) == IF c = 0 THEN width - 1 ELSE c - 1
WrapInc(c, width) == IF c = width - 1 THEN 0 ELSE c + 1

(* tst_bit(buf, i) for i = 0, 1, ...: the scan stops at the first zero bit. *)
IsLowestClear(b, m) ==
  /\ b \in Bits \ m
  /\ \A c \in Bits : c < b => c \in m

(* Mutant: idealloc clears the bit bdealloc does. *)
FreeBitNext(n) == n

(* The bit a release clears: idealloc clears ino-1, bdealloc clears bno. *)
FreeBit(n) == IF Kind = "inode" THEN n - 1 ELSE n

Clear(m) == NBits - Cardinality(m \cap Bits)

(* The image that mount_root finds: its counts agree with its bitmap. *)
Init ==
  /\ map = {n - 1 : n \in Held \cup Reserved}
  /\ super = Clear(map)
  /\ group = Clear(map)
  /\ pc = "idle"
  /\ buf = {}
  /\ bit = 0
  /\ ret = NoAnswer
  /\ given = Held
  /\ kills = 0

-----------------------------------------------------------------------------
(* ialloc, balloc *)

(* Mutant: the bitmap is put before the counts are changed. *)
ScanFoundMarksFirst ==
  /\ pc = "idle"
  /\ \E b \in Bits :
       /\ IsLowestClear(b, map)
       /\ bit' = b
       /\ buf' = map \cup {b}
       /\ map' = map \cup {b}
  /\ pc' = "dec_super"
  /\ UNCHANGED <<super, group, ret, given, kills>>

(* get_block(bitmap) and the scan; the bit is set in buf only. *)
ScanFound ==
  /\ pc = "idle"
  /\ \E b \in Bits :
       /\ IsLowestClear(b, map)
       /\ bit' = b
       /\ buf' = map \cup {b}
  /\ pc' = "dec_super"
  /\ UNCHANGED <<map, super, group, ret, given, kills>>

(* Mutant: the scan leaves out the last bit. *)
ScanFullEarly ==
  /\ pc = "idle"
  /\ Bits \ {NBits - 1} \subseteq map
  /\ ret' = 0
  /\ UNCHANGED <<map, super, group, pc, buf, bit, given, kills>>

(* No bit is clear: return 0 without a write. *)
ScanFull ==
  /\ pc = "idle"
  /\ Bits \subseteq map
  /\ ret' = 0
  /\ UNCHANGED <<map, super, group, pc, buf, bit, given, kills>>

(* decFreeInodes, decFreeBlocks: two read-modify-writes. *)
DecSuper ==
  /\ pc = "dec_super"
  /\ super' = WrapDec(super, SuperWidth)
  /\ pc' = "dec_group"
  /\ UNCHANGED <<map, group, buf, bit, ret, given, kills>>

DecGroup ==
  /\ pc = "dec_group"
  /\ group' = WrapDec(group, GroupWidth)
  /\ pc' = "put_map"
  /\ UNCHANGED <<map, super, buf, bit, ret, given, kills>>

(* put_block(bitmap, buf); return i+1 *)
PutMap ==
  /\ pc = "put_map"
  /\ map' = buf
  /\ ret' = bit + 1
  /\ given' = given \cup {bit + 1}
  /\ pc' = "idle"
  /\ buf' = {}
  /\ bit' = 0
  /\ UNCHANGED <<super, group, kills>>

-----------------------------------------------------------------------------
(* idealloc, bdealloc: a caller releases a number that it holds. *)

ClearMap ==
  /\ pc = "idle"
  /\ \E n \in given :
       /\ map' = map \ {FreeBit(n)}
       /\ given' = given \ {n}
  /\ pc' = "inc_super"
  /\ UNCHANGED <<super, group, buf, bit, ret, kills>>

(* incFreeInodes, incFreeBlocks *)
IncSuper ==
  /\ pc = "inc_super"
  /\ super' = WrapInc(super, SuperWidth)
  /\ pc' = "inc_group"
  /\ UNCHANGED <<map, group, buf, bit, ret, given, kills>>

IncGroup ==
  /\ pc = "inc_group"
  /\ group' = WrapInc(group, GroupWidth)
  /\ pc' = "idle"
  /\ UNCHANGED <<map, super, buf, bit, ret, given, kills>>

-----------------------------------------------------------------------------
(* The program is killed and started again on the same image. *)
Kill ==
  /\ kills < MaxKills
  /\ pc # "idle"
  /\ kills' = kills + 1
  /\ pc' = "idle"
  /\ buf' = {}
  /\ bit' = 0
  /\ ret' = NoAnswer
  /\ UNCHANGED <<disk, given>>

Next ==
  \/ ScanFound \/ ScanFull \/ DecSuper \/ DecGroup \/ PutMap
  \/ ClearMap \/ IncSuper \/ IncGroup
  \/ Kill

Spec == Init /\ [][Next]_vars

-----------------------------------------------------------------------------
(* Properties *)

TypeOK ==
  /\ map \subseteq 0..NBits
  /\ super \in 0..SuperWidth-1
  /\ group \in 0..GroupWidth-1
  /\ pc \in {"idle", "dec_super", "dec_group", "put_map", "inc_super", "inc_group"}
  /\ buf \subseteq 0..NBits
  /\ bit \in Bits
  /\ ret \in Numbers \cup {0, NoAnswer}
  /\ given \subseteq Numbers
  /\ kills \in 0..MaxKills

(* The bitmap on disk marks exactly the numbers that are reserved or held, *)
(* after every single write and after every kill: no held number can be    *)
(* handed out again, and no released number is lost.                       *)
MapExact == map = {n - 1 : n \in given \cup Reserved}

(* How far a free count lags behind the clear bits, modulo its width. *)
Lag(count, width) ==
  IF count <= Clear(map) THEN Clear(map) - count ELSE Clear(map) - count + width

(* A kill between two writes of a call can only make the free counts too   *)
(* small, by one per kill: ialloc counts before it marks (98 before 100)   *)
(* and idealloc unmarks before it counts (82 before 84).  The bound is     *)
(* modulo the width: a count that lags wraps below zero on a later         *)
(* allocation, because nothing tests it.                                   *)
CountsLag ==
  LET running == IF pc = "idle" THEN 0 ELSE 1
  IN  /\ Lag(super, SuperWidth) <= kills + running
      /\ Lag(group, GroupWidth) <= kills + running

(* Between calls of a program that was never killed, both free counts are  *)
(* the number of clear bits.                                               *)
CountsExact ==
  kills = 0 /\ pc = "idle" => super = Clear(map) /\ group = Clear(map)

(* The pool of free numbers that the callers rely on.                      *)
Pool == INSTANCE AbstractAlloc WITH
  free <- {n \in Numbers : n - 1 \notin map}

(* The allocator implements the pool: it never hands out a held number,    *)
(* never loses one, and returns 0 only when every number is taken.         *)
ImplementsPool == Pool!Spec

=============================================================================

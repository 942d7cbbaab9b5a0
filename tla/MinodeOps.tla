----------------------------- MODULE MinodeOps -----------------------------
(***************************************************************************)
(* The in-memory inode table minode[NMINODE] of project/util.c, as         *)
(* operators on a table t, a function from slots to minodes                *)
(*     [ref, ino, dirty, data]                                             *)
(* (refCount, ino, dirty and INODE; dev, mounted and mptr never vary).     *)
(* MinodeTable is the state machine of iget and iput alone; Ext2FS         *)
(* applies them to the inodes of a file system.                            *)
(***************************************************************************)
EXTENDS Integers

(* A slot is in use when refCount is not zero: C truth, so a negative      *)
(* count is in use too.                                                    *)
InUse(m) == m.ref # 0

(* Mutant: a minode with one user is taken for a free one by the search. *)
CachedIfShared(t, i) == {s \in DOMAIN t : t[s].ref > 1 /\ t[s].ino = i}

(* The slots that iget's first loop matches, and those mialloc may take.   *)
Cached(t, i) == {s \in DOMAIN t : InUse(t[s]) /\ t[s].ino = i}
FreeSlots(t) == {s \in DOMAIN t : ~InUse(t[s])}

(* Both loops go up from slot 0 and stop at the first hit. *)
IsFirst(s, S) == s \in S /\ \A r \in S : s <= r

(* Mutants: refCount is not counted up; it is tested before it is counted down. *)
SharedUncounted(m) == m
WritesBackLate(m) == m.ref <= 0 /\ m.dirty

(* iget: another user of a cached minode; a minode read from the disk.     *)
Shared(m) == [m EXCEPT !.ref = @ + 1]
Loaded(i, d) == [ref |-> 1, ino |-> i, dirty |-> FALSE, data |-> d]

(* iput: the minode afterwards, and whether it is written to the disk.     *)
WritesBack(m) == m.ref - 1 <= 0 /\ m.dirty
Released(m) == [m EXCEPT !.ref = IF WritesBack(m) THEN 0 ELSE @ - 1]

=============================================================================

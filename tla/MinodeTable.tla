---------------------------- MODULE MinodeTable ----------------------------
(***************************************************************************)
(* The minode table under callers that put only what they got: iget, iput  *)
(* and mialloc of project/util.c, mount_root (main.c), the loop of quit    *)
(* (cd_ls_pwd.c), and the two ways a command changes an INODE, with and    *)
(* without dirty = 1.                                                      *)
(***************************************************************************)
EXTENDS MinodeOps

CONSTANTS
  NMINODE,   \* slots of the table
  Inos,      \* the inode numbers in use
  Root,      \* the root's inode number (2)
  Vals,      \* the values an inode takes
  MaxRef     \* BOUND: users of one minode

Slots == 1..NMINODE

(* mount_root takes three references to the root: root, proc[0].cwd and    *)
(* proc[1].cwd.  chdir may put the second; nothing ever puts the others.   *)
MountRefs == 3
PinnedRefs == 2

ASSUME TableAssumption == NMINODE \in Nat \ {0}
ASSUME RootAssumption == Root \in Inos
ASSUME ValAssumption == Vals # {}
ASSUME RefAssumption == MaxRef \in Nat /\ MaxRef >= MountRefs

(* Mutant: the callers may put every reference to the root. *)
NothingPinned(s) == 0

VARIABLES
  tab,    \* minode[]
  disk,   \* the inode blocks
  held,   \* history: how many pointers to each slot callers hold
  q       \* 0, or the slot that quit's loop puts next

vars == <<tab, disk, held, q>>

Minode == [ref : 0..MaxRef, ino : Inos, dirty : BOOLEAN, data : Vals]

(* init() and mount_root() of a new run on the disk d: a free slot keeps   *)
(* whatever it held, which nothing reads.                                  *)
MountedHeld == [s \in Slots |-> IF s = 1 THEN MountRefs ELSE 0]
MountedTable(d) ==
  [s \in Slots |->
    [ref |-> MountedHeld[s], ino |-> Root, dirty |-> FALSE, data |-> d[Root]]]

Init ==
  /\ disk \in [Inos -> Vals]
  /\ tab = MountedTable(disk)
  /\ held = MountedHeld
  /\ q = 0

(* The program ends, however, and is started again on the same disk. *)
Reboot ==
  /\ tab' = MountedTable(disk)
  /\ held' = MountedHeld
  /\ q' = 0
  /\ UNCHANGED disk

-----------------------------------------------------------------------------
(* iget *)

GetCached(i) ==
  /\ q = 0
  /\ \E s \in Slots :
       /\ IsFirst(s, Cached(tab, i))
       /\ tab[s].ref < MaxRef
       /\ tab' = [tab EXCEPT ![s] = Shared(@)]
       /\ held' = [held EXCEPT ![s] = @ + 1]
  /\ UNCHANGED <<disk, q>>

GetLoad(i) ==
  /\ q = 0
  /\ Cached(tab, i) = {}
  /\ \E s \in Slots :
       /\ IsFirst(s, FreeSlots(tab))
       /\ tab' = [tab EXCEPT ![s] = Loaded(i, disk[i])]
       /\ held' = [held EXCEPT ![s] = 1]
  /\ UNCHANGED <<disk, q>>

(* mialloc finds no slot and returns 0, which iget dereferences. *)
GetPanic(i) ==
  /\ q = 0
  /\ Cached(tab, i) = {}
  /\ FreeSlots(tab) = {}
  /\ Reboot

-----------------------------------------------------------------------------
(* iput *)

(* The table and the disk after iput of slot s. *)
PutSlot(s) ==
  /\ tab' = [tab EXCEPT ![s] = Released(@)]
  /\ disk' = IF WritesBack(tab[s]) THEN [disk EXCEPT ![tab[s].ino] = tab[s].data]
             ELSE disk

Pinned(s) == IF s = 1 THEN PinnedRefs ELSE 0

(* Mutant: a caller puts a minode that it does not hold. *)
PutUnheld(s) ==
  /\ q = 0
  /\ PutSlot(s)
  /\ held' = [held EXCEPT ![s] = @ - 1]
  /\ UNCHANGED q

Put(s) ==
  /\ q = 0
  /\ held[s] > Pinned(s)
  /\ PutSlot(s)
  /\ held' = [held EXCEPT ![s] = @ - 1]
  /\ UNCHANGED q

-----------------------------------------------------------------------------
(* What commands do with a minode they hold. *)

(* mymkdir, my_creat, mylink, remove_dir: change the INODE, dirty = 1. *)
Modify(s, v) ==
  /\ q = 0
  /\ held[s] > 0
  /\ tab' = [tab EXCEPT ![s].data = v, ![s].dirty = TRUE]
  /\ UNCHANGED <<disk, held, q>>

(* make_dir and creat_file on the parent, enter_name, my_unlink: the INODE *)
(* is changed and dirty is left alone.                                     *)
Touch(s, v) ==
  /\ q = 0
  /\ held[s] > 0
  /\ tab' = [tab EXCEPT ![s].data = v]
  /\ UNCHANGED <<disk, held, q>>

-----------------------------------------------------------------------------
(* quit: one iput of each slot in use, then exit; and a kill at any time. *)

QuitStart ==
  /\ q = 0
  /\ q' = 1
  /\ UNCHANGED <<tab, disk, held>>

QuitPut ==
  /\ q \in Slots
  /\ tab[q].ref > 0
  /\ PutSlot(q)
  /\ q' = q + 1
  /\ UNCHANGED held

QuitSkip ==
  /\ q \in Slots
  /\ tab[q].ref <= 0
  /\ q' = q + 1
  /\ UNCHANGED <<tab, disk, held>>

QuitExit == q = NMINODE + 1 /\ Reboot

Kill == Reboot

Next ==
  \/ \E i \in Inos : GetCached(i) \/ GetLoad(i) \/ GetPanic(i)
  \/ \E s \in Slots : Put(s)
  \/ \E s \in Slots, v \in Vals : Modify(s, v) \/ Touch(s, v)
  \/ QuitStart \/ QuitPut \/ QuitSkip \/ QuitExit
  \/ Kill

Spec == Init /\ [][Next]_vars

-----------------------------------------------------------------------------
(* Properties *)

TypeOK ==
  /\ tab \in [Slots -> Minode]
  /\ disk \in [Inos -> Vals]
  /\ held \in [Slots -> 0..MaxRef]
  /\ q \in 0..NMINODE+1

(* util.c 93-95: refCount is the number of users of the minode. *)
RefsAreUsers == q = 0 => \A s \in Slots : tab[s].ref = held[s]

(* An inode is in memory at most once, whatever slots were freed and       *)
(* taken again: two users never change two copies of one inode.            *)
OneSlotPerInode ==
  \A s, r \in Slots :
    InUse(tab[s]) /\ InUse(tab[r]) /\ tab[s].ino = tab[r].ino => s = r

(* The global root always points to a minode of the root inode. *)
RootInPlace == q = 0 => InUse(tab[1]) /\ tab[1].ino = Root

(* The inodes as the commands see them, and those marked dirty in memory. *)
ViewOf(t, d) == [i \in Inos |->
                  IF Cached(t, i) = {} THEN d[i]
                  ELSE t[CHOOSE s \in Cached(t, i) : TRUE].data]
MarkedOf(t) == {t[s].ino : s \in {r \in Slots : InUse(t[r]) /\ t[r].dirty}}

Store == INSTANCE InodeStore WITH
  val <- ViewOf(tab, disk), stable <- disk, marked <- MarkedOf(tab)

(* The table is a cache that nobody notices: what one user writes the next *)
(* one reads, and an inode that was marked dirty reaches the disk unless   *)
(* the program ends first.                                                 *)
ImplementsStore == Store!Spec

=============================================================================

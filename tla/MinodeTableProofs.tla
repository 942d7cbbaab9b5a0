------------------------- MODULE MinodeTableProofs -------------------------
(***************************************************************************)
(* Proofs about the minode table, for every size of it and every set of    *)
(* inodes.                                                                 *)
(***************************************************************************)
EXTENDS MinodeTable, TLAPS

(* The two references that nothing puts: the global root and proc[1].cwd.  *)
RootHeld == q = 0 => held[1] >= PinnedRefs /\ tab[1].ino = Root

(* The inductive invariant. *)
IInv == TypeOK /\ RefsAreUsers /\ OneSlotPerInode /\ RootHeld

-----------------------------------------------------------------------------
(* A newly mounted table. *)

LEMMA MountedType ==
  ASSUME NEW d \in [Inos -> Vals]
  PROVE  /\ MountedTable(d) \in [Slots -> Minode]
         /\ MountedHeld \in [Slots -> 0..MaxRef]
         /\ 1 \in Slots
         /\ \A s \in Slots : MountedTable(d)[s].ref = MountedHeld[s]
         /\ \A s \in Slots : InUse(MountedTable(d)[s]) => s = 1
         /\ MountedTable(d)[1].ino = Root
         /\ MountedHeld[1] = MountRefs
<1>1. d[Root] \in Vals BY RootAssumption
<1>2. 1 \in Slots BY TableAssumption DEF Slots
<1>3. MountedHeld \in [Slots -> 0..MaxRef]
  BY RefAssumption DEF MountedHeld, MountRefs
<1>4. MountedTable(d) \in [Slots -> Minode]
  BY <1>1, <1>3, RootAssumption DEF MountedTable, Minode
<1> QED BY <1>2, <1>3, <1>4 DEF MountedTable, MountedHeld, InUse

(* A table just mounted satisfies the invariant. *)
LEMMA MountedIInv ==
  ASSUME TypeOK, Reboot
  PROVE  IInv'
<1> USE DEF Reboot
<1>1. disk \in [Inos -> Vals] BY DEF TypeOK
<1>2. TypeOK' BY <1>1, MountedType, TableAssumption DEF TypeOK
<1>3. RefsAreUsers' BY <1>1, MountedType DEF RefsAreUsers
<1>4. OneSlotPerInode' BY <1>1, MountedType DEF OneSlotPerInode
<1>5. RootHeld' BY <1>1, MountedType DEF RootHeld, PinnedRefs, MountRefs
<1> QED BY <1>2, <1>3, <1>4, <1>5 DEF IInv

LEMMA InitIInv == Init => IInv
<1> SUFFICES ASSUME Init PROVE IInv OBVIOUS
<1>1. TypeOK BY MountedType, TableAssumption DEF Init, TypeOK
<1>2. RefsAreUsers BY MountedType DEF Init, RefsAreUsers
<1>3. OneSlotPerInode BY MountedType DEF Init, OneSlotPerInode
<1>4. RootHeld BY MountedType DEF Init, RootHeld, PinnedRefs, MountRefs
<1> QED BY <1>1, <1>2, <1>3, <1>4 DEF IInv

-----------------------------------------------------------------------------
(* iput *)

LEMMA ReleasedType ==
  ASSUME NEW m \in Minode, m.ref > 0
  PROVE  /\ Released(m) \in Minode
         /\ Released(m).ref = m.ref - 1
         /\ Released(m).ino = m.ino
         /\ Released(m).dirty = m.dirty
         /\ Released(m).data = m.data
<1>1. m.ref \in 0..MaxRef BY DEF Minode
<1>2. WritesBack(m) => m.ref - 1 = 0 BY <1>1 DEF WritesBack
<1>3. Released(m) = [m EXCEPT !.ref = m.ref - 1]
  BY <1>2 DEF Released
<1>4. m.ref - 1 \in 0..MaxRef BY <1>1, RefAssumption
<1> QED BY <1>3, <1>4 DEF Minode

LEMMA PutType ==
  ASSUME TypeOK, NEW s \in Slots, tab[s].ref > 0, PutSlot(s)
  PROVE  /\ tab' \in [Slots -> Minode]
         /\ disk' \in [Inos -> Vals]
         /\ tab'[s].ref = tab[s].ref - 1
         /\ tab'[s].ino = tab[s].ino
         /\ \A r \in Slots : r # s => tab'[r] = tab[r]
<1>1. tab[s] \in Minode BY DEF TypeOK
<1>2. tab' = [tab EXCEPT ![s] = Released(tab[s])] BY DEF PutSlot
<1>3. tab'[s] = Released(tab[s]) BY <1>2 DEF TypeOK
<1>4. tab[s].ino \in Inos /\ tab[s].data \in Vals BY <1>1 DEF Minode
<1>5. disk' \in [Inos -> Vals] BY <1>4 DEF PutSlot, TypeOK
<1> QED BY <1>1, <1>2, <1>3, <1>5, ReleasedType DEF TypeOK

(* Slots keep one inode each when no slot comes into use and no slot       *)
(* changes its inode.                                                      *)
LEMMA OneSlotKept ==
  ASSUME OneSlotPerInode,
         \A s \in Slots : InUse(tab'[s]) => InUse(tab[s]) /\ tab'[s].ino = tab[s].ino
  PROVE  OneSlotPerInode'
BY DEF OneSlotPerInode

-----------------------------------------------------------------------------
LEMMA NextIInv ==
  ASSUME IInv, [Next]_vars
  PROVE  IInv'
<1> USE DEF IInv
<1>0. 1 \in Slots /\ Slots \subseteq Int BY TableAssumption DEF Slots
<1>1. ASSUME NEW i \in Inos, GetCached(i) PROVE IInv'
  <2> USE <1>1 DEF GetCached
  <2>1. PICK s \in Slots :
          /\ IsFirst(s, Cached(tab, i))
          /\ tab[s].ref < MaxRef
          /\ tab' = [tab EXCEPT ![s] = Shared(tab[s])]
          /\ held' = [held EXCEPT ![s] = @ + 1]
    OBVIOUS
  <2>2. InUse(tab[s]) BY <2>1 DEF IsFirst, Cached
  <2>3. tab[s] \in Minode /\ tab[s].ref \in 0..MaxRef BY DEF TypeOK, Minode
  <2>4. Shared(tab[s]) \in Minode
        /\ Shared(tab[s]).ref = tab[s].ref + 1
        /\ Shared(tab[s]).ino = tab[s].ino
    BY <2>1, <2>3, RefAssumption DEF Shared, Minode
  <2>5. tab' \in [Slots -> Minode] /\ tab'[s] = Shared(tab[s])
        /\ \A r \in Slots : r # s => tab'[r] = tab[r]
    BY <2>1, <2>4 DEF TypeOK
  <2>6. held[s] = tab[s].ref BY DEF RefsAreUsers
  <2>7. held' \in [Slots -> 0..MaxRef] BY <2>1, <2>3, <2>6, RefAssumption DEF TypeOK
  <2>8. TypeOK' BY <2>5, <2>7 DEF TypeOK
  <2>9. RefsAreUsers' BY <2>1, <2>4, <2>5, <2>6 DEF RefsAreUsers, TypeOK
  <2>10. OneSlotPerInode' BY <2>2, <2>4, <2>5, OneSlotKept
  <2>11. RootHeld'
    BY <1>0, <2>1, <2>3, <2>4, <2>5, <2>6 DEF RootHeld, TypeOK, PinnedRefs
  <2> QED BY <2>8, <2>9, <2>10, <2>11
<1>2. ASSUME NEW i \in Inos, GetLoad(i) PROVE IInv'
  <2> USE <1>2 DEF GetLoad
  <2>1. PICK s \in Slots :
          /\ IsFirst(s, FreeSlots(tab))
          /\ tab' = [tab EXCEPT ![s] = Loaded(i, disk[i])]
          /\ held' = [held EXCEPT ![s] = 1]
    OBVIOUS
  <2>2. ~InUse(tab[s]) BY <2>1 DEF IsFirst, FreeSlots
  <2>3. Loaded(i, disk[i]) \in Minode
        /\ Loaded(i, disk[i]).ref = 1 /\ Loaded(i, disk[i]).ino = i
    BY RefAssumption DEF Loaded, Minode, TypeOK, MountRefs
  <2>4. tab' \in [Slots -> Minode] /\ tab'[s] = Loaded(i, disk[i])
        /\ \A r \in Slots : r # s => tab'[r] = tab[r]
    BY <2>1, <2>3 DEF TypeOK
  <2>5. \A r \in Slots : InUse(tab[r]) => tab[r].ino # i
    BY DEF Cached, TypeOK
  <2>6. held' \in [Slots -> 0..MaxRef] BY <2>1, RefAssumption DEF TypeOK, MountRefs
  <2>7. TypeOK' BY <2>4, <2>6 DEF TypeOK
  <2>8. RefsAreUsers' BY <2>1, <2>3, <2>4 DEF RefsAreUsers, TypeOK
  <2>9. OneSlotPerInode' BY <2>3, <2>4, <2>5 DEF OneSlotPerInode
  <2>10. s # 1
    <3>1. held[1] = tab[1].ref /\ held[1] >= PinnedRefs /\ held[1] \in Int
      BY <1>0 DEF RefsAreUsers, RootHeld, TypeOK
    <3> QED BY <2>2, <3>1 DEF InUse, PinnedRefs
  <2>11. RootHeld' BY <1>0, <2>1, <2>4, <2>10 DEF RootHeld, TypeOK
  <2> QED BY <2>7, <2>8, <2>9, <2>11
<1>3. ASSUME NEW i \in Inos, GetPanic(i) PROVE IInv'
  BY <1>3, MountedIInv DEF GetPanic
<1>4. ASSUME NEW s \in Slots, Put(s) PROVE IInv'
  <2> USE <1>4 DEF Put
  <2>1. held[s] = tab[s].ref /\ held[s] \in 0..MaxRef /\ tab[s].ref > 0
    BY DEF RefsAreUsers, TypeOK, Pinned, PinnedRefs
  <2>2. /\ tab' \in [Slots -> Minode]
        /\ disk' \in [Inos -> Vals]
        /\ tab'[s].ref = tab[s].ref - 1
        /\ tab'[s].ino = tab[s].ino
        /\ \A r \in Slots : r # s => tab'[r] = tab[r]
    BY <2>1, PutType
  <2>3. held' = [held EXCEPT ![s] = held[s] - 1] /\ held[s] - 1 \in 0..MaxRef
    BY <2>1, RefAssumption
  <2>4. TypeOK' BY <2>2, <2>3 DEF TypeOK
  <2>5. RefsAreUsers' BY <2>1, <2>2, <2>3 DEF RefsAreUsers, TypeOK
  <2>6. InUse(tab[s]) BY <2>1 DEF InUse
  <2>7. OneSlotPerInode' BY <2>2, <2>6, OneSlotKept
  <2>8. RootHeld'
    BY <1>0, <2>1, <2>2, <2>3 DEF RootHeld, TypeOK, Pinned, PinnedRefs
  <2> QED BY <2>4, <2>5, <2>7, <2>8
<1>5. ASSUME NEW s \in Slots, NEW v \in Vals, Modify(s, v) \/ Touch(s, v)
      PROVE IInv'
  <2>1. PICK b \in BOOLEAN : tab' = [tab EXCEPT ![s] = [tab[s] EXCEPT !.data = v, !.dirty = b]]
    <3>1. tab[s] \in Minode BY DEF TypeOK
    <3>2. CASE Modify(s, v) BY <3>2 DEF Modify, TypeOK
    <3>3. CASE Touch(s, v)
      <4>1. tab[s].dirty \in BOOLEAN BY <3>1 DEF Minode
      <4>2. [tab[s] EXCEPT !.data = v] = [tab[s] EXCEPT !.data = v, !.dirty = tab[s].dirty]
        BY <3>1 DEF Minode
      <4> QED BY <3>3, <4>1, <4>2 DEF Touch
    <3> QED BY <1>5, <3>2, <3>3
  <2>2. tab[s] \in Minode BY DEF TypeOK
  <2> DEFINE m == [tab[s] EXCEPT !.data = v, !.dirty = b]
  <2>3. m \in Minode /\ m.ref = tab[s].ref /\ m.ino = tab[s].ino
    BY <2>2 DEF Minode
  <2>4. tab' \in [Slots -> Minode] /\ tab'[s] = m
        /\ \A r \in Slots : r # s => tab'[r] = tab[r]
    BY <2>1, <2>3 DEF TypeOK
  <2>5. UNCHANGED <<disk, held, q>> BY <1>5 DEF Modify, Touch
  <2> HIDE DEF m
  <2>6. \A r \in Slots : tab'[r].ref = tab[r].ref /\ tab'[r].ino = tab[r].ino
    BY <2>3, <2>4
  <2>7. TypeOK' BY <2>4, <2>5 DEF TypeOK
  <2>8. RefsAreUsers' BY <2>5, <2>6 DEF RefsAreUsers
  <2>9. OneSlotPerInode' BY <2>6 DEF OneSlotPerInode, InUse
  <2>10. RootHeld' BY <1>0, <2>5, <2>6 DEF RootHeld
  <2> QED BY <2>7, <2>8, <2>9, <2>10
<1>6. CASE QuitStart
  <2> USE <1>6 DEF QuitStart
  <2>1. TypeOK' BY TableAssumption DEF TypeOK
  <2>2. OneSlotPerInode' BY DEF OneSlotPerInode
  <2> QED BY <2>1, <2>2 DEF RefsAreUsers, RootHeld
<1>7. CASE QuitPut
  <2> USE <1>7 DEF QuitPut
  <2>1. /\ tab' \in [Slots -> Minode]
        /\ disk' \in [Inos -> Vals]
        /\ tab'[q].ino = tab[q].ino
        /\ \A r \in Slots : r # q => tab'[r] = tab[r]
    BY PutType
  <2>2. q + 1 \in 0..NMINODE+1 /\ q + 1 # 0 BY TableAssumption DEF Slots
  <2>3. TypeOK' BY <2>1, <2>2 DEF TypeOK
  <2>4. InUse(tab[q]) BY DEF InUse
  <2>5. OneSlotPerInode' BY <2>1, <2>4, OneSlotKept
  <2> QED BY <2>2, <2>3, <2>5 DEF RefsAreUsers, RootHeld
<1>8. CASE QuitSkip
  <2> USE <1>8 DEF QuitSkip
  <2>1. q + 1 \in 0..NMINODE+1 /\ q + 1 # 0 BY TableAssumption DEF Slots
  <2>2. TypeOK' BY <2>1 DEF TypeOK
  <2>3. OneSlotPerInode' BY DEF OneSlotPerInode
  <2> QED BY <2>1, <2>2, <2>3 DEF RefsAreUsers, RootHeld
<1>9. CASE QuitExit BY <1>9, MountedIInv DEF QuitExit
<1>10. CASE Kill BY <1>10, MountedIInv DEF Kill
<1>11. CASE UNCHANGED vars
  BY <1>11 DEF vars, TypeOK, RefsAreUsers, OneSlotPerInode, RootHeld
<1> QED
  BY <1>1, <1>2, <1>3, <1>4, <1>5, <1>6, <1>7, <1>8, <1>9, <1>10, <1>11 DEF Next

(* The minode table of util.c keeps the inductive invariant.               *)
THEOREM Invariance == Spec => []IInv
<1>1. Init => IInv BY InitIInv
<1>2. IInv /\ [Next]_vars => IInv' BY NextIInv
<1> QED BY <1>1, <1>2, PTL DEF Spec

(* Every minode, refCount and inode block keeps its type; in particular    *)
(* no refCount becomes negative while callers put only what they got.      *)
THEOREM TypeCorrect == Spec => []TypeOK
<1>1. IInv => TypeOK BY DEF IInv
<1> QED BY <1>1, Invariance, PTL

(* refCount is the number of users, as the comment of iput says.           *)
THEOREM RefsAlwaysUsers == Spec => []RefsAreUsers
<1>1. IInv => RefsAreUsers BY DEF IInv
<1> QED BY <1>1, Invariance, PTL

(* iget never loads an inode that is in memory already, whatever slots     *)
(* mialloc has reused.                                                     *)
THEOREM OneSlotAlways == Spec => []OneSlotPerInode
<1>1. IInv => OneSlotPerInode BY DEF IInv
<1> QED BY <1>1, Invariance, PTL

(* The pointer root stays valid: its slot is never given to another inode. *)
THEOREM RootAlwaysInPlace == Spec => []RootInPlace
<1>1. IInv => RootInPlace
  <2> SUFFICES ASSUME IInv, q = 0 PROVE InUse(tab[1]) /\ tab[1].ino = Root
    BY DEF RootInPlace
  <2>1. 1 \in Slots BY TableAssumption DEF Slots
  <2>2. held[1] >= PinnedRefs /\ tab[1].ino = Root /\ tab[1].ref = held[1]
        /\ held[1] \in Int
    BY <2>1 DEF IInv, RootHeld, RefsAreUsers, TypeOK
  <2> QED BY <2>2 DEF InUse, PinnedRefs
<1> QED BY <1>1, Invariance, PTL

-----------------------------------------------------------------------------
(* The refinement of InodeStore.  Everything below follows from a          *)
(* pointwise description of the view of a table with one slot per inode.   *)

Single(t) ==
  \A s, r \in Slots : InUse(t[s]) /\ InUse(t[r]) /\ t[s].ino = t[r].ino => s = r

LEMMA ViewIs ==
  ASSUME NEW t \in [Slots -> Minode], NEW d \in [Inos -> Vals], Single(t)
  PROVE  /\ ViewOf(t, d) \in [Inos -> Vals]
         /\ \A s \in Slots : InUse(t[s]) => ViewOf(t, d)[t[s].ino] = t[s].data
         /\ \A i \in Inos : (\A s \in Slots : InUse(t[s]) => t[s].ino # i)
                            => ViewOf(t, d)[i] = d[i]
<1>1. \A s \in Slots : t[s] \in Minode /\ t[s].ino \in Inos /\ t[s].data \in Vals
  BY DEF Minode
<1>2. DOMAIN t = Slots OBVIOUS
<1>3. \A s \in Slots : InUse(t[s]) => Cached(t, t[s].ino) = {s}
  BY <1>2 DEF Cached, Single
<1>4. \A i \in Inos : Cached(t, i) # {} =>
         \E s \in Slots : InUse(t[s]) /\ t[s].ino = i /\ Cached(t, i) = {s}
  BY <1>2, <1>3 DEF Cached
<1>5. \A s : (CHOOSE r \in {s} : TRUE) = s OBVIOUS
<1>6. \A i \in Inos : ViewOf(t, d)[i] =
         IF Cached(t, i) = {} THEN d[i]
         ELSE t[CHOOSE s \in Cached(t, i) : TRUE].data
  BY DEF ViewOf
<1>7. \A s \in Slots : InUse(t[s]) => ViewOf(t, d)[t[s].ino] = t[s].data
  <2> SUFFICES ASSUME NEW s \in Slots, InUse(t[s])
               PROVE  ViewOf(t, d)[t[s].ino] = t[s].data
    OBVIOUS
  <2>1. Cached(t, t[s].ino) = {s} BY <1>3
  <2>2. (CHOOSE r \in Cached(t, t[s].ino) : TRUE) = s BY <2>1, <1>5
  <2> QED BY <1>1, <1>6, <2>1, <2>2
<1>8. \A i \in Inos : (\A s \in Slots : InUse(t[s]) => t[s].ino # i)
                      => ViewOf(t, d)[i] = d[i]
  BY <1>2, <1>6 DEF Cached
<1>9. \A i \in Inos : ViewOf(t, d)[i] \in Vals
  BY <1>1, <1>4, <1>7, <1>8
<1> QED BY <1>7, <1>8, <1>9 DEF ViewOf

(* The facts about the current and the next view that every step uses.     *)
LEMMA Views ==
  ASSUME IInv, IInv'
  PROVE  /\ tab \in [Slots -> Minode] /\ tab' \in [Slots -> Minode]
         /\ disk \in [Inos -> Vals] /\ disk' \in [Inos -> Vals]
         /\ Single(tab) /\ Single(tab')
BY DEF IInv, TypeOK, OneSlotPerInode, Single

(* Steps that change who uses a minode, and nothing a user can see.        *)
LEMMA Unseen ==
  ASSUME IInv, IInv', disk' = disk,
         \A s \in Slots : InUse(tab'[s]) <=> InUse(tab[s]),
         \A s \in Slots : InUse(tab[s]) =>
           /\ tab'[s].ino = tab[s].ino
           /\ tab'[s].dirty = tab[s].dirty
           /\ tab'[s].data = tab[s].data
  PROVE  UNCHANGED Store!vars
<1>1. ViewOf(tab', disk') = ViewOf(tab, disk)
  <2>1. \A i \in Inos : ViewOf(tab', disk')[i] = ViewOf(tab, disk)[i]
    <3> SUFFICES ASSUME NEW i \in Inos
                 PROVE  ViewOf(tab', disk')[i] = ViewOf(tab, disk)[i]
      OBVIOUS
    <3>1. CASE \E s \in Slots : InUse(tab[s]) /\ tab[s].ino = i
      BY <3>1, Views, ViewIs
    <3>2. CASE \A s \in Slots : InUse(tab[s]) => tab[s].ino # i
      BY <3>2, Views, ViewIs
    <3> QED BY <3>1, <3>2
  <2> QED BY <2>1 DEF ViewOf
<1>2. MarkedOf(tab') = MarkedOf(tab) BY DEF MarkedOf
<1> QED BY <1>1, <1>2 DEF Store!vars

(* The end of a run, and the mount that follows it, is a crash.            *)
LEMMA RebootRefines ==
  ASSUME IInv, IInv', Reboot
  PROVE  Store!Crash
<1> USE DEF Reboot
<1>1. disk \in [Inos -> Vals] BY DEF IInv, TypeOK
<1>2. \A s \in Slots : tab'[s].data = disk[Root] /\ tab'[s].ino = Root
                      /\ tab'[s].dirty = FALSE
  BY DEF MountedTable
<1>3. \A i \in Inos : ViewOf(tab', disk')[i] = disk[i]
  <2> SUFFICES ASSUME NEW i \in Inos PROVE ViewOf(tab', disk')[i] = disk[i]
    OBVIOUS
  <2>1. CASE \E s \in Slots : InUse(tab'[s]) /\ tab'[s].ino = i
    BY <2>1, <1>2, Views, ViewIs
  <2>2. CASE \A s \in Slots : InUse(tab'[s]) => tab'[s].ino # i
    BY <2>2, Views, ViewIs
  <2> QED BY <2>1, <2>2
<1>4. ViewOf(tab', disk') = disk BY <1>1, <1>3 DEF ViewOf
<1>5. MarkedOf(tab') = {} BY <1>2 DEF MarkedOf
<1> QED BY <1>4, <1>5 DEF Store!Crash

(* iput is invisible, or saves the inode, or drops an unmarked change.     *)
LEMMA PutRefines ==
  ASSUME IInv, IInv', NEW s \in Slots, tab[s].ref > 0, PutSlot(s)
  PROVE  [Store!Next]_(Store!vars)
<1>1. tab[s] \in Minode /\ tab[s].ref \in Int /\ tab[s].ino \in Inos
      /\ tab[s].data \in Vals
  BY DEF IInv, TypeOK, Minode
<1>2. tab' = [tab EXCEPT ![s] = Released(tab[s])] BY DEF PutSlot
<1>3. tab'[s] = Released(tab[s]) /\ \A r \in Slots : r # s => tab'[r] = tab[r]
  BY <1>2, Views
<1>4. tab'[s].ref = tab[s].ref - 1 /\ tab'[s].ino = tab[s].ino
      /\ tab'[s].dirty = tab[s].dirty /\ tab'[s].data = tab[s].data
  BY <1>1, <1>3, ReleasedType
<1>5. InUse(tab[s]) BY <1>1 DEF InUse
<1>6. CASE tab[s].ref # 1
  <2>1. ~WritesBack(tab[s]) BY <1>1, <1>6 DEF WritesBack
  <2>2. disk' = disk BY <2>1 DEF PutSlot
  <2>3. InUse(tab'[s]) BY <1>1, <1>4, <1>6 DEF InUse
  <2>4. \A r \in Slots : InUse(tab'[r]) <=> InUse(tab[r])
    BY <1>3, <1>5, <2>3
  <2> QED BY <1>3, <1>4, <2>2, <2>4, Unseen
<1>7. CASE tab[s].ref = 1
  <2> DEFINE i == tab[s].ino
  <2>1. ~InUse(tab'[s]) BY <1>4, <1>7 DEF InUse
  <2>2. WritesBack(tab[s]) <=> tab[s].dirty BY <1>7 DEF WritesBack
  <2>3. \A r \in Slots : InUse(tab'[r]) => InUse(tab[r]) /\ tab'[r] = tab[r]
                                          /\ tab[r].ino # i
    BY <1>3, <1>5, <2>1, Views DEF Single
  <2>4. disk' = IF tab[s].dirty THEN [disk EXCEPT ![i] = tab[s].data] ELSE disk
    BY <2>2 DEF PutSlot
  <2>5. disk'[i] = IF tab[s].dirty THEN tab[s].data ELSE disk[i]
    BY <1>1, <2>4, Views
  <2>6. \A j \in Inos : j # i => disk'[j] = disk[j] BY <2>4, Views
  <2>7. ViewOf(tab', disk')[i] = disk'[i] BY <1>1, <2>3, Views, ViewIs
  <2>8. ViewOf(tab, disk)[i] = tab[s].data BY <1>5, Views, ViewIs
  <2>9. \A j \in Inos : j # i => ViewOf(tab', disk')[j] = ViewOf(tab, disk)[j]
    <3> SUFFICES ASSUME NEW j \in Inos, j # i
                 PROVE  ViewOf(tab', disk')[j] = ViewOf(tab, disk)[j]
      OBVIOUS
    <3>1. CASE \E r \in Slots : InUse(tab[r]) /\ tab[r].ino = j
      <4>1. PICK r \in Slots : InUse(tab[r]) /\ tab[r].ino = j BY <3>1
      <4>2. r # s /\ tab'[r] = tab[r] BY <1>3, <4>1
      <4> QED BY <4>1, <4>2, Views, ViewIs
    <3>2. CASE \A r \in Slots : InUse(tab[r]) => tab[r].ino # j
      <4>1. \A r \in Slots : InUse(tab'[r]) => tab'[r].ino # j
        BY <2>3, <3>2
      <4> QED BY <2>6, <3>2, <4>1, Views, ViewIs
    <3> QED BY <3>1, <3>2
  <2>10. CASE tab[s].dirty
    <3>1. \A j \in Inos : ViewOf(tab', disk')[j] = ViewOf(tab, disk)[j]
      BY <2>5, <2>7, <2>8, <2>9, <2>10
    <3>2. ViewOf(tab', disk') = ViewOf(tab, disk) BY <3>1 DEF ViewOf
    <3>3. i \in MarkedOf(tab) BY <1>5, <2>10 DEF MarkedOf
    <3>4. MarkedOf(tab') = MarkedOf(tab) \ {i}
      BY <1>3, <2>1, <2>3 DEF MarkedOf
    <3>5. disk' = [disk EXCEPT ![i] = ViewOf(tab, disk)[i]]
      BY <2>4, <2>8, <2>10
    <3>6. Store!Save(i) BY <3>2, <3>3, <3>4, <3>5 DEF Store!Save
    <3> QED BY <1>1, <3>6 DEF Store!Next
  <2>11. CASE ~tab[s].dirty
    <3>1. disk' = disk BY <2>4, <2>11
    <3>2. ViewOf(tab', disk') = [ViewOf(tab, disk) EXCEPT ![i] = disk[i]]
      <4>1. \A j \in Inos : ViewOf(tab', disk')[j] =
               [ViewOf(tab, disk) EXCEPT ![i] = disk[i]][j]
        BY <1>1, <2>7, <2>9, <3>1, Views, ViewIs
      <4> QED BY <4>1 DEF ViewOf
    <3>3. i \notin MarkedOf(tab)
      BY <1>5, <2>11, Views DEF MarkedOf, Single
    <3>4. MarkedOf(tab') = MarkedOf(tab)
      BY <1>3, <2>1, <2>3, <2>11 DEF MarkedOf
    <3>5. Store!Drop(i) BY <3>1, <3>2, <3>3, <3>4 DEF Store!Drop
    <3> QED BY <1>1, <3>5 DEF Store!Next
  <2> QED BY <2>10, <2>11
<1> QED BY <1>6, <1>7

(* iget is invisible: it takes another reference, or loads what is seen.   *)
LEMMA GetRefines ==
  ASSUME IInv, IInv', NEW i \in Inos, GetCached(i) \/ GetLoad(i)
  PROVE  UNCHANGED Store!vars
<1>1. CASE GetCached(i)
  <2>1. PICK s \in Slots : /\ IsFirst(s, Cached(tab, i))
                           /\ tab' = [tab EXCEPT ![s] = Shared(tab[s])]
    BY <1>1 DEF GetCached
  <2>2. InUse(tab[s]) /\ tab[s] \in Minode /\ tab[s].ref \in Nat
    BY <2>1, Views, RefAssumption DEF IsFirst, Cached, Minode
  <2>3. tab'[s] = Shared(tab[s]) /\ \A r \in Slots : r # s => tab'[r] = tab[r]
    BY <2>1, Views
  <2>4. Shared(tab[s]).ref = tab[s].ref + 1
        /\ Shared(tab[s]).ino = tab[s].ino
        /\ Shared(tab[s]).dirty = tab[s].dirty
        /\ Shared(tab[s]).data = tab[s].data
    BY <2>2 DEF Shared, Minode
  <2>5. InUse(tab'[s]) BY <2>2, <2>3, <2>4 DEF InUse
  <2>6. disk' = disk BY <1>1 DEF GetCached
  <2>7. \A r \in Slots : InUse(tab'[r]) <=> InUse(tab[r])
    BY <2>2, <2>3, <2>5
  <2> QED BY <2>3, <2>4, <2>6, <2>7, Unseen
<1>2. CASE GetLoad(i)
  <2>1. PICK s \in Slots : /\ IsFirst(s, FreeSlots(tab))
                           /\ tab' = [tab EXCEPT ![s] = Loaded(i, disk[i])]
    BY <1>2 DEF GetLoad
  <2>2. ~InUse(tab[s]) BY <2>1 DEF IsFirst, FreeSlots
  <2>3. tab'[s] = Loaded(i, disk[i]) /\ \A r \in Slots : r # s => tab'[r] = tab[r]
    BY <2>1, Views
  <2>4. InUse(tab'[s]) /\ tab'[s].ino = i /\ tab'[s].data = disk[i]
        /\ tab'[s].dirty = FALSE
    BY <2>3 DEF Loaded, InUse
  <2>5. disk' = disk BY <1>2 DEF GetLoad
  <2>6. \A r \in Slots : InUse(tab[r]) => tab[r].ino # i /\ tab'[r] = tab[r]
    BY <1>2, <2>2, <2>3, Views DEF GetLoad, Cached
  <2>7. ViewOf(tab, disk)[i] = disk[i] BY <2>6, Views, ViewIs
  <2>8. ViewOf(tab', disk')[i] = disk[i] BY <2>4, Views, ViewIs
  <2>9. \A j \in Inos : ViewOf(tab', disk')[j] = ViewOf(tab, disk)[j]
    <3> SUFFICES ASSUME NEW j \in Inos, j # i
                 PROVE  ViewOf(tab', disk')[j] = ViewOf(tab, disk)[j]
      BY <2>7, <2>8
    <3>1. CASE \E r \in Slots : InUse(tab[r]) /\ tab[r].ino = j
      BY <3>1, <2>6, Views, ViewIs
    <3>2. CASE \A r \in Slots : InUse(tab[r]) => tab[r].ino # j
      <4>1. \A r \in Slots : InUse(tab'[r]) => tab'[r].ino # j
        BY <2>3, <2>4, <3>2
      <4> QED BY <2>5, <3>2, <4>1, Views, ViewIs
    <3> QED BY <3>1, <3>2
  <2>10. ViewOf(tab', disk') = ViewOf(tab, disk) BY <2>9 DEF ViewOf
  <2>11. MarkedOf(tab') = MarkedOf(tab)
    BY <2>2, <2>3, <2>4 DEF MarkedOf
  <2> QED BY <2>5, <2>10, <2>11 DEF Store!vars
<1> QED BY <1>1, <1>2

(* A command's change is a Write or a Touch of the inode that it holds.    *)
LEMMA ChangeRefines ==
  ASSUME IInv, IInv', NEW s \in Slots, NEW v \in Vals,
         Modify(s, v) \/ Touch(s, v)
  PROVE  Store!Next
<1> DEFINE i == tab[s].ino
<1>1. tab[s] \in Minode /\ i \in Inos BY Views DEF Minode
<1>2. tab[s].ref > 0
  BY DEF Modify, Touch, IInv, RefsAreUsers, TypeOK
<1>3. InUse(tab[s]) BY <1>2 DEF InUse
<1>4. disk' = disk BY DEF Modify, Touch
<1>5. /\ tab'[s].data = v /\ tab'[s].ino = i /\ tab'[s].ref = tab[s].ref
      /\ \A r \in Slots : r # s => tab'[r] = tab[r]
      /\ tab'[s].dirty = IF Modify(s, v) THEN TRUE ELSE tab[s].dirty
  <2>1. CASE Modify(s, v)
    BY <1>1, <2>1, Views DEF Modify, Minode
  <2>2. CASE ~Modify(s, v)
    BY <1>1, <2>2, Views DEF Touch, Minode
  <2> QED BY <2>1, <2>2
<1>6. InUse(tab'[s]) BY <1>3, <1>5 DEF InUse
<1>7. ViewOf(tab', disk')[i] = v BY <1>5, <1>6, Views, ViewIs
<1>8. \A j \in Inos : j # i => ViewOf(tab', disk')[j] = ViewOf(tab, disk)[j]
  <2> SUFFICES ASSUME NEW j \in Inos, j # i
               PROVE  ViewOf(tab', disk')[j] = ViewOf(tab, disk)[j]
    OBVIOUS
  <2>1. CASE \E r \in Slots : InUse(tab[r]) /\ tab[r].ino = j
    <3>1. PICK r \in Slots : InUse(tab[r]) /\ tab[r].ino = j BY <2>1
    <3>2. r # s /\ tab'[r] = tab[r] BY <1>5, <3>1
    <3> QED BY <3>1, <3>2, Views, ViewIs
  <2>2. CASE \A r \in Slots : InUse(tab[r]) => tab[r].ino # j
    <3>1. \A r \in Slots : InUse(tab'[r]) => tab'[r].ino # j
      BY <1>5, <2>2
    <3> QED BY <1>4, <2>2, <3>1, Views, ViewIs
  <2> QED BY <2>1, <2>2
<1>9. ViewOf(tab', disk') = [ViewOf(tab, disk) EXCEPT ![i] = v]
  <2>1. \A j \in Inos : ViewOf(tab', disk')[j] = [ViewOf(tab, disk) EXCEPT ![i] = v][j]
    BY <1>1, <1>7, <1>8, Views, ViewIs
  <2> QED BY <2>1 DEF ViewOf
<1>10. CASE Modify(s, v)
  <2>1. MarkedOf(tab') = MarkedOf(tab) \cup {i}
    BY <1>3, <1>5, <1>6, <1>10 DEF MarkedOf
  <2>2. Store!Write(i, v) BY <1>4, <1>9, <2>1 DEF Store!Write
  <2> QED BY <1>1, <2>2 DEF Store!Next
<1>11. CASE ~Modify(s, v)
  <2>1. MarkedOf(tab') = MarkedOf(tab)
    BY <1>3, <1>5, <1>6, <1>11 DEF MarkedOf
  <2>2. Store!Touch(i, v) BY <1>4, <1>9, <2>1 DEF Store!Touch
  <2> QED BY <1>1, <2>2 DEF Store!Next
<1> QED BY <1>10, <1>11

LEMMA NextRefines ==
  ASSUME IInv, IInv', [Next]_vars
  PROVE  [Store!Next]_(Store!vars)
<1>1. ASSUME NEW i \in Inos, GetCached(i) \/ GetLoad(i)
      PROVE  [Store!Next]_(Store!vars)
  BY <1>1, GetRefines
<1>2. ASSUME Reboot PROVE [Store!Next]_(Store!vars)
  BY <1>2, RebootRefines DEF Store!Next
<1>3. ASSUME NEW s \in Slots, Put(s) PROVE [Store!Next]_(Store!vars)
  <2>1. tab[s].ref > 0
    BY <1>3 DEF Put, Pinned, PinnedRefs, IInv, RefsAreUsers, TypeOK
  <2> QED BY <1>3, <2>1, PutRefines DEF Put
<1>4. ASSUME NEW s \in Slots, NEW v \in Vals, Modify(s, v) \/ Touch(s, v)
      PROVE  [Store!Next]_(Store!vars)
  BY <1>4, ChangeRefines
<1>5. CASE QuitPut BY <1>5, PutRefines DEF QuitPut
<1>6. CASE QuitStart \/ QuitSkip \/ UNCHANGED vars
  BY <1>6 DEF QuitStart, QuitSkip, vars, Store!vars
<1> QED
  BY <1>1, <1>2, <1>3, <1>4, <1>5, <1>6 DEF Next, GetPanic, QuitExit, Kill

LEMMA InitRefines == Init => Store!Init
<1> SUFFICES ASSUME Init PROVE Store!Init OBVIOUS
<1>1. disk \in [Inos -> Vals] BY DEF Init
<1>2. tab \in [Slots -> Minode] /\ Single(tab)
  BY <1>1, MountedType DEF Init, Single
<1>3. \A s \in Slots : tab[s].data = disk[Root] /\ tab[s].ino = Root
                      /\ tab[s].dirty = FALSE
  BY DEF Init, MountedTable
<1>4. \A i \in Inos : ViewOf(tab, disk)[i] = disk[i]
  <2> SUFFICES ASSUME NEW i \in Inos PROVE ViewOf(tab, disk)[i] = disk[i]
    OBVIOUS
  <2>1. CASE \E s \in Slots : InUse(tab[s]) /\ tab[s].ino = i
    BY <2>1, <1>1, <1>2, <1>3, ViewIs
  <2>2. CASE \A s \in Slots : InUse(tab[s]) => tab[s].ino # i
    BY <2>2, <1>1, <1>2, ViewIs
  <2> QED BY <2>1, <2>2
<1>5. ViewOf(tab, disk) = disk BY <1>1, <1>4 DEF ViewOf
<1>6. MarkedOf(tab) = {} BY <1>3 DEF MarkedOf
<1> QED BY <1>1, <1>5, <1>6 DEF Store!Init

(* iget, iput, mialloc and quit implement a store of inodes: users of one  *)
(* inode see one value, and a change marked dirty is saved by the last     *)
(* iput, whatever slots are reused in between.                             *)
THEOREM Implementation == Spec => ImplementsStore
<1>1. Init => Store!Init BY InitRefines
<1>2. IInv /\ IInv' /\ [Next]_vars => [Store!Next]_(Store!vars) BY NextRefines
<1> QED BY <1>1, <1>2, Invariance, PTL DEF Spec, ImplementsStore, Store!Spec

=============================================================================

------------------------- MODULE BitmapAllocProofs -------------------------
(***************************************************************************)
(* Proofs about the inode bitmap (Kind = "inode"), for every size, image   *)
(* and number of kills.  For the block bitmap MapExact is false: see the   *)
(* run block_release.                                                      *)
(***************************************************************************)
EXTENDS BitmapAlloc, FiniteSetTheorems, TLAPS



(* While an allocation runs, buf is the bitmap with the chosen bit added.  *)
Allocating == pc \in {"dec_super", "dec_group", "put_map"}
BufExact == Allocating => bit \notin map /\ buf = map \cup {bit}

(* What the running call has counted so far: 1 where its write to the      *)
(* count and its write to the bitmap are not both done.                    *)
OwedSuper == IF pc \in {"dec_group", "put_map", "inc_super"} THEN 1 ELSE 0
OwedGroup == IF pc \in {"put_map", "inc_super", "inc_group"} THEN 1 ELSE 0

LagInv ==
  /\ Lag(super, SuperWidth) \in OwedSuper .. kills + OwedSuper
  /\ Lag(group, GroupWidth) \in OwedGroup .. kills + OwedGroup

(* No file holds a reserved number. *)
GivenUnreserved == given \cap Reserved = {}

(* The inductive invariant. *)
IInv == TypeOK /\ MapExact /\ GivenUnreserved /\ BufExact /\ LagInv

-----------------------------------------------------------------------------
(* The number of clear bits of a bitmap. *)

LEMMA BitsFinite == IsFiniteSet(Bits) /\ Cardinality(Bits) = NBits
<1>1. 0 \in Int /\ NBits - 1 \in Int
  BY SizeAssumption
<1>2. IsFiniteSet(0..NBits-1)
      /\ Cardinality(0..NBits-1) = IF 0 > NBits-1 THEN 0 ELSE NBits - 1 - 0 + 1
  BY <1>1, FS_Interval
<1> QED BY <1>2, SizeAssumption DEF Bits

(* The clear bits are between none and all of the bits scanned. *)
LEMMA ClearRange == ASSUME NEW m PROVE Clear(m) \in 0..NBits
<1>1. m \cap Bits \subseteq Bits OBVIOUS
<1>2. IsFiniteSet(m \cap Bits) /\ Cardinality(m \cap Bits) <= Cardinality(Bits)
  BY <1>1, BitsFinite, FS_Subset
<1>3. Cardinality(m \cap Bits) \in Nat
  BY <1>2, FS_CardinalityType
<1> QED BY <1>2, <1>3, BitsFinite, SizeAssumption DEF Clear

(* Marking a clear bit leaves one clear bit less. *)
LEMMA ClearMark ==
  ASSUME NEW m, NEW b \in Bits, b \notin m
  PROVE  Clear(m \cup {b}) = Clear(m) - 1
<1>1. (m \cup {b}) \cap Bits = (m \cap Bits) \cup {b} OBVIOUS
<1>2. IsFiniteSet(m \cap Bits) BY BitsFinite, FS_Subset
<1>3. Cardinality((m \cap Bits) \cup {b}) = Cardinality(m \cap Bits) + 1
  BY <1>2, FS_AddElement
<1>4. Cardinality(m \cap Bits) \in Nat BY <1>2, FS_CardinalityType
<1>5. Cardinality((m \cup {b}) \cap Bits) = Cardinality(m \cap Bits) + 1
  BY <1>1, <1>3
<1> QED BY <1>4, <1>5, SizeAssumption DEF Clear

(* Unmarking a set bit leaves one clear bit more. *)
LEMMA ClearUnmark ==
  ASSUME NEW m, NEW b \in Bits, b \in m
  PROVE  Clear(m \ {b}) = Clear(m) + 1
<1>1. b \notin m \ {b} /\ (m \ {b}) \cup {b} = m OBVIOUS
<1>2. Clear(m) = Clear(m \ {b}) - 1
  <2>1. Clear((m \ {b}) \cup {b}) = Clear(m \ {b}) - 1
    BY <1>1, ClearMark
  <2> QED BY <2>1, <1>1
<1> QED BY <1>2, ClearRange

-----------------------------------------------------------------------------
(* The initial state and every step. *)

LEMMA InitIInv == Init => IInv
<1> SUFFICES ASSUME Init PROVE IInv OBVIOUS
<1> USE DEF Init
<1>1. Clear(map) \in 0..NBits BY ClearRange
<1>2. MapExact BY DEF MapExact
<1>3. TypeOK
  <2>1. map \subseteq 0..NBits
    BY ImageAssumption, SizeAssumption DEF Numbers
  <2>2. super \in 0..SuperWidth-1 /\ group \in 0..GroupWidth-1
    BY <1>1, WidthAssumption, SizeAssumption, KillAssumption
  <2> QED BY <2>1, <2>2, ImageAssumption, SizeAssumption, KillAssumption
         DEF TypeOK, Bits, Numbers, NoAnswer
<1>4. BufExact BY DEF BufExact, Allocating
<1>5. LagInv BY <1>1 DEF LagInv, Lag, OwedSuper, OwedGroup
<1>6. GivenUnreserved BY ImageAssumption DEF GivenUnreserved
<1> QED BY <1>2, <1>3, <1>4, <1>5, <1>6 DEF IInv

LEMMA NextIInv ==
  ASSUME Kind = "inode", IInv, [Next]_vars
  PROVE  IInv'
<1> USE SizeAssumption, KillAssumption, WidthAssumption
<1> USE DEF IInv, GivenUnreserved
<1>0. Clear(map) \in 0..NBits BY ClearRange
<1>1. CASE ScanFound
  <2> USE <1>1 DEF ScanFound
  <2>1. PICK b \in Bits : IsLowestClear(b, map) /\ bit' = b /\ buf' = map \cup {b}
    OBVIOUS
  <2>2. b \notin map BY <2>1 DEF IsLowestClear
  <2>3. TypeOK' BY <2>1 DEF TypeOK, Bits
  <2>4. MapExact' BY DEF MapExact
  <2>5. BufExact' BY <2>1, <2>2 DEF BufExact
  <2>6. LagInv' BY DEF LagInv, Lag, OwedSuper, OwedGroup, Clear
  <2> QED BY <2>3, <2>4, <2>5, <2>6
<1>2. CASE ScanFull
  BY <1>2 DEF ScanFull, TypeOK, MapExact, BufExact, Allocating,
              LagInv, Lag, OwedSuper, OwedGroup, Clear
<1>3. CASE DecSuper
  <2> USE <1>3 DEF DecSuper
  <2>1. TypeOK' BY DEF TypeOK, WrapDec
  <2>2. MapExact' BY DEF MapExact
  <2>3. BufExact' BY DEF BufExact, Allocating
  <2>4. Clear(map') = Clear(map) OBVIOUS
  <2>5. LagInv'
    BY <1>0, <2>4 DEF LagInv, Lag, OwedSuper, OwedGroup, WrapDec, TypeOK
  <2> QED BY <2>1, <2>2, <2>3, <2>5
<1>4. CASE DecGroup
  <2> USE <1>4 DEF DecGroup
  <2>1. TypeOK' BY DEF TypeOK, WrapDec
  <2>2. MapExact' BY DEF MapExact
  <2>3. BufExact' BY DEF BufExact, Allocating
  <2>4. Clear(map') = Clear(map) OBVIOUS
  <2>5. LagInv'
    BY <1>0, <2>4 DEF LagInv, Lag, OwedSuper, OwedGroup, WrapDec, TypeOK
  <2> QED BY <2>1, <2>2, <2>3, <2>5
<1>5. CASE PutMap
  <2> USE <1>5 DEF PutMap
  <2>1. bit \notin map /\ map' = map \cup {bit}
    BY DEF BufExact, Allocating
  <2>2. bit \in Bits /\ bit + 1 \in Numbers /\ (bit + 1) - 1 = bit
    BY DEF TypeOK, Bits, Numbers
  <2>3. TypeOK' BY <2>2 DEF TypeOK, Bits
  <2>4. MapExact' BY <2>1, <2>2 DEF MapExact
  <2>5. BufExact' BY DEF BufExact, Allocating
  <2>6. Clear(map') = Clear(map) - 1 BY <2>1, <2>2, ClearMark
  <2>7. LagInv' BY <1>0, <2>6 DEF LagInv, Lag, OwedSuper, OwedGroup, TypeOK
  <2>8. GivenUnreserved'
    <3>1. bit + 1 \notin Reserved
      BY <2>1, <2>2 DEF MapExact
    <3> QED BY <3>1
  <2> QED BY <2>3, <2>4, <2>5, <2>7, <2>8
<1>6. CASE ClearMap
  <2> USE <1>6 DEF ClearMap
  <2>1. PICK n \in given : map' = map \ {FreeBit(n)} /\ given' = given \ {n}
    OBVIOUS
  <2>2. FreeBit(n) = n - 1 /\ n \in Numbers /\ n - 1 \in Bits
    BY <2>1, Kind = "inode" DEF FreeBit, TypeOK, Numbers, Bits
  <2>3. n - 1 \in map BY <2>2 DEF MapExact
  <2>4. TypeOK' BY <2>1 DEF TypeOK
  <2>5. MapExact'
    <3>1. \A k \in given \cup Reserved : k \in Int
      BY ImageAssumption DEF TypeOK, Numbers
    <3>2. \A k \in given \cup Reserved : k - 1 = n - 1 => k = n
      BY <3>1, <2>2 DEF Numbers
    <3>3. (given \ {n}) \cup Reserved = (given \cup Reserved) \ {n}
      OBVIOUS
    <3> QED BY <2>1, <2>2, <3>2, <3>3 DEF MapExact
  <2>6. BufExact' BY DEF BufExact, Allocating
  <2>7. Clear(map') = Clear(map) + 1 BY <2>1, <2>2, <2>3, ClearUnmark
  <2>8. LagInv' BY <1>0, <2>7 DEF LagInv, Lag, OwedSuper, OwedGroup, TypeOK
  <2> QED BY <2>4, <2>5, <2>6, <2>8
<1>7. CASE IncSuper
  <2> USE <1>7 DEF IncSuper
  <2>1. TypeOK' BY DEF TypeOK, WrapInc
  <2>2. MapExact' BY DEF MapExact
  <2>3. BufExact' BY DEF BufExact, Allocating
  <2>4. Clear(map') = Clear(map) OBVIOUS
  <2>5. LagInv'
    BY <1>0, <2>4 DEF LagInv, Lag, OwedSuper, OwedGroup, WrapInc, TypeOK
  <2> QED BY <2>1, <2>2, <2>3, <2>5
<1>8. CASE IncGroup
  <2> USE <1>8 DEF IncGroup
  <2>1. TypeOK' BY DEF TypeOK, WrapInc
  <2>2. MapExact' BY DEF MapExact
  <2>3. BufExact' BY DEF BufExact, Allocating
  <2>4. Clear(map') = Clear(map) OBVIOUS
  <2>5. LagInv'
    BY <1>0, <2>4 DEF LagInv, Lag, OwedSuper, OwedGroup, WrapInc, TypeOK
  <2> QED BY <2>1, <2>2, <2>3, <2>5
<1>9. CASE Kill
  <2> USE <1>9 DEF Kill, disk
  <2>1. TypeOK' BY DEF TypeOK, Bits, NoAnswer
  <2>2. MapExact' BY DEF MapExact
  <2>3. BufExact' BY DEF BufExact, Allocating
  <2>4. Clear(map') = Clear(map) OBVIOUS
  <2>5. LagInv' BY <1>0, <2>4 DEF LagInv, Lag, OwedSuper, OwedGroup, TypeOK
  <2> QED BY <2>1, <2>2, <2>3, <2>5
<1>10. CASE UNCHANGED vars
  BY <1>10 DEF vars, TypeOK, MapExact, BufExact, Allocating,
               LagInv, Lag, OwedSuper, OwedGroup, Clear
<1> QED BY <1>1, <1>2, <1>3, <1>4, <1>5, <1>6, <1>7, <1>8, <1>9, <1>10 DEF Next

-----------------------------------------------------------------------------
(* The inode allocator of ialloc_balloc.c keeps the inductive invariant.   *)
THEOREM Invariance == ASSUME Kind = "inode" PROVE Spec => []IInv
<1>1. Init => IInv BY InitIInv
<1>2. IInv /\ [Next]_vars => IInv' BY Kind = "inode", NextIInv
<1> QED BY <1>1, <1>2, PTL DEF Spec

(* Every field of the disk and of the calls keeps its type and width.      *)
THEOREM TypeCorrect == ASSUME Kind = "inode" PROVE Spec => []TypeOK
<1>1. IInv => TypeOK BY DEF IInv
<1> QED BY Kind = "inode", <1>1, Invariance, PTL

(* The inode bitmap marks the reserved and the held inodes and no other,   *)
(* after each put_block of ialloc and idealloc and after each kill.        *)
THEOREM MapAlwaysExact == ASSUME Kind = "inode" PROVE Spec => []MapExact
<1>1. IInv => MapExact BY DEF IInv
<1> QED BY Kind = "inode", <1>1, Invariance, PTL

(* The free inode counts lag behind the bitmap by at most one per kill of  *)
(* decFreeInodes/incFreeInodes, and the running call's one.                *)
THEOREM CountsAlwaysLag == ASSUME Kind = "inode" PROVE Spec => []CountsLag
<1>1. IInv => CountsLag
  <2> SUFFICES ASSUME IInv PROVE CountsLag OBVIOUS
  <2>1. kills \in Int BY KillAssumption DEF IInv, TypeOK
  <2>2. OwedSuper <= (IF pc = "idle" THEN 0 ELSE 1)
        /\ OwedGroup <= (IF pc = "idle" THEN 0 ELSE 1)
        /\ OwedSuper \in Int /\ OwedGroup \in Int
    BY DEF OwedSuper, OwedGroup
  <2>3. Lag(super, SuperWidth) \in OwedSuper .. kills + OwedSuper
        /\ Lag(group, GroupWidth) \in OwedGroup .. kills + OwedGroup
    BY DEF IInv, LagInv
  <2> HIDE DEF OwedSuper, OwedGroup
  <2> QED BY <2>1, <2>2, <2>3 DEF CountsLag
<1> QED BY Kind = "inode", <1>1, Invariance, PTL

(* A program that was never killed has both free inode counts right        *)
(* whenever no call runs.                                                  *)
THEOREM CountsAlwaysExact == ASSUME Kind = "inode" PROVE Spec => []CountsExact
<1>1. IInv => CountsExact
  <2> SUFFICES ASSUME IInv, kills = 0, pc = "idle"
               PROVE  super = Clear(map) /\ group = Clear(map)
    BY DEF CountsExact
  <2>1. Lag(super, SuperWidth) \in 0..0 /\ Lag(group, GroupWidth) \in 0..0
    BY DEF IInv, LagInv, OwedSuper, OwedGroup
  <2>2. Clear(map) \in 0..NBits BY ClearRange
  <2> QED BY <2>1, <2>2, SizeAssumption, WidthAssumption
          DEF IInv, TypeOK, Lag
<1> QED BY Kind = "inode", <1>1, Invariance, PTL

-----------------------------------------------------------------------------
(* The refinement of AbstractAlloc. *)

(* The abstract pool of a bitmap that is exact. *)
FreeNumbers == {n \in Numbers : n - 1 \notin map}

LEMMA FreeIsRest ==
  ASSUME MapExact, given \subseteq Numbers
  PROVE  FreeNumbers = Numbers \ (given \cup Reserved)
<1>1. \A n, k \in Numbers : n - 1 = k - 1 => n = k
  BY SizeAssumption DEF Numbers
<1>2. given \cup Reserved \subseteq Numbers BY ImageAssumption
<1>3. \A n \in Numbers : n - 1 \in map <=> n \in given \cup Reserved
  BY <1>1, <1>2 DEF MapExact
<1> QED BY <1>3 DEF FreeNumbers

LEMMA InitRefines == Init => Pool!Init
<1> SUFFICES ASSUME Init PROVE Pool!Init OBVIOUS
<1>1. MapExact /\ given = Held BY DEF Init, MapExact
<1>2. given \subseteq Numbers BY <1>1, ImageAssumption
<1>3. FreeNumbers = Numbers \ (Held \cup Reserved) BY <1>1, <1>2, FreeIsRest
<1> QED BY <1>1, <1>3 DEF Init, Pool!Init, FreeNumbers, Numbers, NoAnswer, Pool!NoAnswer

(* PutMap is Alloc, ClearMap is Release, a scan that finds nothing is      *)
(* Fail, a kill is Forget, and the other writes are invisible.             *)
LEMMA NextRefines ==
  ASSUME Kind = "inode", IInv, IInv', [Next]_vars
  PROVE  [Pool!Next]_(Pool!vars)
<1>a. FreeNumbers = Numbers \ (given \cup Reserved)
  BY FreeIsRest DEF IInv, TypeOK
<1>b. FreeNumbers' = Numbers \ (given' \cup Reserved)
  <2>1. \A n, k \in Numbers : n - 1 = k - 1 => n = k
    BY SizeAssumption DEF Numbers
  <2>2. given' \cup Reserved \subseteq Numbers
    BY ImageAssumption DEF IInv, TypeOK
  <2>3. \A n \in Numbers : n - 1 \in map' <=> n \in given' \cup Reserved
    BY <2>1, <2>2 DEF IInv, MapExact
  <2> QED BY <2>3 DEF FreeNumbers
<1>c. given \cap Reserved = {} /\ given \subseteq Numbers
  BY DEF IInv, GivenUnreserved, TypeOK
<1> USE DEF Pool!Next, Pool!vars
<1>1. CASE PutMap
  <2>1. bit \notin map /\ bit \in Bits /\ (bit + 1) - 1 = bit
        /\ bit + 1 \in Numbers
    BY <1>1, SizeAssumption
       DEF PutMap, IInv, BufExact, Allocating, TypeOK, Bits, Numbers
  <2>2. bit + 1 \in FreeNumbers BY <2>1 DEF FreeNumbers
  <2>3. given' = given \cup {bit + 1} /\ ret' = bit + 1
    BY <1>1 DEF PutMap
  <2>4. FreeNumbers' = FreeNumbers \ {bit + 1} BY <1>a, <1>b, <2>3
  <2>5. Pool!Alloc BY <2>2, <2>3, <2>4 DEF Pool!Alloc, FreeNumbers
  <2> QED BY <2>5
<1>2. CASE ClearMap
  <2>1. PICK n \in given : given' = given \ {n} BY <1>2 DEF ClearMap
  <2>2. FreeNumbers' = FreeNumbers \cup {n} BY <1>a, <1>b, <1>c, <2>1
  <2>3. Pool!Release
    BY <1>2, <2>1, <2>2 DEF Pool!Release, FreeNumbers, ClearMap
  <2> QED BY <2>3
<1>3. CASE ScanFull
  <2>1. \A n \in Numbers : n - 1 \in Bits
    BY SizeAssumption DEF Numbers, Bits
  <2>2. FreeNumbers = {} BY <1>3, <2>1 DEF ScanFull, FreeNumbers
  <2>3. map' = map BY <1>3 DEF ScanFull
  <2>4. Pool!Fail BY <1>3, <2>2, <2>3 DEF ScanFull, Pool!Fail, FreeNumbers
  <2> QED BY <2>4
<1>4. CASE Kill
  BY <1>4 DEF Kill, disk, Pool!Forget, NoAnswer, Pool!NoAnswer
<1>5. CASE ScanFound BY <1>5 DEF ScanFound
<1>6. CASE DecSuper BY <1>6 DEF DecSuper
<1>7. CASE DecGroup BY <1>7 DEF DecGroup
<1>8. CASE IncSuper BY <1>8 DEF IncSuper
<1>9. CASE IncGroup BY <1>9 DEF IncGroup
<1>10. CASE UNCHANGED vars BY <1>10 DEF vars
<1> QED
  BY <1>1, <1>2, <1>3, <1>4, <1>5, <1>6, <1>7, <1>8, <1>9, <1>10 DEF Next

(* The inode bitmap implements the pool of free numbers that mymkdir,      *)
(* my_creat and remove_dir rely on.                                        *)
THEOREM Implementation == ASSUME Kind = "inode" PROVE Spec => ImplementsPool
<1>1. Init => Pool!Init BY InitRefines
<1>2. IInv /\ IInv' /\ [Next]_vars => [Pool!Next]_(Pool!vars)
  BY Kind = "inode", NextRefines
<1>3. Spec => []IInv BY Kind = "inode", Invariance
<1> QED BY <1>1, <1>2, <1>3, PTL DEF Spec, ImplementsPool, Pool!Spec

=============================================================================

-------------------------- MODULE FileTreeProofs --------------------------
(***************************************************************************)
(* Proofs about the pointers of the file tree simulator, for every heap,   *)
(* every set of names and every set of paths.                              *)
(***************************************************************************)
EXTENDS FileTree, TLAPS

Used(a) == mem[a].parent # NULL

(* The parent pointers of nodes that are or were in use lead to such nodes: *)
(* cd .. and pwd never meet NULL.                                           *)
ParentsUsed ==
  /\ \A a \in live : Used(a)
  /\ \A a \in Addr : Used(a) => mem[a].parent \in Addr /\ Used(mem[a].parent)
  /\ Used(cwd)

RootKept ==
  pc # "freed" => /\ root \in live
                  /\ mem[root].parent = root
                  /\ mem[root].sibling = root

RootUnlinked ==
  \A a \in live : mem[a].child # root /\ (a # root => mem[a].sibling # root)

(* LinksSound, pointer by pointer. *)
Links ==
  \A a \in live, b \in Addr \ {root} :
    mem[a].child = b \/ mem[a].sibling = b => b \in live /\ mem[b].parent = a

OneField == \A a \in live : mem[a].child # NULL => mem[a].child # mem[a].sibling

(* A file has no entries, and a directory had none when it was removed: no  *)
(* relative path leads out of a working directory that is gone.             *)
Leaves == \A a \in Addr : a \notin live \/ ~IsDir(a) => mem[a].child = NULL

RootIsDir == pc # "freed" => IsDir(root)

HeapOK == /\ ParentsUsed /\ RootKept /\ RootIsDir /\ RootUnlinked
          /\ Links /\ OneField /\ Leaves

Pointed(b) == \E a \in live : mem[a].child = b \/ mem[a].sibling = b

(* What the running command knows of the nodes that it has reached. *)
LocalsOK ==
  /\ pc \in {"path", "search", "pwd"} => Used(p)
  /\ pc \in {"main", "path"} => c = NULL
  /\ pc = "path" /\ path = <<>> => p = root \/ Pointed(p)
  /\ pc = "search" => path # <<>> /\ c \in Addr \ {root} /\ Pointed(c)
  /\ pc = "insert" => /\ p \in live /\ IsDir(p)
                      /\ c # NULL => c \in live \ {root}

IInv == TypeOK /\ HeapOK /\ LocalsOK

----------------------------------------------------------------------------
LEMMA RootNull == root \in Addr /\ NULL \notin Addr
BY AddrAssumption DEF NULL

LEMMA InitIInv == Init => IInv
<1> SUFFICES ASSUME Init PROVE IInv OBVIOUS
<1> USE AddrAssumption DEF Init, NULL, Root, NewNode, Unused, Slash
<1>1. mem \in [Addr -> NodeRec]
  BY DEF NodeRec, Kinds
<1>2. TypeOK
  BY <1>1 DEF TypeOK, Over, Commands
<1>3. HeapOK
  BY DEF HeapOK, ParentsUsed, RootKept, RootIsDir, RootUnlinked, Links, OneField,
       Leaves, Used,
         IsDir
<1>4. LocalsOK
  BY DEF LocalsOK
<1> QED BY <1>2, <1>3, <1>4 DEF IInv

(* LinksSound says the same as Links. *)
LEMMA LinksAreSound == TypeOK /\ Links => LinksSound
<1> SUFFICES ASSUME TypeOK, Links, NEW b \in Addr \ {root}, PointTo(b) # {}
             PROVE  b \in live /\ PointTo(b) = {mem[b].parent}
  BY DEF LinksSound
<1>1. \A a \in PointTo(b) : a \in live /\ b \in live /\ mem[b].parent = a
  BY DEF PointTo, Links
<1> QED BY <1>1

----------------------------------------------------------------------------
(* Steps that leave the heap alone keep what is known of it. *)

LEMMA HeapKept ==
  ASSUME HeapOK, UNCHANGED <<mem, live>>, Used(cwd'), pc # "freed"
  PROVE  HeapOK'
BY DEF HeapOK, ParentsUsed, RootKept, RootIsDir, RootUnlinked, Links, OneField,
       Leaves, Used, IsDir

LEMMA HeapSame ==
  ASSUME HeapOK, UNCHANGED heap, pc # "freed"
  PROVE  HeapOK'
BY HeapKept DEF heap, HeapOK, ParentsUsed

(* Back at the prompt nothing is known of the locals. *)
LEMMA ReturnLocals ==
  ASSUME Return
  PROVE  LocalsOK'
BY DEF Return, LocalsOK

LEMMA ReturnType ==
  ASSUME Return
  PROVE  /\ pc' = "main" /\ cmd' \in Commands /\ path' \in Seq(Name)
         /\ bname' \in Name \cup {Slash} /\ p' \in Addr
         /\ c' \in Addr \cup {NULL} /\ i' \in Nat
BY AddrAssumption DEF Return, Commands

LEMMA EndsLocals ==
  ASSUME NEW how \in Over, Ends(how)
  PROVE  LocalsOK'
BY DEF Ends, LocalsOK, Over

----------------------------------------------------------------------------
(* insert: a new block hangs behind node a, whose field that now points to  *)
(* it was NULL.                                                             *)

LEMMA Malloc == TypeOK => malloc \subseteq Addr \ live
BY DEF malloc, TypeOK

LEMMA LinkedHeap ==
  ASSUME TypeOK, HeapOK, pc # "freed", UNCHANGED cwd, pc' # "freed",
         NEW a \in live, NEW new \in Addr \ live, NEW changed \in NodeRec,
         mem' = Linked(a, changed, new),
         live' = live \cup {new},
         changed.name = mem[a].name, changed.type = mem[a].type,
         changed.parent = mem[a].parent,
         \/ /\ mem[a].child = NULL /\ IsDir(a)
            /\ changed.child = new /\ changed.sibling = mem[a].sibling
         \/ /\ a # root /\ mem[a].sibling = NULL
            /\ changed.sibling = new /\ changed.child = mem[a].child
  PROVE  mem' \in [Addr -> NodeRec] /\ HeapOK'
<1> USE RootNull
<1> DEFINE node == NewNode(bname, TypeOf(cmd), a)
<1>1. /\ mem \in [Addr -> NodeRec] /\ live \subseteq Addr /\ cwd \in Addr
      /\ bname \in Name \cup {Slash}
  BY DEF TypeOK
<1>2. /\ node \in NodeRec
      /\ node.child = NULL /\ node.sibling = NULL /\ node.parent = a
  BY <1>1 DEF NewNode, NodeRec, TypeOf, Kinds
<1>3. /\ mem' \in [Addr -> NodeRec]
      /\ a # new
      /\ mem'[a] = changed /\ mem'[new] = node
      /\ \A x \in Addr : x # a /\ x # new => mem'[x] = mem[x]
  BY <1>1, <1>2 DEF Linked
<1> HIDE DEF node
<1>4. root \in live /\ root # new
  BY DEF HeapOK, RootKept
<1>5. \A x \in live : mem[x].child # new /\ mem[x].sibling # new
  <2> SUFFICES ASSUME NEW x \in live, mem[x].child = new \/ mem[x].sibling = new
               PROVE  FALSE
    OBVIOUS
  <2> QED BY <1>4 DEF HeapOK, Links
<1>6. ParentsUsed'
  <2>1. Used(a) /\ a \in Addr
    BY <1>1 DEF HeapOK, ParentsUsed
  <2>2. mem'[a].parent = mem[a].parent /\ mem'[new].parent = a
    BY <1>2, <1>3
  <2>3. \A x \in Addr : x # new => mem'[x].parent = mem[x].parent
    BY <1>3, <2>2
  <2>4. \A x \in Addr : Used(x) => Used(x)'
    BY <2>1, <2>2, <2>3 DEF Used
  <2>5. \A x \in live' : Used(x)'
    BY <1>1, <2>1, <2>2, <2>4 DEF HeapOK, ParentsUsed, Used
  <2>6. ASSUME NEW x \in Addr, Used(x)'
        PROVE  (mem[x].parent \in Addr /\ Used(mem[x].parent))'
    <3>1. CASE x = new
      BY <3>1, <2>1, <2>2, <2>4 DEF Used
    <3>2. CASE x # new
      <4>1. Used(x) /\ mem'[x].parent = mem[x].parent
        BY <3>2, <2>3, <2>6 DEF Used
      <4>2. mem[x].parent \in Addr /\ Used(mem[x].parent)
        BY <4>1 DEF HeapOK, ParentsUsed
      <4> QED BY <4>1, <4>2, <2>4 DEF Used
    <3> QED BY <3>1, <3>2
  <2>7. Used(cwd)'
    BY <1>1, <2>4 DEF HeapOK, ParentsUsed, Used
  <2> QED BY <2>5, <2>6, <2>7 DEF ParentsUsed
<1>7. RootKept'
  BY <1>3, <1>4 DEF HeapOK, RootKept
<1>8. RootUnlinked' /\ RootIsDir'
  BY <1>1, <1>2, <1>3, <1>4 DEF HeapOK, RootUnlinked, RootIsDir, IsDir
<1>9. Links'
  <2> SUFFICES ASSUME NEW x \in live', NEW y \in Addr \ {root},
                      mem'[x].child = y \/ mem'[x].sibling = y
               PROVE  y \in live' /\ mem'[y].parent = x
    BY DEF Links
  <2>1. CASE x = new
    BY <2>1, <1>2, <1>3
  <2>2. CASE x # new /\ y = new
    BY <2>2, <1>1, <1>2, <1>3, <1>5
  <2>3. CASE x # new /\ y # new
    <3>1. mem[x].child = y \/ mem[x].sibling = y
      BY <2>3, <1>1, <1>3
    <3>2. y \in live /\ mem[y].parent = x
      BY <3>1, <2>3 DEF HeapOK, Links
    <3> QED BY <3>2, <2>3, <1>1, <1>3
  <2> QED BY <2>1, <2>2, <2>3
<1>10. OneField'
  BY <1>1, <1>2, <1>3, <1>5 DEF HeapOK, OneField
<1>11. Leaves'
  <2> SUFFICES ASSUME NEW x \in Addr, x \notin live' \/ ~IsDir(x)'
               PROVE  mem'[x].child = NULL
    BY DEF Leaves
  <2>1. CASE x = a
    BY <2>1, <1>1, <1>3 DEF HeapOK, Leaves, IsDir
  <2>2. CASE x # a
    BY <2>2, <1>1, <1>2, <1>3 DEF HeapOK, Leaves, IsDir
  <2> QED BY <2>1, <2>2
<1> QED BY <1>3, <1>6, <1>7, <1>8, <1>9, <1>10, <1>11 DEF HeapOK

----------------------------------------------------------------------------
(* delete: the block of a node without entries is given back, and the one   *)
(* pointer to it is cleared.                                                *)

LEMMA DeletedHeap ==
  ASSUME TypeOK, HeapOK, pc # "freed", UNCHANGED cwd,
         NEW node \in live, node = root \/ Pointed(node),
         mem[node].child = NULL,
         mem' = Freed(Unlinked(node), node),
         live' = live \ {node},
         node = root => pc' = "freed"
  PROVE  /\ mem' \in [Addr -> NodeRec]
         /\ HeapOK'
         /\ \A x \in Addr : x \notin live => mem'[x] = mem[x]
<1> USE RootNull
<1> DEFINE up == mem[node].parent
<1>1. mem \in [Addr -> NodeRec] /\ live \subseteq Addr /\ cwd \in Addr
  BY DEF TypeOK
<1>2. up \in live
  <2>1. CASE node = root
    BY <2>1 DEF HeapOK, RootKept
  <2>2. CASE node # root
    BY <2>2, <1>1 DEF HeapOK, Links, Pointed
  <2> QED BY <2>1, <2>2
<1>3. /\ mem' \in [Addr -> NodeRec]
      /\ \A x \in Addr : x # up /\ x # node => mem'[x] = mem[x]
      /\ \A x \in Addr : mem'[x].parent = mem[x].parent
      /\ \A x \in Addr : mem'[x].type = mem[x].type
      /\ \A x \in Addr : mem'[x].child = mem[x].child \/ mem'[x].child = NULL
      /\ \A x \in Addr : mem'[x].sibling = mem[x].sibling \/ mem'[x].sibling = NULL
      /\ \A x \in Addr : x # up => mem'[x].sibling = mem[x].sibling
      /\ mem[up].child = node => mem'[up].child = NULL /\ mem'[up].sibling = mem[up].sibling
      /\ mem[up].child # node => mem'[up].child = mem[up].child
      /\ mem[up].child # node /\ mem[up].sibling = node => mem'[up].sibling = NULL
      /\ mem[up].sibling # node => mem'[up].sibling = mem[up].sibling
  <2> DEFINE mid == Unlinked(node)
  <2>1. up \in Addr /\ node \in Addr
    BY <1>1, <1>2
  <2>2. /\ mid \in [Addr -> NodeRec]
        /\ \A x \in Addr : x # up => mid[x] = mem[x]
        /\ mid[up].parent = mem[up].parent /\ mid[up].type = mem[up].type
        /\ mem[up].child = node => mid[up].child = NULL /\ mid[up].sibling = mem[up].sibling
        /\ mem[up].child # node => mid[up].child = mem[up].child
        /\ mem[up].child # node /\ mem[up].sibling = node => mid[up].sibling = NULL
        /\ mem[up].sibling # node => mid[up].sibling = mem[up].sibling
    <3>1. CASE mem[up].child = node
      <4>1. mid = [mem EXCEPT ![up].child = NULL]
        BY <3>1 DEF Unlinked
      <4> QED BY <4>1, <3>1, <2>1, <1>1 DEF NodeRec
    <3>2. CASE mem[up].child # node /\ mem[up].sibling = node
      <4>1. mid = [mem EXCEPT ![up].sibling = NULL]
        BY <3>2 DEF Unlinked
      <4> QED BY <4>1, <3>2, <2>1, <1>1 DEF NodeRec
    <3>3. CASE mem[up].child # node /\ mem[up].sibling # node
      <4>1. mid = mem
        BY <3>3 DEF Unlinked
      <4> QED BY <4>1, <3>3, <1>1
    <3> QED BY <3>1, <3>2, <3>3
  <2>3. mem' = [mid EXCEPT ![node].name = Slash]
    BY DEF Freed
  <2> HIDE DEF mid
  <2>4. /\ mem' \in [Addr -> NodeRec]
        /\ \A x \in Addr : x # node => mem'[x] = mid[x]
        /\ \A x \in Addr : /\ mem'[x].parent = mid[x].parent
                          /\ mem'[x].type = mid[x].type
                          /\ mem'[x].child = mid[x].child
                          /\ mem'[x].sibling = mid[x].sibling
    BY <2>1, <2>2, <2>3 DEF NodeRec
  <2> HIDE DEF up
  <2>5. \A x \in Addr : x # up /\ x # node => mem'[x] = mem[x]
    BY <2>2, <2>4
  <2>6. \A x \in Addr : mem'[x].parent = mem[x].parent /\ mem'[x].type = mem[x].type
    BY <2>2, <2>4
  <2>7. \A x \in Addr : mem'[x].child = mem[x].child \/ mem'[x].child = NULL
    BY <2>2, <2>4
  <2>8. \A x \in Addr : mem'[x].sibling = mem[x].sibling \/ mem'[x].sibling = NULL
    BY <2>2, <2>4
  <2>9. \A x \in Addr : x # up => mem'[x].sibling = mem[x].sibling
    BY <2>2, <2>4
  <2> QED BY <2>1, <2>2, <2>4, <2>5, <2>6, <2>7, <2>8, <2>9
<1> HIDE DEF up
<1>4. node # root => \A x \in live : mem'[x].child # node /\ mem'[x].sibling # node
  <2> SUFFICES ASSUME node # root, NEW x \in live,
                      mem'[x].child = node \/ mem'[x].sibling = node
               PROVE  FALSE
    OBVIOUS
  <2>1. x \in Addr /\ node \in Addr /\ node # NULL
    BY <1>1
  <2>2. mem[x].child = node \/ mem[x].sibling = node
    BY <2>1, <1>3
  <2>3. x = up
    BY <2>1, <2>2 DEF HeapOK, Links, up
  <2>4. mem[x].child # NULL => mem[x].child # mem[x].sibling
    BY DEF HeapOK, OneField
  <2> QED BY <2>1, <2>2, <2>3, <2>4, <1>3
<1>5. ParentsUsed'
  <2>1. \A x \in Addr : Used(x)' <=> Used(x)
    BY <1>3 DEF Used
  <2>2. \A x \in live' : Used(x)'
    BY <1>1, <2>1 DEF HeapOK, ParentsUsed
  <2>3. ASSUME NEW x \in Addr, Used(x)'
        PROVE  (mem[x].parent \in Addr /\ Used(mem[x].parent))'
    <3>1. mem[x].parent \in Addr /\ Used(mem[x].parent)
      BY <2>1, <2>3 DEF HeapOK, ParentsUsed
    <3> QED BY <3>1, <2>1, <1>3 DEF Used
  <2>4. Used(cwd)'
    BY <1>1, <2>1 DEF HeapOK, ParentsUsed, Used
  <2> QED BY <2>2, <2>3, <2>4 DEF ParentsUsed
<1>6. RootKept'
  <2> SUFFICES ASSUME pc' # "freed"
               PROVE  /\ root \in live' /\ mem'[root].parent = root
                      /\ mem'[root].sibling = root
    BY DEF RootKept
  <2>1. node # root /\ root \in Addr /\ root # NULL
    OBVIOUS
  <2>2. /\ root \in live /\ mem[root].parent = root /\ mem[root].sibling = root
    BY DEF HeapOK, RootKept
  <2>3. mem'[root].sibling = root
    BY <2>1, <2>2, <1>3
  <2> QED BY <2>1, <2>2, <2>3, <1>3
<1>7. RootUnlinked' /\ RootIsDir'
  BY <1>1, <1>3 DEF HeapOK, RootUnlinked, RootIsDir, IsDir
<1>8. Links'
  <2> SUFFICES ASSUME NEW x \in live', NEW y \in Addr \ {root},
                      mem'[x].child = y \/ mem'[x].sibling = y
               PROVE  y \in live' /\ mem'[y].parent = x
    BY DEF Links
  <2>1. x \in live /\ (mem[x].child = y \/ mem[x].sibling = y)
    <3>1. x \in Addr /\ y # NULL
      BY <1>1
    <3> QED BY <3>1, <1>3
  <2>2. y \in live /\ mem[y].parent = x
    BY <2>1 DEF HeapOK, Links
  <2>3. y # node
    BY <2>1, <1>4
  <2> QED BY <2>2, <2>3, <1>3
<1>9. OneField'
  BY <1>1, <1>3 DEF HeapOK, OneField
<1>10. Leaves'
  <2> SUFFICES ASSUME NEW x \in Addr, x \notin live' \/ ~IsDir(x)'
               PROVE  mem'[x].child = NULL
    BY DEF Leaves
  <2>1. CASE x = node
    BY <2>1, <1>3
  <2>2. CASE x # node
    BY <2>2, <1>3 DEF HeapOK, Leaves, IsDir
  <2> QED BY <2>1, <2>2
<1>11. \A x \in Addr : x \notin live => mem'[x] = mem[x]
  BY <1>2, <1>3
<1> QED BY <1>3, <1>5, <1>6, <1>7, <1>8, <1>9, <1>10, <1>11 DEF HeapOK

----------------------------------------------------------------------------
(* Every step keeps the invariant, and writes to no block that is free. *)

Written == \A a \in Addr : mem'[a] # mem[a] => a \in live \cup live'

LEMMA SeqParts ==
  ASSUME NEW s \in Seq(Name), s # <<>>
  PROVE  /\ Head(s) \in Name /\ Tail(s) \in Seq(Name)
         /\ Last(s) \in Name /\ Front(s) \in Seq(Name)
         /\ Front(s) = <<>> => Len(s) = 1
<1>1. Len(s) \in Nat \ {0}
  OBVIOUS
<1>2. Front(s) \in Seq(Name) /\ Len(Front(s)) = Len(s) - 1
  BY <1>1 DEF Front
<1> QED BY <1>1, <1>2 DEF Last

LEMMA PathParts ==
  ASSUME NEW q \in Path
  PROVE  q.names \in Seq(Name) /\ (q.abs \/ q.names # <<>>)
BY PathAssumption

(* A step that ends the command or the program and leaves the heap alone. *)
LEMMA StopStep ==
  ASSUME IInv, pc # "freed", UNCHANGED heap,
         Return \/ (\E how \in Over \ {"freed"} : Ends(how))
  PROVE  IInv' /\ Written
<1>1. HeapOK'
  BY HeapSame DEF IInv
<1>2. TypeOK'
  <2>1. CASE Return
    BY <2>1, ReturnType DEF IInv, TypeOK, heap, Over
  <2>2. CASE \E how \in Over : Ends(how)
    BY <2>2 DEF IInv, TypeOK, heap, Ends, locals
  <2> QED BY <2>1, <2>2
<1>3. LocalsOK'
  BY ReturnLocals, EndsLocals
<1> QED BY <1>1, <1>2, <1>3 DEF IInv, Written, heap

LEMMA UserStep == IInv /\ User => IInv' /\ Written
<1> SUFFICES ASSUME IInv, User PROVE IInv' /\ Written OBVIOUS
<1> USE RootNull
<1>1. TypeOK /\ HeapOK /\ LocalsOK /\ root \in Addr /\ NULL \notin Addr
  BY DEF IInv
<1>2. ASSUME NEW q \in Path, NEW op \in {"mkdir", "creat"}, Create(op, q)
      PROVE  IInv' /\ Written
  <2>1. /\ pc = "main" /\ q.names # <<>> /\ q.names \in Seq(Name)
        /\ UNCHANGED heap /\ UNCHANGED <<c, i>>
        /\ mem \in [Addr -> NodeRec] /\ live \subseteq Addr /\ cwd \in Addr
    BY <1>1, <1>2, PathParts DEF Create, TypeOK
  <2>2. HeapOK'
    BY <1>1, <2>1, HeapSame
  <2>3. p' \in Addr /\ Used(p') /\ pc' \in {"insert", "path"}
    BY <1>1, <1>2, <2>1 DEF Create, start, HeapOK, ParentsUsed, RootKept
  <2>4. TypeOK'
    BY <1>1, <1>2, <2>1, <2>3, SeqParts DEF Create, TypeOK, heap, Commands
  <2>5. LocalsOK'
    <3>1. pc' = "path" /\ path' = <<>> => p' = root
      <4> SUFFICES ASSUME pc' = "path", path' = <<>> PROVE p' = root OBVIOUS
      <4>1. Len(q.names) = 1
        BY <1>2, <2>1, SeqParts DEF Create
      <4> QED BY <4>1, <1>2 DEF Create, InCwd, start
    <3>2. pc' = "insert" => p' \in live' /\ IsDir(p)'
      <4>1. root \in live /\ (pc' = "insert" => p' = root)
        BY <1>1, <1>2, <2>1 DEF Create, HeapOK, RootKept
      <4> QED BY <4>1, <1>1, <2>1 DEF heap, HeapOK, RootIsDir, IsDir
    <3>3. c' = NULL
      BY <1>1, <2>1 DEF LocalsOK
    <3> QED BY <3>1, <3>2, <3>3, <2>1, <2>3 DEF LocalsOK, Used, heap
  <2> QED BY <2>1, <2>2, <2>4, <2>5 DEF IInv, Written, heap
<1>3. ASSUME NEW q \in Path, NEW op \in {"rmdir", "rm", "cd"}, Find(op, q)
      PROVE  IInv' /\ Written
  <2>1. /\ pc = "main" /\ path' = q.names /\ q.names \in Seq(Name)
        /\ UNCHANGED heap /\ UNCHANGED <<c, i>> /\ pc' = "path"
        /\ mem \in [Addr -> NodeRec] /\ live \subseteq Addr /\ cwd \in Addr
    BY <1>1, <1>3, PathParts DEF Find, TypeOK
  <2>2. HeapOK'
    BY <1>1, <2>1, HeapSame
  <2>3. p' \in Addr /\ Used(p')
    BY <1>1, <1>3, <2>1 DEF Find, start, HeapOK, ParentsUsed, RootKept
  <2>4. TypeOK'
    BY <1>1, <1>3, <2>1, <2>3 DEF Find, TypeOK, heap, Commands
  <2>5. LocalsOK'
    <3>1. path' = <<>> => p' = root
      BY <1>3, <2>1, PathParts DEF Find, start
    <3>2. c' = NULL
      BY <1>1, <2>1 DEF LocalsOK
    <3> QED BY <3>1, <3>2, <2>1, <2>3 DEF LocalsOK, Used, heap
  <2> QED BY <2>1, <2>2, <2>4, <2>5 DEF IInv, Written, heap
<1>4. ASSUME CdUp PROVE IInv' /\ Written
  <2>1. cwd' \in Addr /\ Used(cwd') /\ pc # "freed"
    BY <1>1, <1>4 DEF CdUp, HeapOK, ParentsUsed, TypeOK
  <2>2. HeapOK'
    BY <1>1, <1>4, <2>1, HeapKept DEF CdUp
  <2>3. TypeOK' /\ LocalsOK'
    BY <1>1, <1>4, <2>1 DEF CdUp, TypeOK, LocalsOK, locals
  <2> QED BY <1>4, <2>2, <2>3 DEF IInv, Written, CdUp
<1>5. ASSUME Pwd PROVE IInv' /\ Written
  <2>1. HeapOK'
    BY <1>1, <1>5, HeapSame DEF Pwd
  <2>2. TypeOK'
    BY <1>1, <1>5 DEF Pwd, TypeOK, heap, Commands
  <2>3. LocalsOK'
    BY <1>1, <1>5 DEF Pwd, LocalsOK, HeapOK, ParentsUsed, Used, heap
  <2> QED BY <1>5, <2>1, <2>2, <2>3 DEF IInv, Written, Pwd, heap
<1>6. ASSUME Save PROVE IInv' /\ Written
  <2>1. UNCHANGED heap /\ pc = "main" /\ (Return \/ Ends("segv") \/ Ends("hang"))
    BY <1>6 DEF Save
  <2>2. {"segv", "hang"} \subseteq Over \ {"freed"}
    BY DEF Over
  <2>3. Return \/ \E how \in Over \ {"freed"} : Ends(how)
    BY <2>1, <2>2
  <2> QED BY <2>1, <2>3, StopStep
<1>7. ASSUME Quit PROVE IInv' /\ Written
  <2>1. UNCHANGED heap /\ pc = "main" /\ Ends("quit") /\ "quit" \in Over \ {"freed"}
    BY <1>7 DEF Quit, Over
  <2> QED BY <2>1, StopStep
<1> QED BY <1>2, <1>3, <1>4, <1>5, <1>6, <1>7 DEF User

(* The loops that only move the locals on. *)
LEMMA WalkStep ==
  ASSUME IInv, SearchFirst \/ SearchNext \/ SearchHit \/ InsertHere \/ InsertWalk
  PROVE  IInv' /\ Written
<1> USE RootNull
<1>1. /\ mem \in [Addr -> NodeRec] /\ live \subseteq Addr /\ path \in Seq(Name)
      /\ p \in Addr /\ c \in Addr \cup {NULL}
      /\ TypeOK /\ HeapOK /\ LocalsOK
  BY DEF IInv, TypeOK
<1>2. UNCHANGED heap /\ UNCHANGED <<mem, live, cwd>> /\ pc \in {"path", "search", "insert"}
  BY DEF SearchFirst, SearchNext, SearchHit, InsertHere, InsertWalk, At, heap
<1>3. HeapOK'
  BY <1>1, <1>2, HeapSame
<1>4. \A a \in live : /\ mem[a].child # NULL => /\ mem[a].child \in live \ {root}
                                             /\ Pointed(mem[a].child)
                      /\ a # root /\ mem[a].sibling # NULL
                           => /\ mem[a].sibling \in live \ {root}
                              /\ Pointed(mem[a].sibling)
  <2> SUFFICES ASSUME NEW a \in live
               PROVE  /\ mem[a].child # NULL => /\ mem[a].child \in live \ {root}
                                                /\ Pointed(mem[a].child)
                      /\ a # root /\ mem[a].sibling # NULL
                           => /\ mem[a].sibling \in live \ {root}
                              /\ Pointed(mem[a].sibling)
    OBVIOUS
  <2>1. mem[a].child \in Addr \cup {NULL} /\ mem[a].sibling \in Addr \cup {NULL}
    BY <1>1 DEF NodeRec
  <2>2. mem[a].child # root /\ (a # root => mem[a].sibling # root)
    BY <1>1 DEF HeapOK, RootUnlinked
  <2> QED BY <1>1, <2>1, <2>2 DEF HeapOK, Links, Pointed
<1>5. \A a \in Addr : mem[a].child # NULL => a \in live
  BY <1>1 DEF HeapOK, Leaves
<1>6. \A a \in Addr \ {root} : Pointed(a) => a \in live
  BY <1>1 DEF HeapOK, Links, Pointed
<1>8. CASE SearchFirst
  <2>1. c' \in live \ {root} /\ Pointed(c')
    BY <1>1, <1>4, <1>5, <1>8 DEF SearchFirst
  <2>2. TypeOK'
    BY <1>1, <1>8, <2>1 DEF SearchFirst, TypeOK, heap
  <2>3. LocalsOK'
    BY <1>1, <1>2, <1>8, <2>1 DEF SearchFirst, LocalsOK, Pointed, Used
  <2> QED BY <1>2, <1>3, <2>2, <2>3 DEF IInv, Written
<1>9. CASE SearchNext
  <2>1. c \in live \ {root}
    BY <1>1, <1>6, <1>9 DEF SearchNext, LocalsOK
  <2>2. c' \in live \ {root} /\ Pointed(c')
    BY <1>4, <1>9, <2>1 DEF SearchNext
  <2>3. TypeOK'
    BY <1>1, <1>9, <2>2 DEF SearchNext, TypeOK, heap
  <2>4. LocalsOK'
    BY <1>1, <1>2, <1>9, <2>2 DEF SearchNext, LocalsOK, Pointed, Used
  <2> QED BY <1>2, <1>3, <2>3, <2>4 DEF IInv, Written
<1>10. CASE SearchHit
  <2>1. c \in live \ {root} /\ Pointed(c) /\ path # <<>>
    BY <1>1, <1>6, <1>10 DEF SearchHit, LocalsOK
  <2>2. TypeOK'
    BY <1>1, <1>10, <2>1, SeqParts DEF SearchHit, TypeOK, heap
  <2>3. Used(c)
    BY <1>1, <2>1 DEF HeapOK, ParentsUsed
  <2>4. LocalsOK'
    BY <1>1, <1>2, <1>10, <2>1, <2>3 DEF SearchHit, LocalsOK, Pointed, Used
  <2> QED BY <1>2, <1>3, <2>2, <2>4 DEF IInv, Written
<1>11. CASE InsertHere
  <2>1. p \in live /\ IsDir(p) /\ c = NULL
    <3>1. pc = "path" /\ path = <<>> /\ IsDir(p)
      BY <1>11 DEF InsertHere, At
    <3>2. root \in live
      BY <1>1, <3>1 DEF HeapOK, RootKept
    <3> QED BY <1>1, <1>6, <3>1, <3>2 DEF LocalsOK
  <2>2. TypeOK'
    BY <1>1, <1>11 DEF InsertHere, TypeOK, heap, locals
  <2>3. LocalsOK'
    BY <1>2, <1>11, <2>1 DEF InsertHere, LocalsOK, IsDir, locals
  <2> QED BY <1>2, <1>3, <2>2, <2>3 DEF IInv, Written
<1>12. CASE InsertWalk
  <2>1. p \in live /\ IsDir(p) /\ (c # NULL => c \in live \ {root})
    BY <1>1, <1>12 DEF InsertWalk, LocalsOK
  <2>2. c' \in live \ {root}
    BY <1>1, <1>4, <1>12, <2>1 DEF InsertWalk
  <2>3. TypeOK'
    BY <1>1, <1>12, <2>2 DEF InsertWalk, TypeOK, heap
  <2>4. LocalsOK'
    BY <1>2, <1>12, <2>1, <2>2 DEF InsertWalk, LocalsOK, IsDir
  <2> QED BY <1>2, <1>3, <2>3, <2>4 DEF IInv, Written
<1> QED BY <1>8, <1>9, <1>10, <1>11, <1>12

(* The steps that end a command, and pwd's loop. *)
LEMMA EndStep ==
  ASSUME IInv, SearchFails \/ Refuse \/ Cd \/ Delete \/ PwdUp \/ PwdEnd
  PROVE  IInv' /\ Written
<1> USE RootNull
<1>1. /\ mem \in [Addr -> NodeRec] /\ live \subseteq Addr /\ cwd \in Addr
      /\ p \in Addr /\ i \in Nat
      /\ TypeOK /\ HeapOK /\ LocalsOK
  BY DEF IInv, TypeOK
<1>2. {"segv", "overrun"} \subseteq Over \ {"freed"}
  BY DEF Over
<1>3. CASE SearchFails
  <2>1. Return /\ UNCHANGED heap /\ pc # "freed"
    BY <1>3 DEF SearchFails
  <2> QED BY <2>1, StopStep
<1>4. CASE Refuse
  <2>1. Return /\ UNCHANGED heap /\ pc # "freed"
    BY <1>4 DEF Refuse, At
  <2> QED BY <2>1, StopStep
<1>5. CASE PwdEnd
  <2>1. UNCHANGED heap /\ pc # "freed" /\ (Return \/ Ends("segv"))
    BY <1>5 DEF PwdEnd
  <2> QED BY <2>1, <1>2, StopStep
<1>6. CASE PwdUp
  <2>1. CASE i < ItrSize
    <3>1. /\ pc = "pwd" /\ pc' = pc /\ UNCHANGED heap
          /\ p' = mem[p].parent /\ i' = i + 1 /\ UNCHANGED <<cmd, path, bname, c>>
      BY <1>6, <2>1 DEF PwdUp
    <3>2. p' \in Addr /\ mem[p'].parent # NULL
      BY <1>1, <3>1 DEF LocalsOK, HeapOK, ParentsUsed, Used
    <3>3. HeapOK'
      BY <1>1, <3>1, HeapSame
    <3>4. TypeOK'
      BY <1>1, <3>1, <3>2 DEF TypeOK, heap
    <3>5. LocalsOK'
      BY <3>1, <3>2 DEF LocalsOK, Used, heap
    <3> QED BY <3>1, <3>3, <3>4, <3>5 DEF IInv, Written, heap
  <2>2. CASE ~(i < ItrSize)
    <3>1. pc = "pwd" /\ UNCHANGED heap /\ Ends("overrun")
      BY <1>6, <2>2 DEF PwdUp
    <3> QED BY <3>1, <1>2, StopStep
  <2> QED BY <2>1, <2>2
<1>7. CASE Cd
  <2>1. /\ pc = "path" /\ cwd' = p /\ Return /\ UNCHANGED <<mem, live>>
    BY <1>7 DEF Cd, At
  <2>2. mem[p].parent # NULL
    BY <1>1, <2>1 DEF LocalsOK, Used
  <2>3. HeapOK'
    BY <1>1, <2>1, <2>2, HeapKept DEF Used
  <2>4. TypeOK'
    BY <1>1, <2>1, ReturnType DEF TypeOK
  <2> QED BY <2>1, <2>3, <2>4, ReturnLocals DEF IInv, Written
<1>8. CASE Delete
  <2>1. /\ pc = "path" /\ path = <<>> /\ UNCHANGED cwd
        /\ mem' = Freed(Unlinked(p), p) /\ live' = live \ {p}
        /\ (p = root /\ Ends("freed")) \/ (p # root /\ Return)
    BY <1>8 DEF Delete, At
  <2>2. p = root \/ Pointed(p)
    BY <1>1, <2>1 DEF LocalsOK
  <2>3. p \in live
    BY <1>1, <2>1, <2>2 DEF HeapOK, Links, Pointed, RootKept
  <2>4. mem[p].child = NULL
    BY <1>1, <1>8 DEF Delete, At, IsEmpty, HeapOK, Leaves
  <2>5. p = root => pc' = "freed"
    BY <2>1 DEF Ends
  <2>6. mem' \in [Addr -> NodeRec] /\ HeapOK' /\ \A x \in Addr : x \notin live => mem'[x] = mem[x]
    BY <1>1, <2>1, <2>2, <2>3, <2>4, <2>5, DeletedHeap
  <2>7. TypeOK'
    <3>1. CASE Return
      BY <1>1, <2>1, <2>6, <3>1, ReturnType DEF TypeOK
    <3>2. CASE Ends("freed")
      BY <1>1, <2>1, <2>6, <3>2 DEF TypeOK, Ends, locals, Over
    <3> QED BY <2>1, <3>1, <3>2
  <2>8. LocalsOK'
    <3>1. "freed" \in Over
      BY DEF Over
    <3> QED BY <2>1, <3>1, ReturnLocals, EndsLocals
  <2> QED BY <2>6, <2>7, <2>8 DEF IInv, Written
<1> QED BY <1>3, <1>4, <1>5, <1>6, <1>7, <1>8

(* The steps that hang a new node into the tree. *)
LEMMA InsertStep ==
  ASSUME IInv, InsertFirst \/ InsertLast
  PROVE  IInv' /\ Written
<1> USE RootNull
<1>1. /\ mem \in [Addr -> NodeRec] /\ live \subseteq Addr
      /\ TypeOK /\ HeapOK /\ LocalsOK
  BY DEF IInv, TypeOK
<1>2. /\ pc = "insert" /\ UNCHANGED cwd /\ Return
      /\ p \in live /\ IsDir(p) /\ (c # NULL => c \in live \ {root})
  BY <1>1 DEF InsertFirst, InsertLast, LocalsOK
<1>3. pc' # "freed"
  BY <1>2 DEF Return
<1>4. \E a \in live, new \in Addr \ live, changed \in NodeRec :
        /\ mem' = Linked(a, changed, new)
        /\ live' = live \cup {new}
        /\ changed.name = mem[a].name /\ changed.type = mem[a].type
        /\ changed.parent = mem[a].parent
        /\ \/ /\ mem[a].child = NULL /\ IsDir(a)
              /\ changed.child = new /\ changed.sibling = mem[a].sibling
           \/ /\ a # root /\ mem[a].sibling = NULL
              /\ changed.sibling = new /\ changed.child = mem[a].child
  <2>1. CASE InsertFirst
    <3>1. PICK new \in malloc : /\ mem' = Linked(p, [mem[p] EXCEPT !.child = new], new)
                                /\ live' = live \cup {new}
      BY <2>1 DEF InsertFirst
    <3>2. new \in Addr \ live /\ mem[p].child = NULL /\ mem[p] \in NodeRec
      BY <1>1, <1>2, <2>1, <3>1, Malloc DEF InsertFirst
    <3> DEFINE changed == [mem[p] EXCEPT !.child = new]
    <3>3. /\ changed \in NodeRec /\ changed.name = mem[p].name
          /\ changed.type = mem[p].type /\ changed.parent = mem[p].parent
          /\ changed.child = new /\ changed.sibling = mem[p].sibling
      BY <3>2 DEF NodeRec
    <3>4. mem' = Linked(p, changed, new)
      BY <3>1
    <3> HIDE DEF changed
    <3> QED BY <1>2, <3>1, <3>2, <3>3, <3>4
  <2>2. CASE InsertLast
    <3>1. PICK new \in malloc : /\ mem' = Linked(c, [mem[c] EXCEPT !.sibling = new], new)
                                /\ live' = live \cup {new}
      BY <2>2 DEF InsertLast
    <3>2. c \in live \ {root}
      BY <1>2, <2>2 DEF InsertLast
    <3>3. new \in Addr \ live /\ mem[c].sibling = NULL /\ mem[c] \in NodeRec
      BY <1>1, <2>2, <3>1, <3>2, Malloc DEF InsertLast
    <3> DEFINE changed == [mem[c] EXCEPT !.sibling = new]
    <3>4. /\ changed \in NodeRec /\ changed.name = mem[c].name
          /\ changed.type = mem[c].type /\ changed.parent = mem[c].parent
          /\ changed.sibling = new /\ changed.child = mem[c].child
      BY <3>3 DEF NodeRec
    <3>5. mem' = Linked(c, changed, new)
      BY <3>1
    <3> HIDE DEF changed
    <3> QED BY <3>1, <3>2, <3>3, <3>4, <3>5
  <2> QED BY <2>1, <2>2
<1>5. PICK a \in live, new \in Addr \ live, changed \in NodeRec :
        /\ mem' = Linked(a, changed, new)
        /\ live' = live \cup {new}
        /\ changed.name = mem[a].name /\ changed.type = mem[a].type
        /\ changed.parent = mem[a].parent
        /\ \/ /\ mem[a].child = NULL /\ IsDir(a)
              /\ changed.child = new /\ changed.sibling = mem[a].sibling
           \/ /\ a # root /\ mem[a].sibling = NULL
              /\ changed.sibling = new /\ changed.child = mem[a].child
  BY <1>4
<1>6. mem' \in [Addr -> NodeRec] /\ HeapOK'
  BY <1>1, <1>2, <1>3, <1>5, LinkedHeap
<1>7. TypeOK'
  BY <1>1, <1>2, <1>5, <1>6, ReturnType DEF TypeOK
<1>8. LocalsOK'
  BY <1>2, ReturnLocals
<1>9. Written
  BY <1>1, <1>5 DEF Written, Linked
<1> QED BY <1>6, <1>7, <1>8, <1>9 DEF IInv

LEMMA NextStep == IInv /\ [Next]_vars => IInv' /\ (Written \/ UNCHANGED vars)
<1> SUFFICES ASSUME IInv, [Next]_vars PROVE IInv' /\ (Written \/ UNCHANGED vars)
  OBVIOUS
<1>1. CASE UNCHANGED vars
  BY <1>1 DEF vars, IInv, TypeOK, HeapOK, ParentsUsed, RootKept, RootIsDir, RootUnlinked,
       Links, OneField, Leaves, LocalsOK, Used, IsDir, Pointed
<1>2. CASE User
  BY <1>2, UserStep
<1>3. CASE Step
  BY <1>3, WalkStep, EndStep, InsertStep DEF Step
<1> QED BY <1>1, <1>2, <1>3 DEF Next

----------------------------------------------------------------------------
(* The inductive invariant: what the pointers of my_filetree_sim.c satisfy  *)
(* between any two steps of any command.                                    *)
THEOREM Invariance == Spec => []IInv
<1>1. Init => IInv
  BY InitIInv
<1>2. IInv /\ [Next]_vars => IInv'
  BY NextStep
<1> QED BY <1>1, <1>2, PTL DEF Spec

(* No command of the simulator follows a NULL pointer but save, whatever    *)
(* was removed before, the working directory included.                      *)
THEOREM TypeCorrect == Spec => []TypeOK
<1>1. IInv => TypeOK
  BY DEF IInv
<1> QED BY <1>1, Invariance, PTL

(* delete, which looks at two fields of the parent only, always finds the   *)
(* one pointer to the node that it frees: no pointer in the tree leads to a *)
(* freed block.                                                             *)
THEOREM LinksAlwaysSound == Spec => []LinksSound
<1>1. IInv => LinksSound
  BY LinksAreSound DEF IInv, HeapOK
<1> QED BY <1>1, Invariance, PTL

(* No command writes to a freed block: cd into a directory that is then     *)
(* removed leaves cwd on one, but insert and delete only reach nodes in use.*)
THEOREM WritesAlwaysLive == Spec => WritesLive
<1> DEFINE A == \A a \in Addr : mem'[a] # mem[a] => a \in live \cup live'
<1>1. IInv /\ [Next]_vars => [A]_vars
  BY NextStep DEF Written
<1> QED BY <1>1, Invariance, PTL DEF Spec, WritesLive

=============================================================================

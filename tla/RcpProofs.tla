---------------------------- MODULE RcpProofs -----------------------------
(***************************************************************************)
(* Proofs about the copy program, for every set of trees and arguments:    *)
(* whatever the copy meets, nothing that was there is lost.                *)
(***************************************************************************)
EXTENDS Rcp, SequenceTheorems, TLAPS

Tree1(g) == g \in [Inode -> Node]

LinksNamed(g) == \A i \in Inode : g[i].type = "L" => g[i].name \in Name

(* h has every object of g, with its names; a directory may have more.      *)
SameBut(a, b) == /\ a.type = b.type /\ a.up = b.up /\ a.data = b.data
                 /\ a.dir = b.dir /\ a.name = b.name

Grows(g, h) ==
  \A i \in Inode : g[i].type # "-" =>
    /\ SameBut(g[i], h[i])
    /\ \A x \in Name : g[i].kids[x] # NULL => h[i].kids[x] = g[i].kids[x]

Good(g, h) == Tree1(h) /\ LinksNamed(h) /\ Grows(g, h)

CallRec == [f1 : Path, f2 : Path, todo : SUBSET Name]

Types ==
  /\ Tree1(fs) /\ Tree1(was) /\ LinksNamed(fs)
  /\ f1 \in Path /\ f2 \in Path
  /\ sb1 \in Inode \cup {NULL} /\ sb2 \in Inode \cup {NULL}
  /\ calls \in Seq(CallRec)
  /\ pc \in {"start", "copy", "exit", "done", "refused", "overflow"}

Begun == pc = "start" => fs = was /\ calls = <<>>

Copying == pc = "copy" => calls # <<>> /\ Is(was, sb1, "D") /\ Is(fs, sb2, "D")

(* More than OthersKept, field by field: into a directory nothing is copied over. *)
Kept ==
  \A i \in Inode : was[i].type # "-" =>
    /\ \A x \in Name : was[i].kids[x] # NULL => fs[i].kids[x] = was[i].kids[x]
    /\ \/ i = Named /\ fs[i].type = "F"
       \/ SameBut(was[i], fs[i])

IInv == Types /\ Begun /\ Copying /\ Kept

----------------------------------------------------------------------------
LEMMA NodeFields ==
  ASSUME NEW g, Tree1(g), NEW i \in Inode
  PROVE  /\ g[i] \in Node
         /\ \A x \in Name : g[i].kids[x] \in Inode \cup {NULL}
         /\ g[i].data \in Data \cup {Empty}
BY DEF Tree1, Node

LEMMA KidType ==
  ASSUME NEW g, Tree1(g), NEW x \in Name, NEW i
  PROVE  Kid(g, i, x) \in Inode \cup {NULL}
BY NodeFields DEF Kid, Is

LEMMA NewNodes ==
  /\ \A up \in Inode : /\ NewDir(up) \in Node /\ NewDir(up).type = "D"
                       /\ \A x \in Name : NewDir(up).kids[x] = NULL
  /\ \A d \in Data \cup {Empty} : NewFile(d) \in Node /\ NewFile(d).type = "F"
BY DEF NewDir, NewFile, Free, Nothing, Node

(* A new name in a directory. *)
LEMMA EnterGood ==
  ASSUME NEW g, Tree1(g), LinksNamed(g), NEW d, NEW x \in Name, CanName(g, d, x),
         NEW i \in Inode
  PROVE  Good(g, Enter(g, d, x, i)) /\ Enter(g, d, x, i)[d].type = "D"
<1> DEFINE h == Enter(g, d, x, i)
<1>1. d \in Inode /\ g[d].type = "D" /\ g[d].kids[x] = NULL
  BY DEF CanName, Is
<1>2. g[d] \in Node /\ g[d].kids \in [Name -> Inode \cup {NULL}]
  BY <1>1 DEF Tree1, Node
<1>3. h = [g EXCEPT ![d] = [g[d] EXCEPT !.kids = [g[d].kids EXCEPT ![x] = i]]]
  BY DEF Enter
<1> DEFINE new == [g[d] EXCEPT !.kids = [g[d].kids EXCEPT ![x] = i]]
<1>4. /\ new \in Node /\ SameBut(g[d], new)
      /\ \A y \in Name : y # x => new.kids[y] = g[d].kids[y]
  BY <1>2 DEF Node, SameBut
<1>5. h = [g EXCEPT ![d] = new]
  BY <1>3
<1> HIDE DEF new, h
<1>6. Tree1(h) /\ h[d] = new /\ \A j \in Inode : j # d => h[j] = g[j]
  BY <1>1, <1>4, <1>5 DEF Tree1
<1>7. LinksNamed(h)
  BY <1>1, <1>4, <1>6 DEF LinksNamed, SameBut
<1>8. Grows(g, h)
  BY <1>1, <1>4, <1>6 DEF Grows, SameBut
<1> QED BY <1>1, <1>4, <1>6, <1>7, <1>8 DEF Good, SameBut, h

LEMMA FreeInodeFree ==
  ASSUME NEW g, FreeInodes(g) # {}
  PROVE  FreeInode(g) \in Inode /\ g[FreeInode(g)].type = "-"
BY DEF FreeInodes, FreeInode

LEMMA CreatedGood ==
  ASSUME NEW g, Tree1(g), LinksNamed(g), NEW d, NEW x \in Name, CanCreate(g, d, x),
         NEW node \in Node, node.type # "L"
  PROVE  /\ Good(g, Created(g, d, x, node))
         /\ Created(g, d, x, node)[FreeInode(g)] = node
<1> DEFINE n == FreeInode(g)
           e == Enter(g, d, x, n)
           h == [e EXCEPT ![n] = node]
<1>1. n \in Inode /\ g[n].type = "-"
  BY FreeInodeFree DEF CanCreate
<1>2. Good(g, e)
  BY <1>1, EnterGood DEF CanCreate
<1>3. h = Created(g, d, x, node)
  BY DEF Created
<1> HIDE DEF n, e
<1>4. Tree1(h) /\ h[n] = node /\ \A j \in Inode : j # n => h[j] = e[j]
  BY <1>1, <1>2 DEF Good, Tree1
<1> HIDE DEF h
<1>5. LinksNamed(h)
  BY <1>2, <1>4 DEF Good, LinksNamed
<1>6. Grows(g, h)
  BY <1>1, <1>2, <1>4 DEF Good, Grows
<1> QED BY <1>3, <1>4, <1>5, <1>6 DEF Good, n

LEMMA SameGood == ASSUME NEW g, Tree1(g), LinksNamed(g) PROVE Good(g, g)
BY DEF Good, Grows, SameBut

LEMMA MkdirGood ==
  ASSUME Types, NEW b \in Path, CanMkdir(b)
  PROVE  Good(fs, mkdir(b)) /\ FreeInode(fs) \in Inode /\ Is(mkdir(b), FreeInode(fs), "D")
<1>1. Last(b) \in Name
  BY DEF Path, Last
<1>2. Parent(fs, b) \in Inode /\ FreeInodes(fs) # {}
  BY DEF CanMkdir, CanCreate, CanName, Is
<1>3. NewDir(Parent(fs, b)) \in Node /\ NewDir(Parent(fs, b)).type = "D"
  BY <1>2, NewNodes
<1>4. Good(fs, mkdir(b)) /\ mkdir(b)[FreeInode(fs)] = NewDir(Parent(fs, b))
  BY <1>1, <1>3, CreatedGood DEF CanMkdir, mkdir, Types
<1>5. FreeInode(fs) \in Inode
  BY <1>2, FreeInodeFree
<1> QED BY <1>3, <1>4, <1>5 DEF Is

LEMMA MakeFileGood ==
  ASSUME Types, NEW d, NEW x \in Name, NEW from \in Inode
  PROVE  Good(fs, MakeFile(d, x, from))
<1>1. fs[from].data \in Data \cup {Empty}
  BY NodeFields DEF Types
<1>2. NewFile(fs[from].data) \in Node /\ NewFile(fs[from].data).type = "F"
  BY <1>1, NewNodes
<1>3. CASE CanCreate(fs, d, x)
  BY <1>2, <1>3, CreatedGood DEF MakeFile, Types
<1>4. CASE ~CanCreate(fs, d, x)
  BY <1>4, SameGood DEF MakeFile, Types
<1> QED BY <1>3, <1>4

(* link makes one name, if any. *)
LEMMA LinkGood ==
  ASSUME Types, NEW a, NEW b \in Path, Is(fs, lstat(fs, a), "L")
  PROVE  Good(fs, Link(a, b))
<1>1. lstat(fs, a) \in Inode /\ Last(b) \in Name
  BY DEF Is, Path, Last
<1>2. CASE CanName(fs, Parent(fs, b), Last(b))
  BY <1>1, <1>2, EnterGood DEF Link, Types
<1>3. CASE ~CanName(fs, Parent(fs, b), Last(b))
  BY <1>3, SameGood DEF Link, Types
<1> QED BY <1>2, <1>3

(* What open and the copy loop do to a target that is no file. *)
LEMMA CopyGood ==
  ASSUME Types, NEW from \in Inode, NEW b \in Path,
         ~Is(fs, Follow(fs, lstat(fs, b)), "F")
  PROVE  Good(fs, Copy(from, b))
<1>1. Last(b) \in Name
  BY DEF Path, Last
<1>2. CASE Is(fs, lstat(fs, b), "L")
  <2>1. fs[lstat(fs, b)].name \in Name
    BY <1>2 DEF Types, LinksNamed, Is
  <2>2. Copy(from, b) = MakeFile(fs[lstat(fs, b)].dir, fs[lstat(fs, b)].name, from)
    BY <1>2 DEF Copy
  <2> QED BY <2>1, <2>2, MakeFileGood
<1>3. CASE ~Is(fs, lstat(fs, b), "L")
  <2>1. Copy(from, b) = MakeFile(Parent(fs, b), Last(b), from)
    BY <1>3 DEF Copy
  <2> QED BY <1>1, <2>1, MakeFileGood
<1> QED BY <1>2, <1>3

LEMMA AppendParts ==
  ASSUME NEW s \in Seq(Name), NEW x \in Name
  PROVE  Append(s, x) \in Path /\ Front(Append(s, x)) = s /\ Last(Append(s, x)) = x
<1>1. /\ Append(s, x) \in Seq(Name) /\ Append(s, x) # <<>>
      /\ Len(Append(s, x)) = Len(s) + 1
  BY AppendProperties
<1>2. Front(Append(s, x)) = SubSeq(Append(s, x), 1, Len(s))
  BY <1>1 DEF Front
<1>3. Front(Append(s, x)) = s
  BY <1>1, <1>2
<1> QED BY <1>1, <1>3 DEF Path, Last

(* cpf2d never writes over what is there. *)
LEMMA IntoDirGood ==
  ASSUME Types, NEW a \in Path, NEW b \in Path, Fits(a, b), lstat(fs, a) \in Inode
  PROVE  Good(fs, cpf2d(a, b))
<1> DEFINE x == Last(a)
           k == CHOOSE n \in Ends(b, x) : TRUE
           end == Level(b, x, k)
<1>1. x \in Name
  BY DEF Path, Last
<1>2. k \in Ends(b, x)
  BY DEF Fits
<1>3. k \in Nat /\ ~Holds(b, x, k)
  BY <1>2 DEF Ends
<1>4. end \in Seq(Name)
  <2>1. [j \in 1..k |-> x] \in Seq(Name)
    <3>1. [j \in 1..k |-> x] \in [1..k -> Name]
      BY <1>1
    <3> QED BY <1>3, <3>1, SeqDef
  <2> QED BY <2>1, ConcatProperties DEF Level, Path
<1>5. cpf2d(a, b) = IF Is(fs, opendir(fs, end), "D") THEN cpf2f(a, Append(end, x)) ELSE fs
  BY DEF cpf2d
<1>6. x \notin Names(fs, opendir(fs, end))
  BY <1>3 DEF Holds
<1> HIDE DEF k, end, x
<1>7. CASE Is(fs, opendir(fs, end), "D")
  <2>1. /\ Append(end, x) \in Path
        /\ Front(Append(end, x)) = end /\ Last(Append(end, x)) = x
    BY <1>1, <1>4, AppendParts
  <2>2. lstat(fs, Append(end, x)) = NULL
    BY <1>1, <1>6, <1>7, <2>1 DEF lstat, Parent, Kid, Names
  <2>3. ~Is(fs, Follow(fs, lstat(fs, Append(end, x))), "F")
    BY <2>2, InodeAssumption DEF Follow, Is
  <2>4. CASE sb1' = sb2'
    BY <1>5, <1>7, <2>4, SameGood DEF cpf2f, Types
  <2>5. CASE sb1' # sb2' /\ Is(fs, lstat(fs, a), "L")
    BY <1>5, <1>7, <2>1, <2>5, LinkGood DEF cpf2f
  <2>6. CASE sb1' # sb2' /\ ~Is(fs, lstat(fs, a), "L")
    BY <1>5, <1>7, <2>1, <2>3, <2>6, CopyGood DEF cpf2f
  <2> QED BY <2>4, <2>5, <2>6
<1>8. CASE ~Is(fs, opendir(fs, end), "D")
  BY <1>5, <1>8, SameGood DEF Types
<1> QED BY <1>7, <1>8

----------------------------------------------------------------------------
(* What the steps keep. *)

LEMMA LstatType ==
  ASSUME NEW g, Tree1(g), NEW b \in Path
  PROVE  lstat(g, b) \in Inode \cup {NULL} /\ Last(b) \in Name
<1>1. Last(b) \in Name
  BY DEF Path, Last
<1> QED BY <1>1, KidType DEF lstat

LEMMA FrontType ==
  ASSUME NEW S, NEW s \in Seq(S), s # <<>>
  PROVE  Front(s) \in Seq(S) /\ Last(s) \in S /\ (Len(s) # 1 => Front(s) # <<>>)
<1> DEFINE n == Len(s) - 1
<1>1. Len(s) \in Nat \ {0}
  BY EmptySeq
<1>2. n \in Nat /\ (\A j \in 1..n : s[j] \in S) /\ s[Len(s)] \in S
  BY <1>1
<1>3. /\ SubSeq(s, 1, n) \in Seq(S)
      /\ Len(SubSeq(s, 1, n)) = IF 1 <= n THEN n - 1 + 1 ELSE 0
  <2> HIDE DEF n
  <2> QED BY <1>2, SubSeqProperties
<1>4. n # 0 => SubSeq(s, 1, n) # <<>>
  <2> HIDE DEF n
  <2>1. ASSUME n # 0, SubSeq(s, 1, n) = <<>> PROVE FALSE
    <3>1. Len(<<>>) = 0
      OBVIOUS
    <3>2. Len(SubSeq(s, 1, n)) = 0
      BY <2>1, <3>1, Zenon
    <3> QED BY <1>2, <1>3, <2>1, <3>2
  <2> QED BY <2>1
<1>5. Len(s) # 1 => n # 0
  BY <1>1
<1> QED BY <1>2, <1>3, <1>4, <1>5 DEF Front, Last

LEMMA KeptGood ==
  ASSUME Kept, Good(fs, fs'), was' = was, Named' = Named
  PROVE  Kept'
<1> SUFFICES ASSUME NEW i \in Inode, was[i].type # "-"
             PROVE  /\ \A x \in Name : was[i].kids[x] # NULL => fs'[i].kids[x] = was[i].kids[x]
                    /\ \/ i = Named /\ fs'[i].type = "F"
                       \/ SameBut(was[i], fs'[i])
  BY DEF Kept
<1>1. fs[i].type # "-"
  BY DEF Kept, SameBut
<1> QED BY <1>1 DEF Kept, Good, Grows, SameBut

LEMMA NamedSame == UNCHANGED <<was, f1, f2>> => Named' = Named
BY DEF Named

LEMMA NamedOfDir ==
  ASSUME UNCHANGED <<was, f1>>, Is(was, lstat(was, f1), "D")
  PROVE  Named' = Named
BY DEF Named, Is

(* Steps of myrcp behind which nothing is copied any more. *)
LEMMA LastStep ==
  ASSUME IInv, Good(fs, fs'), UNCHANGED <<was, calls>>, Named' = Named,
         f1' \in Path, f2' \in Path,
         sb1' \in Inode \cup {NULL}, sb2' \in Inode \cup {NULL},
         pc' \in {"exit", "done", "refused", "overflow"}
  PROVE  IInv'
<1>1. Types'
  BY DEF IInv, Types, Good
<1>2. Begun' /\ Copying'
  BY DEF Begun, Copying
<1> QED BY <1>1, <1>2, KeptGood DEF IInv

LEMMA InitIInv == Init => IInv
<1> SUFFICES ASSUME Init PROVE IInv OBVIOUS
<1>1. /\ Tree1(was) /\ LinksNamed(was) /\ fs = was
      /\ f1 \in Path /\ f2 \in Path
  BY TreeAssumption, ArgsAssumption DEF Init, Tree1, LinksNamed
<1>2. Types /\ Begun /\ Copying
  BY <1>1 DEF Init, Types, Begun, Copying
<1>3. Kept
  BY <1>1 DEF Kept, SameBut
<1> QED BY <1>2, <1>3 DEF IInv

(* The only step that changes a file that was there. *)
LEMMA FileToFileStep == IInv /\ FileToFile => IInv'
<1> SUFFICES ASSUME IInv, FileToFile PROVE IInv' OBVIOUS
<1>1. /\ Types /\ Kept /\ fs = was
      /\ sb1' = lstat(fs, f1) /\ sb2' = lstat(fs, f2)
      /\ f1 \in Path /\ f2 \in Path /\ f1' = f1 /\ f2' = f2
      /\ UNCHANGED <<was, calls>> /\ pc' = "done"
      /\ fs' = cpf2f(f1, f2)
      /\ Is(fs, sb1', "L") \/ Is(fs, sb1', "F")
  BY DEF IInv, Begun, Types, FileToFile, Stat
<1>2. sb1' \in Inode \cup {NULL} /\ sb2' \in Inode \cup {NULL} /\ Tree1(fs)
  BY <1>1, LstatType DEF Types
<1>3. Named' = Named
  BY <1>1, NamedSame
<1>4. CASE sb1' = sb2'
  <2>1. Good(fs, fs')
    BY <1>1, <1>4, SameGood DEF cpf2f, Types
  <2> QED BY <1>1, <1>2, <1>3, <2>1, LastStep
<1>5. CASE sb1' # sb2' /\ Is(fs, sb1', "L")
  <2>1. Good(fs, fs')
    BY <1>1, <1>5, LinkGood DEF cpf2f
  <2> QED BY <1>1, <1>2, <1>3, <2>1, LastStep
<1>6. CASE sb1' # sb2' /\ ~Is(fs, sb1', "L")
  <2> DEFINE to == Follow(fs, lstat(fs, f2))
  <2>1. fs' = Copy(sb1', f2) /\ sb1' \in Inode /\ Is(fs, sb1', "F")
    BY <1>1, <1>6 DEF cpf2f, Is
  <2>2. CASE ~Is(fs, to, "F")
    <3>1. Good(fs, fs')
      BY <1>1, <2>1, <2>2, CopyGood
    <3> QED BY <1>1, <1>2, <1>3, <3>1, LastStep
  <2>3. CASE Is(fs, to, "F")
    <3>1. fs' = Overwritten(to, sb1') /\ to \in Inode /\ fs[to].type = "F"
      BY <2>1, <2>3 DEF Copy, Is
    <3>2. Named = to
      BY <1>1, <2>1 DEF Named
    <3> DEFINE new == IF to = sb1' THEN Empty ELSE fs[sb1'].data
    <3>3. fs' = [fs EXCEPT ![to] = [fs[to] EXCEPT !.data = new]]
      BY <3>1 DEF Overwritten
    <3>4. new \in Data \cup {Empty} /\ fs[to] \in Node
      BY <1>2, <2>1, <3>1, NodeFields
    <3> HIDE DEF new, to
    <3> DEFINE node == [fs[to] EXCEPT !.data = new]
    <3>5. /\ node \in Node /\ node.type = "F" /\ node.kids = fs[to].kids
      BY <3>1, <3>4 DEF Node
    <3>6. fs' = [fs EXCEPT ![to] = node]
      BY <3>3
    <3> HIDE DEF node
    <3>7. Tree1(fs') /\ fs'[to] = node /\ \A i \in Inode : i # to => fs'[i] = fs[i]
      BY <1>2, <3>1, <3>5, <3>6 DEF Tree1
    <3>8. LinksNamed(fs')
      BY <1>1, <3>5, <3>7 DEF LinksNamed, Types
    <3>9. Kept'
      <4> SUFFICES ASSUME NEW i \in Inode, was[i].type # "-"
                   PROVE  /\ \A x \in Name : was[i].kids[x] # NULL
                                               => fs'[i].kids[x] = was[i].kids[x]
                          /\ \/ i = Named /\ fs'[i].type = "F"
                             \/ SameBut(was[i], fs'[i])
        BY <1>1, <1>3 DEF Kept
      <4>1. CASE i = to
        BY <4>1, <1>1, <3>2, <3>5, <3>7
      <4>2. CASE i # to
        BY <4>2, <1>1, <3>7 DEF SameBut
      <4> QED BY <4>1, <4>2
    <3>10. Types'
      BY <1>1, <1>2, <3>7, <3>8 DEF Types
    <3>11. Begun' /\ Copying'
      BY <1>1 DEF Begun, Copying
    <3> QED BY <3>9, <3>10, <3>11 DEF IInv
  <2> QED BY <2>2, <2>3
<1> QED BY <1>4, <1>5, <1>6

LEMMA FileToDirStep == IInv /\ FileToDir => IInv'
<1> SUFFICES ASSUME IInv, FileToDir PROVE IInv' OBVIOUS
<1>1. /\ Types /\ Tree1(fs) /\ LinksNamed(fs)
      /\ sb1' = lstat(fs, f1) /\ sb2' = lstat(fs, f2)
      /\ f1 \in Path /\ f2 \in Path /\ f1' = f1 /\ f2' = f2
      /\ UNCHANGED <<was, f1, f2, calls>> /\ Is(fs, sb1', "F")
      /\ \/ Fits(f1, f2) /\ fs' = cpf2d(f1, f2) /\ pc' = "done"
         \/ fs' = fs /\ pc' = "overflow"
  BY DEF IInv, Types, FileToDir, Stat
<1>2. sb1' \in Inode /\ sb2' \in Inode \cup {NULL}
  BY <1>1, LstatType DEF Is
<1>3. Good(fs, fs')
  BY <1>1, <1>2, IntoDirGood, SameGood
<1> QED BY <1>1, <1>2, <1>3, NamedSame, LastStep

LEMMA CallType ==
  ASSUME NEW g, NEW a \in Path, NEW b \in Path
  PROVE  Call(g, a, b) \in CallRec
BY DEF Call, CallRec, Names

LEMMA DirToLongStep == IInv /\ DirToLong => IInv'
<1> SUFFICES ASSUME IInv, DirToLong PROVE IInv' OBVIOUS
<1>1. /\ Types /\ Tree1(fs) /\ LinksNamed(fs)
      /\ sb1' = lstat(fs, f1) /\ sb2' = lstat(fs, f2)
      /\ f1 \in Path /\ f2 \in Path /\ UNCHANGED <<was, f1, f2>> /\ Stops("overflow")
  BY DEF IInv, Types, DirToLong, Stat, Stops
<1>2. sb1' \in Inode \cup {NULL} /\ sb2' \in Inode \cup {NULL}
  BY <1>1, LstatType
<1>3. Good(fs, fs') /\ Named' = Named
  BY <1>1, SameGood, NamedSame DEF Stops
<1> QED BY <1>1, <1>2, <1>3, LastStep DEF Stops

(* The first call of cpd2d, or none. *)
LEMMA EntersStep ==
  ASSUME IInv, pc = "start", NEW g, Good(fs, g), NEW b \in Path, Enters(g, b),
         UNCHANGED <<was, f1>>, f2' \in Path, Named' = Named,
         Is(fs, sb1', "D"), Is(g, sb2', "D")
  PROVE  IInv'
<1>1. /\ fs = was /\ Types /\ f1 \in Path /\ fs' = g
      /\ sb1' \in Inode /\ sb2' \in Inode
  BY DEF IInv, Begun, Types, Enters, Is
<1>2. CASE UNCHANGED calls /\ pc' \in {"refused", "overflow"}
  BY <1>1, <1>2, LastStep
<1>3. CASE pc' = "copy" /\ calls' = <<Call(g, f1, b)>>
  <2>1. calls' \in Seq(CallRec) /\ calls' # <<>>
    BY <1>1, <1>3, CallType
  <2>2. Types'
    BY <1>1, <1>3, <2>1 DEF Types, Good
  <2>3. Begun' /\ Copying'
    BY <1>1, <1>3, <2>1 DEF Begun, Copying
  <2>4. Kept'
    BY <1>1, KeptGood DEF IInv
  <2> QED BY <2>2, <2>3, <2>4 DEF IInv
<1> QED BY <1>2, <1>3 DEF Enters

LEMMA DirToNewStep == IInv /\ DirToNew => IInv'
<1> SUFFICES ASSUME IInv, DirToNew PROVE IInv' OBVIOUS
<1>1. /\ Types /\ pc = "start" /\ fs = was /\ Tree1(fs) /\ LinksNamed(fs)
      /\ sb1' = lstat(fs, f1) /\ Is(fs, sb1', "D")
      /\ f1 \in Path /\ f2 \in Path /\ UNCHANGED <<was, f1>>
      /\ f2' = f2 \/ f2' = f2 \o f1
  BY DEF IInv, Begun, Types, DirToNew, Stat
<1>2. f2' \in Path
  <2>1. f2 \o f1 \in Seq(Name) /\ f2 \o f1 # <<>>
    BY <1>1, ConcatProperties, EmptySeq DEF Path
  <2> QED BY <1>1, <2>1 DEF Path
<1>3. Named' = Named
  BY <1>1, NamedOfDir
<1>4. CASE CanMkdir(f2')
  <2>1. sb2' = FreeInode(fs) /\ Enters(mkdir(f2'), f2')
    BY <1>4 DEF DirToNew
  <2>2. Good(fs, mkdir(f2')) /\ Is(mkdir(f2'), FreeInode(fs), "D")
    BY <1>1, <1>2, <1>4, MkdirGood
  <2> QED BY <1>1, <1>2, <1>3, <2>1, <2>2, EntersStep
<1>5. CASE ~CanMkdir(f2')
  <2>1. sb2' = NULL /\ pc' = "refused" /\ UNCHANGED <<fs, calls>>
    BY <1>5 DEF DirToNew
  <2>2. Good(fs, fs') /\ sb1' \in Inode
    BY <1>1, <2>1, SameGood DEF Is
  <2> QED BY <1>1, <1>2, <1>3, <2>1, <2>2, LastStep
<1> QED BY <1>4, <1>5

LEMMA DirToOldStep == IInv /\ DirToOld => IInv'
<1> SUFFICES ASSUME IInv, DirToOld PROVE IInv' OBVIOUS
<1>1. /\ Types /\ pc = "start" /\ Tree1(fs) /\ LinksNamed(fs)
      /\ Is(fs, sb1', "D") /\ sb2' = lstat(fs, f2 \o f1)
      /\ f1 \in Path /\ f2 \in Path /\ UNCHANGED <<was, f1, f2>>
  BY DEF IInv, Types, DirToOld, Stat, Stops
<1>2. sb1' \in Inode /\ sb2' \in Inode \cup {NULL}
  <2>1. f2 \o f1 \in Seq(Name) /\ f2 \o f1 # <<>>
    BY <1>1, ConcatProperties, EmptySeq DEF Path
  <2> QED BY <1>1, <2>1, LstatType DEF Path, Is
<1>3. Good(fs, fs) /\ Named' = Named
  BY <1>1, SameGood, NamedSame
<1>4. CASE Enters(fs, f2) /\ Is(fs, sb2', "D")
  BY <1>1, <1>3, <1>4, EntersStep
<1>5. CASE Stops("refused")
  BY <1>1, <1>2, <1>3, <1>5, LastStep DEF Stops
<1> QED BY <1>4, <1>5 DEF DirToOld

----------------------------------------------------------------------------
(* The steps of cpd2d. *)

LEMMA CopyStep ==
  ASSUME IInv, pc = "copy", UNCHANGED <<was, f1, f2, sb1, sb2>>, Good(fs, fs'),
         calls' \in Seq(CallRec),
         \/ pc' = "copy" /\ calls' # <<>>
         \/ pc' \in {"done", "overflow"}
  PROVE  IInv'
<1>1. Types'
  BY DEF IInv, Types, Good
<1>2. Begun' /\ Copying'
  BY DEF IInv, Begun, Copying, Good, Grows, SameBut, Is
<1>3. Kept'
  BY NamedSame, KeptGood DEF IInv
<1> QED BY <1>1, <1>2, <1>3 DEF IInv

LEMMA ReturnStep ==
  ASSUME IInv, pc = "copy", UNCHANGED <<fs, was, f1, f2, sb1, sb2>>, Return
  PROVE  IInv'
<1>1. calls \in Seq(CallRec) /\ calls # <<>> /\ Good(fs, fs')
  BY SameGood DEF IInv, Types, Copying
<1>2. /\ calls' \in Seq(CallRec)
      /\ (pc' = "copy" /\ calls' # <<>>) \/ pc' = "done"
  BY <1>1, FrontType, EmptySeq DEF Return
<1> QED BY <1>1, <1>2, CopyStep

LEMMA EntryStep == IInv /\ Entry => IInv'
<1> SUFFICES ASSUME IInv, Entry PROVE IInv' OBVIOUS
<1>1. PICK x \in top.todo : EntryDir(x) \/ EntryFails(x) \/ EntryFile(x) \/ EntryOverflows(x)
  BY DEF Entry
<1>2. /\ Types /\ pc = "copy" /\ UNCHANGED <<was, f1, f2, sb1, sb2>>
      /\ calls \in Seq(CallRec) /\ calls # <<>> /\ Tree1(fs) /\ LinksNamed(fs)
  BY DEF Entry, IInv, Types, Copying
<1>3. Front(calls) \in Seq(CallRec) /\ top \in CallRec
  BY <1>2, FrontType DEF top
<1>4. x \in Name /\ top.f1 \in Path /\ top.f2 \in Path
  BY <1>1, <1>3 DEF CallRec
<1>5. /\ Source(x) \in Path /\ Target(x) \in Path
      /\ Last(Source(x)) = x
  BY <1>4, AppendParts DEF Source, Target, Path
<1>6. Behind(x) \in Seq(CallRec) /\ Behind(x) # <<>>
  <2>1. [top EXCEPT !.todo = @ \ {x}] \in CallRec
    BY <1>3 DEF CallRec
  <2> QED BY <1>3, <2>1, AppendProperties DEF Behind
<1>7. CASE EntryDir(x)
  <2>1. Good(fs, fs') /\ calls' = Append(Behind(x), Call(fs', Source(x), Target(x)))
        /\ pc' = pc
    BY <1>2, <1>5, <1>7, MkdirGood DEF EntryDir, Fails
  <2>2. calls' \in Seq(CallRec) /\ calls' # <<>>
    BY <1>5, <1>6, <2>1, CallType, AppendProperties
  <2> QED BY <1>2, <2>1, <2>2, CopyStep
<1>8. CASE EntryFails(x)
  BY <1>2, <1>8, ReturnStep DEF EntryFails
<1>9. CASE EntryFile(x)
  <2>1. /\ Fits(Source(x), top.f2) /\ lstat(fs, Source(x)) # NULL
        /\ fs' = cpf2d(Source(x), top.f2) /\ calls' = Behind(x) /\ pc' = pc
    BY <1>9 DEF EntryFile, TooLong, Fails
  <2>2. lstat(fs, Source(x)) \in Inode
    BY <1>2, <1>5, <2>1, LstatType
  <2>3. Good(fs, fs')
    BY <1>2, <1>4, <1>5, <2>1, <2>2, IntoDirGood
  <2> QED BY <1>2, <1>6, <2>1, <2>3, CopyStep
<1>10. CASE EntryOverflows(x)
  <2>1. Good(fs, fs') /\ calls' = calls /\ pc' = "overflow"
    BY <1>2, <1>10, SameGood DEF EntryOverflows
  <2> QED BY <1>2, <2>1, CopyStep
<1> QED BY <1>1, <1>7, <1>8, <1>9, <1>10

LEMMA NextStep == IInv /\ [Next]_vars => IInv'
<1> SUFFICES ASSUME IInv, [Next]_vars PROVE IInv' OBVIOUS
<1>1. CASE UNCHANGED vars
  <2>1. Named' = Named
    BY <1>1, NamedSame DEF vars
  <2> QED BY <1>1, <2>1 DEF vars, IInv, Types, Begun, Copying, Kept
<1>2. CASE NoSource
  <2>1. /\ sb1' = NULL /\ pc' = "exit" /\ UNCHANGED <<fs, was, f1, f2, calls, sb2>>
    BY <1>2 DEF NoSource, Stops
  <2>2. Good(fs, fs') /\ Named' = Named /\ f1 \in Path /\ f2 \in Path
        /\ sb2 \in Inode \cup {NULL}
    BY <2>1, SameGood, NamedSame DEF IInv, Types
  <2> QED BY <2>1, <2>2, LastStep
<1>3. CASE EndDir
  BY <1>3, ReturnStep DEF EndDir
<1> QED BY <1>1, <1>2, <1>3, FileToFileStep, FileToDirStep, DirToLongStep, DirToNewStep, DirToOldStep,
           EntryStep DEF Next

LEMMA KeptOthers == IInv => OthersKept
<1> SUFFICES ASSUME IInv, NEW i \in Inode, was[i].type # "-"
             PROVE  /\ \A x \in Names(was, i) : fs[i].kids[x] = was[i].kids[x]
                    /\ \/ [fs[i] EXCEPT !.kids = was[i].kids] = was[i]
                       \/ i = Named /\ fs[i].type = "F"
  BY DEF OthersKept
<1>1. fs[i] \in Node /\ was[i] \in Node
  BY DEF IInv, Types, Tree1
<1>2. SameBut(was[i], fs[i]) => [fs[i] EXCEPT !.kids = was[i].kids] = was[i]
  BY <1>1 DEF SameBut, Node
<1>3. \A x \in Names(was, i) : fs[i].kids[x] = was[i].kids[x]
  BY DEF IInv, Kept, Names
<1> QED BY <1>2, <1>3 DEF IInv, Kept

----------------------------------------------------------------------------
(* What holds between any two entries that cpd2d copies, however the        *)
(* directories and links of source and target lie.                          *)
THEOREM Invariance == Spec => []IInv
BY InitIInv, NextStep, PTL DEF Spec

(* The paths and inodes of a copy, and both stat buffers being directories   *)
(* while cpd2d runs.                                                         *)
THEOREM TypeCorrect == Spec => []TypeOK
<1>1. IInv => TypeOK
  BY DEF IInv, Types, Copying, Tree1, TypeOK, CallRec
<1> QED BY <1>1, Invariance, PTL

(* No copy takes away a name, or writes over a file that does not stand      *)
(* where the copy goes.                                                      *)
THEOREM OthersAlwaysKept == Spec => []OthersKept
BY KeptOthers, Invariance, PTL

=============================================================================

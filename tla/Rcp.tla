------------------------------- MODULE Rcp --------------------------------
(***************************************************************************)
(* The copy program of lab4 (myrcp.c): one command on a tree of            *)
(* directories, files and symbolic links.  Inode root is the working       *)
(* directory.  myrcp decides what to do from what the two arguments are;   *)
(* the recursion of cpd2d is a stack of calls, and one step copies one     *)
(* entry, in any order that readdir may return them.                       *)
(*                                                                         *)
(* Every call names its files by path, which is looked up anew each time.  *)
(***************************************************************************)
EXTENDS Integers, Sequences, FiniteSets, SequencesExt

CONSTANTS
  Inode,
  root,
  Name,
  Data,     \* what files contain
  Tree,     \* the trees that commands start with
  Args,     \* the pairs of arguments
  TempLen,  \* names in a path that tempf2 has room for,
  PathLen,  \* the buffers of cpf2d and cpd2d,
  UpLen,    \* and f2y of samedirs, .. being a name
  Height    \* directories from the working directory up to one with inode number 2

NULL == 0

Empty == 0

Node == [type : {"-", "D", "F", "L"}, kids : [Name -> Inode \cup {NULL}],
         up : Inode \cup {NULL}, data : Data \cup {Empty},
         dir : Inode \cup {NULL}, name : Name \cup {""}]

Path == Seq(Name) \ {<<>>}

ASSUME InodeAssumption == NULL \notin Inode /\ root \in Inode

\* Links of a tree name an entry of a directory.
ASSUME TreeAssumption ==
  \A g \in Tree : /\ g \in [Inode -> Node]
                 /\ \A i \in Inode : g[i].type = "L" => g[i].name \in Name

ASSUME ArgsAssumption ==
  \A args \in Args : \A k \in {1, 2} : args[k] \in Path /\ Len(args[k]) <= PathLen

VARIABLES
  fs,       \* the tree
  was,      \* the tree that the command found
  f1, f2,   \* the arguments; myrcp appends to f2
  sb1, sb2, \* the inodes of the arguments as myrcp saw them, NULL if there is none
  calls,    \* the active calls of cpd2d
  pc

vars == <<fs, was, f1, f2, sb1, sb2, calls, pc>>

Nothing == [x \in Name |-> NULL]

Free == [type |-> "-", kids |-> Nothing, up |-> NULL, data |-> Empty, dir |-> NULL, name |-> ""]

NewDir(up) == [Free EXCEPT !.type = "D", !.up = up]

NewFile(d) == [Free EXCEPT !.type = "F", !.data = d]

----------------------------------------------------------------------------
(* Path names.                                                             *)

Is(g, i, type) == i \in Inode /\ g[i].type = type

Kid(g, i, x) == IF Is(g, i, "D") THEN g[i].kids[x] ELSE NULL

\* A link names an entry of a directory that need not be there; no link leads
\* to a link.
Follow(g, i) == IF Is(g, i, "L") THEN Kid(g, g[i].dir, g[i].name) ELSE i

\* The directory that a path leads to, links followed.
opendir(g, path) == FoldLeft(LAMBDA i, x : Follow(g, Kid(g, i, x)), root, path)

Parent(g, path) == opendir(g, Front(path))

lstat(g, path) == Kid(g, Parent(g, path), Last(path))

Names(g, i) == IF Is(g, i, "D") THEN {x \in Name : g[i].kids[x] # NULL} ELSE {}

FreeInodes(g) == {i \in Inode : g[i].type = "-"}

FreeInode(g) == CHOOSE i \in FreeInodes(g) : TRUE

\* A name can be given in directory d; without a free inode, to a link only.
CanName(g, d, x) == Is(g, d, "D") /\ g[d].kids[x] = NULL

CanCreate(g, d, x) == CanName(g, d, x) /\ FreeInodes(g) # {}

Enter(g, d, x, i) == [g EXCEPT ![d].kids[x] = i]

Created(g, d, x, node) == [Enter(g, d, x, FreeInode(g)) EXCEPT ![FreeInode(g)] = node]

CanMkdir(path) == CanCreate(fs, Parent(fs, path), Last(path))

mkdir(path) == Created(fs, Parent(fs, path), Last(path), NewDir(Parent(fs, path)))

----------------------------------------------------------------------------
(* cpf2f and cpf2d.                                                        *)

(* Mutant: an old name is taken over. *)
LinkOver(a, b) ==
  IF Is(fs, Parent(fs, b), "D")
  THEN Enter(fs, Parent(fs, b), Last(b), lstat(fs, a)) ELSE fs

\* link(2): the new name is one more name of the link itself.
Link(a, b) ==
  IF CanName(fs, Parent(fs, b), Last(b))
  THEN Enter(fs, Parent(fs, b), Last(b), lstat(fs, a)) ELSE fs

\* What open with O_TRUNC leaves of file i to be read from file from.
Overwritten(i, from) ==
  [fs EXCEPT ![i].data = IF i = from THEN Empty ELSE fs[from].data]

MakeFile(d, x, from) ==
  IF CanCreate(fs, d, x) THEN Created(fs, d, x, NewFile(fs[from].data)) ELSE fs

\* open with O_CREAT follows a link, also to make the file it names.
Copy(from, b) ==
  LET at == lstat(fs, b)
      to == Follow(fs, at)
  IN  IF Is(fs, to, "F") THEN Overwritten(to, from)
      ELSE IF Is(fs, at, "L") THEN MakeFile(fs[at].dir, fs[at].name, from)
      ELSE MakeFile(Parent(fs, b), Last(b), from)

\* The two files it compares are those of myrcp; that a is a link is in sb1, or in
\* sbd3 if cpd2d has found it.
cpf2f(a, b) ==
  IF sb1' = sb2' THEN fs
  ELSE IF Is(fs, lstat(fs, a), "L") THEN Link(a, b)
  ELSE Copy(lstat(fs, a), b)

\* f2, f2/x, f2/x/x, ..., as far as each holds an x: the recursion of cpf2d,
\* which asks what the target of myrcp is (sb2, a directory) and not what f2/x is.
Level(b, x, k) == b \o [j \in 1..k |-> x]

Holds(b, x, k) == x \in Names(fs, opendir(fs, Level(b, x, k)))

\* The level that has no x, if catf2 has room for its path.
Ends(b, x) ==
  {k \in 0..PathLen : /\ Len(b) + k < PathLen
                     /\ ~Holds(b, x, k)
                     /\ \A j \in 0..k - 1 : Holds(b, x, j)}

Fits(a, b) == Ends(b, Last(a)) # {}

\* It gives up where f2/x is not a directory.
cpf2d(a, b) ==
  LET x == Last(a)
      end == Level(b, x, CHOOSE k \in Ends(b, x) : TRUE)
  IN  IF Is(fs, opendir(fs, end), "D") THEN cpf2f(a, Append(end, x)) ELSE fs

----------------------------------------------------------------------------
(* myrcp.                                                                  *)

Init ==
  /\ was \in Tree /\ fs = was
  /\ \E args \in Args : f1 = args[1] /\ f2 = args[2]
  /\ sb1 = NULL /\ sb2 = NULL
  /\ calls = <<>>
  /\ pc = "start"

Stops(how) == pc' = how /\ UNCHANGED <<fs, was, f1, f2, calls>>

Stat ==
  /\ pc = "start"
  /\ sb1' = lstat(fs, f1)

NoSource ==
  /\ Stat /\ sb1' = NULL
  /\ Stops("exit")
  /\ UNCHANGED sb2

\* A link, or a file to no directory.  If f2 is missing the switch finds that
\* sb2 is zero, and nothing more is done.
FileToFile ==
  /\ Stat /\ sb2' = lstat(fs, f2)
  /\ \/ Is(fs, sb1', "L")
     \/ Is(fs, sb1', "F") /\ ~Is(fs, sb2', "D")
  /\ fs' = cpf2f(f1, f2)
  /\ pc' = "done"
  /\ UNCHANGED <<was, f1, f2, calls>>

FileToDir ==
  /\ Stat /\ sb2' = lstat(fs, f2)
  /\ Is(fs, sb1', "F") /\ Is(fs, sb2', "D")
  /\ IF Fits(f1, f2) THEN fs' = cpf2d(f1, f2) /\ pc' = "done"
                     ELSE fs' = fs /\ pc' = "overflow"
  /\ UNCHANGED <<was, f1, f2, calls>>

\* The directory k levels above i, NULL above the working directory.
Above(g, i, k) ==
  LET up[n \in Nat] == IF n = 0 THEN i
                       ELSE IF up[n - 1] \in Inode THEN g[up[n - 1]].up ELSE NULL
  IN  up[k]

(* Mutant: only the directory that holds the target is looked at. *)
samedirsOnce(g, b) == sb1' = Above(g, opendir(g, b), 1)

\* f2y is b/.., b/../.., ..., as long as it has room.
samedirs(g, b) == \E k \in 1..UpLen - Len(b) : sb1' = Above(g, opendir(g, b), k)

\* It gets to a directory with inode number 2.
ClimbEnds(g, b) == \E k \in 0..UpLen - Len(b) - Height : root = Above(g, opendir(g, b), k)

Call(g, a, b) == [f1 |-> a, f2 |-> b, todo |-> Names(g, opendir(g, a))]

\* The directory is to be copied into directory b of the tree g.
Enters(g, b) ==
  /\ fs' = g
  /\ \/ samedirs(g, b) /\ pc' = "refused" /\ UNCHANGED calls
     \/ ~samedirs(g, b) /\ ClimbEnds(g, b) /\ pc' = "copy" /\ calls' = <<Call(g, f1, b)>>
     \/ ~samedirs(g, b) /\ ~ClimbEnds(g, b) /\ pc' = "overflow" /\ UNCHANGED calls

\* f2/f1 is put together if there is an f2.
TempFits == lstat(fs, f2) # NULL => Len(f2 \o f1) <= TempLen

DirToLong ==
  /\ Stat /\ Is(fs, sb1', "D")
  /\ ~TempFits
  /\ sb2' = lstat(fs, f2)
  /\ Stops("overflow")

\* The target is made: f2, or f2/f1 if there is an f2.
DirToNew ==
  /\ Stat /\ Is(fs, sb1', "D") /\ TempFits
  /\ f2' = IF lstat(fs, f2) = NULL THEN f2 ELSE f2 \o f1
  /\ lstat(fs, f2') = NULL
  /\ IF CanMkdir(f2')
     THEN sb2' = FreeInode(fs) /\ Enters(mkdir(f2'), f2')
     ELSE sb2' = NULL /\ pc' = "refused" /\ UNCHANGED <<fs, calls>>
  /\ UNCHANGED <<was, f1>>

(* Mutant: the case of a file falls through to that of a directory. *)
DirToOldAny ==
  /\ Stat /\ Is(fs, sb1', "D") /\ TempFits
  /\ lstat(fs, f2) # NULL
  /\ sb2' = lstat(fs, f2 \o f1) /\ sb2' # NULL
  /\ IF sb1' # sb2' /\ ~Is(fs, sb2', "L")
     THEN Enters(fs, f2) /\ UNCHANGED <<was, f1, f2>>
     ELSE Stops("refused")

\* There is an f2/f1: it is asked what that is, but the target is f2.
DirToOld ==
  /\ Stat /\ Is(fs, sb1', "D") /\ TempFits
  /\ lstat(fs, f2) # NULL
  /\ sb2' = lstat(fs, f2 \o f1) /\ sb2' # NULL
  /\ IF sb1' # sb2' /\ Is(fs, sb2', "D")
     THEN Enters(fs, f2) /\ UNCHANGED <<was, f1, f2>>
     ELSE Stops("refused")

----------------------------------------------------------------------------
(* cpd2d.                                                                  *)

top == Last(calls)

Return == IF Len(calls) = 1 THEN calls' = <<>> /\ pc' = "done"
                            ELSE calls' = Front(calls) /\ pc' = pc

\* The call goes on behind entry x.
Behind(x) == Append(Front(calls), [top EXCEPT !.todo = @ \ {x}])

Source(x) == Append(top.f1, x)

Target(x) == Append(top.f2, x)

SourceIsDir(x) == Is(fs, lstat(fs, Source(x)), "D")

\* The target is put together behind a look at the source.
TooLong(x) ==
  \/ Len(Source(x)) > PathLen
  \/ /\ lstat(fs, Source(x)) # NULL
     /\ IF SourceIsDir(x) THEN Len(Target(x)) > PathLen ELSE ~Fits(Source(x), top.f2)

Fails(x) == IF SourceIsDir(x) THEN ~CanMkdir(Target(x)) ELSE lstat(fs, Source(x)) = NULL

(* Mutant: the directory is copied into f2. *)
EntryDirFlat(x) ==
  /\ SourceIsDir(x) /\ ~TooLong(x) /\ ~Fails(x)
  /\ fs' = mkdir(Target(x))
  /\ calls' = Append(Behind(x), Call(fs', Source(x), top.f2))
  /\ pc' = pc

EntryDir(x) ==
  /\ SourceIsDir(x) /\ ~TooLong(x) /\ ~Fails(x)
  /\ fs' = mkdir(Target(x))
  /\ calls' = Append(Behind(x), Call(fs', Source(x), Target(x)))
  /\ pc' = pc

\* The entry is gone, or mkdir fails: the rest of the directory is left out, and the
\* caller goes on.
EntryFails(x) ==
  /\ ~TooLong(x) /\ Fails(x)
  /\ Return
  /\ UNCHANGED fs

EntryFile(x) ==
  /\ ~SourceIsDir(x) /\ ~TooLong(x) /\ ~Fails(x)
  /\ fs' = cpf2d(Source(x), top.f2)
  /\ calls' = Behind(x)
  /\ pc' = pc

EntryOverflows(x) ==
  /\ TooLong(x)
  /\ pc' = "overflow"
  /\ UNCHANGED <<fs, calls>>

Entry ==
  /\ pc = "copy"
  /\ UNCHANGED <<was, f1, f2, sb1, sb2>>
  /\ \E x \in top.todo : EntryDir(x) \/ EntryFails(x) \/ EntryFile(x) \/ EntryOverflows(x)

EndDir ==
  /\ pc = "copy" /\ top.todo = {}
  /\ Return
  /\ UNCHANGED <<fs, was, f1, f2, sb1, sb2>>

Next == \/ NoSource \/ FileToFile \/ FileToDir \/ DirToLong \/ DirToNew \/ DirToOld
        \/ Entry \/ EndDir

Spec == Init /\ [][Next]_vars

----------------------------------------------------------------------------
(* Properties.                                                             *)

\* The last conjunct is what the model of cpf2d and cpf2f builds on: while cpd2d
\* runs, both stat buffers of myrcp hold directories.
TypeOK ==
  /\ fs \in [Inode -> Node] /\ was \in [Inode -> Node]
  /\ f1 \in Path /\ f2 \in Path
  /\ sb1 \in Inode \cup {NULL} /\ sb2 \in Inode \cup {NULL}
  /\ calls \in Seq([f1 : Path, f2 : Path, todo : SUBSET Name])
  /\ pc \in {"start", "copy", "exit", "done", "refused", "overflow"}
  /\ pc = "copy" => calls # <<>> /\ Is(was, sb1, "D") /\ Is(fs, sb2, "D")

\* The file that the command names as its target.
Named == IF Is(was, lstat(was, f1), "F") THEN Follow(was, lstat(was, f2)) ELSE NULL

\* The files that the command copies: the ways to them from f1 through directories.
Files == {r \in SeqOf(Name, Cardinality(Name) + 1) :
            /\ Is(was, lstat(was, f1 \o r), "F")
            /\ \A k \in 0..Len(r) - 1 : Is(was, lstat(was, f1 \o SubSeq(r, 1, k)), "D")}

\* The paths that the copy of file x into directory b may have.
Nested(b, x) == {Level(b, x, k) : k \in 1..PathLen}

\* The paths that copies into directories may have.
Targets == UNION {IF r = <<>> THEN Nested(f2, Last(f1))
                             ELSE Nested(f2 \o Front(r), Last(r)) : r \in Files}

\* Whatever the copy meets, no name that was there leads to anything else, and no
\* file loses its contents but one that stands where the command puts its copy.
OthersKept ==
  \A i \in Inode : was[i].type # "-" =>
    /\ \A x \in Names(was, i) : fs[i].kids[x] = was[i].kids[x]
    /\ \/ [fs[i] EXCEPT !.kids = was[i].kids] = was[i]
       \/ /\ fs[i].type = "F"
          /\ i = Named \/ \E b \in Targets : i = Follow(was, lstat(was, b))

\* Directories below the source, as the way to them.
Below == {r \in SeqOf(Name, Cardinality(Name) + 1) : Is(was, lstat(was, f1 \o r), "D")}

Same(a, b) == CASE Is(was, a, "F") -> Is(fs, b, "F") /\ fs[b].data = was[a].data
                [] Is(was, a, "D") -> Is(fs, b, "D")
                [] OTHER -> a = b

\* Why an entry may be missing at the target: a directory next to it was there, or
\* the inodes have run out.
Stopped(r) ==
  \/ \E y \in Name : /\ Is(was, lstat(was, f1 \o Append(r, y)), "D")
                     /\ lstat(was, f2 \o Append(r, y)) # NULL
  \/ FreeInodes(fs) = {}

\* A directory that was copied is at the target as it is in the source: all
\* names, with the same contents, however deep, except for a name that the target had
\* before, and that where a directory met one of its name, or no inode was free, the
\* rest next to it may be missing.
CopyComplete ==
  pc = "done" /\ Is(was, lstat(was, f1), "D") =>
    \A r \in Below : LET to == opendir(fs, f2 \o r) IN
      Is(fs, to, "D") /\ (r = <<>> \/ lstat(was, f2 \o r) = NULL) =>
        \A x \in Names(was, lstat(was, f1 \o r)) :
          LET a == lstat(was, f1 \o Append(r, x))
              b == lstat(fs, f2 \o Append(r, x))
          IN  \/ Same(a, b)
              \/ lstat(was, f2 \o Append(r, x)) # NULL
              \/ Stopped(r)

\* A directory is never copied into itself, over and over: each directory that cpd2d
\* goes through was there before the command.
OnlyOldCopied == \A k \in DOMAIN calls : Is(was, opendir(fs, calls[k].f1), "D")
=============================================================================

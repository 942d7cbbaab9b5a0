----------------------------- MODULE FileTree -----------------------------
(***************************************************************************)
(* The file tree simulator of lab2 (my_filetree_sim.c).  A node has a      *)
(* pointer to its first child and one to its next sibling; its parent      *)
(* pointer leads to the directory from a first child, and to the sibling   *)
(* before from every other one.  The loops over pointers are steps, so     *)
(* that a chain without an end is a command that never returns.            *)
(*                                                                         *)
(* free overwrites the beginning of a block, the name, and leaves the      *)
(* pointers as they are; malloc returns a block that was freed or, if there *)
(* is none, the next one of the heap.  Pointers to removed nodes (cwd, the *)
(* parent of a sibling) read what is there.                                *)
(***************************************************************************)
EXTENDS Naturals, Sequences, FiniteSets, SequencesExt

CONSTANTS
  Addr,     \* blocks of memory for nodes
  root,     \* the block of the root node
  Name,     \* names in paths
  Path,     \* paths that are typed
  ItrSize   \* names that pwd has room for

ASSUME AddrAssumption == /\ Addr \subseteq Nat \ {0}
                         /\ root \in Addr

NULL == 0

\* A path is absolute or has at least one name.
ASSUME PathAssumption ==
  \A q \in Path : /\ q.abs \in BOOLEAN
                  /\ q.names \in Seq(Name)
                  /\ q.abs \/ q.names # <<>>

ASSUME ItrAssumption == ItrSize \in Nat

VARIABLES
  mem,    \* the contents of every block
  live,   \* the blocks in use
  cwd,
  pc,     \* where the program is
  cmd,    \* the command it executes
  path,   \* the names path2node has still to look up
  bname,  \* the name of the new node
  p, c,   \* the node and the child that the loops have reached
  i       \* names that pwd has collected

locals == <<cmd, path, bname, p, c, i>>
heap == <<mem, live, cwd>>
vars == <<mem, live, cwd, pc, cmd, path, bname, p, c, i>>

Slash == "/"

NewNode(nm, type, parent) ==
  [name |-> nm, type |-> type, child |-> NULL, sibling |-> NULL, parent |-> parent]

(* Mutant: the root has no parent. *)
RootOrphan == [name |-> Slash, type |-> "D", child |-> NULL, sibling |-> root, parent |-> NULL]

Root == [name |-> Slash, type |-> "D", child |-> NULL, sibling |-> root, parent |-> root]

Unused == NewNode(Slash, "F", NULL)

Init ==
  /\ mem = [a \in Addr |-> IF a = root THEN Root ELSE Unused]
  /\ live = {root}
  /\ cwd = root
  /\ pc = "main"
  /\ cmd = "none" /\ path = <<>> /\ bname = Slash /\ p = root /\ c = NULL /\ i = 0

\* Back to the prompt; the locals are dead.
Return ==
  /\ pc' = "main"
  /\ cmd' = "none" /\ path' = <<>> /\ bname' = Slash /\ p' = root /\ c' = NULL /\ i' = 0

Ends(how) == pc' = how /\ UNCHANGED locals

----------------------------------------------------------------------------
(* The commands, up to their loops.                                        *)

start(q) == IF q.abs THEN root ELSE cwd

\* The target of a path without a directory is the root, not cwd.
InCwd(q) == ~q.abs /\ Len(q.names) = 1

(* Mutant: the target of a path without a directory is cwd. *)
CreateInCwd(op, q) ==
  /\ pc = "main"
  /\ Addr \ live # {}
  /\ q.names # <<>>
  /\ cmd' = op
  /\ bname' = Last(q.names)
  /\ path' = Front(q.names)
  /\ p' = start(q)
  /\ pc' = IF InCwd(q) THEN "insert" ELSE "path"
  /\ UNCHANGED <<heap, c, i>>

\* mkdir and creat up to path2node(dname).  The bounds: some block is free, and
\* nobody types "mkdir /", which adds an entry that no path names.
Create(op, q) ==
  /\ pc = "main"
  /\ Addr \ live # {}
  /\ q.names # <<>>
  /\ cmd' = op
  /\ bname' = Last(q.names)
  /\ path' = Front(q.names)
  /\ IF InCwd(q) THEN p' = root /\ pc' = "insert"
                 ELSE p' = start(q) /\ pc' = "path"
  /\ UNCHANGED <<heap, c, i>>

\* rmdir, rm and cd up to path2node(pathname).
Find(op, q) ==
  /\ pc = "main"
  /\ cmd' = op
  /\ path' = q.names
  /\ p' = start(q)
  /\ pc' = "path"
  /\ UNCHANGED <<heap, bname, c, i>>

CdUp ==
  /\ pc = "main"
  /\ cwd' = mem[cwd].parent
  /\ UNCHANGED <<mem, live, pc, locals>>

Pwd ==
  /\ pc = "main"
  /\ cmd' = "pwd" /\ p' = cwd /\ i' = 1 /\ pc' = "pwd"
  /\ UNCHANGED <<heap, path, bname, c>>

\* save follows root->child without a test, and its outer loop never moves
\* once the inner one is over; the inner one copies to an uninitialised pointer.
Save ==
  /\ pc = "main"
  /\ LET first == mem[root].child
     IN  CASE first = NULL              -> Ends("segv")
           [] mem[first].child = NULL   -> Return
           [] mem[first].sibling = NULL -> Ends("hang")
           [] OTHER                     -> Ends("segv")
  /\ UNCHANGED heap

Quit ==
  /\ pc = "main"
  /\ Ends("quit")
  /\ UNCHANGED heap

----------------------------------------------------------------------------
(* path2node and search_child.                                             *)

SearchFirst ==
  /\ pc = "path" /\ path # <<>> /\ mem[p].child # NULL
  /\ c' = mem[p].child
  /\ pc' = "search"
  /\ UNCHANGED <<heap, cmd, path, bname, p, i>>

SearchNext ==
  /\ pc = "search" /\ mem[c].name # Head(path) /\ mem[c].sibling # NULL
  /\ c' = mem[c].sibling
  /\ UNCHANGED <<heap, pc, cmd, path, bname, p, i>>

SearchHit ==
  /\ pc = "search" /\ mem[c].name = Head(path)
  /\ p' = c /\ path' = Tail(path) /\ c' = NULL
  /\ pc' = "path"
  /\ UNCHANGED <<heap, cmd, bname, i>>

SearchFails ==
  /\ \/ pc = "path" /\ path # <<>> /\ mem[p].child = NULL
     \/ pc = "search" /\ mem[c].name # Head(path) /\ mem[c].sibling = NULL
  /\ Return
  /\ UNCHANGED heap

----------------------------------------------------------------------------
(* The commands on the node they found.                                    *)

At(ops) == pc = "path" /\ path = <<>> /\ cmd \in ops

IsDir(a) == mem[a].type = "D"

\* dir_empty
IsEmpty(a) == mem[a].child = NULL

Refuse ==
  /\ \/ At({"mkdir", "creat", "cd"}) /\ ~IsDir(p)
     \/ At({"rmdir"}) /\ (~IsDir(p) \/ ~IsEmpty(p))
     \/ At({"rm"}) /\ IsDir(p)
  /\ Return
  /\ UNCHANGED heap

Cd ==
  /\ At({"cd"}) /\ IsDir(p)
  /\ cwd' = p
  /\ Return
  /\ UNCHANGED <<mem, live>>

InsertHere ==
  /\ At({"mkdir", "creat"}) /\ IsDir(p)
  /\ pc' = "insert"
  /\ UNCHANGED <<heap, locals>>

(* Mutant: a sibling's pointer is not cleared. *)
UnlinkedChild(node) ==
  LET up == mem[node].parent
  IN  IF mem[up].child = node THEN [mem EXCEPT ![up].child = NULL] ELSE mem

\* delete: the pointer to node goes, and with it the way to its siblings.
Unlinked(node) ==
  LET up == mem[node].parent
  IN  IF mem[up].child = node THEN [mem EXCEPT ![up].child = NULL]
      ELSE IF mem[up].sibling = node THEN [mem EXCEPT ![up].sibling = NULL]
      ELSE mem

\* No path names what free leaves of a name.
Freed(m, node) == [m EXCEPT ![node].name = Slash]

\* rmdir and rm.  The root can go too: the program is not followed further.
Delete ==
  /\ \/ At({"rmdir"}) /\ IsDir(p) /\ IsEmpty(p)
     \/ At({"rm"}) /\ ~IsDir(p)
  /\ mem' = Freed(Unlinked(p), p)
  /\ live' = live \ {p}
  /\ IF p = root THEN Ends("freed") ELSE Return
  /\ UNCHANGED cwd

----------------------------------------------------------------------------
(* insert.                                                                 *)

TypeOf(op) == IF op = "mkdir" THEN "D" ELSE "F"

malloc ==
  LET freed == {a \in Addr \ live : mem[a] # Unused}
  IN  IF freed # {} THEN freed
      ELSE {a \in Addr \ live : \A b \in Addr \ live : a <= b}

(* Mutant: the parent of every new node is the directory. *)
LinkedToDir(a, changed, new) ==
  [mem EXCEPT ![new] = NewNode(bname, TypeOf(cmd), p), ![a] = changed]

\* Node a is changed to point to the block that malloc returned.
Linked(a, changed, new) ==
  [mem EXCEPT ![new] = NewNode(bname, TypeOf(cmd), a), ![a] = changed]

(* Mutant: a new node is always the first child. *)
InsertAlwaysFirst ==
  /\ pc = "insert" /\ c = NULL
  /\ \E new \in malloc : /\ mem' = Linked(p, [mem[p] EXCEPT !.child = new], new)
                       /\ live' = live \cup {new}
  /\ Return
  /\ UNCHANGED cwd

InsertFirst ==
  /\ pc = "insert" /\ c = NULL /\ mem[p].child = NULL
  /\ \E new \in malloc : /\ mem' = Linked(p, [mem[p] EXCEPT !.child = new], new)
                       /\ live' = live \cup {new}
  /\ Return
  /\ UNCHANGED cwd

InsertWalk ==
  /\ pc = "insert"
  /\ LET next == IF c = NULL THEN mem[p].child ELSE mem[c].sibling
     IN  next # NULL /\ c' = next
  /\ UNCHANGED <<heap, pc, cmd, path, bname, p, i>>

InsertLast ==
  /\ pc = "insert" /\ c # NULL /\ mem[c].sibling = NULL
  /\ \E new \in malloc : /\ mem' = Linked(c, [mem[c] EXCEPT !.sibling = new], new)
                       /\ live' = live \cup {new}
  /\ Return
  /\ UNCHANGED cwd

----------------------------------------------------------------------------
(* pwd's loop up the parent pointers.                                      *)

(* Mutant: the loop looks for a node without a parent. *)
PwdToNull ==
  /\ pc = "pwd" /\ mem[p].parent # NULL
  /\ IF i < ItrSize
     THEN /\ p' = mem[p].parent /\ i' = i + 1
          /\ UNCHANGED <<pc, cmd, path, bname, c>>
     ELSE Ends("overrun")
  /\ UNCHANGED heap

PwdUp ==
  /\ pc = "pwd" /\ mem[p].parent # root
  /\ IF i < ItrSize
     THEN /\ p' = mem[p].parent /\ i' = i + 1
          /\ UNCHANGED <<pc, cmd, path, bname, c>>
     ELSE Ends("overrun")
  /\ UNCHANGED heap

\* It prints itr[i], which it has not set, unless i is 1.
PwdEnd ==
  /\ pc = "pwd" /\ mem[p].parent = root
  /\ \/ Return
     \/ i > 1 /\ Ends("segv")
  /\ UNCHANGED heap

----------------------------------------------------------------------------
User ==
  \/ \E q \in Path : \/ \E op \in {"mkdir", "creat"} : Create(op, q)
                     \/ \E op \in {"rmdir", "rm", "cd"} : Find(op, q)
  \/ CdUp \/ Pwd \/ Save \/ Quit

Step ==
  \/ SearchFirst \/ SearchNext \/ SearchHit \/ SearchFails
  \/ Refuse \/ Cd \/ InsertHere \/ Delete
  \/ InsertFirst \/ InsertWalk \/ InsertLast
  \/ PwdUp \/ PwdEnd

Next == User \/ Step

Spec == Init /\ [][Next]_vars

\* The program is scheduled; nobody has to type anything.
FairSpec == Spec /\ WF_vars(Step)

----------------------------------------------------------------------------
(* Properties.                                                             *)

Kinds == {"D", "F"}

NodeRec == [name : Name \cup {Slash}, type : Kinds, child : Addr \cup {NULL},
            sibling : Addr \cup {NULL}, parent : Addr \cup {NULL}]

Over == {"quit", "segv", "hang", "overrun", "freed"}

Commands == {"none", "mkdir", "creat", "rmdir", "rm", "cd", "pwd"}

\* Every pointer that a step follows leads to a block: cwd, p and the parent of
\* a node that was ever in use are never NULL, although cwd may be a freed node.
TypeOK ==
  /\ mem \in [Addr -> NodeRec]
  /\ live \subseteq Addr
  /\ cwd \in Addr
  /\ pc \in {"main", "path", "search", "insert", "pwd"} \cup Over
  /\ cmd \in Commands
  /\ path \in Seq(Name)
  /\ bname \in Name \cup {Slash}
  /\ p \in Addr
  /\ c \in Addr \cup {NULL}
  /\ i \in Nat

\* The nodes that lead to b.
PointTo(b) == {a \in live : b \in {mem[a].child, mem[a].sibling}}

\* What delete relies on: a node in use points to nodes in use only, and the
\* one node that points to another is the one its parent pointer names, be it
\* the directory or the sibling before.  So delete finds the pointer it has to
\* clear, and no command reaches a freed node over another node.
LinksSound ==
  \A b \in Addr \ {root} : PointTo(b) # {} =>
    /\ b \in live
    /\ PointTo(b) = {mem[b].parent}

\* A command may leave cwd on a freed node, whose block the next malloc hands
\* out again; but no command ever writes to a block that is not in use.
WritesLive ==
  [][\A a \in Addr : mem'[a] # mem[a] => a \in live \cup live']_vars

\* Every command gets back to the prompt, or the program ends in one of the
\* ways the actions name: no chain of siblings is closed, whichever blocks
\* malloc reuses.
CommandsEnd == pc \notin {"main"} \cup Over ~> pc \in {"main"} \cup Over

\* The siblings from a on.  The number bounds the recursion for a chain that is
\* closed.
Chain(a) ==
  LET from[x \in Addr \cup {NULL}, n \in Nat] ==
        IF x = NULL \/ n = 0 THEN <<>> ELSE <<x>> \o from[mem[x].sibling, n - 1]
  IN  from[a, Cardinality(Addr)]

Entries(d) == Chain(mem[d].child)

\* The nodes that a path from the root reaches.
Attached ==
  LET below[x \in Addr \cup {NULL}, n \in Nat] ==
        IF x = NULL \/ n = 0 THEN {}
        ELSE {x} \cup below[mem[x].child, n - 1] \cup below[mem[x].sibling, n - 1]
  IN  {root} \cup below[mem[root].child, Cardinality(Addr)]

\* pwd runs over the end of itr only when cwd is a node that was removed or lost
\* with a sibling, whose parent pointers may form a cycle; or when the tree has
\* more nodes than itr has room for, since the parent of a sibling is the sibling
\* before it and not their directory.
OverrunOnlyLost ==
  pc = "overrun" => cwd \notin Attached \/ Cardinality(Attached) >= ItrSize + 2

Kids == [d \in Attached |-> Entries(d)]

Tree == INSTANCE OrderedTree WITH Node <- Addr, Root <- root,
                                  kids <- Kids

\* The pointers implement ordered directories: mkdir and creat add one entry
\* behind the others, rmdir and rm of an entry cut it off with all behind it,
\* and nothing else changes what the root reaches, not even a command given in
\* a directory that was removed.
ImplementsTree == Tree!Spec

=============================================================================

------------------------------- MODULE Ext2FS -------------------------------
(***************************************************************************)
(* The ext2 simulator of project/: one process that mounts a disk image    *)
(* and runs the commands of its prompt one after the other.  The module    *)
(* composes the minode table (MinodeOps), the directory blocks (DirBlock)  *)
(* and the two bitmaps under the commands mkdir, creat, rmdir, link,       *)
(* unlink, cd, ls, pwd, stat and quit.                                     *)
(*                                                                         *)
(* A C function is an operator from a program state to the program state   *)
(* it returns in.  A program state is a record:                            *)
(*   disk     the disk image                                               *)
(*   imgs     every image that the command's put_blocks left on the disk   *)
(*   tab      minode[]                                                     *)
(*   cwd      proc[0].cwd, a slot of tab                                   *)
(*   status   "ok", or how the program went wrong: "hang" (an endless      *)
(*            loop), "segv" (a pointer that is null or cut off), "wild"    *)
(*            (undefined behaviour: the run is followed no further)        *)
(*   ret      the value a function returns                                 *)
(*   mip      the minode pointer that getino walks with                    *)
(*                                                                         *)
(* The free counts, which no command reads, are in BitmapAlloc.            *)
(***************************************************************************)
EXTENDS MinodeOps, DirBlock, FiniteSets, SequencesExt

CONSTANTS
  NMINODE,      \* slots of the minode table (64)
  NInodes,      \* inodes of the image (184)
  NBlocks,      \* blocks of the image (1440)
  NDirect,      \* direct blocks that the loops scan (12)
  IntHoldsPointer, \* whether an int of the build is as wide as a pointer
  MkdirPaths, CreatPaths, RmdirPaths, UnlinkPaths, CdPaths, LookPaths,
  LinkPairs,    \* the arguments of the commands
  MaxCmds,      \* BOUND: commands over all runs of the program
  MaxKills      \* BOUND: how often the program is killed

Root == 2
RootSlot == 1
RootBlock == 1
Slots == 1..NMINODE
Inos == 1..NInodes
Blocks == 0..NBlocks         \* block 0 is what balloc's failure names

ASSUME SizesAssumption ==
  /\ NMINODE \in Nat /\ NMINODE >= 1
  /\ NInodes \in Nat /\ NInodes >= Root
  /\ NBlocks \in Nat /\ NBlocks >= 2
  /\ NDirect \in Nat /\ NDirect >= 1
  /\ IntHoldsPointer \in BOOLEAN
  /\ MaxCmds \in Nat /\ MaxKills \in Nat

(* A path is [abs, names]: whether it starts with "/", and its components. *)
(* What a command makes, links or removes has a name.                      *)
Paths == [abs : BOOLEAN, names : Seq(STRING)]

ASSUME PathsAssumption ==
  /\ \A p \in MkdirPaths \cup CreatPaths \cup RmdirPaths \cup UnlinkPaths :
       p \in Paths /\ p.names # <<>>
  /\ \A lp \in LinkPairs : \A i \in 1..2 : lp[i] \in Paths /\ lp[i].names # <<>>
  /\ CdPaths \cup LookPaths \subseteq Paths

VARIABLES
  disk, tab, cwd, status,
  cmds,     \* history: commands so far
  kills     \* history: kills so far

vars == <<disk, tab, cwd, status, cmds, kills>>

LinkModulus == 65536         \* i_links_count is a u16

NoBlocks == [i \in 1..NDirect+1 |-> 0]
Inode(mode, links, b) == [mode |-> mode, links |-> links,
                          block |-> [NoBlocks EXCEPT ![1] = b]]
FreeInode == Inode("free", 0, 0)

(* What iget(dev, 0) loads: the bytes before its buffer.  They are taken   *)
(* to be neither DIR_MODE nor FILE_MODE.                                   *)
JunkInode == Inode("junk", 0, 0)
FreeMinode == [ref |-> 0, ino |-> 0, dirty |-> FALSE, data |-> FreeInode]

-----------------------------------------------------------------------------
(* Program states *)

Then(s, F(_)) == IF s.status = "ok" THEN F(s) ELSE s
Fails(s, how) == [s EXCEPT !.status = how]
Returns(s, r) == [s EXCEPT !.ret = r]

(* A loop of n passes.  Where the C code leaves it, the passes that follow *)
(* do nothing.                                                             *)
Loop(pass(_, _), s, n) ==
  LET after[i \in 0..n] == IF i = 0 THEN s ELSE pass(after[i - 1], i)
  IN  after[n]

(* put_block *)
PutBlock(s, d) == [s EXCEPT !.disk = d, !.imgs = @ \cup {d}]
PutData(s, b, data) == PutBlock(s, [s.disk EXCEPT !.blk[b] = data])

INode(s, slot) == s.tab[slot].data
Mode(s, slot) == INode(s, slot).mode

-----------------------------------------------------------------------------
(* ialloc_balloc.c, one put_block of the bitmap each *)

Lowest(S) == CHOOSE b \in S : \A c \in S : b <= c

ialloc(s) ==
  LET free == 0..NInodes-1 \ s.disk.imap
  IN  IF free = {} THEN Returns(s, 0)
      ELSE Returns(PutBlock(s, [s.disk EXCEPT !.imap = @ \cup {Lowest(free)}]),
                   Lowest(free) + 1)

(* Mutant: balloc does not put the bitmap. *)
ballocUnmarked(s) ==
  LET free == 0..NBlocks-1 \ s.disk.bmap
  IN  Returns(s, IF free = {} THEN 0 ELSE Lowest(free) + 1)

balloc(s) ==
  LET free == 0..NBlocks-1 \ s.disk.bmap
  IN  IF free = {} THEN Returns(s, 0)
      ELSE Returns(PutBlock(s, [s.disk EXCEPT !.bmap = @ \cup {Lowest(free)}]),
                   Lowest(free) + 1)

idealloc(s, ino) == PutBlock(s, [s.disk EXCEPT !.imap = @ \ {ino - 1}])

(* clr_bit(buf, bno): the bit of the next block *)
bdealloc(s, bno) == PutBlock(s, [s.disk EXCEPT !.bmap = @ \ {bno}])

bdeallocBlock(t, inode, i) ==
  IF inode.block[i] = 0 THEN t ELSE bdealloc(t, inode.block[i])

bdeallocAll(s, inode) == Loop(LAMBDA t, i : bdeallocBlock(t, inode, i), s, NDirect)

-----------------------------------------------------------------------------
(* util.c *)

(* Returns the slot. *)
iget(s, ino) ==
  LET hits == Cached(s.tab, ino)
      free == FreeSlots(s.tab)
      data == IF ino = 0 THEN JunkInode ELSE s.disk.itab[ino]
  IN  IF hits # {}
      THEN [s EXCEPT !.tab[Lowest(hits)] = Shared(@), !.ret = Lowest(hits)]
      ELSE IF free = {} THEN Fails(s, "segv")
      ELSE [s EXCEPT !.tab[Lowest(free)] = Loaded(ino, data), !.ret = Lowest(free)]

(* The write back of inode 0 goes to the bytes before iput's buffer. *)
iput(s, slot) ==
  LET m == s.tab[slot]
      t == [s EXCEPT !.tab[slot] = Released(m)]
  IN  IF ~WritesBack(m) THEN t
      ELSE IF m.ino = 0 THEN Fails(t, "wild")
      ELSE PutBlock(t, [t.disk EXCEPT !.itab[m.ino] = m.data])

(* The direct blocks where a loop over a directory's blocks may end: there *)
(* is none, or the walk does not get to its end.                           *)
DataBlock(s, inode, i) == s.disk.blk[inode.block[i]]
Stops(s, inode) ==
  {i \in 1..NDirect : inode.block[i] = 0 \/ Walk(DataBlock(s, inode, i)).end # "end"}

(* Returns the inode number, 0 if the name is not in the directory. *)
search(s, slot, name) ==
  LET inode == INode(s, slot)
      hits  == {i \in 1..NDirect : Match(DataBlock(s, inode, i), name) # NotFound}
      ends  == hits \cup Stops(s, inode)
      i     == Lowest(ends)
      b     == DataBlock(s, inode, i)
  IN  IF ends = {} \/ inode.block[i] = 0 THEN Returns(s, 0)
      ELSE IF i \in hits THEN Returns(s, b[Match(b, name)].ino)
      ELSE Fails(s, Walk(b).end)

NoPath == [abs |-> FALSE, names |-> <<>>]
Slash == [abs |-> TRUE, names |-> <<>>]
Dot == [abs |-> FALSE, names |-> <<".">>]
basename(p) == p.names[Len(p.names)]
dirname(p) == IF Len(p.names) = 1 /\ ~p.abs THEN Dot
              ELSE [p EXCEPT !.names = Front(@)]

(* Returns the inode number, 0 if there is none.  Each component's minode  *)
(* is got and never put, but for one that turns out not to be a directory. *)
enter(t, name) ==
  IF t.status # "ok" \/ t.ret = 0 THEN t
  ELSE IF Mode(t, t.mip) # "dir" THEN Returns(iput(t, t.mip), 0)
  ELSE Then(search(t, t.mip, name), LAMBDA u :
         IF u.ret = 0 THEN u
         ELSE Then(iget(u, u.ret), LAMBDA v : [v EXCEPT !.mip = v.ret, !.ret = u.ret]))

getino(s, p) ==
  LET start == [s EXCEPT !.mip = IF p.abs THEN RootSlot ELSE s.cwd, !.ret = -1]
  IN  IF p = Slash THEN Returns(s, Root)
      ELSE Loop(LAMBDA t, i : enter(t, p.names[i]), start, Len(p.names))

(* The pair that every command starts with. *)
getMinode(s, p) == Then(getino(s, p), LAMBDA t : iget(t, t.ret))

-----------------------------------------------------------------------------
(* mkdir.c: enter_name, one pass of its loop per direct block.  After a    *)
(* record went in, the loop goes on to the next block.                     *)

enterBlock(t, pip, ino, name, i) ==
  LET bno == INode(t, pip).block[i]
      b == t.disk.blk[bno]
  IN  IF t.status # "ok" \/ t.ret = 1 THEN t
      ELSE IF bno = 0 THEN Returns(t, 1)
      ELSE IF Walk(b).end # "end" THEN Fails(t, Walk(b).end)
      ELSE IF HasRoom(b) THEN PutData(t, bno, Append1(b, ino, name))
      ELSE LET u == balloc(t)
               v == [u EXCEPT !.tab[pip].data.block[i + 1] = u.ret]
           IN  Returns(PutData(v, bno, OverflowBlock(v.disk.blk[u.ret], ino, name)), 1)

enter_name(s, pip, ino, name) ==
  Loop(LAMBDA t, i : enterBlock(t, pip, ino, name, i), Returns(s, 0), NDirect)

-----------------------------------------------------------------------------
(* mkdir.c, creat.c *)

(* Mutants: a signed link count; a minode that is not marked dirty. *)
LinksSigned(n) == IF n = LinkModulus - 1 THEN -1 ELSE n % LinkModulus
SetINodeClean(s, slot, inode) == [s EXCEPT !.tab[slot].data = inode]

Links(n) == n % LinkModulus
SetINode(s, slot, inode) ==
  [s EXCEPT !.tab[slot] = [@ EXCEPT !.data = inode, !.dirty = TRUE]]

(* Mutant: the new minode is not put. *)
newInodeKept(s, mode, links) ==
  LET i == ialloc(s)
      b == balloc(i)
  IN  Then(iget(b, i.ret), LAMBDA t : SetINode(t, t.ret, Inode(mode, links, b.ret)))

(* ialloc, balloc, and the new inode in memory, marked and put.            *)
newInode(s, mode, links) ==
  LET i == ialloc(s)
      b == balloc(i)
  IN  Then(iget(b, i.ret), LAMBDA t :
        iput(SetINode(t, t.ret, Inode(mode, links, b.ret)), t.ret))

mymkdir(s, pip, name) ==
  Then(newInode(s, "dir", 2), LAMBDA t :
    LET m == t.tab[t.ret]
        bno == m.data.block[1]
        u == PutData(t, bno, DotBlock(t.disk.blk[bno], m.ino, t.tab[pip].ino))
    IN  enter_name(u, pip, m.ino, name))

my_creat(s, pip, name) ==
  Then(newInode(s, "file", 1), LAMBDA t : enter_name(t, pip, t.tab[t.ret].ino, name))

(* make_dir and creat_file: the checks, the new child, and the parent's    *)
(* link count, which is changed in memory and not marked dirty.            *)
newChild(s, p, mode) ==
  LET make(t, pip) == IF mode = "dir" THEN mymkdir(t, pip, basename(p))
                      ELSE my_creat(t, pip, basename(p))
      count(n) == IF mode = "dir" THEN Links(n + 1) ELSE 1
  IN  Then(getMinode(s, dirname(p)), LAMBDA t :
        IF Mode(t, t.ret) # "dir" THEN t
        ELSE Then(search(t, t.ret, basename(p)), LAMBDA u :
          IF u.ret # 0 THEN u
          ELSE Then(make(u, t.ret), LAMBDA v :
            iput([v EXCEPT !.tab[t.ret].data.links = count(@)], t.ret))))

make_dir(s, p) == newChild(s, p, "dir")
creat_file(s, p) == newChild(s, p, "file")

-----------------------------------------------------------------------------
(* rmdir_nofal.c *)

(* Mutant: only the link count is looked at. *)
isEmptyDirByLinks(s, slot) == Returns(s, IF INode(s, slot).links > 2 THEN 0 ELSE 1)

(* Returns 1 for an empty directory. *)
isEmptyDir(s, slot) ==
  LET inode == INode(s, slot)
      b == s.disk.blk[inode.block[1]]
  IN  IF inode.links > 2 THEN Returns(s, 0)
      ELSE IF inode.links # 2 \/ inode.block[1] = 0 THEN Returns(s, 1)
      ELSE IF \E o \in Visited(b) : b[o].name \notin {".", ".."} THEN Returns(s, 0)
      ELSE IF Walk(b).end # "end" THEN Fails(s, Walk(b).end)
      ELSE Returns(s, 1)

(* Mutant: prev_dp stays at the first record of the block. *)
PrevOffsetFirst(s, pip, i, o) == 0

(* prev_dp when the match is at offset o of block i: the record before it, *)
(* else the last one of the block before, else an uninitialised pointer.   *)
PrevOffset(s, pip, i, o) ==
  LET b == s.disk.blk[INode(s, pip).block[i]]
      before == {p \in Visited(b) : p < o}
  IN  IF before # {} THEN CHOOSE p \in before : \A q \in before : q <= p
      ELSE IF i = 1 THEN NotFound
      ELSE LastOffset(s.disk.blk[INode(s, pip).block[i - 1]])

(* The record is the last of its block, or is not; the case between, of a  *)
(* block with one record, comes after the first and is never reached.      *)
(* memmove gets its source from an int: in a 64-bit build, like that of    *)
(* the a.out beside the source, the cut address is not a stack address;    *)
(* and its length, behind a record that overshoots the block, is negative. *)
removeRecord(s, pip, i, o) ==
  LET bno == INode(s, pip).block[i]
      b == s.disk.blk[bno]
      prev == PrevOffset(s, pip, i, o)
  IN  IF IsLastRecord(b, o)
      THEN IF prev = NotFound \/ b[prev] = Wild THEN Fails(s, "wild")
           ELSE PutData(s, bno, Swallow(b, prev, o))
      ELSE IF Walk(b).end # "end" THEN Fails(s, Walk(b).end)
      ELSE IF ~IntHoldsPointer \/ o + b[o].rec > BLKWORDS THEN Fails(s, "segv")
      ELSE PutData(s, bno, CloseGap(b, o))

rmInBlock(t, pip, name, i) ==
  LET bno == INode(t, pip).block[i]
      b == t.disk.blk[bno]
  IN  IF t.status # "ok" \/ t.ret = 1 THEN t
      ELSE IF bno = 0 THEN Returns(t, 1)
      ELSE IF Match(b, name) # NotFound
           THEN Returns(removeRecord(t, pip, i, Match(b, name)), 1)
      ELSE IF Walk(b).end # "end" THEN Fails(t, Walk(b).end)
      ELSE t

rm_child(s, pip, name) ==
  Loop(LAMBDA t, i : rmInBlock(t, pip, name, i), Returns(s, 0), NDirect)

(* mip is put only when the directory is not removed. *)
remove_dir(s, p) ==
  Then(getino(s, p), LAMBDA t :
    LET ino == t.ret
    IN Then(iget(t, ino), LAMBDA u :
      LET mip == u.ret
      IN IF Mode(u, mip) # "dir" THEN iput(u, mip)
         ELSE Then(isEmptyDir(u, mip), LAMBDA v :
           IF v.ret = 0 THEN iput(v, mip)
           ELSE Then(getMinode(idealloc(bdeallocAll(v, INode(v, mip)), ino), dirname(p)),
             LAMBDA w :
               LET pmip == w.ret
               IN  Then(rm_child(w, pmip, basename(p)), LAMBDA x :
                     iput([x EXCEPT !.tab[pmip].data.links = Links(@ + LinkModulus - 1),
                                    !.tab[pmip].dirty = TRUE], pmip))))))

-----------------------------------------------------------------------------
(* link_unlink_symlink.c *)

(* Mutant: the new name may exist. *)
mylinkUnchecked(s, old, new) ==
  Then(getMinode(s, [abs |-> FALSE, names |-> <<basename(old)>>]), LAMBDA t :
    Then(getMinode(t, dirname(new)), LAMBDA v :
      IF Mode(v, t.ret) # "file" \/ Mode(v, v.ret) # "dir" THEN v
      ELSE Then(enter_name(v, v.ret, v.tab[t.ret].ino, basename(new)), LAMBDA x :
        iput(iput([x EXCEPT !.tab[t.ret].data.links = Links(@ + 1)], t.ret), v.ret))))

mylink(s, old, new) ==
  Then(getMinode(s, [abs |-> FALSE, names |-> <<basename(old)>>]), LAMBDA t :
    LET omip == t.ret
    IN  Then(getino(t, new), LAMBDA u :
      IF u.ret # 0 THEN u
      ELSE IF Mode(u, omip) = "file"
      THEN Then(getMinode(u, dirname(new)), LAMBDA v :
        LET nmip == v.ret
            w == [v EXCEPT !.tab[omip].dirty = TRUE]
        IN  IF Mode(v, nmip) # "dir" THEN v
            ELSE Then(enter_name(w, nmip, w.tab[omip].ino, basename(new)), LAMBDA x :
              iput(iput([x EXCEPT !.tab[omip].data.links = Links(@ + 1)], omip), nmip)))
      ELSE IF Mode(u, omip) = "dir" THEN iput(u, omip)
      ELSE u))

truncate(s, slot) ==
  LET kept(inode) == [inode EXCEPT !.block = [i \in 1..NDirect+1 |->
                                     IF i <= NDirect THEN 0 ELSE @[i]]]
  IN  [bdeallocAll(s, INode(s, slot)) EXCEPT !.tab[slot].data = kept(@)]

(* Mutant: the link count is not counted down. *)
my_unlinkUncounted(s, p) ==
  Then(getMinode(s, p), LAMBDA t :
    Then(getMinode(t, dirname(p)), LAMBDA u :
      IF Mode(u, t.ret) = "file" THEN rm_child(u, u.ret, basename(p)) ELSE u))

(* Neither minode is put or marked, and the inode is not deallocated.      *)
my_unlink(s, p) ==
  Then(getMinode(s, p), LAMBDA t :
    LET umip == t.ret
    IN  Then(getMinode(t, dirname(p)), LAMBDA u :
      LET pmip == u.ret
          v == [u EXCEPT !.tab[umip].data.links = Links(@ + LinkModulus - 1)]
          w == IF INode(v, umip).links = 0 THEN truncate(v, umip) ELSE v
      IN  IF Mode(u, umip) = "file" THEN rm_child(w, pmip, basename(p)) ELSE u))

-----------------------------------------------------------------------------
(* cd_ls_pwd.c, misc_level1.c *)

(* Mutant: the new working directory is put too. *)
chdirPutsBoth(s, p) ==
  IF p = NoPath THEN [s EXCEPT !.cwd = RootSlot]
  ELSE Then(getMinode(s, p), LAMBDA t :
    IF Mode(t, t.ret) # "dir" THEN t
    ELSE [iput(iput(t, t.cwd), t.ret) EXCEPT !.cwd = t.ret])

chdir(s, p) ==
  IF p = NoPath THEN [s EXCEPT !.cwd = RootSlot]
  ELSE Then(getMinode(s, p), LAMBDA t :
    IF Mode(t, t.ret) # "dir" THEN t
    ELSE [iput(t, t.cwd) EXCEPT !.cwd = t.ret])

(* Prints the blocks as a directory's, whatever the inode is. *)
print(s, slot) ==
  LET inode == INode(s, slot)
      stops == Stops(s, inode)
      i     == Lowest(stops)
  IN  IF inode.mode = "junk" THEN Fails(s, "wild")
      ELSE IF stops = {} \/ inode.block[i] = 0 THEN s
      ELSE Fails(s, Walk(DataBlock(s, inode, i)).end)

ls(s, p) ==
  IF p = NoPath THEN print(s, s.cwd)
  ELSE Then(getMinode(s, p), LAMBDA t : print(t, t.ret))

my_stat(s, p) == Then(getMinode(s, p), LAMBDA t : iput(t, t.ret))

(* rpwd, from a directory up to the root; it scans each parent's first     *)
(* block, from its second record on, for the inode it came from.  More     *)
(* steps than there are inodes are a recursion without end.                *)
rpwdUp(t) ==
  IF t.status # "ok" \/ t.mip = RootSlot THEN t
  ELSE Then(search(t, t.mip, "."), LAMBDA u :
    Then(search(u, u.mip, ".."), LAMBDA v :
      Then(iget(v, v.ret), LAMBDA w :
        LET b == w.disk.blk[INode(w, w.ret).block[1]]
            found == \E o \in Visited(b) \ {0} : b[o].ino = u.ret
        IN  IF Mode(w, w.ret) = "junk" THEN Fails(w, "wild")
            ELSE IF found THEN [w EXCEPT !.mip = w.ret]
            ELSE Fails(w, IF Walk(b).end = "end" THEN "wild" ELSE Walk(b).end))))

rpwd(s, wd) ==
  LET top == Loop(LAMBDA t, n : rpwdUp(t), [s EXCEPT !.mip = wd], NInodes)
  IN  IF top.status = "ok" /\ top.mip # RootSlot THEN Fails(top, "segv") ELSE top

pwd(s) == rpwd(s, s.cwd)

(* quit: one iput for each slot in use, then exit. *)
putSlot(t, i) == IF t.status = "ok" /\ t.tab[i].ref > 0 THEN iput(t, i) ELSE t

putAll(s) == Loop(putSlot, s, NMINODE)

-----------------------------------------------------------------------------
(* The program *)

Here == [disk |-> disk, imgs |-> {}, tab |-> tab, cwd |-> cwd, status |-> status,
         ret |-> 0, mip |-> RootSlot]

(* init() and mount_root(): root, proc[0].cwd and proc[1].cwd. *)
MountedTable(d) ==
  [i \in Slots |-> IF i = RootSlot
                   THEN [ref |-> 3, ino |-> Root, dirty |-> FALSE, data |-> d.itab[Root]]
                   ELSE FreeMinode]

(* A formatted image: the root directory, with its own two entries, in     *)
(* RootBlock; the inodes before it and the last bit of the block bitmap    *)
(* are reserved.  (mke2fs's lost+found has been removed.)                  *)
Image ==
  [imap |-> 0..Root-1,
   bmap |-> {RootBlock - 1, NBlocks - 1},
   itab |-> [i \in Inos |-> IF i = Root THEN Inode("dir", 2, RootBlock) ELSE FreeInode],
   blk  |-> [b \in Blocks |-> IF b = RootBlock THEN DotBlock(ZeroBlock, Root, Root)
                              ELSE ZeroBlock]]

Init ==
  /\ disk = Image
  /\ tab = MountedTable(Image)
  /\ cwd = RootSlot
  /\ status = "ok"
  /\ cmds = 0
  /\ kills = 0

Command == status = "ok" /\ cmds < MaxCmds /\ cmds' = cmds + 1

(* The command runs to its end, or to where it hangs or dies. *)
Finish(s) ==
  /\ disk' = s.disk
  /\ tab' = s.tab
  /\ cwd' = s.cwd
  /\ status' = s.status
  /\ UNCHANGED kills

Mkdir == Command /\ \E p \in MkdirPaths : Finish(make_dir(Here, p))
Creat == Command /\ \E p \in CreatPaths : Finish(creat_file(Here, p))
Rmdir == Command /\ \E p \in RmdirPaths : Finish(remove_dir(Here, p))
Link == Command /\ \E lp \in LinkPairs : Finish(mylink(Here, lp[1], lp[2]))
Unlink == Command /\ \E p \in UnlinkPaths : Finish(my_unlink(Here, p))
Cd == Command /\ \E p \in CdPaths : Finish(chdir(Here, p))
Ls == Command /\ \E p \in LookPaths : Finish(ls(Here, p))
Stat == Command /\ \E p \in LookPaths \ {NoPath} : Finish(my_stat(Here, p))
Pwd == Command /\ Finish(pwd(Here))

(* The next run of the program, on the disk that the last one left. *)
Mount(d) ==
  /\ disk' = d
  /\ tab' = MountedTable(d)
  /\ cwd' = RootSlot
  /\ status' = "ok"

Quit == status = "ok" /\ Mount(putAll(Here).disk) /\ UNCHANGED <<cmds, kills>>

Restart == status # "ok" /\ Mount(disk) /\ UNCHANGED <<cmds, kills>>

(* The program is killed behind one of the command's writes; or at the     *)
(* prompt, which stands for cd, ls and stat too, that write an inode at    *)
(* most.                                                                   *)
KillIn(s) == \E d \in s.imgs : Mount(d)

Kill ==
  /\ Command
  /\ kills < MaxKills
  /\ kills' = kills + 1
  /\ \/ \E p \in MkdirPaths : KillIn(make_dir(Here, p))
     \/ \E p \in CreatPaths : KillIn(creat_file(Here, p))
     \/ \E p \in RmdirPaths : KillIn(remove_dir(Here, p))
     \/ \E lp \in LinkPairs : KillIn(mylink(Here, lp[1], lp[2]))
     \/ \E p \in UnlinkPaths : KillIn(my_unlink(Here, p))
     \/ KillIn(putAll(Here))
     \/ Mount(disk)

Next ==
  \/ Mkdir \/ Creat \/ Rmdir \/ Link \/ Unlink \/ Cd \/ Ls \/ Stat \/ Pwd
  \/ Quit \/ Restart \/ Kill

Spec == Init /\ [][Next]_vars

-----------------------------------------------------------------------------
(* Views of a state that the properties speak of *)

(* The inode as the commands see it: the copy in memory, else the disk's.  *)
Seen(i) == LET hits == Cached(tab, i)
           IN  IF hits = {} THEN disk.itab[i] ELSE tab[Lowest(hits)].data

(* The blocks of an inode that the loops reach, and their records. *)
BlocksOf(inode) ==
  {inode.block[k] : k \in {j \in 1..NDirect : \A l \in 1..j : inode.block[l] # 0}}
RecordsOf(inode) == UNION {Records(disk.blk[b]) : b \in BlocksOf(inode)}

Marked(i) == i - 1 \in disk.imap
DirsOnDisk == {i \in Inos : Marked(i) /\ disk.itab[i].mode = "dir"}

(* The directories that the commands see (right after a mount: those on    *)
(* the disk), and the names in each.                                       *)
Dirs == {i \in Inos : Marked(i) /\ Seen(i).mode = "dir"}
Names(i) == {<<i, c.name, c.ino>> : c \in RecordsOf(Seen(i))}
Dots == {".", ".."}

(* Directories where the next record does not fit.                         *)
Full(i) ==
  \E b \in BlocksOf(Seen(i)) :
    Walk(disk.blk[b]).end = "end" /\ ~HasRoom(disk.blk[b])

(* Directories whose records enter_name's overflow wrote over.             *)
Overwritten(i) == disk.blk[Seen(i).block[1]][0].name # "."

(* The step is a command that ran to its end, or to where it hung or died. *)
CommandEnds == cmds' = cmds + 1 /\ kills' = kills

-----------------------------------------------------------------------------
(* Properties *)

ModeSet == {"free", "dir", "file", "junk"}
InodeOK(inode) ==
  /\ inode.mode \in ModeSet
  /\ inode.links \in 0..LinkModulus-1
  /\ inode.block \in [1..NDirect+1 -> Blocks]

TypeOK ==
  /\ disk.imap \subseteq 0..NInodes
  /\ disk.bmap \subseteq 0..NBlocks
  /\ \A i \in Inos : InodeOK(disk.itab[i])
  /\ \A s \in Slots : /\ tab[s].ino \in 0..NInodes
                       /\ tab[s].ref \in Int /\ tab[s].dirty \in BOOLEAN
                       /\ InodeOK(tab[s].data)
  /\ cwd \in Slots
  /\ status \in {"ok", "hang", "segv", "wild"}

(* At every moment, killed or not, a record on the disk names an inode     *)
(* that is allocated and written: mymkdir and my_creat put the bitmap,     *)
(* then the inode, then the block, and the parent's record last.           *)
RecordsInitialised ==
  \A i \in DirsOnDisk : \A c \in RecordsOf(disk.itab[i]) :
    c.ino # 0 => Marked(c.ino) /\ disk.itab[c.ino].mode # "free"

(* No data block belongs to two inodes, and each one that belongs to an    *)
(* inode is marked in the block bitmap, in memory and on the disk.         *)
BlocksOwnedOnce ==
  \A i \in Inos : Marked(i) =>
    \A b \in BlocksOf(Seen(i)) \cup BlocksOf(disk.itab[i]) :
      /\ b - 1 \in disk.bmap
      /\ \A j \in Inos \ {i} :
           Marked(j) => b \notin BlocksOf(Seen(j)) \cup BlocksOf(disk.itab[j])

(* The minode table serves the real callers, who never put most of what    *)
(* they get: one slot per inode, root in its own, and cwd in one that is   *)
(* in use. (rmdir can remove the working directory, and creat make a file  *)
(* of its inode; getino then puts cwd's minode with every path it fails.)  *)
MinodesSound ==
  /\ \A s, r \in Slots :
       InUse(tab[s]) /\ InUse(tab[r]) /\ tab[s].ino = tab[r].ino => s = r
  /\ InUse(tab[RootSlot]) /\ tab[RootSlot].ino = Root
  /\ tab[cwd].data.mode = "dir" => InUse(tab[cwd])

(* util.c 93-95: refCount is at least the number of pointers to the minode *)
(* that the program keeps between commands: root, proc[0].cwd, proc[1].cwd. *)
RefCountsUsers ==
  status = "ok" =>
    \A s \in Slots :
      tab[s].ref >= (IF s = RootSlot THEN 2 ELSE 0) + (IF s = cwd THEN 1 ELSE 0)

(* mkdir.c:105, creat.c:93, "write INODE to disk": when a command that     *)
(* allocated an inode returns, the disk has the inode that was made.       *)
NewInodeWritten ==
  [][CommandEnds /\ status' = "ok" =>
       \A b \in disk'.imap \ disk.imap :
         /\ disk'.itab[b + 1].mode \in {"dir", "file"}
         /\ disk'.itab[b + 1] = Seen(b + 1)']_vars

(* A record stays in its directory, whatever command runs or is killed,    *)
(* unless the command had to put a record into a full block.               *)
RecordsStay == [][\A i \in Dirs : ~Full(i) => Names(i) \subseteq Names(i)']_vars

(* No directory has a name twice, killed or not: make_dir, creat_file and  *)
(* mylink look the name up before they enter it.  Only a record of inode 0 *)
(* is overlooked, which mkdir and creat leave when no inode is free.       *)
NamesUnique ==
  \A i \in Dirs : (\A x \in Names(i) : x[3] # 0) =>
    \A x, y \in Names(i) : x[2] = y[2] => x = y

(* The directories are a tree, killed or not: one record only names a      *)
(* directory, and its "..", which pwd follows, leads back there.           *)
TreeShaped ==
  \A i, k \in Dirs : \A x \in Names(i), y \in Names(k) :
    x[2] \notin Dots /\ x[3] \in Dirs =>
      /\ y[2] \notin Dots /\ y[3] = x[3] => x = y
      /\ k = x[3] /\ y[2] = ".." => y[3] = i

(* The records by which a directory counts its subdirectories. *)
Subdirs(i) == {x \in Names(i) : x[2] \notin Dots /\ x[3] \in Dirs}

(* rmdir_nofal.c 19-20: "If the dir isnt empty we cannot delete the dir".  *)
(* VIOLATED: creat.c:60 sets the count that isEmptyDir trusts to 1.        *)
OnlyEmptyRemoved ==
  [][\A i \in Dirs : ~Marked(i)' => \A x \in Names(i) : x[2] \in Dots]_vars

(* It holds of a directory whose link count in memory is what it should be *)
(* and whose names are in the one block that isEmptyDir reads: rmdir,      *)
(* whether it ends or is killed, releases its inode only when it is empty. *)
CountedEmptyRemoved ==
  [][\A i \in Dirs :
       /\ ~Marked(i)'
       /\ Seen(i).links = 2 + Cardinality(Subdirs(i))
       /\ Seen(i).block[2] = 0
       => \A x \in Names(i) : x[2] \in Dots]_vars

(* A command takes at most one record from the directories that stay, and  *)
(* leaves every other one where a walk finds it, unless a block was full   *)
(* (enter_name) or has two owners (bdealloc).                              *)
RemovesOne ==
  [][CommandEnds /\ BlocksOwnedOnce =>
       \A i, j \in {d \in Dirs : ~Full(d) /\ Marked(d)'} :
         \A x \in Names(i) \ Names(i)', y \in Names(j) \ Names(j)' : x = y]_vars

(* Files, and the records in a set of directories that name one.           *)
Files == {i \in Inos : Marked(i) /\ Seen(i).mode = "file"}
Named(f, dirs) == Cardinality({x \in UNION {Names(i) : i \in dirs} : x[3] = f})

(* What earlier commands may have broken is whole: every directory is one  *)
(* block with room that starts with its own ".", every record names an     *)
(* inode that is in use, the working directory has not been removed, and   *)
(* no command has made the inode 0 that a full bitmap yields.              *)
Whole ==
  /\ {Root, tab[cwd].ino} \subseteq Dirs
  /\ tab[cwd].data.mode = "dir"
  /\ \A s \in Cached(tab, 0) : tab[s].data.mode = "junk"
  /\ \A i \in Dirs :
       /\ <<i, ".", i>> \in Names(i) /\ Seen(i).block[2] = 0 /\ ~Full(i)
       /\ \A x \in Names(i) : Marked(x[3])
  /\ BlocksOwnedOnce

(* link and unlink change the link count of a file in memory, which they   *)
(* never put, by as much as the number of its names in the directories     *)
(* that stay, and no other command changes one without the other: else     *)
(* truncate frees a file's blocks while it has a name, or never.           *)
LinksFollowNames ==
  [][CommandEnds /\ status' = "ok" /\ Whole =>
       \A stay \in {Dirs \cap Dirs'}, f \in Files : f \in Files' =>
         LET links == Seen(f)'.links - Seen(f).links
             names == Named(f, stay)' - Named(f, stay)
         IN  (links - names) % LinkModulus = 0]_vars

=============================================================================

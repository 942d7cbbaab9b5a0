# Formal models of the CptS 360 programs

TLA+ models of the programs in this repository, TLC configurations that check
them, and theorems about them with proofs that TLAPS checks. Every definition is
translated from the C source; `PROJECT.json` maps each one to its lines.

The centre is `project/`, a user-space ext2 file system. Around it are the lab
programs, of which the file transfer of `lab8/`, the file tree of `lab2/`, the
shell of `lab3/` and the copy of `lab4/` are modelled.

## 1. Inventory

| Component | State it keeps | Operations | What is hard | What makes it correct |
|---|---|---|---|---|
| **project: bitmap allocator** (`ialloc_balloc.c`) | inode and block bitmap, free counts in superblock and group descriptor, all on the disk image | `ialloc`, `idealloc`, `balloc`, `bdealloc`, the four counters | three blocks written one after the other; numbers start at 1, bits at 0; full bitmap; unsigned counters nobody tests | a held number is marked and never handed out again; a released one is free; counts agree with the bitmap |
| **project: minode table** (`util.c`: `mialloc`, `iget`, `iput`; `quit`) | `minode[64]`: dev, ino, refCount, dirty, INODE | `iget` shares or loads, `iput` releases and writes back, `quit` puts each slot once | a cache with reference counts; slots freed and taken again; the full table | one slot per inode; refCount is the number of users; no change marked dirty is lost while the program runs |
| **project: directory blocks** (`search`, `enter_name`, `rm_child`, `isEmptyDir`) | records with `rec_len` in the 1 KiB blocks of a directory | find, append (trim the last record or take a block), remove (swallow, close the gap, free the block), test for empty | offsets and lengths that must sum to the block; loops that end only if they do | names unique, other records untouched, every walk ends |
| **project: commands** (`main.c`, `mkdir.c`, `creat.c`, `rmdir_nofal.c`, `link_unlink_symlink.c`, `cd_ls_pwd.c`, `misc_level1.c`) | all of the above, `root`, `running->cwd` | mkdir, creat, rmdir, link, unlink, cd, ls, pwd, stat, quit | many writes per command and a kill between any two; minodes that are got and not put; stale minodes of removed directories | the directories form a tree; blocks have one owner; link counts count names; only empty directories go |
| project: files outside the build (`rmdir.c`, `chmod.c`, `symlink.c`) | - | earlier or unfinished versions | - | not modelled: `main.c` does not include them |
| **lab8: file transfer** (`server.c`, `client.c`) | two byte streams per connection, the files of both hosts, the server's working directory | get, put, ls, pwd, cd, mkdir, rmdir, rm | a stream without frames, both sides' timing, a peer that dies | commands run once and in order, answers are read whole, a get copies the file, nobody waits for ever |
| **lab2: file tree** (`my_filetree_sim.c`) | nodes with child, sibling and parent pointers, `cwd` | mkdir, rmdir, creat, rm, cd, ls, pwd, save | pointer surgery on insertion and deletion, a `cwd` that was freed, blocks that malloc hands out again | the pointers represent ordered directories; no freed block is written; every command returns |
| **lab3: shell** (`mysh.c`) | processes with their descriptors, pipes, open files | cd, exit, fork, redirections, pipe, execve, wait | readers that wait for the last close of the write end; dup takes the lowest descriptor; fork and execve fail; which child is waited for | every process is connected as its line says, ends, and the prompt returns |
| **lab4: recursive copy** (`myrcp.c`) | source and target tree, the stat buffers `sb1`, `sb2`, `sbd3` shared between calls | file to file, file to directory, directory to directory | case analysis on two stat results; a buffer of myrcp that cpf2d asks about another file; links; inodes that run out | the copy equals the source, and what was there stays |
| lab1: printf (`q2/myprintf.c`) | argument pointer | conversions of d, u, o, x, s, c | digits of 0 and of the least int | the digits denote the number |
| lab6: showblock (`showblock.c`) | an image, read only | path walk, direct and indirect blocks | bounds of the indirect levels | prints the blocks of the file, each once |
| lab6/prelab, lab1/q1, images, scripts | - | print one structure each | - | not modelled: no state of their own |

### How the parts interact

`main` of `project/` is one process. It reads a line, calls one command, and
returns to the prompt. A command walks a path with `getino` (`iget` for every
component, `search` in every directory's blocks), changes inodes in the minode
table and records in blocks, and calls the allocator. Only `put_block` changes
the image, and only `iput` of the last user of a dirty minode writes an inode.
Nothing runs concurrently; what can come between two steps is the end of the
program, and the next run starts from the image.

In `lab8/` every client is a process of its own. The server serves one
connection at a time; the others wait in the backlog of the listening socket,
where their bytes are queued. The only channel is the pair of streams.

The programs of `lab2/` and `lab4/` are single processes. The shell of `lab3/`
forks a child for every line; in a pipeline that child is the writer, and the
reader is a child of the child. They share pipes and files, and the reader may
still run when the shell has prompted again.

### Behaviours that are hard to test

The list is `hazards` in `PROJECT.json`, each at its line with the properties
that would catch it. The main groups are: a kill between two writes of one
command; counts and cached inodes that outlive what they describe; the layout
arithmetic of directory blocks; limits (full bitmap, table, block); the order in
which two processes use an unframed stream; the death of a peer; pointers and
stat buffers that outlive what they describe; and descriptors that keep a pipe
open.

## 2. Modules

| Module | Models | Correspondence |
|---|---|---|
| `BitmapAlloc` | `ialloc_balloc.c` | one action per `put_block`; `map`, `super`, `group` are the three blocks; `pc`, `buf`, `bit` the locals of the running call; `Kind` chooses inode or block functions, which differ in the bit that a release clears |
| `AbstractAlloc` | what callers rely on | a pool: an allocation takes any free number, a release gives exactly that one back |
| `BitmapAllocProofs` | - | invariant, counts, refinement |
| `MinodeOps` | `mialloc`, `iget`, `iput` on one table | operators shared by the two modules below |
| `MinodeTable` | the table under callers that put only what they got | actions GetCached, GetLoad, GetPanic (`iget`), Put (`iput`), Modify and Touch (a change with and without `dirty = 1`), the loop of `quit` slot by slot, Kill |
| `InodeStore` | what commands rely on | one current value per inode, and the value a crash leaves |
| `MinodeTableProofs` | - | invariant, refinement |
| `DirBlock` | record layout and every loop over it | a block is a function from word offsets to cells, so stale bytes behind a moved record are there as in the buffer |
| `Ext2FS` | the whole simulator | one operator per C function, from program state to program state; one action per command; a kill takes one of the images the command's `put_block`s left |
| `Loops` | - | induction over the passes of a loop, for proofs |
| `Ext2FSProofs` | - | types, records on the disk, references to minodes, owners of blocks, new inodes, names and the tree |
| `FileTransfer` | `server.c`, `client.c` | one action per read or write of either process; the socket's behaviour after the peer closed is `AfterWrite`, `AfterEnd`, `Closed` |
| `FileTransferProofs` | - | types, how the server ends, commands in order and none lost, answers read whole, gets copied |
| `FileTree` | `my_filetree_sim.c` | a block of memory is a record of the node's fields; the loops over pointers (`search_child`, `insert`, `pwd`) are one step per pointer, so a closed chain is a command that does not end; `free` spoils the name and leaves the pointers, `malloc` prefers freed blocks |
| `OrderedTree` | what the pointers stand for | every directory a sequence of entries: a new one comes last, a removal cuts off what is behind it |
| `FileTreeProofs` | - | invariant, links, writes |
| `Shell` | `mysh.c` | a process is a record with its table of descriptors; parseArgs one token per step, bepipin one close or dup per step, then the message of getCommand, execve and the program's reads and writes |
| `ShellProofs` | - | invariant, descriptors of every process |
| `Rcp` | `myrcp.c` | one operator per C function (`cpf2f`, `cpf2d`, `samedirs`), one action per case of `myrcp`; the recursion of `cpd2d` is a stack, and a step copies one entry, in any order |
| `RcpProofs` | - | invariant, nothing lost |
| `MCMinodeTable`, `MCExt2FS`, `MCFileTransfer`, `MCFileTree`, `MCShell`, `MCRcp` | values for TLC | paths, command lines, trees, sizes, symmetry |

`Ext2FS` composes `MinodeOps` and `DirBlock` by EXTENDS and uses the bitmap
effect of the allocator. The free counts are only in `BitmapAlloc`, because no
command reads them.

### Abstractions

- `BitmapAlloc`, counters: kept modulo a width smaller than 2^32 and 2^16 but
  larger than any lag that the run's kills can make (`WidthAssumption`). In
  `Ext2FS` one write of the bitmap stands for the call.
- `DirBlock`: a unit is a word of four bytes; names take one word. Record
  lengths are those of the code, rounded up to words; `BLKWORDS` is the size of
  a block.
- `Ext2FS`: `i_size`, times, uid and gid are left out (no modelled path tests
  them); so are `lost+found` of the image, `pimap`, `pbmap` and command lines
  without the argument their command needs. Paths have at most two components.
  An inode that `iget(dev, 0)` loads has a mode that is neither `DIR_MODE` nor
  `FILE_MODE`.
- Undefined behaviour: a call that follows a null or cut-off pointer ends with
  status `segv`, an endless loop with `hang`. A run is followed up to the first
  write through a wild pointer (`wild`). After any of these the program is
  started again on the image.
- `IntHoldsPointer`: `rm_child` keeps the source of a `memmove` in an `int`. In a
  64-bit build (the checked-in `a.out`) removing a record in the middle of a
  block dies there; in a 32-bit build it works. Both are modelled. The passing
  runs use the 32-bit build because it goes further.
- Kills: one between two commands is the kill at the prompt, and the disk cannot
  tell it from one in a command that writes nothing (or in the `iput` of cd and
  stat, which changes the image last). `rm_child` reads two characters from the
  terminal around a `put_block`; what the user types is free anyway.
- `FileTransfer`: MAX bytes are `MAX` units; a control message is one unit of
  text and padding, because the code writes MAX bytes whatever the text. A line is
  read whole only when its read begins in step and takes `MAX` units; any other read of
  the server may find in `line[]` no command, what it got, or any command of `Scraps`
  (`Lines`): that stands for text that was cut, for the old bytes behind a short
  read, for padding and for file data that spells a command, and allows more than
  the code does. File data that a
  client out of step takes for the end mark of an ls, and the bytes that strcat of " ECHO" writes behind
  `line[]`, are left out. Two
  things are assumed of sockets: a write arrives whole and does not block, and a
  read returns what is there up to MAX, except for `MaxCuts` reads that return
  less. An `int` that nobody set has a value of `JunkSizes`. `ls` of a
  directory, file data and sizes are what the properties tell apart; the text of
  a listing is not. The server's directories are one level deep; `ClientDirs` are names of directories
  of the clients, whose put sends a size and then reads for ever. `O_TMPFILE` is
  only defined with `_GNU_SOURCE`; with it the `open` of `putServer` always
  fails, so a put stores nothing, and that is how it is modelled. The client's
  local commands are left out.
- `FileTree`: names are distinct model values shorter than the 64 bytes they have
  room for. `mkdir /` is left out (it adds an entry that no path names), and the
  program is not followed after `rmdir /`. After a failing `malloc` nothing is
  modelled: a mkdir is typed only while a block is free. `pwd` prints an array
  element it has not set, which may kill it; `save` is modelled by how it ends.
  ls, menu and reload only print.
- `Shell`: what is written is counted in units, and the lines that the child
  prints around `execve` are one of them; they go to descriptor 1, and so into
  the file or the pipe, since the shell's stdout is a terminal and is flushed at
  every newline. The arguments that a program is given, with the redirections among them
  (mysh.c:233), are left out. The programs are external: some write a number of units,
  others copy their input. File names are absolute, so `cd` changes nothing that
  the model keeps. `wait(status)` is given an uninitialised int for a pointer; the
  kernel reaps the child before it looks at it, so both outcomes are the same
  here. A process never runs out of descriptors, nor the kernel
  of pipes: `MaxFd` and `Pipe` are bounds in the guards (`HasRoom`, `FreePipes`), so
  `open` and `pipe` do not fail for want of them. The redirection of a file to itself (`cat < f >> f`) has no end and is
  not in the run. What follows the end of the input is the endless loop of
  `main` (state `eof`).
- `Rcp`: a path is a sequence of names from the working directory. `opendir` and
  `lstat` look paths up anew each time, links are followed where the system call
  does. Every array that a path is put together in has its length: `tempf2[10]` (`TempLen`), those of
  cpf2d and cpd2d (`PathLen`) and `f2y[100]` of samedirs (`UpLen`), counted in names, as
  if all names were of one length; a copy that would run over one ends in the state
  `overflow`. The root directory with inode number 2 is `Height` directories above
  the working directory. `argv[2]`, to which myrcp appends, is taken to have room
  (myrcp.c:151), and the 64 bytes for a name are not counted.
  No link leads to a link. Modes, permissions and read or write errors are
  left out. `opendir` is taken to return the names that are there when it is
  called.

## 3. Runs

| Run | Question | Result |
|---|---|---|
| `inode_alloc` | does the inode allocator, killed behind any write, keep bitmap and counts and implement the pool? | holds |
| `block_release` | does the block allocator? | `MapExact` violated: `bdealloc` clears the next block's bit |
| `minodes` | is the minode table a cache that nobody notices? | holds |
| `fs_grow` | mkdir, creat, link, cd, ls, stat, pwd, quit and kills until blocks, inodes and minodes run out | holds |
| `fs_remove` | also rmdir and unlink, of the working directory too: what is removed, what counts as empty, do link counts follow names? | holds |
| `rmdir_nonempty` | does rmdir remove only empty directories? | `OnlyEmptyRemoved` violated after creat in the directory |
| `new_inode_lost` | is a new inode on the disk when its command returns? | `NewInodeWritten` violated when the number was used before in this run |
| `transfer` | two clients and the server, a short read, a killed client | holds |
| `server_loops` | does the server come back when its client dies? | `ServerLoops` violated in the loop of `putServer` |
| `file_tree` | do the three pointers per node implement ordered directories, whatever is removed, and does every command return? | holds |
| `rcp` | is a copied tree the same as its source, does everything else stay, and is no directory copied into itself? | holds |
| `shell` | are all processes of a line connected as it says, and do they end? | holds |

A property may be checked in one run and violated in another: the violating
runs give the system the commands that break it, and the passing runs show that
nothing else does. `NewInodeWritten` and `RefCountsUsers` hold in `fs_grow`, which has
no rmdir and no `cd` without a path (that takes no reference to the root, which
the next `cd` puts: there `RefCountsUsers` fails). Where commands that break a property cannot be
left out, the property says for which states it holds. `CountedEmptyRemoved` is
`OnlyEmptyRemoved` for a directory whose link count is 2 and one for each
subdirectory, and whose names are in one block; creat (creat.c:60), a kill and an
inode that is not written back each make it wrong. `LinksFollowNames` is about a
command that starts from a file system which the known faults have not reached
(`Whole`): every directory one block with room, every record naming an inode in
use, the working directory not removed, no inode 0, blocks with one owner.
`AnswersRead`, `CommandsInOrder` and `GetCopies` are about a client in step: no read was
short, and it put no file with a short last chunk, no empty or missing file and no
directory. For a client out of step nothing of the kind holds (section 4).
`CopyComplete` excepts the names that the target had before.

### Bounds

| Run | Bounds | Why they are enough |
|---|---|---|
| `inode_alloc`, `block_release` | five numbers, one reserved, one held; three kills | full and empty bitmap are reached, holes appear at every position, a lag of 3 crosses zero |
| `minodes` | three slots, four inodes, three references, two values | the root pins one slot, so the other two are reused by three inodes and run out |
| `fs_grow` | 5 commands, 1 kill, 5 inodes, 6 blocks, 5 minodes, blocks of 13 words, two direct blocks | a directory block overflows on the third name; inodes and minodes run out |
| `fs_remove` | 5 commands, 1 kill, blocks of 16 words | first, middle and last records are removed, and the only one of a block; a file has two names in two directories, of which one is removed; blocks and minodes run out |
| violating runs of `Ext2FS` | 4 commands, no kill but in `new_inode_lost` | the shortest counterexamples have 1 to 4 |
| `transfer` | MAX of 2 units, files of 2 and 3 units, two commands of one client and one of the other, one short read, one kill; data may spell one command (`Scraps`), and one name is a directory of the client's | a last chunk is whole or short; a put is followed by a command; each command meets the other client's changes of cwd and files |
| `file_tree` | four nodes, two names, five paths, two names in pwd's array | a directory with three entries or with nested ones; removed nodes are reused; cwd and a file next to it are removed in either order; a chain of three nodes runs over the array with `cwd` in the tree |
| `rcp` | 10,044 trees of up to eight objects, thirteen inodes, six pairs of arguments, paths of five names | every case of myrcp, a directory in a directory in the source, an entry of the target that is a file, a directory or a link, second names, and a copy that runs out of inodes |
| `shell` | two lines of seventeen, four processes, two pipes of one unit, six descriptors, one typed unit | a writer that fills the pipe, a reader that does not read or cannot start, both forks failing, and a line next to the reader of the one before |

Deadlock is not checked where the system may stop: all clients are gone, the
program or the shell has ended, the copy is done.

### Fairness

`project/` is sequential, and what matters of its progress is whether a command
returns; one that loops for ever ends in the status `hang`, which is followed by
nothing but a new start, so no fairness is assumed. In `FileTransfer` the server and each client are
processes that the kernel schedules: `WF_vars(Server)` and `WF_vars(Client(k))`.
Users need not type, exit or kill, so `User(k)` has no fairness. A read that
returns 0 in a loop changes nothing; the model has no action for it, and a
process that only does that makes no progress. In `FileTree` the program's own
steps are fair and what the user types is not. In `Shell` every process is
scheduled (`WF_vars(Step(p))`) and `wait` returns (`WF_vars(Wait)`); a program that
reads the terminal finds its end at some point, because users type at most
`MaxTyped` units.

### Mutants

Each checked property has a mutant of the code that breaks it: an operator
marked "Mutant:" just before the definition it would replace. They show that
the property depends on the code; no run uses them.

## 4. What the runs show about the code

- `block_release`: `bdealloc(dev, bno)` clears bit `bno`, but `balloc` returns
  bit + 1. A released block stays marked, and the next block becomes free while
  a file holds it. In `Ext2FS` this gives a block two owners, which is why
  `RemovesOne` and `LinksFollowNames` hold only as long as `BlocksOwnedOnce` does.
- `rmdir_nonempty`: `creat_file` sets the parent's link count to 1 instead of
  adding one; `isEmptyDir` then takes neither branch and answers "empty".
- `new_inode_lost`: a removed directory's minode is never put. A new inode with
  that number finds it, and its `iput` is not the last, so nothing is written.
- `server_loops`: `putServer` does not test for the end of the stream.
- Seen on the way, and modelled as the code is: a kill inside rmdir leaves a
  name of a free inode; `enter_name` writes the first record of a new block over
  the directory's present block (mkdir.c:194), so that the directory loses every
  name it had; parents changed by `make_dir` and `creat_file`
  are not marked dirty, although the comment says so (mkdir.c:71), and the change reaches the disk only by luck
  (`Touch` in `MinodeTable`). `cd` without a path takes no reference to the
  root that the next `cd` puts. A link made in a directory that has no block left is
  counted and has no record. `isEmptyDir` reads
  the first block only, and none if the link count is 1 or 0. In a 32-bit build, after `rm_child` removed a record
  from the middle of a block, the last record does not reach the end, a walk goes
  on into stale bytes, and at a length of 0 `search` never returns (status `hang`
  of `Ext2FS`). In `lab8`, a client killed while it is
  answered ends the server by SIGPIPE, a get of a directory keeps it in a loop of
  failing reads, a put of a directory the client, `ls` of another directory ends the
  server by `exit`, and a put with a
  short last chunk, or any short read, can swallow the next command. After the put
  of a file that is not there, putServer has no size; it may then take the next line
  and size for data, and what comes behind them, the data of a file, is read as a line
  and executed (server.c:256-267), although it was never sent as a command (`Lines`,
  `Scraps`).
- In `lab2`: a path without a directory is created in the root and not in `cwd`.
  delete takes the siblings behind a removed entry with it. A removed `cwd` is
  kept: further commands start from the freed node, find nothing that the
  tree has lost, and write nothing there (`WritesLive`); `pwd` may run over
  its array then. It also does in a tree of more nodes than the array holds, and not only a deep one: the parent of a
  sibling is the sibling before it, so 65 directories next to each other are enough
  (`OverrunOnlyLost` says that there is no third cause). `save` ends in a crash or in an endless
  loop as soon as the first entry has an entry.
- In `lab3`: a line of blanks makes `sysm` compare a null pointer, and the end of
  the input makes `main` prompt for ever. Of `a | b | c` the shell runs `a` and
  `c`; a redirection anywhere in a line is that of `a`'s input or of the last
  program's output. The shell waits for the writer only, so it prompts while
  the reader still writes. `>` does not shorten a file, and the file begins with
  what the child printed before `execve`.
- In `lab4`: the comment in `cpf2d` has `f2/x` overwritten when it is a file.
  The code asks about `sb2`, which is myrcp's own target, and so goes
  into `f2/x` as a directory, fails to open it and leaves it as it is
  (myrcp.c:312 against myrcp.c:284). `OthersKept` does not take that for right: it lets a copy
  replace the file it is to replace, and only that.
  `samedirs` climbs until it meets inode number 2, or overruns `f2y`. A file whose target is a link to it is
  emptied, since `samefile` compares the link. A directory that exists at the
  target ends the copy of its parent. Copied files get the mode of the source
  directory. When `f2/f1` exists, the contents go to `f2`.

## 5. Proofs

TLAPS checks the following for all values of the constants that satisfy the
named assumptions.

**Inode allocator** (`BitmapAllocProofs`, for `Kind = "inode"`). `MapExact` alone is
not inductive: while `ialloc` runs, the bitmap that it will put is in `buf`. The
invariant is `IInv == TypeOK /\ MapExact /\ GivenUnreserved /\ BufExact /\ LagInv`:
`BufExact` says that `buf` is the disk's bitmap with one clear bit added,
`GivenUnreserved` that no file holds a reserved number, so that releasing never
clears its bit, and `LagInv` counts, for every value of `pc`, what the running
call still owes each counter. The lemmas say how the number of clear bits
changes when a bit is set or cleared. From it: `TypeCorrect`, `MapAlwaysExact`,
`CountsAlwaysLag`, `CountsAlwaysExact`, and `Implementation`: every step is a
step of `AbstractAlloc` or leaves it unchanged. Assumptions: sizes are
naturals, the image's held and reserved numbers are disjoint, the widths exceed
`NBits + MaxKills + 2`. For `Kind = "block"` `MapExact` is false, see `block_release`.

**Minode table** (`MinodeTableProofs`). `IInv == TypeOK /\ RefsAreUsers /\
OneSlotPerInode /\ RootHeld`. `RefsAreUsers` makes `iput`'s test "last user" mean
what it says; `OneSlotPerInode` needs that a load happens only when no slot in
use has the inode; `RootHeld` says that the two pinned references keep slot 1 in
use while the callers behave. From it: `TypeCorrect`, `RefsAlwaysUsers`,
`OneSlotAlways`, `RootAlwaysInPlace`, and `Implementation`: under the mapping
`val` = the copy in memory, else the disk's, the table implements `InodeStore`.
Assumptions: at least one slot, at least one value, room for the three
references that the mount takes. That callers put only what they got is the
guard of `Put`; of the real callers some put less, which `Ext2FS` models, and
`cd` without a path puts more, which `fs_grow` leaves out.

**File tree** (`FileTreeProofs`). `IInv == TypeOK /\ HeapOK /\ LocalsOK`.
`LinksSound` is not inductive: the walk of `insert` needs that `p` and `c` are in
use, and a command may start from a `cwd` that is not. `HeapOK` adds to it that
the parent pointers of blocks that were ever used lead to such blocks, that the
root stays and nothing points to it, that no node's child is also its sibling,
and that files, and blocks that were freed, have no child, so that no relative
path leads out of a `cwd` that is gone; `LocalsOK` says what `p` and `c` are for
every value of `pc`. From it:
`TypeCorrect`, `LinksAlwaysSound` and the action property `WritesAlwaysLive`.
Assumptions: blocks are numbers other than 0, and a path is absolute or has a name.

**Copy** (`RcpProofs`). `IInv == Types /\ Begun /\ Copying /\ Kept`. `Kept` says more
than `OthersKept`: every object of the tree that the command found is still what it was,
with its names, but for the target of a file copied to a file. That a copy to a
directory changes nothing at all is what the code does, since `cpf2d` creates
only under names that no entry has (`IntoDirGood`); the property does not ask for it. `Copying` keeps `sb1` and `sb2` directories while `cpd2d`
runs, which is why its files never meet the branch of `cpf2d` that copies over.
From it: `TypeCorrect` and `OthersAlwaysKept`, for every set of trees and
arguments in which links have names.

**File transfer** (`FileTransferProofs`). `IInv == Types /\ EndsBy`. `Types` has one
part per variable: the streams carry units that the other side can send, a
server or client that writes has something to write, the file that `getClient`
has open is no shorter than the offset (`off`) written so far, and the working
directory is one of the server's. `EndsBy`
adds what `ServerEndsBy` needs one step earlier: an end of a connection that sees
"fin" or "rst" belongs to a client that has gone, and only an ls with an argument
is answered by a failing `ls_file` or `opendir`. From it: `TypeCorrect` and
`ServerAlwaysEndsBy`.

`CommandsAlwaysInOrder`, `AnswersAlwaysRead` and `GetsCopy` are about what the code
does well: for a client in step, which had no short read and put only files that fill
whole buffers, whatever the other clients put. Out of step they are false (section 4). `ConnectionsOK` ties the two ends of a connection
together: nothing is sent before it is open, and a client sees its end only
when the server is dead. `TurnsTaken` says that client and server take turns: a
question (get, ls, pwd) is the last thing in a client's stream, nothing is on
the way to a client that types or writes, and what is sent to one that waits,
with what the server still has to write, has the form it waits for: one message
for pwd, lines of which only the last is "$" for ls, a size and no more than
that many units for get (`Carries` counts the units of the remaining writes).
The hard step is the client's last read: by the form, it takes the last unit.
`NoneLost` is about the other direction. What the server expects of its client
(`Expects`: a line, a size, or so many units of data) and the buffers in the
stream and still to be written fit together (`Kept`): read one after the other,
each is what is expected there, a line is the next command asked, and at the
end all commands are executed (`Follows`). It rests on every write of a client
in step filling a buffer (`FollowsChunks`), so that each line is read whole and from its
beginning, and `Lines` leaves no other command; an odd put, by its
last chunk or "\n" for a size, makes the server read across a boundary.

`GetsCopy` proves `GetCopies`, that a finished get has brought the file. `TurnsTaken`
only counts units; `GetsServed` says which ones they are. For a client that waits
for the size or the data it ties five things together (`Gets`): what it has written
to its own file, what is left to come, what is in its stream, what the server is
about to write, and the file as the server has it. In this order, and behind the
size, they are the units of that file and nothing else (`Remains`, `Parts`). That
the server's file and directory do not change meanwhile is part of the
argument: the server serves nobody else until this client has gone, and the
client that waits has sent no command after its question (`Inquires`,
`NoCommand`). An empty or missing file is not answered at all, and there is nothing
to show for it. A client that takes the end of a dead server's stream for a
positive size reads no data at all, and its get does not finish.

Assumptions of all of these: directories and files are finite,
sizes are naturals, leftover `int`s are integers, and no command, typed or spelt by data, names the
directory that stands for the server's start ("top").

**Induction** (`Loops`, and the start of `Ext2FSProofs`). The library's induction
theorems take the formula as an operator, which the installed provers cannot
instantiate. `NatSet` states induction for a set of numbers, and is proved from
the library's facts on well-founded relations. `Loops` has the loop: given by its
pass and by what a pass keeps, as CONSTANTs of the module; an INSTANCE gives the
two. Its theorem `LoopKeeps` has induction over sets of numbers as its
hypothesis, for which every use cites `NatSet` (a `Loops` that imported the library
itself would carry all of it into each of the 17 instances, and the proofs would take half as
long again). Every loop of `Ext2FS` is handled so: its definition is shown to be
the function of its passes, and each pass to keep the invariant.

**Commands, types and records** (`Ext2FSProofs`). An action of `Ext2FS` is a whole
command, so the invariant has to say what holds at every `put_block` in it:
the program state carries in `imgs` all images the command has left so far, and
a kill takes one of them. `Good(s)` says that `s` is well typed, and that its disk, each
of its images and each minode in use are good: a disk is good when every record
in every block, also in blocks that are no longer a directory's and behind the
last record, names inode 0 or an inode that is marked and written (`Nameable`).
That is more than `RecordsInitialised` asks, and is needed because `enter_name`
writes over other blocks and because a walk with a wrong length reads stale bytes.
Each C function has a lemma that it keeps `Good`; for mkdir and creat it depends
on the order of the writes: `ialloc` marks the number, `iput` writes the inode,
and only then `enter_name` writes the record. From it: `TypeCorrect` for
all commands, and `RecordsAlwaysInitialised` without rmdir, which releases the
inode before the record (section 4). Assumptions: sizes are naturals, a block
has room for the two first records, paths are paths and a command that needs a
name has one (`SizesAssumption`, `BlockAssumption`, `PathsAssumption`).

**Minodes and blocks** (`Ext2FSProofs`, second part). `RefCountsUsers` and `MinodesSound` are
about the state between commands; within one, the command holds further
references, and getino puts some that it never got. `Sound(s, h, a)` says that in
state `s`, in which the command holds `h[q]` references to minode `q` and the
inodes `a` are allocated, every `refCount` is at least the pins of root and
`cwd` plus `h`, no inode is in two slots, root is in its slot, and blocks have
one owner (`Owned`, which also speaks about inodes that only memory has).
Each C function has a lemma from `h` before to `h` after: `iget` adds one, `iput`
takes one away, a failing `getino` leaves as many as there were. There is one
exception, which the invariant had to learn: with no inode left, creat makes its
file in the minode of inode 0, `cd` can go there, and every failing path puts it
once more (`Loose`); its last put ends the run, so no other minode suffers. `Serves`,
`Sound` between commands with nothing held, is inductive (`AlwaysServes`). From it:
`ReferencesCounted`, `TableSound`, the action property `MadeOnDisk` (a new
inode's only user is the command that made it, so its `iput` is the last and
writes), and `BlocksOwned`. The first three are about behaviours without rmdir and
without a `cd` that names no directory, and `BlocksOwned` about those that also
have no unlink. The code breaks the properties otherwise (`new_inode_lost`,
`block_release`, and `cd` in section 4): rmdir frees an inode whose minode
stays, a bare `cd` sets `cwd` without a reference, and unlink releases the wrong
blocks. `fs_grow` has just these commands; in `fs_remove` TLC checks `MinodesSound`
with rmdir and unlink too.

**Names and the tree** (`Ext2FSProofs`, third part). What a directory holds is
what a walk over its block finds, and a walk may fail to end. So the first
lemmas are about blocks: records that follow each other and fill the block
(`Chain`) are what a walk visits, `DotBlock`, `Append1` and `OverflowBlock` make such a chain
again, and their records (`Ents`) are the old ones with the new one, or in an
overflow the new one alone. `Orderly(d)` says of a disk, and so of every image in
`imgs`, that each block is unwritten or a chain, and unwritten while `balloc` has not given it
away; that the blocks behind a directory's first are unwritten (the record that
overflows goes over the first block, because `enter_name` writes to the old
`bno`); that names are unique, "." is the directory itself, no two records
name one directory, and the ".." of a directory that is named leads to where it
is. `Agrees(d, m)` says that a minode in use has the mode and first
block that the disk has: only link counts may differ. Without it a search in memory would
say nothing about the disk. `Laid(s, d0)` puts these together for a state in a
command that found disk `d0`, with `Grows(d0, d)` for each image: nothing is
unmarked, no inode gets another first block, and a block that is not full only
gets records. Each C function has a lemma from `Laid` to `Laid`. The hard ones are
`enter_name`, which needs that the name is absent (from the search before it, which
looks at the same block, because minode and disk agree) and that the child, if it is a directory, is
named nowhere yet; `newInode`, whose number no record has, since records name
marked inodes only (`RecordsInitialised`'s invariant, used here); and `mylink`, where
three walks over paths lie between the look-up of the new name and the write,
and all of them must be seen to lead where they would have led (`Trail`).
`Serves /\ InOrder` is inductive (`AlwaysInOrder`). From it: `NamesStayUnique`,
`TreeKept` (with one owner per block, from the second part), and the action property
`RecordsKept`, all also for runs in which inodes, blocks or minodes run out,
blocks overflow and commands are killed. Hypotheses: nothing is removed, no bare
`cd`, and no command makes or links a name "." or "..". The last is needed: after an
overflow a directory has no "." any more, and mkdir can make another.

The proof corrected a property. `NamesUnique` was stated for every directory. It is false
when no inode is free: `mkdir b` then leaves a record of inode 0 when the minode of inode
0 is in use, `search` returns that 0, which its callers read as "not there",
and the next command enters `b` again. TLC finds this on an image with fewer
inodes than `fs_grow` has. The property now excepts directories with such a record.

**Shell** (`ShellProofs`). `Wired` is about a process that has become its program, and
nothing in it says how it got there: descriptors have the numbers that `open`,
`pipe` and `dup` found free, other lines' processes may still run, and either fork
may fail. The invariant says of every process which of five it is (`Good`):
nobody, or a zombie (`Vacant`); in `parseArgs` (`Parses`), with its input and output
those of the last `<`, `>` and `>>` among the tokens it has passed; the only
process of its line (`Single`); the writer of a pipe or its reader (`Pipes`). For
those two, `WriterAt` and `ReaderAt` give the ends a process holds for each list of
operations it has left, where the two descriptors that `pipe` returned are any
two above 1. What makes the step from dup to `Wired` work is that `dup` takes 1 in the
writer, because 0 is open there, and 0 in the reader; that each pipe has one of
either (`OneEach`), because `pipe` takes one nobody has an end of; and that a
position which moves, or a parent that ends, changes no kind (`Alike`). From it:
`TypeCorrect`, which includes that `sysm` has one child exactly while it waits, and
`AlwaysWired`, for every set of lines, number of processes, descriptors, pipes
and files. Assumptions: pipes have room for a unit, there are three descriptors,
lines are sequences of words, no program is a maker and a filter
(`SizeAssumption`, `DataAssumption`, `NamesAssumption`, `PidAssumption`).

Only model-checked: of `Ext2FS`, `RemovesOne`, `CountedEmptyRemoved` and `LinksFollowNames`. They
are about rmdir and unlink, which release blocks and inodes that are
still named (section 4): what is left to say of blocks then depends on which are
given out next. The names theorems do not cover rmdir and unlink for the same
reason. `OverrunOnlyLost`, `OnlyOldCopied` (which follows a way upwards step by step), `CopyComplete`, and
that the pointers of `FileTree` implement `OrderedTree`, speak about recursively
defined sets, where a proof is an induction over data. The liveness properties (`EveryCommandEnds`, `CommandsEnd`, `ProcessesEnd`) are out of
TLAPS's reach under fairness.

## 6. Not modelled, and what could come next

- `project/rmdir.c`, `chmod.c`, `symlink.c`: `main.c` does not include them.
- `lab1/q1`, `lab6/prelab`: programs that print one structure each, without
  state of their own; `lab6/prelab/ialloc.c` and `balloc.c` are first versions of
  the allocator that `BitmapAlloc` models.
- `lab1/q2/myprintf.c` and `lab6/showblock.c`: sequential programs that read
  their input and print. Their only loops are over digits and over the blocks
  of an inode; a unit test reaches them.
- What each modelled component leaves out is in its note in `PROJECT.json` and
  under "Abstractions".

Next, most important first: `Ext2FS` against an abstract name space, as a
refinement for the runs without kills, for which `Orderly` gives the mapping;
`Swallow` and `CloseGap` on chains, and from them what rmdir and unlink take from a
directory as long as no block has two owners.

------------------------------- MODULE Shell ------------------------------
(***************************************************************************)
(* The shell of lab3 (mysh.c): the loop of main, the child that sysm forks *)
(* for a command line, the pipe and the second child that bepipin makes of *)
(* it, and the programs they become.  Every process has its own table of   *)
(* descriptors; close, dup and the two ends of a pipe work on that.        *)
(*                                                                         *)
(* What programs write, and what the child prints around execve, is        *)
(* counted in units.  The names of files are absolute: a cd has no effect  *)
(* on what the model keeps.                                                *)
(***************************************************************************)
EXTENDS Naturals, Sequences, FiniteSets, FiniteSetsExt, SequencesExt

CONSTANTS
  Pid,
  shell,
  Pipe,      \* BOUND: pipes at a time
  File,
  Files,     \* the files at the start: a function from some of File
  Maker,     \* programs that write: a function to the number of units
  Filters,   \* programs that copy their input, up to its end
  Line,      \* the command lines, as the sequences of their tokens
  PipeSize,  \* what a pipe has room for, in units
  MaxFd,     \* BOUND: descriptors of a process
  MaxLines,  \* BOUND: lines that the user types
  MaxTyped   \* BOUND: units that the user types for programs that read the terminal

Orphan == 0   \* the parent of a process whose parent has ended

Unit == {"msg", "x", "typed"}

Fd == 0..MaxFd

Closed == [kind |-> "closed", of |-> "", pos |-> 0]

Tty == [Closed EXCEPT !.kind = "tty"]

Open(kind, x) == [Closed EXCEPT !.kind = kind, !.of = x]

ASSUME PidAssumption == shell \in Pid /\ Orphan \notin Pid
ASSUME SizeAssumption == /\ PipeSize \in Nat \ {0} /\ MaxFd \in Nat /\ MaxFd >= 2
                         /\ MaxLines \in Nat /\ MaxTyped \in Nat
ASSUME NamesAssumption == DOMAIN Files \subseteq File /\ DOMAIN Maker \cap Filters = {}
ASSUME DataAssumption == /\ \A f \in DOMAIN Files : Files[f] \in Seq(Unit)
                         /\ \A m \in DOMAIN Maker : Maker[m] \in Nat
                         /\ \A line \in Line : line \in Seq(STRING)

VARIABLES
  proc,    \* the processes
  pipes,   \* what is in the pipes
  files,   \* what is in the files there are
  lines,   \* lines typed so far
  typed    \* units typed so far for programs

vars == <<proc, pipes, files, lines, typed>>

\* fd: its descriptors; up: its parent; line and n: the command line and how far
\* parseArgs is in it; todo: what it has to do to descriptors before execve;
\* prog: what it is to become, or has become; left: units it has yet to write;
\* held: what it has read and not written.
NoProc == [st |-> "none", up |-> Orphan, fd |-> [x \in Fd |-> Closed], line |-> <<>>,
           n |-> 0, todo |-> <<>>, prog |-> "", left |-> 0, held |-> ""]

Terminal == [x \in Fd |-> IF x <= 2 THEN Tty ELSE Closed]

----------------------------------------------------------------------------
(* Processes and descriptors.                                              *)

FreePids == {p \in Pid : proc[p].st = "none"}

Lowest(fd) == Min({x \in Fd : fd[x] = Closed})

HasRoom(fd) == \E x \in Fd : fd[x] = Closed

Holders(kind, q) == {p \in Pid : \E x \in Fd : proc[p].fd[x] = Open(kind, q)}

FreePipes == {q \in Pipe : Holders("r", q) = {} /\ Holders("w", q) = {}}

\* A process stays a zombie while it has a parent that could wait for it.
Exit(p) ==
  proc' = [c \in Pid |->
    IF c = p THEN IF proc[p].up = Orphan THEN NoProc
                  ELSE [NoProc EXCEPT !.st = "zombie", !.up = proc[p].up]
    ELSE IF proc[c].up # p THEN proc[c]
    ELSE IF proc[c].st = "zombie" THEN NoProc
    ELSE [proc[c] EXCEPT !.up = Orphan]]

\* A unit at the position of an open file.
Overwrite(data, pos, u) ==
  IF pos < Len(data) THEN [data EXCEPT ![pos + 1] = u] ELSE Append(data, u)

\* The files, and the descriptors, after a unit was written to descriptor out, or 1.
Written(out, u) ==
  CASE out.kind = "append" -> [files EXCEPT ![out.of] = Append(@, u)]
    [] out.kind = "write"  -> [files EXCEPT ![out.of] = Overwrite(@, out.pos, u)]
    [] OTHER               -> files

Moved(fd) == IF fd[1].kind = "write" THEN [fd EXCEPT ![1].pos = @ + 1] ELSE fd

Becomes(p, r) == proc' = [proc EXCEPT ![p] = r]

\* Process p, which goes on as r, writes a unit: it waits for room in a pipe, and is
\* killed (SIGPIPE) if nobody can read it.
Write(p, u, r) ==
  LET out == proc[p].fd[1] IN
  \/ /\ out.kind # "w"
     /\ Becomes(p, [r EXCEPT !.fd = Moved(@)])
     /\ files' = Written(out, u)
     /\ UNCHANGED pipes
  \/ /\ out.kind = "w" /\ Holders("r", out.of) # {}
     /\ Len(pipes[out.of]) < PipeSize
     /\ Becomes(p, r)
     /\ pipes' = [pipes EXCEPT ![out.of] = Append(@, u)]
     /\ UNCHANGED files
  \/ /\ out.kind = "w" /\ Holders("r", out.of) = {}
     /\ Exit(p)
     /\ UNCHANGED <<pipes, files>>

----------------------------------------------------------------------------
(* The shell.                                                              *)

Init ==
  /\ proc = [p \in Pid |-> IF p = shell
               THEN [NoProc EXCEPT !.st = "prompt", !.fd = Terminal] ELSE NoProc]
  /\ pipes = [q \in Pipe |-> <<>>]
  /\ files = Files
  /\ lines = 0 /\ typed = 0

Now(p, st) == proc' = [proc EXCEPT ![p].st = st]

Reads(line) ==
  /\ proc[shell].st = "prompt"
  /\ lines < MaxLines /\ lines' = lines + 1
  /\ UNCHANGED <<pipes, files, typed>>

\* A line of blanks has no first argument to compare.
Crash(line) == Reads(line) /\ line = <<>> /\ Now(shell, "ended")

Cd(line) == Reads(line) /\ line # <<>> /\ line[1] = "cd" /\ UNCHANGED proc

Quit(line) == Reads(line) /\ line # <<>> /\ line[1] = "exit" /\ Now(shell, "ended")

Runs(line) == Reads(line) /\ line # <<>> /\ line[1] \notin {"cd", "exit"}

Child(line, fd) ==
  [NoProc EXCEPT !.st = "parse", !.up = shell, !.fd = fd, !.line = line, !.n = 2,
                 !.prog = line[1]]

Fork(line) ==
  /\ Runs(line)
  /\ \E c \in FreePids :
       proc' = [proc EXCEPT ![shell].st = "wait", ![c] = Child(line, proc[shell].fd)]

(* Mutant: the result of fork is not looked at. *)
ForkUntested(line) == Runs(line) /\ Now(shell, "wait")

\* fork fails, for want of processes or of memory.
ForkFails(line) == Runs(line) /\ Now(shell, "ended")

\* fgets finds the end of its input and leaves the line empty: main asks again, and
\* again.
EndOfInput ==
  /\ proc[shell].st = "prompt"
  /\ Now(shell, "eof")
  /\ UNCHANGED <<pipes, files, lines, typed>>

Wait ==
  /\ proc[shell].st = "wait"
  /\ \E c \in Pid :
       /\ proc[c].st = "zombie" /\ proc[c].up = shell
       /\ proc' = [proc EXCEPT ![shell].st = "prompt", ![c] = NoProc]
  /\ UNCHANGED <<pipes, files, lines, typed>>

----------------------------------------------------------------------------
(* The child: parseArgs, bepipin, execve.                                  *)

Next1(p) == [proc[p] EXCEPT !.n = @ + 1]

Token(p) == proc[p].line[proc[p].n]

\* The file that the token behind this one names, if it is one of these.
Named(p, names) ==
  {f \in names : proc[p].n < Len(proc[p].line) /\ f = proc[p].line[proc[p].n + 1]}

Parsing(p) ==
  /\ proc[p].st = "parse" /\ proc[p].n <= Len(proc[p].line)
  /\ UNCHANGED <<pipes, lines, typed>>

Skip(p) ==
  /\ Parsing(p) /\ Token(p) \notin {"<", ">", ">>", "|"}
  /\ Becomes(p, Next1(p))
  /\ UNCHANGED files

\* It says what it has met, and goes on with these descriptors.
Says(p, fd) ==
  /\ Becomes(p, [Next1(p) EXCEPT !.fd = Moved(fd)])
  /\ files' = Written(proc[p].fd[1], "msg")

\* The descriptor that open returned is not closed.
RedirectIn(p) ==
  /\ Parsing(p) /\ Token(p) = "<"
  /\ LET fd == proc[p].fd IN
     \/ Named(p, DOMAIN files) = {} /\ Says(p, fd)
     \/ HasRoom(fd) /\ \E f \in Named(p, DOMAIN files) :
          Says(p, [fd EXCEPT ![Lowest(fd)] = Open("read", f), ![0] = Open("read", f)])

\* A file that was there keeps what is not written over: there is no O_TRUNC.
RedirectOut(p) ==
  /\ Parsing(p) /\ Token(p) \in {">", ">>"}
  /\ \/ Named(p, File) = {} /\ Says(p, proc[p].fd)
     \/ \E f \in Named(p, File) :
          LET kind == IF Token(p) = ">" THEN "write" ELSE "append"
              said == Written(proc[p].fd[1], "msg")
          IN  /\ Becomes(p, [Next1(p) EXCEPT !.fd[1] = Open(kind, f)])
              /\ files' = [g \in DOMAIN files \cup {f} |->
                             IF g \in DOMAIN files THEN said[g] ELSE <<>>]

Bar(p) == Parsing(p) /\ Token(p) = "|" /\ Says(p, proc[p].fd)

Parsed(p) ==
  /\ proc[p].st = "parse" /\ proc[p].n > Len(proc[p].line)
  /\ UNCHANGED <<files, lines, typed>>

Bars(line) == {i \in 2..Len(line) : line[i] = "|"}

NoPipe(p) == Parsed(p) /\ Bars(proc[p].line) = {} /\ Now(p, "say") /\ UNCHANGED pipes

\* tail[0], which a last bar with nothing behind it leaves as it was.
TailName(line) ==
  LET bars == {i \in Bars(line) : i < Len(line)}
  IN  IF bars = {} THEN "" ELSE line[Max(bars) + 1]

Op(op, x) == [op |-> op, x |-> x]

(* Mutant: descriptor 1 is not free when the write end is duplicated. *)
WriterTodoTaken(pd0, pd1) == <<Op("close", pd0), Op("dup", pd1), Op("close", pd1)>>

WriterTodo(pd0, pd1) == <<Op("close", pd0), Op("close", 1), Op("dup", pd1), Op("close", pd1)>>

(* Mutant: the write end that the reader has from fork stays open. *)
ReaderTodoOpen(pd0, pd1) == <<Op("close", 0), Op("dup", pd0), Op("close", pd0)>>

ReaderTodo(pd0, pd1) == <<Op("close", pd1), Op("close", 0), Op("dup", pd0), Op("close", pd0)>>

\* pipe and fork.  Where fork fails, this process goes on as the writer.
Bepipin(p) ==
  /\ Parsed(p) /\ Bars(proc[p].line) # {}
  /\ LET pd0 == Lowest(proc[p].fd)
         q   == CHOOSE q \in FreePipes : TRUE
         fd0 == [proc[p].fd EXCEPT ![pd0] = Open("r", q)]
         pd1 == Lowest(fd0)
         both   == [proc[p] EXCEPT !.fd = [fd0 EXCEPT ![pd1] = Open("w", q)], !.st = "ops"]
         writer == [both EXCEPT !.todo = WriterTodo(pd0, pd1)]
         reader == [both EXCEPT !.todo = ReaderTodo(pd0, pd1), !.up = p,
                                !.prog = TailName(proc[p].line)]
     IN  /\ FreePipes # {} /\ HasRoom(proc[p].fd) /\ HasRoom(fd0)
         /\ pipes' = [pipes EXCEPT ![q] = <<>>]
         /\ \/ Becomes(p, writer)
            \/ \E c \in FreePids : proc' = [proc EXCEPT ![p] = writer, ![c] = reader]

Does(fd, op) ==
  IF op.op = "close" THEN [fd EXCEPT ![op.x] = Closed]
  ELSE [fd EXCEPT ![Lowest(fd)] = fd[op.x]]

Descriptor(p) ==
  /\ proc[p].st = "ops"
  /\ Becomes(p, [proc[p] EXCEPT !.fd = Does(@, Head(proc[p].todo)), !.todo = Tail(@),
                                !.st = IF Len(proc[p].todo) = 1 THEN "say" ELSE "ops"])
  /\ UNCHANGED <<pipes, files, lines, typed>>

\* getCommand tells what it tries, on descriptor 1, and compares it with args[0],
\* which may be missing.
Tries(p) ==
  /\ proc[p].st = "say"
  /\ IF proc[p].prog = "" THEN Exit(p) /\ UNCHANGED <<pipes, files>>
                          ELSE Write(p, "msg", [proc[p] EXCEPT !.st = "exec"])
  /\ UNCHANGED <<lines, typed>>

execve(p) ==
  /\ proc[p].st = "exec"
  /\ IF proc[p].prog \in DOMAIN Maker
     THEN Becomes(p, [proc[p] EXCEPT !.st = "run", !.left = Maker[proc[p].prog]])
     ELSE IF proc[p].prog \in Filters THEN Now(p, "run") ELSE Exit(p)
  /\ UNCHANGED <<pipes, files, lines, typed>>

----------------------------------------------------------------------------
(* The programs.                                                           *)

Filter(p) == proc[p].st = "run" /\ proc[p].prog \in Filters

Make(p) ==
  /\ proc[p].st = "run" /\ proc[p].left > 0
  /\ Write(p, "x", [proc[p] EXCEPT !.left = @ - 1])
  /\ UNCHANGED <<lines, typed>>

Ends(p) ==
  /\ proc[p].st = "run" /\ proc[p].prog \in DOMAIN Maker /\ proc[p].left = 0
  /\ Exit(p)
  /\ UNCHANGED <<pipes, files, lines, typed>>

Copy(p) ==
  /\ Filter(p) /\ proc[p].held # ""
  /\ Write(p, proc[p].held, [proc[p] EXCEPT !.held = ""])
  /\ UNCHANGED <<lines, typed>>

Reading(p, kind) == Filter(p) /\ proc[p].held = "" /\ proc[p].fd[0].kind = kind

Holding(p, u) == [proc[p] EXCEPT !.held = u]

ReadTyped(p) ==
  /\ Reading(p, "tty") /\ typed < MaxTyped
  /\ Becomes(p, Holding(p, "typed"))
  /\ typed' = typed + 1
  /\ UNCHANGED <<pipes, files, lines>>

ReadFile(p) ==
  /\ Reading(p, "read")
  /\ LET from == proc[p].fd[0] IN
     /\ from.pos < Len(files[from.of])
     /\ Becomes(p, [Holding(p, files[from.of][from.pos + 1]) EXCEPT !.fd[0].pos = @ + 1])
  /\ UNCHANGED <<pipes, files, lines, typed>>

ReadPipe(p) ==
  /\ Reading(p, "r")
  /\ LET q == proc[p].fd[0].of IN
     /\ pipes[q] # <<>>
     /\ Becomes(p, Holding(p, Head(pipes[q])))
     /\ pipes' = [pipes EXCEPT ![q] = Tail(@)]
  /\ UNCHANGED <<files, lines, typed>>

\* The user ends the input at will; a pipe ends when nobody has its write end.
ReadEnd(p) ==
  /\ LET from == proc[p].fd[0] IN
     \/ Reading(p, "tty")
     \/ Reading(p, "read") /\ from.pos = Len(files[from.of])
     \/ Reading(p, "r") /\ pipes[from.of] = <<>> /\ Holders("w", from.of) = {}
  /\ Exit(p)
  /\ UNCHANGED <<pipes, files, lines, typed>>

----------------------------------------------------------------------------
Types(line) == Crash(line) \/ Cd(line) \/ Quit(line) \/ Fork(line) \/ ForkFails(line)

Parse(p) == Skip(p) \/ RedirectIn(p) \/ RedirectOut(p) \/ Bar(p)

Program(p) == \/ Make(p) \/ Ends(p) \/ Copy(p)
              \/ ReadTyped(p) \/ ReadFile(p) \/ ReadPipe(p) \/ ReadEnd(p)

Step(p) == \/ Parse(p) \/ NoPipe(p) \/ Bepipin(p) \/ Descriptor(p)
           \/ Tries(p) \/ execve(p) \/ Program(p)

Next == (\E line \in Line : Types(line)) \/ EndOfInput \/ Wait \/ (\E p \in Pid : Step(p))

\* Every process runs on, and wait returns.  Users need not type lines.
Spec == Init /\ [][Next]_vars /\ WF_vars(Wait) /\ \A p \in Pid : WF_vars(Step(p))

----------------------------------------------------------------------------
(* Properties.                                                             *)

Object == [kind : {"closed", "tty", "r", "w", "read", "write", "append"},
           of : Pipe \cup File \cup {""}, pos : Nat]

Process == [st : {"none", "prompt", "wait", "ended", "eof", "parse", "ops", "say", "exec",
                  "run", "zombie"},
            up : Pid \cup {Orphan}, fd : [Fd -> Object], line : Line \cup {<<>>}, n : Nat,
            todo : Seq([op : {"close", "dup"}, x : Fd]), prog : STRING \cup {""}, left : Nat,
            held : Unit \cup {""}]

Children == {p \in Pid \ {shell} : proc[p].st # "none" /\ proc[p].up = shell}

\* The shell waits exactly while it has a child, and never has two: wait, which takes
\* the first child that dies, takes the one sysm has just forked.
TypeOK ==
  /\ proc \in [Pid -> Process]
  /\ pipes \in [Pipe -> Seq(Unit)] /\ \A q \in Pipe : Len(pipes[q]) <= PipeSize
  /\ DOMAIN files \subseteq File /\ \A f \in DOMAIN files : files[f] \in Seq(Unit)
  /\ lines \in 0..MaxLines /\ typed \in 0..MaxTyped
  /\ Cardinality(Children) = (IF proc[shell].st = "wait" THEN 1 ELSE 0)
  /\ proc[shell].st \in {"prompt", "wait", "ended", "eof"}

\* The last of the files that the line has behind one of these tokens.
LastFile(line, tokens, names) ==
  LET at == {i \in 2..Len(line) - 1 : line[i] \in tokens /\ line[i + 1] \in names}
  IN  IF at = {} THEN "" ELSE line[Max(at) + 1]

\* A process that has become the program it was forked for reads and writes where
\* its line says, whatever the descriptors were numbered on the way: in front of the
\* bar from the last file behind < and into the pipe, behind it from that pipe and
\* into the last file behind > or >>.  It has no other end of any pipe, and nobody
\* else has its end.
Connected(p) ==
  LET fd     == proc[p].fd
      line   == proc[p].line
      behind == fd[0].kind = "r"
      piped  == fd[1].kind = "w"
  IN  /\ (behind \/ piped) <=> Bars(line) # {}
      /\ ~(behind /\ piped)
      /\ \A x \in Fd : /\ fd[x].kind = "r" => x = 0 /\ Holders("r", fd[x].of) \subseteq
                            {p} \cup {c \in Pid : proc[c].st = "ops"}
                       /\ fd[x].kind = "w" => x = 1 /\ Holders("w", fd[x].of) \subseteq
                            {p} \cup {c \in Pid : proc[c].st = "ops"}
      /\ behind => proc[p].prog = TailName(line)
      /\ ~behind =>
           /\ proc[p].prog = line[1]
           /\ \E there \in SUBSET File :   \* when they were opened
                /\ DOMAIN Files \subseteq there /\ there \subseteq DOMAIN files
                /\ fd[0].of = LastFile(line, {"<"}, there)
      /\ ~piped => fd[1].of = LastFile(line, {">", ">>"}, File)

\* So it is with every such process, and the shell's descriptors are those it was
\* started with.
Wired ==
  /\ proc[shell].fd = Terminal
  /\ \A p \in Pid : proc[p].st \in {"say", "exec", "run"} => Connected(p)

\* Every process that was forked ends, on either side of a pipe and whichever of the
\* two is killed or fails first, and so the shell prompts again.
ProcessesEnd == \A p \in Pid \ {shell} : proc[p].st # "none" ~> proc[p].st = "none"
=============================================================================

---------------------------- MODULE FileTransfer ----------------------------
(***************************************************************************)
(* lab8: the clients (client.c) and the one-at-a-time server (server.c),   *)
(* and between them a pair of byte streams per connection.                 *)
(*                                                                         *)
(* A stream is a sequence of units, and MAX of them fill a buffer.  Every  *)
(* control message is a write of MAX bytes, whatever its text: one unit of *)
(* text and MAX-1 of padding, which is what lies behind the text in memory.*)
(* File data is written in chunks of at most MAX.  A read of the server    *)
(* that begins out of step may find any command in what it gets (Scraps).  *)
(* ASSUMED of the sockets: a write arrives whole and never blocks, and a   *)
(* read takes what is there, up to MAX, but at most MaxCuts reads get less *)
(* than that.                                                              *)
(***************************************************************************)
EXTENDS Integers, Sequences, SequencesExt, Functions, FiniteSets

CONSTANTS
  MAX,           \* the buffer size, in units
  Clients,       \* client processes, each with one connection
  Nobody,        \* the server serves no client
  Commands,      \* the command lines each user types: <<operation, argument>>
  Scraps,        \* the command lines that file data, or a piece of a message, may spell
  ServerFiles, ClientFiles,   \* the sizes of the files at the start
  ClientDirs,    \* the directories of each client
  JunkSizes,     \* values of an int that nobody set, or that data spells
  MaxCmds,       \* BOUND: command lines of each client
  MaxCuts,       \* BOUND: reads that return less than there is
  MaxKills       \* BOUND: clients killed

ASSUME BufferAssumption == MAX \in Nat \ {0}
ASSUME ClientAssumption == Nobody \notin Clients
ASSUME JunkAssumption == JunkSizes \subseteq Int
ASSUME CommandAssumption ==
  \A k \in Clients : \A cmd \in Commands[k] : cmd \in STRING \X STRING /\ cmd[2] # "top"
ASSUME ScrapAssumption ==
  \A cmd \in Scraps : /\ cmd \in STRING \X STRING /\ cmd[2] # "top"
                       /\ cmd[1] \in {"get", "put", "ls", "pwd", "cd", "mkdir", "rmdir", "rm"}
ASSUME FileAssumption ==
  /\ "top" \in DOMAIN ServerFiles
  /\ DOMAIN ServerFiles \subseteq STRING /\ IsFiniteSet(DOMAIN ServerFiles)
  /\ \A dir \in {ClientFiles} \cup {ServerFiles[d] : d \in DOMAIN ServerFiles} :
       /\ DOMAIN dir \subseteq STRING /\ IsFiniteSet(DOMAIN dir)
       /\ \A f \in DOMAIN dir : dir[f] \in Nat

VARIABLES
  c2s, s2c,  \* the streams of each connection
  link,      \* what each end of a connection knows about the other one
  backlog,   \* connections that the server has not accepted
  cl,        \* the clients
  sv,        \* the server
  cfile,     \* the files of each client
  sfile,     \* the files of the server, by directory
  cwd,       \* the server's working directory
  asked,     \* history: the commands sent by each client
  done,      \* history: the commands the server executed for each client
  cuts, kills

vars == <<c2s, s2c, link, backlog, cl, sv, cfile, sfile, cwd, asked, done, cuts, kills>>
files == <<cfile, sfile, cwd>>
history == <<asked, done, cuts, kills>>

-----------------------------------------------------------------------------
(* What is written *)

Pad == <<"pad">>
Msg(unit) == <<unit>> \o [i \in 1..MAX - 1 |-> Pad]
Text(cmd) == <<"cmd", cmd>>

(* Mutant: only whole buffers are sent. *)
ChunksFull(data) == [i \in 1..Len(data) \div MAX |-> SubSeq(data, (i - 1) * MAX + 1, i * MAX)]

(* while (n = read(fd, buf, MAX)) write(sock, buf, n); *)
Chunks(data) ==
  [i \in 1..(Len(data) + MAX - 1) \div MAX |->
    SubSeq(data, (i - 1) * MAX + 1, IF i * MAX < Len(data) THEN i * MAX ELSE Len(data))]

(* The size, "\n" for 0, and the data. *)
Sized(data) == <<Msg(IF data = <<>> THEN <<"nl">> ELSE <<"size", Len(data)>>)>> \o Chunks(data)

(* The size of a directory, all of whose reads return -1. *)
DirSize == 2 * MAX

Content(dir, f) == IF f \in DOMAIN dir THEN dir[f] ELSE <<>>

With(dir, f, data) == [g \in DOMAIN dir \cup {f} |-> IF g = f THEN data ELSE dir[g]]

(* What sscanf("%d") leaves in an int without a value. *)
SizesIn(unit) == IF unit[1] = "size" THEN {unit[2]} ELSE JunkSizes

-----------------------------------------------------------------------------
(* Sockets.  Towards its peer an end is "up"; "fin" after the peer closed  *)
(* with everything read; "rst" after it closed with bytes unread; "pipe"   *)
(* when the next write raises SIGPIPE.                                     *)

AfterWrite == [up |-> {"up"}, fin |-> {"fin", "pipe"}, rst |-> {"pipe"}, pipe |-> {}]

(* A read at the end of the stream returns 0, or -1 once after a reset. *)
AfterEnd(state) == IF state = "rst" THEN "pipe" ELSE state

Closed(unread) == IF unread = <<>> THEN "fin" ELSE "rst"

(* The lengths that a read of a stream may return. *)
Avail(stream) == IF Len(stream) < MAX THEN Len(stream) ELSE MAX
Lengths(stream) == {n \in 1..Avail(stream) : n = Avail(stream) \/ cuts < MaxCuts}

ReadStream(stream, n) ==
  /\ n \in Lengths(stream)
  /\ cuts' = IF n < Avail(stream) THEN cuts + 1 ELSE cuts

Rest(stream, n) == SubSeq(stream, n + 1, Len(stream))

-----------------------------------------------------------------------------
(* The server *)

Entries(d) == DOMAIN sfile[d] \cup (IF d = "top" THEN DOMAIN sfile \ {"top"} ELSE {})

(* Mutant: no "." for an empty pathname. *)
DirNoDefault(arg) ==
  IF arg = ".." THEN "top"
  ELSE IF cwd = "top" /\ arg \in DOMAIN sfile THEN arg
  ELSE "none"

(* A directory as the server finds it from cwd; "none" when it does not. *)
Dir(arg) ==
  IF arg = "" THEN cwd
  ELSE IF arg = ".." THEN "top"
  ELSE IF cwd = "top" /\ arg \in DOMAIN sfile THEN arg
  ELSE "none"

ServerDies ==
  /\ sv' = [sv EXCEPT !.pc = "dead", !.out = <<>>]
  /\ link' = [k \in Clients |->
       IF cl[k].pc \in {"off", "gone"} THEN link[k]
       ELSE [link[k] EXCEPT !.c = IF k \in ToSet(backlog) THEN "rst" ELSE Closed(c2s[k])]]
  /\ c2s' = [k \in Clients |-> <<>>]
  /\ backlog' = <<>>

Accept ==
  /\ sv.pc = "accept"
  /\ backlog # <<>>
  /\ sv' = [sv EXCEPT !.pc = "read", !.client = Head(backlog)]
  /\ backlog' = Tail(backlog)
  /\ UNCHANGED <<c2s, s2c, link, cl, files, history>>

(* The next write of an answer, and then the next state. *)
ServerWrite ==
  /\ sv.pc = "write"
  /\ \E state \in AfterWrite[link[sv.client].s] :
       /\ link' = [link EXCEPT ![sv.client].s = state]
       /\ s2c' = IF link[sv.client].s # "up" THEN s2c
                 ELSE [s2c EXCEPT ![sv.client] = @ \o Head(sv.out)]
       /\ sv' = [sv EXCEPT !.out = Tail(@), !.pc = IF Len(sv.out) = 1 THEN sv.then ELSE "write"]
  /\ UNCHANGED <<c2s, backlog, cl, files, history>>

(* exit(1) of ls_file, readdir(NULL), or SIGPIPE. *)
ServerFails ==
  /\ \/ sv.pc = "fail"
     \/ sv.pc = "write" /\ link[sv.client].s = "pipe"
  /\ ServerDies
  /\ UNCHANGED <<s2c, cl, files, history>>

Answer(line, writes, then) ==
  sv' = [sv EXCEPT !.line = line, !.out = writes, !.then = then,
                   !.pc = IF writes = <<>> THEN then ELSE "write"]

(* server_get: no answer for a file that is missing or empty.  A directory *)
(* has a size, but every read of it returns -1, and the loop never ends.   *)
server_get(line, f) ==
  LET data == Content(sfile[cwd], f)
  IN  IF f \in Entries(cwd) \ DOMAIN sfile[cwd]
      THEN Answer(line, <<Msg(<<"size", DirSize>>)>>, "spin")
      ELSE Answer(line, IF data = <<>> THEN <<>> ELSE Sized(data), "read")

(* ls_dir: a line for each entry, ".", ".." and "$".  ls_file looks every  *)
(* name up in cwd, not in the directory listed, and exits if it is not     *)
(* there; opendir of no directory ends in readdir(NULL).                   *)
ls_dir(line, arg) ==
  LET d == Dir(arg)
      lines(n) == [i \in 1..n |-> Msg(<<"entry">>)]
      found == IF d = "none" THEN {} ELSE {".", ".."} \cup (Entries(d) \cap Entries(cwd))
  IN  IF d = "none" THEN Answer(line, <<>>, "fail")
      ELSE IF Entries(d) \subseteq found
      THEN Answer(line, lines(Cardinality(found)) \o <<Msg(<<"$">>)>>, "read")
      ELSE \E n \in 0..Cardinality(found) : Answer(line, lines(n), "fail")

(* cd, mkdir, rmdir and rm: one call each, and no answer. *)
Silent(line, op, arg) ==
  /\ Answer(line, <<>>, "read")
  /\ cwd' = IF op = "cd" /\ Dir(arg) # "none" /\ arg # "" THEN Dir(arg) ELSE cwd
  /\ sfile' = CASE op = "mkdir" /\ cwd = "top" /\ arg \notin Entries("top")
                     -> With(sfile, arg, <<>>)
                [] op = "rmdir" /\ cwd = "top" /\ arg \in DOMAIN sfile /\ Entries(arg) = {}
                     -> Restrict(sfile, DOMAIN sfile \ {arg})
                [] op = "rm" -> [sfile EXCEPT ![cwd] = Restrict(@, DOMAIN @ \ {arg})]
                [] OTHER -> sfile

(* What sscanf finds in line[] after a read of n units, the first of them  *)
(* unit: the command, or none (Pad) behind a number or an empty line.  A   *)
(* read that ends inside a line leaves what line[] held behind it, and one *)
(* of anything else may spell a command.                                   *)
Lines(unit, n) ==
  IF unit[1] = "cmd" /\ n = MAX THEN {unit}
  ELSE IF unit[1] = "size" \/ (unit[1] = "nl" /\ n = MAX) THEN {Pad}
  ELSE {Pad} \cup {Text(cmd) : cmd \in Scraps} \cup {u \in {unit} : u[1] = "cmd"}

(* The body of the processing loop for the line unit. *)
Execute(unit) ==
  IF unit[1] # "cmd"
  THEN Answer(unit, <<>>, "read") /\ UNCHANGED <<files, asked, done>>
  ELSE LET op == unit[2][1]
           arg == unit[2][2]
       IN  /\ done' = [done EXCEPT ![sv.client] = Append(@, unit[2])]
           /\ \/ op = "get" /\ server_get(unit, arg) /\ UNCHANGED <<sfile, cwd>>
              \/ op = "put" /\ Answer(unit, <<>>, "put_size") /\ UNCHANGED <<sfile, cwd>>
              \/ op = "ls" /\ ls_dir(unit, arg) /\ UNCHANGED <<sfile, cwd>>
              \/ op = "pwd" /\ Answer(unit, <<Msg(<<"dir", cwd>>)>>, "read")
                            /\ UNCHANGED <<sfile, cwd>>
              \/ op \in {"cd", "mkdir", "rmdir", "rm"} /\ Silent(unit, op, arg)
           /\ UNCHANGED <<cfile, asked>>

(* strcat(line, " ECHO") after every line: the argument of one without. *)
Stale(unit) ==
  IF unit[1] = "cmd" /\ unit[2][2] = "" THEN Text(<<unit[2][1], "ECHO">>) ELSE unit

(* A read of the server: n units of its client's stream. *)
ServerReads(n) ==
  /\ ReadStream(c2s[sv.client], n)
  /\ c2s' = [c2s EXCEPT ![sv.client] = Rest(@, n)]
  /\ UNCHANGED <<s2c, link, backlog, cl, kills>>

(* A read of the server at the end of the stream. *)
ServerEnd ==
  /\ sv.client # Nobody
  /\ c2s[sv.client] = <<>>
  /\ link[sv.client].s # "up"
  /\ link' = [link EXCEPT ![sv.client].s = AfterEnd(@)]
  /\ UNCHANGED <<c2s, s2c, backlog, cl, cuts, kills>>

ServerReadsLine ==
  /\ sv.pc = "read"
  /\ \E n \in 1..MAX : /\ ServerReads(n)
                      /\ \E line \in Lines(Head(c2s[sv.client]), n) : Execute(line)

(* "server: client died, server loops"; after a read of -1 the line before *)
(* is executed again.                                                      *)
ServerLosesClient ==
  /\ sv.pc = "read"
  /\ ServerEnd
  /\ IF link[sv.client].s = "rst" THEN Execute(Stale(sv.line))
     ELSE /\ sv' = [sv EXCEPT !.pc = "accept", !.client = Nobody]
          /\ UNCHANGED <<files, asked, done>>

(* Mutant: the size is not tested. *)
PutSizeUnchecked(sizes) ==
  /\ \E size \in sizes : sv' = [sv EXCEPT !.left = size, !.pc = "put_data"]
  /\ UNCHANGED <<files, asked, done>>

(* putServer.  The open with O_CREAT | O_TMPFILE always fails, so that     *)
(* what it reads is written nowhere.                                       *)
PutSize(sizes) ==
  /\ \E size \in sizes :
       sv' = [sv EXCEPT !.left = size, !.pc = IF size <= 0 THEN "read" ELSE "put_data"]
  /\ UNCHANGED <<files, asked, done>>

ServerReadsSize ==
  /\ sv.pc = "put_size"
  /\ \/ /\ \E n \in 1..MAX : ServerReads(n)
        /\ PutSize(SizesIn(Head(c2s[sv.client])))
     \/ ServerEnd /\ PutSize(JunkSizes)

(* Mutant: while (count <= size). *)
PutCountOver(n) ==
  /\ sv' = IF sv.left < n THEN [sv EXCEPT !.left = 0, !.pc = "read"]
           ELSE [sv EXCEPT !.left = @ - n]
  /\ UNCHANGED <<files, asked, done>>

PutCount(n) ==
  /\ sv' = IF sv.left <= n THEN [sv EXCEPT !.left = 0, !.pc = "read"]
           ELSE [sv EXCEPT !.left = @ - n]
  /\ UNCHANGED <<files, asked, done>>

(* A read of 0 changes nothing: the loop goes round for ever. *)
ServerReadsData ==
  /\ sv.pc = "put_data"
  /\ \/ \E n \in 1..MAX : ServerReads(n) /\ PutCount(n)
     \/ ServerEnd /\ link[sv.client].s = "rst" /\ PutCount(-1)

Server ==
  \/ Accept \/ ServerWrite \/ ServerFails \/ ServerReadsLine
  \/ ServerLosesClient \/ ServerReadsSize \/ ServerReadsData

-----------------------------------------------------------------------------
(* A client *)

Idle == [pc |-> "off", out |-> <<>>, then |-> "prompt", path |-> "", left |-> 0,
         off |-> 0, odd |-> FALSE]

(* Back at the prompt; the end of the loop clears command and pathname. *)
Prompt(c) == [Idle EXCEPT !.pc = "prompt", !.odd = c.odd]

(* The client in state pc, where the next line is asked for at "prompt". *)
Goes(c, pc) == IF pc = "prompt" THEN Prompt(c) ELSE [c EXCEPT !.pc = pc]

Connect(k) ==
  /\ cl[k].pc = "off"
  /\ sv.pc # "dead"
  /\ cl' = [cl EXCEPT ![k].pc = "prompt"]
  /\ backlog' = Append(backlog, k)
  /\ UNCHANGED <<c2s, s2c, link, sv, files, history>>

(* The process ends: its socket is closed. *)
ClientEnds(k) ==
  /\ cl' = [cl EXCEPT ![k] = [Idle EXCEPT !.pc = "gone"]]
  /\ link' = [link EXCEPT ![k].s = IF sv.pc = "dead" THEN @ ELSE Closed(s2c[k])]
  /\ s2c' = [s2c EXCEPT ![k] = <<>>]
  /\ UNCHANGED <<c2s, backlog, sv, files, asked, done, cuts>>

Exit(k) ==
  /\ cl[k].pc = "prompt"
  /\ ClientEnds(k)
  /\ UNCHANGED kills

KillClient(k) ==
  /\ kills < MaxKills
  /\ cl[k].pc \notin {"off", "gone"}
  /\ ClientEnds(k)
  /\ kills' = kills + 1

(* A put whose last chunk is short, or that sends "\n" for its size, or of *)
(* a directory.                                                            *)
IsOdd(k, cmd) ==
  /\ cmd[1] = "put"
  /\ \/ cmd[2] \in ClientDirs
     \/ LET size == Len(Content(cfile[k], cmd[2])) IN size = 0 \/ size % MAX # 0

(* client_put: a size for a directory too, but no data. *)
client_put(k, f) == IF f \in ClientDirs THEN <<Msg(<<"size", DirSize>>)>>
                    ELSE Sized(Content(cfile[k], f))

(* Mutant: the client of ls reads once, as that of pwd does. *)
WaitsOnce == [get |-> "get_size", ls |-> "pwd", pwd |-> "pwd", put |-> "prompt",
              cd |-> "prompt", mkdir |-> "prompt", rmdir |-> "prompt", rm |-> "prompt"]

(* What the client does when a line, and the file of a put, is sent. *)
Waits == [get |-> "get_size", ls |-> "ls", pwd |-> "pwd", put |-> "prompt",
          cd |-> "prompt", mkdir |-> "prompt", rmdir |-> "prompt", rm |-> "prompt"]

(* Every read of a directory returns -1, and the loop of its put never     *)
(* ends.                                                                   *)
Afterwards(cmd) ==
  IF cmd[1] = "put" /\ cmd[2] \in ClientDirs THEN "spin" ELSE Waits[cmd[1]]

(* A line that goes to the server, and what the client does for it. *)
Ask(k, cmd) ==
  /\ cl[k].pc = "prompt"
  /\ cmd[1] \in DOMAIN Waits
  /\ Len(asked[k]) < MaxCmds[k]
  /\ cl' = [cl EXCEPT ![k] =
       [@ EXCEPT !.pc = "write", !.path = cmd[2],
                 !.then = Afterwards(cmd),
                 !.out = <<Msg(Text(cmd))>> \o
                         (IF cmd[1] = "put" THEN client_put(k, cmd[2]) ELSE <<>>),
                 !.odd = cl[k].odd \/ IsOdd(k, cmd)]]
  /\ asked' = [asked EXCEPT ![k] = Append(@, cmd)]
  /\ UNCHANGED <<c2s, s2c, link, backlog, sv, files, done, cuts, kills>>

Sent(c) == Goes([c EXCEPT !.out = Tail(@)], IF Len(c.out) = 1 THEN c.then ELSE "write")

ClientWrite(k) ==
  /\ cl[k].pc = "write"
  /\ \E state \in AfterWrite[link[k].c] :
       /\ link' = [link EXCEPT ![k].c = state]
       /\ c2s' = IF link[k].c # "up" THEN c2s
                 ELSE [c2s EXCEPT ![k] = @ \o Head(cl[k].out)]
       /\ cl' = [cl EXCEPT ![k] = Sent(@)]
  /\ UNCHANGED <<s2c, backlog, sv, files, history>>

ClientPipe(k) ==
  /\ cl[k].pc = "write"
  /\ link[k].c = "pipe"
  /\ ClientEnds(k)
  /\ UNCHANGED kills

ClientReads(k, n) ==
  /\ ReadStream(s2c[k], n)
  /\ s2c' = [s2c EXCEPT ![k] = Rest(@, n)]
  /\ UNCHANGED <<c2s, link, backlog, sv, sfile, cwd, asked, done, kills>>

ClientEnd(k) ==
  /\ s2c[k] = <<>>
  /\ link[k].c # "up"
  /\ link' = [link EXCEPT ![k].c = AfterEnd(@)]
  /\ UNCHANGED <<c2s, s2c, backlog, sv, sfile, cwd, history>>

(* The loop of ls reads until "$" or the end; pwd reads once. *)
ReadAnswer(k) ==
  /\ cl[k].pc \in {"ls", "pwd"}
  /\ \/ /\ \E n \in 1..MAX : ClientReads(k, n)
        /\ IF cl[k].pc = "pwd" \/ Head(s2c[k]) = <<"$">>
           THEN cl' = [cl EXCEPT ![k] = Prompt(@)] ELSE UNCHANGED cl
     \/ /\ ClientEnd(k)
        /\ cl' = [cl EXCEPT ![k] = Prompt(@)]
  /\ UNCHANGED cfile

(* getClient: the size, then open with O_CREAT but without O_TRUNC, which  *)
(* fails for a directory; the data then goes nowhere.                      *)
GetSize(k, sizes) ==
  \E size \in sizes :
    /\ cl' = [cl EXCEPT ![k] =
         Goes([@ EXCEPT !.left = size], IF size <= 0 THEN "prompt" ELSE "get_data")]
    /\ cfile' = IF size <= 0 \/ cl[k].path \in ClientDirs THEN cfile
                ELSE [cfile EXCEPT ![k] = With(@, cl[k].path, Content(@, cl[k].path))]

ReadSize(k) ==
  /\ cl[k].pc = "get_size"
  /\ \/ /\ \E n \in 1..MAX : ClientReads(k, n)
        /\ GetSize(k, SizesIn(Head(s2c[k])))
     \/ ClientEnd(k) /\ GetSize(k, JunkSizes)

(* Mutant: every chunk is written at the start of the file. *)
OverwrittenStart(old, off, data) == data \o SubSeq(old, Len(data) + 1, Len(old))

(* write(fd, buf, n) at the file's offset: what is behind stays. *)
Overwritten(old, off, data) ==
  SubSeq(old, 1, off) \o data \o SubSeq(old, off + Len(data) + 1, Len(old))

Received(c, n) ==
  Goes([c EXCEPT !.left = @ - n, !.off = @ + n], IF c.left <= n THEN "prompt" ELSE "get_data")

ReadData(k) ==
  /\ cl[k].pc = "get_data"
  /\ \/ \E n \in 1..MAX :
          /\ ClientReads(k, n)
          /\ LET f == cl[k].path
             IN  cfile' = IF f \in ClientDirs THEN cfile
                          ELSE [cfile EXCEPT ![k][f] =
                                  Overwritten(@, cl[k].off, SubSeq(s2c[k], 1, n))]
          /\ cl' = [cl EXCEPT ![k] = Received(@, n)]
     \/ /\ ClientEnd(k)
        /\ link[k].c = "rst"
        /\ cl' = [cl EXCEPT ![k].left = @ + 1]
        /\ UNCHANGED cfile

User(k) ==
  \/ Connect(k) \/ Exit(k) \/ KillClient(k)
  \/ \E cmd \in Commands[k] : Ask(k, cmd)

Client(k) == ClientWrite(k) \/ ClientPipe(k) \/ ReadAnswer(k) \/ ReadSize(k) \/ ReadData(k)

-----------------------------------------------------------------------------
FilesOf(owner, sizes) ==
  [f \in DOMAIN sizes |-> [i \in 1..sizes[f] |-> <<"data", owner, f, i>>]]

Init ==
  /\ c2s = [k \in Clients |-> <<>>]
  /\ s2c = [k \in Clients |-> <<>>]
  /\ link = [k \in Clients |-> [c |-> "up", s |-> "up"]]
  /\ backlog = <<>>
  /\ cl = [k \in Clients |-> Idle]
  /\ sv = [pc |-> "accept", client |-> Nobody, line |-> Pad,
            out |-> <<>>, then |-> "read", left |-> 0]
  /\ cfile = [k \in Clients |-> FilesOf("client", ClientFiles)]
  /\ sfile = [d \in DOMAIN ServerFiles |-> FilesOf("server", ServerFiles[d])]
  /\ cwd = "top"
  /\ asked = [k \in Clients |-> <<>>]
  /\ done = [k \in Clients |-> <<>>]
  /\ cuts = 0
  /\ kills = 0

Next == Server \/ \E k \in Clients : User(k) \/ Client(k)

(* The processes run; users type, exit and kill when they like. *)
Fairness == WF_vars(Server) /\ \A k \in Clients : WF_vars(Client(k))

Spec == Init /\ [][Next]_vars /\ Fairness

-----------------------------------------------------------------------------
(* Properties *)

(* What the server sends.  A file that a client got after a short read may *)
(* hold any of it, and be put.                                             *)
Answers == {"pad", "entry", "$", "dir", "size", "data"}

TypeOK ==
  /\ \A k \in Clients :
       /\ {s2c[k][i][1] : i \in DOMAIN s2c[k]} \subseteq Answers
       /\ {c2s[k][i][1] : i \in DOMAIN c2s[k]} \subseteq Answers \cup {"cmd", "nl"}
       /\ link[k] \in [c : DOMAIN AfterWrite, s : DOMAIN AfterWrite]
       /\ cl[k].pc \in {"off", "prompt", "write", "get_size", "get_data", "ls", "pwd",
                        "spin", "gone"}
       /\ cl[k].pc = "get_data" => cl[k].left > 0
       /\ cl[k].pc = "write" => cl[k].out # <<>>
  /\ sv.pc \in {"accept", "read", "write", "put_size", "put_data", "spin", "fail", "dead"}
  /\ sv.pc = "put_data" => sv.left > 0
  /\ sv.pc = "write" => sv.out # <<>>
  /\ sv.pc \in {"accept", "dead"} \/ sv.client \in Clients
  /\ cwd \in DOMAIN sfile

(* What a finished get leaves in the client's file begins with the whole   *)
(* of the server's file, however the client and the server interleave and  *)
(* whatever ran before, as long as the client is in step: no read was      *)
(* short, and it put no file that leads the server out of step (IsOdd).    *)
(* (It may go on with the tail of a longer old file: client.c:141 does not *)
(* truncate.)                                                              *)
GetCopies ==
  [][\A k \in Clients :
       cl[k].pc = "get_data" /\ cl'[k].pc = "prompt"
         /\ cuts = 0 /\ ~cl[k].odd /\ cl[k].path \notin ClientDirs
         => IsPrefix(Content(sfile[cwd], cl[k].path), Content(cfile'[k], cl[k].path))]_vars

(* A client in step that asks for its next command has read all of the     *)
(* answer to the one before: nothing is left to be taken for another       *)
(* answer, neither in the stream nor in the server.                        *)
AnswersRead ==
  \A k \in Clients : cuts = 0 /\ ~cl[k].odd /\ cl[k].pc = "prompt" =>
    /\ s2c[k] = <<>>
    /\ sv.client = k => sv.pc # "write"

(* Of a client in step the server executes the commands, all of them, in   *)
(* order and nothing else.  Out of step a read takes the beginning of the  *)
(* next message for data, or data for a message (server.c:205, 217, 256).  *)
CommandsInOrder ==
  \A k \in Clients : cl[k].pc # "gone" /\ cuts = 0 /\ ~cl[k].odd =>
    /\ IsPrefix(done[k], asked[k])
    /\ sv.client = k /\ sv.pc = "read" /\ c2s[k] = <<>> /\ cl[k].out = <<>>
       => done[k] = asked[k]

(* The server ends only by an ls of a directory other than cwd, or because *)
(* a client went away while it was being answered.                         *)
ServerEndsBy ==
  sv.pc = "dead" =>
    \/ sv.line[1] = "cmd" /\ sv.line[2][1] = "ls" /\ sv.line[2][2] # ""
    \/ cl[sv.client].pc = "gone"

(* The reasons for which a client may wait for ever. *)
Excused(k) ==
  \/ cuts > 0
  \/ sv.pc \in {"dead", "spin"}
  \/ sv.client # k
  \/ cl[k].odd
  \/ cl[k].pc = "get_size" /\ Content(sfile[cwd], cl[k].path) = <<>>

(* Every command of a client that the server has accepted ends, and the    *)
(* prompt comes back, except after a put that may swallow it, a get of a   *)
(* missing or empty file (both sides wait for the other) or of a directory *)
(* (the server's loop never ends), or the end of the server.               *)
EveryCommandEnds ==
  \A k \in Clients :
    cl[k].pc \notin {"off", "prompt", "gone"}
      ~> (cl[k].pc \in {"prompt", "gone"} \/ Excused(k))

(* server.c:258, "server: client died, server loops": after the client it  *)
(* serves is gone the server comes back to accept.  VIOLATED.              *)
ServerLoops ==
  \A k \in Clients : (cl[k].pc = "gone" /\ sv.client = k) ~> sv.pc = "accept"

=============================================================================

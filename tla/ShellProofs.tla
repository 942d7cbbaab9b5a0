----------------------------- MODULE ShellProofs ----------------------------
(***************************************************************************)
(* Proofs about Shell.  Every process of a line is, from the moment it is  *)
(* forked, of one of three kinds: the only one of its line, the writer of  *)
(* a pipe or the reader of one.  What its descriptors are is said for the  *)
(* tokens it has parsed and the operations it has still to do, so that     *)
(* each step of parseArgs and of bepipin keeps it, and nothing is left to  *)
(* do when it becomes its program.                                         *)
(***************************************************************************)
EXTENDS Shell, SequenceTheorems, FiniteSetTheorems, TLAPS

----------------------------------------------------------------------------
(* The invariant.                                                          *)

Done == {"say", "exec", "run"}

End == {"r", "w"}

(* The ends of pipes among the descriptors: of pipe q, and only these.     *)
EndsAre(fd, q, rs, ws) ==
  \A x \in Fd : /\ x \in rs => fd[x] = Open("r", q)
                /\ x \in ws => fd[x] = Open("w", q)
                /\ x \notin rs \cup ws => fd[x].kind \notin End

(* The last file behind one of these tokens, among those before token k.   *)
LastBefore(line, k, tokens, names) ==
  LET at == {i \in 2..Len(line) - 1 : /\ line[i] \in tokens /\ line[i + 1] \in names
                                      /\ i < k}
  IN  IF at = {} THEN "" ELSE line[Max(at) + 1]

Input(r, k, have) ==
  /\ r.prog = r.line[1] /\ r.fd[0].kind \in {"tty", "read"}
  /\ \E there \in SUBSET File :
       /\ DOMAIN Files \subseteq there /\ there \subseteq have
       /\ r.fd[0].of = LastBefore(r.line, k, {"<"}, there)

Output(r, k) ==
  /\ r.fd[1].kind \in {"tty", "write", "append"}
  /\ r.fd[1].of = LastBefore(r.line, k, {">", ">>"}, File)

Behind(r) == Len(r.line) + 1

(* bepipin, up to the operations that are left.                            *)
WriterAt(r, q, a, b) ==
  \/ r.todo = WriterTodo(a, b) /\ EndsAre(r.fd, q, {a}, {b})
  \/ r.todo = <<Op("close", 1), Op("dup", b), Op("close", b)>> /\ EndsAre(r.fd, q, {}, {b})
  \/ /\ r.todo = <<Op("dup", b), Op("close", b)>> /\ EndsAre(r.fd, q, {}, {b})
     /\ r.fd[1] = Closed
  \/ r.todo = <<Op("close", b)>> /\ EndsAre(r.fd, q, {}, {1, b})

ReaderAt(r, q, a, b) ==
  \/ r.todo = ReaderTodo(a, b) /\ EndsAre(r.fd, q, {a}, {b})
  \/ r.todo = <<Op("close", 0), Op("dup", a), Op("close", a)>> /\ EndsAre(r.fd, q, {a}, {})
  \/ /\ r.todo = <<Op("dup", a), Op("close", a)>> /\ EndsAre(r.fd, q, {a}, {})
     /\ r.fd[0] = Closed
  \/ r.todo = <<Op("close", a)>> /\ EndsAre(r.fd, q, {0, a}, {})

Above == {x \in Fd : x > 1}

(* The process writes into pipe q, or reads from it, or will.              *)
Writer(r, q) ==
  \/ r.st = "ops" /\ \E a, b \in Above : a # b /\ WriterAt(r, q, a, b)
  \/ r.st \in Done /\ EndsAre(r.fd, q, {}, {1})

Reader(r, q) ==
  \/ r.st = "ops" /\ \E a, b \in Above : a # b /\ ReaderAt(r, q, a, b)
  \/ r.st \in Done /\ EndsAre(r.fd, q, {0}, {})

Alone(r) == \A x \in Fd : r.fd[x].kind \notin End

Vacant(r) == r.st \in {"none", "zombie"} /\ Alone(r)

Parses(r, have) ==
  /\ r.st = "parse" /\ r.n \in 2..Behind(r) /\ Alone(r)
  /\ Input(r, r.n, have) /\ Output(r, r.n)

Single(r, have) ==
  /\ r.st \in Done /\ Bars(r.line) = {} /\ Alone(r)
  /\ Input(r, Behind(r), have) /\ Output(r, Behind(r))

Pipes(r, have) ==
  /\ Bars(r.line) # {}
  /\ \E q \in Pipe : \/ Writer(r, q) /\ Input(r, Behind(r), have)
                     \/ /\ Reader(r, q) /\ Output(r, Behind(r))
                        /\ r.prog = TailName(r.line)

Good(r, have) ==
  /\ \/ Vacant(r)
     \/ r.line \in Line /\ r.line # <<>>
        /\ (Parses(r, have) \/ Single(r, have) \/ Pipes(r, have))
  /\ \A x \in Fd : r.fd[x].kind = "read" => r.fd[x].of \in have
  /\ \A x \in Fd : r.fd[x].kind \in End => r.fd[x].of \in Pipe

Others == Pid \ {shell}

ShellOK ==
  /\ proc[shell].st \in {"prompt", "wait", "ended", "eof"}
  /\ proc[shell].fd = Terminal /\ proc[shell].up = Orphan
  /\ IF proc[shell].st = "wait" THEN \E c \in Others : Children = {c} ELSE Children = {}

Stores ==
  /\ pipes \in [Pipe -> Seq(Unit)] /\ \A q \in Pipe : Len(pipes[q]) <= PipeSize
  /\ DOMAIN Files \subseteq DOMAIN files /\ DOMAIN files \subseteq File
  /\ \A f \in DOMAIN files : files[f] \in Seq(Unit)
  /\ lines \in 0..MaxLines /\ typed \in 0..MaxTyped

ProcsOK ==
  \A p \in Others : proc[p].up # p /\ Good(proc[p], DOMAIN files)

(* Each end of a pipe has one process that is to keep it.                  *)
OneEach ==
  \A q \in Pipe : \A p, c \in Others :
    /\ Writer(proc[p], q) /\ Writer(proc[c], q) => p = c
    /\ Reader(proc[p], q) /\ Reader(proc[c], q) => p = c

Procs == proc \in [Pid -> Process] /\ ShellOK /\ ProcsOK /\ OneEach

IInv == Stores /\ Procs

----------------------------------------------------------------------------
(* Numbers, lines and descriptors.                                         *)

(* A nonempty set of numbers has a smallest one.                           *)
LEMMA SmallestNat ==
  ASSUME NEW T \in SUBSET Nat, T # {}
  PROVE  \E m \in T : \A n \in T : m <= n
<1> DEFINE R == {r \in Nat \X Nat : r[1] < r[2]}
<1>1. IsWellFoundedOn(OpToRel(<, Nat), Nat)
  BY NatLessThanWellFounded
<1>2. OpToRel(<, Nat) = R
  BY DEF OpToRel
<1>3. IsWellFoundedOn(R, Nat)
  BY <1>1, <1>2
<1>4. PICK m \in T : \A n \in T : <<n, m>> \notin R
  <2> HIDE DEF R
  <2> QED BY <1>3, WFMin
<1>5. ASSUME NEW n \in T, ~(m <= n) PROVE FALSE
  <2>1. n \in Nat /\ m \in Nat /\ n < m
    BY <1>5
  <2>2. <<n, m>> \in Nat \X Nat /\ <<n, m>>[1] = n /\ <<n, m>>[2] = m
    BY <2>1
  <2>3. <<n, m>> \in R
    BY <2>1, <2>2
  <2> QED BY <1>4, <2>3
<1> QED BY <1>5

LEMMA FdFacts == 0 \in Fd /\ 1 \in Fd /\ 2 \in Fd /\ Fd \subseteq Nat
BY SizeAssumption DEF Fd

(* open, pipe and dup take the lowest descriptor that is closed.           *)
LEMMA LowestClosed ==
  ASSUME NEW fd, HasRoom(fd)
  PROVE  /\ Lowest(fd) \in Fd /\ fd[Lowest(fd)] = Closed
         /\ \A y \in Fd : fd[y] = Closed => Lowest(fd) <= y
<1> DEFINE S == {x \in Fd : fd[x] = Closed}
<1>1. S \in SUBSET Nat /\ S # {}
  BY FdFacts DEF HasRoom
<1>2. \E m \in S : \A n \in S : m <= n
  <2> HIDE DEF S
  <2> QED BY <1>1, SmallestNat
<1>3. Min(S) \in S /\ \A n \in S : Min(S) <= n
  <2> HIDE DEF S
  <2> QED BY <1>2 DEF Min
<1> QED BY <1>3 DEF Lowest

LEMMA LargestIn ==
  ASSUME NEW n \in Nat, NEW S \in SUBSET (1..n), S # {}
  PROVE  Max(S) \in S
<1> DEFINE T == {n - i : i \in S}
<1>1. T \in SUBSET Nat /\ T # {}
  <2>1. \A i \in 1..n : n - i \in Nat
    OBVIOUS
  <2> QED BY <2>1
<1>2. PICK m \in T : \A k \in T : m <= k
  <2> HIDE DEF T
  <2> QED BY <1>1, SmallestNat
<1>3. PICK i \in S : m = n - i
  BY <1>2
<1>4. ASSUME NEW j \in S PROVE i >= j
  <2>1. n - i <= n - j
    BY <1>2, <1>3
  <2> QED BY <2>1
<1> QED BY <1>4 DEF Max

LEMMA TailNameType ==
  ASSUME NEW line \in Line
  PROVE  TailName(line) \in STRING \cup {""}
<1> DEFINE bars == {i \in Bars(line) : i < Len(line)}
<1>1. line \in Seq(STRING)
  BY DataAssumption
<1>2. CASE bars = {}
  BY <1>2 DEF TailName
<1>3. CASE bars # {}
  <2>1. bars \in SUBSET (1..Len(line)) /\ Len(line) \in Nat
    BY <1>1 DEF Bars
  <2>2. Max(bars) \in bars
    <3> HIDE DEF bars
    <3> QED BY <1>3, <2>1, LargestIn
  <2>3. Max(bars) + 1 \in 1..Len(line)
    BY <2>1, <2>2
  <2>4. line[Max(bars) + 1] \in STRING
    BY <1>1, <2>3
  <2> QED BY <1>3, <2>4 DEF TailName
<1> QED BY <1>2, <1>3

(* The files behind the tokens, one token at a time.                       *)
LEMMA LastNext ==
  ASSUME NEW line \in Seq(STRING), NEW k \in 2..Len(line), NEW tokens, NEW names
  PROVE  LastBefore(line, k + 1, tokens, names) =
           IF k < Len(line) /\ line[k] \in tokens /\ line[k + 1] \in names
           THEN line[k + 1] ELSE LastBefore(line, k, tokens, names)
<1> DEFINE at(m) == {i \in 2..Len(line) - 1 : /\ line[i] \in tokens /\ line[i + 1] \in names
                                             /\ i < m}
           hit == k < Len(line) /\ line[k] \in tokens /\ line[k + 1] \in names
<1>1. CASE ~hit
  <2>1. at(k + 1) = at(k)
    BY <1>1
  <2> QED BY <1>1, <2>1 DEF LastBefore
<1>2. CASE hit
  <2>1. k \in at(k + 1) /\ \A i \in at(k + 1) : i \in Nat /\ k >= i
    BY <1>2
  <2>2. Max(at(k + 1)) = k
    <3> HIDE DEF at
    <3>1. \A x \in at(k + 1) : (\A y \in at(k + 1) : x >= y) => x = k
      BY <2>1
    <3> QED BY <2>1, <3>1 DEF Max
  <2>3. at(k + 1) # {}
    BY <2>1
  <2>4. LastBefore(line, k + 1, tokens, names) = line[Max(at(k + 1)) + 1]
    BY <2>3 DEF LastBefore
  <2> HIDE DEF at
  <2> QED BY <1>2, <2>2, <2>4
<1> QED BY <1>1, <1>2

LEMMA LastFirst == \A line, tokens, names : LastBefore(line, 2, tokens, names) = ""
<1> SUFFICES ASSUME NEW line, NEW tokens, NEW names
             PROVE  LastBefore(line, 2, tokens, names) = ""
  OBVIOUS
<1>1. {i \in 2..Len(line) - 1 : /\ line[i] \in tokens /\ line[i + 1] \in names
                                /\ i < 2} = {}
  OBVIOUS
<1> QED BY <1>1 DEF LastBefore

LEMMA LastWhole ==
  ASSUME NEW line \in Seq(STRING), NEW tokens, NEW names
  PROVE  LastBefore(line, Len(line) + 1, tokens, names) = LastFile(line, tokens, names)
<1>1. {i \in 2..Len(line) - 1 : /\ line[i] \in tokens /\ line[i + 1] \in names
                                /\ i < Len(line) + 1}
      = {i \in 2..Len(line) - 1 : line[i] \in tokens /\ line[i + 1] \in names}
  OBVIOUS
<1> QED BY <1>1 DEF LastBefore, LastFile

----------------------------------------------------------------------------
(* Descriptors whose position may differ.                                  *)

Alike(f, g) ==
  \A x \in Fd : \/ g[x] = f[x]
                \/ /\ f[x].kind \in {"read", "write"}
                   /\ g[x].kind = f[x].kind /\ g[x].of = f[x].of

LEMMA OpenIs ==
  ASSUME NEW k, NEW x
  PROVE  Open(k, x) = [kind |-> k, of |-> x, pos |-> 0]
<1> DEFINE c == Closed
           d == [c EXCEPT !.kind = k]
           e == [d EXCEPT !.of = x]
<1>1. c = [kind |-> "closed", of |-> "", pos |-> 0]
  BY DEF Closed
<1>2. Open(k, x) = e
  BY DEF Open
<1>3. d = [c EXCEPT !.kind = k]
  OBVIOUS
<1>4. e = [d EXCEPT !.of = x]
  OBVIOUS
<1> HIDE DEF c, d, e
<1>5. d = [kind |-> k, of |-> "", pos |-> 0]
  BY <1>1, <1>3
<1>6. e = [kind |-> k, of |-> x, pos |-> 0]
  BY <1>4, <1>5
<1> QED BY <1>2, <1>6

LEMMA TtyIs == Tty = [kind |-> "tty", of |-> "", pos |-> 0]
<1> DEFINE c == Closed
<1>1. c = [kind |-> "closed", of |-> "", pos |-> 0]
  BY DEF Closed
<1>2. Tty = [c EXCEPT !.kind = "tty"]
  BY DEF Tty
<1> HIDE DEF c
<1> QED BY <1>1, <1>2

LEMMA OpenFacts ==
  /\ Closed.kind = "closed" /\ Closed.of = "" /\ Tty.kind = "tty" /\ Tty.of = ""
  /\ \A k, x : Open(k, x).kind = k /\ Open(k, x).of = x
BY OpenIs, TtyIs DEF Closed

(* The two ends of a pipe.                                                 *)
LEMMA EndFacts ==
  ASSUME NEW q
  PROVE  /\ Open("r", q).kind = "r" /\ Open("r", q).of = q
         /\ Open("w", q).kind = "w" /\ Open("w", q).of = q
         /\ Open("r", q).kind \in {"r", "w"} /\ Open("w", q).kind \in {"r", "w"}
         /\ Closed.kind = "closed" /\ Closed.kind \notin {"r", "w"}
BY OpenFacts

LEMMA ObjectFacts ==
  /\ Closed \in Object /\ Tty \in Object
  /\ \A k \in {"read", "write", "append"}, f \in File : Open(k, f) \in Object
  /\ \A k \in End, q \in Pipe : Open(k, q) \in Object
BY OpenIs, TtyIs DEF Closed, Object, End

LEMMA AlikeEnds ==
  ASSUME NEW f, NEW g, Alike(f, g), NEW q, NEW rs, NEW ws
  PROVE  EndsAre(f, q, rs, ws) <=> EndsAre(g, q, rs, ws)
<1>1. ASSUME NEW x \in Fd PROVE f[x].kind = g[x].kind /\ (f[x].kind \in End => f[x] = g[x])
  BY DEF Alike, End
<1>2. Open("r", q).kind \in End /\ Open("w", q).kind \in End
  BY OpenFacts DEF End
<1> QED BY <1>1, <1>2 DEF EndsAre

LEMMA PosMoves ==
  ASSUME NEW A, NEW B, NEW c \in [kind : A, of : B, pos : Nat],
         NEW d, d = [c EXCEPT !.pos = @ + 1]
  PROVE  d \in [kind : A, of : B, pos : Nat] /\ d.kind = c.kind /\ d.of = c.of
OBVIOUS

LEMMA MovedAlike ==
  ASSUME NEW fd \in [Fd -> Object]
  PROVE  Moved(fd) \in [Fd -> Object] /\ Alike(fd, Moved(fd))
<1>1. CASE fd[1].kind = "write"
  <2> DEFINE o == [fd[1] EXCEPT !.pos = @ + 1]
  <2>1. o \in Object /\ o.kind = fd[1].kind /\ o.of = fd[1].of
    <3> DEFINE c == fd[1]
    <3>1. c \in Object /\ o = [c EXCEPT !.pos = @ + 1]
      BY FdFacts
    <3> HIDE DEF c, o
    <3>2. o \in Object /\ o.kind = c.kind /\ o.of = c.of
      BY <3>1, PosMoves DEF Object
    <3> QED BY <3>2 DEF c
  <2>2. Moved(fd) = [fd EXCEPT ![1] = o]
    BY <1>1 DEF Moved
  <2> HIDE DEF o
  <2> QED BY <1>1, <2>1, <2>2, FdFacts DEF Alike
<1>2. CASE fd[1].kind # "write"
  BY <1>2 DEF Moved, Alike
<1> QED BY <1>1, <1>2

LEMMA InputAlike ==
  ASSUME NEW r, NEW s, NEW have, NEW has, have \subseteq has, NEW k,
         s.line = r.line, s.prog = r.prog, Alike(r.fd, s.fd), Input(r, k, have)
  PROVE  Input(s, k, has)
<1>1. s.fd[0].kind = r.fd[0].kind /\ s.fd[0].of = r.fd[0].of
  BY FdFacts DEF Alike
<1> QED BY <1>1 DEF Input

LEMMA OutputAlike ==
  ASSUME NEW r, NEW s, NEW k, s.line = r.line, Alike(r.fd, s.fd), Output(r, k)
  PROVE  Output(s, k)
<1>1. s.fd[1].kind = r.fd[1].kind /\ s.fd[1].of = r.fd[1].of
  BY FdFacts DEF Alike
<1> QED BY <1>1 DEF Output

(* What a process does after bepipin leaves its kind as it is.             *)
LEMMA DoneStays ==
  ASSUME NEW r, NEW s, NEW have, NEW has, have \subseteq has, Good(r, have),
         r.st \in Done, s.st \in Done, s.line = r.line, s.prog = r.prog, Alike(r.fd, s.fd)
  PROVE  /\ Good(s, has)
         /\ \A q \in Pipe : /\ Writer(s, q) => Writer(r, q)
                            /\ Reader(s, q) => Reader(r, q)
<1>1. \A x \in Fd : s.fd[x].kind = r.fd[x].kind /\ s.fd[x].of = r.fd[x].of
  BY DEF Alike
<1>2. r.st \notin {"none", "zombie", "parse", "ops"} /\ s.st # "ops"
  BY DEF Done
<1>3. ASSUME NEW q PROVE (Writer(s, q) <=> Writer(r, q)) /\ (Reader(s, q) <=> Reader(r, q))
  BY <1>2, AlikeEnds DEF Writer, Reader
<1>4. Behind(r) = Behind(s)
  BY DEF Behind
<1>5. Single(r, have) => Single(s, has)
  BY <1>1, <1>4, InputAlike, OutputAlike DEF Single, Alone
<1>6. ASSUME Pipes(r, have) PROVE Pipes(s, has)
  <2>1. PICK q \in Pipe : \/ Writer(r, q) /\ Input(r, Behind(r), have)
                          \/ /\ Reader(r, q) /\ Output(r, Behind(r))
                             /\ r.prog = TailName(r.line)
    BY <1>6 DEF Pipes
  <2>2. CASE Writer(r, q) /\ Input(r, Behind(r), have)
    BY <1>3, <1>4, <1>6, <2>2, InputAlike DEF Pipes
  <2>3. CASE Reader(r, q) /\ Output(r, Behind(r)) /\ r.prog = TailName(r.line)
    BY <1>3, <1>4, <1>6, <2>3, OutputAlike DEF Pipes
  <2> QED BY <2>1, <2>2, <2>3
<1>7. r.line \in Line /\ r.line # <<>> /\ (Single(r, have) \/ Pipes(r, have))
  BY <1>2 DEF Good, Vacant, Parses
<1>8. \A x \in Fd : /\ s.fd[x].kind = "read" => s.fd[x].of \in has
                    /\ s.fd[x].kind \in End => s.fd[x].of \in Pipe
  BY <1>1 DEF Good
<1> QED BY <1>3, <1>5, <1>6, <1>7, <1>8 DEF Good

----------------------------------------------------------------------------
(* Steps of one process.                                                   *)

LEMMA GoodMore ==
  ASSUME NEW r, NEW have, NEW has, have \subseteq has, Good(r, have)
  PROVE  Good(r, has)
<1>1. \A k : Input(r, k, have) => Input(r, k, has)
  BY DEF Input
<1>2. /\ Parses(r, have) => Parses(r, has)
      /\ Single(r, have) => Single(r, has)
      /\ Pipes(r, have) => Pipes(r, has)
  BY <1>1 DEF Parses, Single, Pipes
<1> QED BY <1>2 DEF Good

(* A zombie or no process keeps no end.                                    *)
LEMMA VacantKeeps ==
  ASSUME NEW r, r.st \notin {"ops"} \cup Done
  PROVE  \A q : ~Writer(r, q) /\ ~Reader(r, q)
BY DEF Writer, Reader, Done

LEMMA BecomeKeeps ==
  ASSUME IInv, NEW p \in Others, NEW r \in Process, proc' = [proc EXCEPT ![p] = r],
         r.up = proc[p].up, r.st # "none", proc[p].st # "none",
         DOMAIN files \subseteq DOMAIN files', Good(r, DOMAIN files'),
         \A q \in Pipe : /\ Writer(r, q) => Writer(proc[p], q)
                         /\ Reader(r, q) => Reader(proc[p], q)
  PROVE  Procs'
<1>1. /\ proc \in [Pid -> Process] /\ p \in Pid /\ p # shell /\ shell \in Pid
      /\ proc'[p] = r /\ \A c \in Pid : c # p => proc'[c] = proc[c]
      /\ proc' \in [Pid -> Process]
  BY PidAssumption DEF IInv, Procs, Others
<1>2. \A c \in Pid : /\ proc'[c].up = proc[c].up
                     /\ proc'[c].st = "none" <=> proc[c].st = "none"
  BY <1>1
<1>3. Children' = Children
  BY <1>2 DEF Children
<1>4. ShellOK'
  BY <1>1, <1>3 DEF IInv, Procs, ShellOK
<1>5. ProcsOK'
  <2> SUFFICES ASSUME NEW c \in Others PROVE (proc[c].up # c /\ Good(proc[c], DOMAIN files))'
    BY DEF ProcsOK
  <2>1. proc[c].up # c /\ Good(proc[c], DOMAIN files) /\ c \in Pid
    BY DEF IInv, Procs, ProcsOK, Others
  <2>2. Good(proc[c], DOMAIN files')
    BY <2>1, GoodMore
  <2>3. CASE c = p
    BY <1>1, <1>2, <2>1, <2>3
  <2>4. CASE c # p
    BY <1>1, <2>1, <2>2, <2>4
  <2> QED BY <2>3, <2>4
<1>6. OneEach'
  <2>1. \A c \in Others, q \in Pipe : /\ Writer(proc'[c], q) => Writer(proc[c], q)
                                      /\ Reader(proc'[c], q) => Reader(proc[c], q)
    BY <1>1 DEF Others
  <2> QED BY <2>1 DEF IInv, Procs, OneEach
<1> QED BY <1>1, <1>4, <1>5, <1>6 DEF Procs

LEMMA NoProcFacts ==
  /\ NoProc \in Process /\ NoProc.st = "none" /\ NoProc.up = Orphan
  /\ \A have : Good(NoProc, have)
<1>1. NoProc \in Process /\ NoProc.st = "none" /\ NoProc.up = Orphan
      /\ NoProc.fd = [x \in Fd |-> Closed]
  BY ObjectFacts DEF NoProc, Process
<1>2. \A x \in Fd : NoProc.fd[x].kind = "closed"
  BY <1>1, OpenFacts
<1> QED BY <1>1, <1>2 DEF Good, Vacant, Alone, End

LEMMA ZombieFacts ==
  ASSUME NEW u \in Pid, NEW z, z = [NoProc EXCEPT !.st = "zombie", !.up = u]
  PROVE  /\ z \in Process /\ z.st = "zombie" /\ z.up = u
         /\ \A have : Good(z, have)
<1> DEFINE y == [NoProc EXCEPT !.st = "zombie"]
<1>1. y \in Process /\ y.fd = NoProc.fd /\ y.st = "zombie"
  BY NoProcFacts DEF Process
<1>2. z = [y EXCEPT !.up = u]
  OBVIOUS
<1> HIDE DEF y
<1>3. z \in Process /\ z.fd = y.fd /\ z.st = "zombie" /\ z.up = u
  BY <1>1, <1>2 DEF Process
<1>4. z.fd = NoProc.fd
  BY <1>1, <1>3
<1>5. \A x \in Fd : NoProc.fd[x].kind = "closed"
  BY OpenFacts DEF NoProc
<1>6. \A x \in Fd : z.fd[x].kind = "closed"
  BY <1>4, <1>5
<1> QED BY <1>3, <1>6 DEF Good, Vacant, Alone, End

LEMMA ExitKeeps ==
  ASSUME IInv, NEW p \in Others, Exit(p), files' = files,
         proc[p].st \notin {"none", "zombie"}
  PROVE  Procs'
<1>1. /\ proc \in [Pid -> Process] /\ p \in Pid /\ p # shell /\ shell \in Pid
      /\ Orphan \notin Pid /\ proc[shell].up = Orphan
  BY PidAssumption DEF IInv, Procs, Others, ShellOK
<1>2. /\ proc'[p] \in Process /\ proc'[p].up # p /\ proc'[p].st \in {"none", "zombie"}
      /\ \A have : Good(proc'[p], have)
      /\ proc'[p].st # "none" /\ proc'[p].up = shell <=> proc[p].up = shell
  <2> DEFINE z == [NoProc EXCEPT !.st = "zombie", !.up = proc[p].up]
  <2>1. proc'[p] = IF proc[p].up = Orphan THEN NoProc ELSE z
    BY <1>1 DEF Exit
  <2>2. proc[p].up \in Pid \cup {Orphan} /\ proc[p].up # p
    BY <1>1 DEF Process, IInv, Procs, ProcsOK
  <2>3. CASE proc[p].up = Orphan
    BY <1>1, <2>1, <2>3, NoProcFacts
  <2>4. CASE proc[p].up # Orphan
    <3>1. proc[p].up \in Pid /\ proc'[p] = z
      BY <2>1, <2>2, <2>4
    <3>2. z \in Process /\ z.st = "zombie" /\ z.up = proc[p].up /\ \A have : Good(z, have)
      BY <3>1, ZombieFacts
    <3> HIDE DEF z
    <3> QED BY <2>2, <3>1, <3>2
  <2> QED BY <2>3, <2>4
<1>3. ASSUME NEW c \in Pid, c # p
      PROVE  \/ proc'[c] = proc[c]
             \/ c # shell /\ proc[c].up = p /\ proc'[c] = NoProc
             \/ /\ c # shell /\ proc[c].up = p /\ proc'[c] = [proc[c] EXCEPT !.up = Orphan]
                /\ proc[c] \in Process
  BY <1>1, <1>3 DEF Exit
<1>4. proc'[shell] = proc[shell]
  BY <1>1, <1>3
<1>5. ASSUME NEW c \in Others, c # p
      PROVE  /\ proc'[c] \in Process /\ proc'[c].up # c /\ Good(proc'[c], DOMAIN files)
             /\ proc'[c].st # "none" /\ proc'[c].up = shell
                <=> proc[c].st # "none" /\ proc[c].up = shell
             /\ \A q \in Pipe : /\ Writer(proc'[c], q) => Writer(proc[c], q)
                                /\ Reader(proc'[c], q) => Reader(proc[c], q)
  <2>1. c \in Pid /\ proc[c] \in Process /\ proc[c].up # c /\ Good(proc[c], DOMAIN files)
    BY <1>1 DEF Others, IInv, Procs, ProcsOK
  <2>2. CASE proc'[c] = proc[c]
    BY <2>1, <2>2
  <2>3. CASE c # shell /\ proc[c].up = p /\ proc'[c] = NoProc
    BY <1>1, <2>1, <2>3, NoProcFacts, VacantKeeps DEF Done
  <2>4. CASE c # shell /\ proc[c].up = p /\ proc'[c] = [proc[c] EXCEPT !.up = Orphan]
    <3> DEFINE r == proc[c]
               s == proc'[c]
    <3>1. r \in Process /\ s = [r EXCEPT !.up = Orphan]
      BY <2>1, <2>4
    <3> HIDE DEF r, s
    <3>2. /\ s \in Process /\ s.up = Orphan /\ s.st = r.st /\ s.fd = r.fd /\ s.line = r.line
          /\ s.n = r.n /\ s.todo = r.todo /\ s.prog = r.prog
      BY <3>1 DEF Process
    <3>3. /\ \A q : (Writer(s, q) <=> Writer(r, q)) /\ (Reader(s, q) <=> Reader(r, q))
          /\ \A k, have : (Input(s, k, have) <=> Input(r, k, have))
                          /\ (Output(s, k) <=> Output(r, k))
      BY <3>2 DEF Writer, Reader, WriterAt, ReaderAt, Input, Output
    <3>4. Good(r, DOMAIN files) => Good(s, DOMAIN files)
      BY <3>2, <3>3 DEF Good, Vacant, Alone, Parses, Single, Pipes, Behind
    <3> QED BY <1>1, <2>1, <2>4, <3>2, <3>3, <3>4 DEF r, s
  <2> QED BY <1>3, <1>5, <2>1, <2>2, <2>3, <2>4
<1>6. proc' \in [Pid -> Process]
  <2>1. \A c \in Pid : proc'[c] \in Process
    BY <1>1, <1>2, <1>4, <1>5 DEF Others
  <2>2. proc' = [c \in Pid |-> proc'[c]]
    BY DEF Exit
  <2> QED BY <2>1, <2>2
<1>7. Children' = Children
  <2>1. \A c \in Others : proc'[c].st # "none" /\ proc'[c].up = shell
                          <=> proc[c].st # "none" /\ proc[c].up = shell
    BY <1>2, <1>5
  <2> QED BY <2>1 DEF Children, Others
<1>8. ShellOK'
  BY <1>4, <1>7 DEF IInv, Procs, ShellOK
<1>9. ProcsOK'
  BY <1>2, <1>5 DEF ProcsOK
<1>10. OneEach'
  <2>1. \A c \in Others, q \in Pipe : /\ Writer(proc'[c], q) => Writer(proc[c], q)
                                      /\ Reader(proc'[c], q) => Reader(proc[c], q)
    BY <1>2, <1>5, VacantKeeps DEF Done
  <2> QED BY <2>1 DEF IInv, Procs, OneEach
<1> QED BY <1>6, <1>8, <1>9, <1>10 DEF Procs

(* The fields of a process that its kind depends on.                       *)
Same(r, s) == /\ s.up = r.up /\ s.line = r.line /\ s.prog = r.prog
              /\ s.st # "none" /\ r.st # "none"

LEMMA FdSet ==
  ASSUME NEW r \in Process, NEW f \in [Fd -> Object], NEW s, s = [r EXCEPT !.fd = f]
  PROVE  /\ s \in Process /\ s.fd = f /\ s.st = r.st /\ s.up = r.up /\ s.line = r.line
         /\ s.prog = r.prog /\ s.n = r.n /\ s.todo = r.todo
BY DEF Process

LEMMA DoneKeeps ==
  ASSUME IInv, NEW p \in Others, NEW r \in Process, proc' = [proc EXCEPT ![p] = r],
         proc[p].st \in Done, r.st \in Done, Same(proc[p], r), Alike(proc[p].fd, r.fd),
         DOMAIN files \subseteq DOMAIN files'
  PROVE  Procs'
<1>1. Good(proc[p], DOMAIN files)
  BY DEF IInv, Procs, ProcsOK
<1>2. /\ Good(r, DOMAIN files')
      /\ \A q \in Pipe : /\ Writer(r, q) => Writer(proc[p], q)
                         /\ Reader(r, q) => Reader(proc[p], q)
  BY <1>1, DoneStays DEF Same
<1> QED BY <1>2, BecomeKeeps DEF Same

LEMMA WrittenType ==
  ASSUME IInv, NEW out \in Object, NEW u \in Unit
  PROVE  /\ DOMAIN Written(out, u) = DOMAIN files
         /\ \A f \in DOMAIN files : Written(out, u)[f] \in Seq(Unit)
<1>1. \A f \in DOMAIN files : files[f] \in Seq(Unit)
  BY DEF IInv, Stores
<1>2. ASSUME NEW f \in DOMAIN files PROVE Append(files[f], u) \in Seq(Unit)
  BY <1>1
<1>3. ASSUME NEW f \in DOMAIN files PROVE Overwrite(files[f], out.pos, u) \in Seq(Unit)
  <2> DEFINE d == files[f]
  <2>1. d \in Seq(Unit) /\ out.pos \in Nat
    BY <1>1 DEF Object
  <2> HIDE DEF d
  <2>2. ASSUME out.pos < Len(d) PROVE Overwrite(d, out.pos, u) \in Seq(Unit)
    <3>1. out.pos + 1 \in 1..Len(d) /\ [d EXCEPT ![out.pos + 1] = u] \in Seq(Unit)
      BY <2>1, <2>2
    <3> QED BY <2>2, <3>1 DEF Overwrite
  <2>3. ASSUME ~(out.pos < Len(d)) PROVE Overwrite(d, out.pos, u) \in Seq(Unit)
    BY <2>1, <2>3 DEF Overwrite
  <2> QED BY <2>2, <2>3 DEF d
<1>4. CASE out.kind = "append"
  BY <1>1, <1>2, <1>4 DEF Written
<1>5. CASE out.kind = "write"
  BY <1>1, <1>3, <1>5 DEF Written
<1>6. CASE out.kind \notin {"append", "write"}
  BY <1>1, <1>6 DEF Written
<1> QED BY <1>4, <1>5, <1>6

LEMMA StoresWritten ==
  ASSUME IInv, NEW out \in Object, NEW u \in Unit, files' = Written(out, u),
         UNCHANGED <<pipes, lines, typed>>
  PROVE  Stores' /\ DOMAIN files' = DOMAIN files
<1>1. DOMAIN files' = DOMAIN files /\ \A f \in DOMAIN files : files'[f] \in Seq(Unit)
  BY WrittenType
<1> QED BY <1>1 DEF IInv, Stores

LEMMA WriteKeeps ==
  ASSUME IInv, NEW p \in Others, NEW u \in Unit, NEW r \in Process, Write(p, u, r),
         proc[p].st \in Done, r.st \in Done, Same(proc[p], r), r.fd = proc[p].fd,
         UNCHANGED <<lines, typed>>
  PROVE  IInv'
<1> DEFINE out == proc[p].fd[1]
<1>1. proc[p] \in Process /\ proc[p].fd \in [Fd -> Object] /\ out \in Object /\ r.fd[1] = out
  BY FdFacts DEF IInv, Procs, Others, Process
<1>2. CASE out.kind # "w" /\ Becomes(p, [r EXCEPT !.fd = Moved(@)])
           /\ files' = Written(out, u) /\ UNCHANGED pipes
  <2> DEFINE s == [r EXCEPT !.fd = Moved(@)]
  <2>1. Moved(r.fd) \in [Fd -> Object] /\ Alike(r.fd, Moved(r.fd))
    BY <1>1, MovedAlike
  <2>2. /\ s \in Process /\ s.fd = Moved(r.fd) /\ s.st = r.st /\ s.up = r.up
        /\ s.line = r.line /\ s.prog = r.prog
    BY <2>1, FdSet
  <2>3. proc' = [proc EXCEPT ![p] = s]
    BY <1>2 DEF Becomes
  <2> HIDE DEF s
  <2>4. Stores' /\ DOMAIN files' = DOMAIN files
    BY <1>1, <1>2, StoresWritten
  <2>5. Same(proc[p], s) /\ s.st \in Done /\ Alike(proc[p].fd, s.fd)
    BY <2>1, <2>2 DEF Same
  <2>6. Procs'
    BY <2>2, <2>3, <2>4, <2>5, DoneKeeps
  <2> QED BY <2>4, <2>6 DEF IInv
<1>3. CASE /\ out.kind = "w" /\ Len(pipes[out.of]) < PipeSize /\ Becomes(p, r)
           /\ pipes' = [pipes EXCEPT ![out.of] = Append(@, u)] /\ UNCHANGED files
  <2>1. Alike(proc[p].fd, r.fd)
    BY DEF Alike
  <2>2. Procs'
    BY <1>3, <2>1, DoneKeeps DEF Becomes
  <2>3. Stores'
    <3> DEFINE q == out.of
    <3>1. pipes \in [Pipe -> Seq(Unit)] /\ PipeSize \in Nat
      BY SizeAssumption DEF IInv, Stores
    <3>2. pipes' = [pipes EXCEPT ![q] = Append(pipes[q], u)] /\ Len(pipes[q]) < PipeSize
      BY <1>3
    <3> HIDE DEF q
    <3>3. CASE q \in Pipe
      <4>1. pipes[q] \in Seq(Unit) /\ Append(pipes[q], u) \in Seq(Unit)
            /\ Len(Append(pipes[q], u)) <= PipeSize
        BY <3>1, <3>2, <3>3
      <4> QED BY <1>3, <3>1, <3>2, <3>3, <4>1 DEF IInv, Stores
    <3>4. CASE q \notin Pipe
      <4>1. pipes' = pipes
        BY <3>1, <3>2, <3>4
      <4> QED BY <1>3, <4>1 DEF IInv, Stores
    <3> QED BY <3>3, <3>4
  <2> QED BY <2>2, <2>3 DEF IInv
<1>4. CASE Exit(p) /\ UNCHANGED <<pipes, files>>
  <2>1. Procs'
    BY <1>4, ExitKeeps DEF Done
  <2>2. Stores'
    BY <1>4 DEF IInv, Stores
  <2> QED BY <2>1, <2>2 DEF IInv
<1> QED BY <1>2, <1>3, <1>4 DEF Write

----------------------------------------------------------------------------
(* The programs, and the step before them.                                 *)

(* A process that takes a step of its own is not the shell.                *)
LEMMA StepOther ==
  ASSUME IInv, NEW p \in Pid, proc[p].st \in {"parse", "ops"} \cup Done
  PROVE  /\ p \in Others /\ proc[p] \in Process /\ proc[p].fd \in [Fd -> Object]
         /\ Good(proc[p], DOMAIN files) /\ proc[p].st \notin {"none", "zombie"}
<1>1. p # shell
  BY DEF IInv, Procs, ShellOK, Done
<1>2. p \in Others /\ proc[p] \in Process
  BY <1>1 DEF IInv, Procs, Others
<1> QED BY <1>2 DEF IInv, Procs, ProcsOK, Process, Done

LEMMA ExitsKeeps ==
  ASSUME IInv, NEW p \in Others, Exit(p), proc[p].st \notin {"none", "zombie"},
         UNCHANGED <<pipes, files, lines, typed>>
  PROVE  IInv'
<1>1. Procs'
  BY ExitKeeps
<1>2. Stores'
  BY DEF IInv, Stores
<1> QED BY <1>1, <1>2 DEF IInv

LEMMA StSet ==
  ASSUME NEW r \in Process, NEW st \in {"exec", "run", "say", "ops"}, NEW s, s = [r EXCEPT !.st = st]
  PROVE  /\ s \in Process /\ s.fd = r.fd /\ s.st = st /\ s.up = r.up /\ s.line = r.line
         /\ s.prog = r.prog /\ s.n = r.n /\ s.todo = r.todo
BY DEF Process

LEMMA LeftSet ==
  ASSUME NEW r \in Process, NEW n \in Nat, NEW s, s = [r EXCEPT !.left = n]
  PROVE  /\ s \in Process /\ s.fd = r.fd /\ s.st = r.st /\ s.up = r.up /\ s.line = r.line
         /\ s.prog = r.prog
BY DEF Process

LEMMA TriesKeeps ==
  ASSUME IInv, NEW p \in Pid, Tries(p)
  PROVE  IInv'
<1>1. p \in Others /\ proc[p] \in Process /\ proc[p].st = "say"
  BY StepOther DEF Tries, Done
<1>2. CASE Exit(p) /\ UNCHANGED <<pipes, files>>
  BY <1>1, <1>2, ExitsKeeps DEF Tries
<1>3. CASE Write(p, "msg", [proc[p] EXCEPT !.st = "exec"])
  <2> DEFINE r == [proc[p] EXCEPT !.st = "exec"]
  <2>1. /\ r \in Process /\ r.st \in Done /\ proc[p].st \in Done /\ r.fd = proc[p].fd
        /\ Same(proc[p], r)
    BY <1>1, StSet DEF Same, Done
  <2>2. Write(p, "msg", r) /\ "msg" \in Unit /\ UNCHANGED <<lines, typed>>
    BY <1>3 DEF Tries, Unit
  <2> HIDE DEF r
  <2> QED BY <1>1, <2>1, <2>2, WriteKeeps
<1> QED BY <1>2, <1>3 DEF Tries

LEMMA OwnKeeps ==
  ASSUME IInv, NEW p \in Others, NEW r \in Process, Becomes(p, r), proc[p].st \in Done,
         r.st \in Done, Same(proc[p], r), Alike(proc[p].fd, r.fd), UNCHANGED files
  PROVE  Procs'
BY DoneKeeps DEF Becomes

LEMMA execveKeeps ==
  ASSUME IInv, NEW p \in Pid, execve(p)
  PROVE  IInv'
<1>1. p \in Others /\ proc[p] \in Process /\ proc[p].st = "exec"
  BY StepOther DEF execve, Done
<1>2. Stores' /\ UNCHANGED files
  BY DEF execve, IInv, Stores
<1>3. CASE Exit(p)
  BY <1>1, <1>3, ExitsKeeps DEF execve
<1> DEFINE t == [proc[p] EXCEPT !.st = "run"]
<1>4. /\ t \in Process /\ t.fd = proc[p].fd /\ t.st \in Done /\ proc[p].st \in Done
      /\ Same(proc[p], t) /\ Alike(proc[p].fd, t.fd)
  BY <1>1, StSet DEF Same, Done, Alike
<1>5. CASE Now(p, "run")
  <2>1. Becomes(p, t)
    BY <1>5 DEF Now, Becomes
  <2> HIDE DEF t
  <2> QED BY <1>1, <1>2, <1>4, <2>1, OwnKeeps DEF IInv
<1>6. CASE /\ proc[p].prog \in DOMAIN Maker
           /\ Becomes(p, [proc[p] EXCEPT !.st = "run", !.left = Maker[proc[p].prog]])
  <2> DEFINE n == Maker[proc[p].prog]
             s == [t EXCEPT !.left = n]
  <2>1. n \in Nat /\ Becomes(p, s)
    BY <1>6, DataAssumption
  <2> HIDE DEF t, n
  <2>2. s \in Process /\ s.fd = t.fd /\ s.st = t.st /\ Same(t, s)
    BY <1>4, <2>1, LeftSet DEF Same, Done
  <2> HIDE DEF s
  <2>3. Same(proc[p], s) /\ Alike(proc[p].fd, s.fd)
    BY <1>4, <2>2 DEF Same
  <2> QED BY <1>1, <1>2, <1>4, <2>1, <2>2, <2>3, OwnKeeps DEF IInv
<1> QED BY <1>3, <1>5, <1>6 DEF execve

LEMMA MakeKeeps ==
  ASSUME IInv, NEW p \in Pid, Make(p)
  PROVE  IInv'
<1> DEFINE n == proc[p].left - 1
           r == [proc[p] EXCEPT !.left = n]
<1>1. p \in Others /\ proc[p] \in Process /\ proc[p].st = "run"
  BY StepOther DEF Make, Done
<1>2. n \in Nat
  <2>1. proc[p].left \in Nat
    BY <1>1 DEF Process
  <2>2. proc[p].left > 0
    BY DEF Make
  <2> QED BY <2>1, <2>2
<1>3. Write(p, "x", r) /\ "x" \in Unit /\ UNCHANGED <<lines, typed>>
  BY DEF Make, Unit
<1> HIDE DEF n
<1>4. /\ r \in Process /\ r.fd = proc[p].fd /\ r.st \in Done /\ proc[p].st \in Done
      /\ Same(proc[p], r)
  BY <1>1, <1>2, LeftSet DEF Same, Done
<1> HIDE DEF r
<1> QED BY <1>1, <1>3, <1>4, WriteKeeps

LEMMA CopyKeeps ==
  ASSUME IInv, NEW p \in Pid, Copy(p)
  PROVE  IInv'
<1> DEFINE u == proc[p].held
           r == [proc[p] EXCEPT !.held = ""]
<1>1. p \in Others /\ proc[p] \in Process /\ proc[p].st = "run"
  BY StepOther DEF Copy, Filter, Done
<1>2. u \in Unit /\ Write(p, u, r) /\ UNCHANGED <<lines, typed>>
  BY <1>1 DEF Copy, Process
<1>3. r = [proc[p] EXCEPT !.held = ""]
  OBVIOUS
<1> HIDE DEF r, u
<1>4. /\ r \in Process /\ r.fd = proc[p].fd /\ r.st \in Done /\ proc[p].st \in Done
      /\ Same(proc[p], r)
  <2>1. /\ r \in Process /\ r.fd = proc[p].fd /\ r.st = "run" /\ r.up = proc[p].up
        /\ r.line = proc[p].line /\ r.prog = proc[p].prog
    BY <1>1, <1>3 DEF Process
  <2> QED BY <1>1, <2>1 DEF Same, Done
<1> QED BY <1>1, <1>2, <1>4, WriteKeeps

(* A filter takes a unit from its input, whose position may move.          *)
LEMMA HoldingFacts ==
  ASSUME NEW p, proc[p] \in Process, proc[p].st = "run", NEW u \in Unit
  PROVE  /\ Holding(p, u) \in Process /\ Holding(p, u).fd = proc[p].fd
         /\ Holding(p, u).st = "run" /\ Same(proc[p], Holding(p, u))
<1> DEFINE r == proc[p]
           h == Holding(p, u)
<1>1. r \in Process /\ r.st = "run" /\ h = [r EXCEPT !.held = u]
  BY DEF Holding
<1> HIDE DEF r, h
<1>2. /\ h \in Process /\ h.fd = r.fd /\ h.st = r.st /\ h.up = r.up /\ h.line = r.line
      /\ h.prog = r.prog
  BY <1>1 DEF Process
<1> QED BY <1>1, <1>2 DEF Same, r, h

LEMMA ReadTypedKeeps ==
  ASSUME IInv, NEW p \in Pid, ReadTyped(p)
  PROVE  IInv'
<1>1. p \in Others /\ proc[p] \in Process /\ proc[p].st = "run"
  BY StepOther DEF ReadTyped, Reading, Filter, Done
<1>2. "typed" \in Unit /\ Becomes(p, Holding(p, "typed")) /\ UNCHANGED files
  BY DEF ReadTyped, Unit
<1>3. Procs'
  <2> DEFINE s == Holding(p, "typed")
  <2>1. s \in Process /\ s.fd = proc[p].fd /\ s.st = "run" /\ Same(proc[p], s)
    BY <1>1, <1>2, HoldingFacts
  <2>2. Alike(proc[p].fd, s.fd)
    BY <2>1 DEF Alike
  <2>3. Becomes(p, s)
    BY <1>2
  <2> HIDE DEF s
  <2> QED BY <1>1, <1>2, <2>1, <2>2, <2>3, OwnKeeps DEF Done
<1>4. Stores'
  BY SizeAssumption DEF ReadTyped, IInv, Stores
<1> QED BY <1>3, <1>4 DEF IInv

LEMMA ReadFileKeeps ==
  ASSUME IInv, NEW p \in Pid, ReadFile(p)
  PROVE  IInv'
<1> DEFINE from == proc[p].fd[0]
           data == files[from.of]
           u == data[from.pos + 1]
           h == Holding(p, u)
           o == [from EXCEPT !.pos = @ + 1]
           f == [proc[p].fd EXCEPT ![0] = o]
           s == [h EXCEPT !.fd = f]
<1>1. /\ p \in Others /\ proc[p] \in Process /\ proc[p].st = "run" /\ Good(proc[p], DOMAIN files)
      /\ proc[p].fd \in [Fd -> Object]
  BY StepOther DEF ReadFile, Reading, Filter, Done
<1>2. from \in Object /\ from.kind = "read" /\ from.of \in DOMAIN files
  BY <1>1, FdFacts DEF ReadFile, Reading, Good
<1>3. u \in Unit
  <2>1. data \in Seq(Unit) /\ from.pos \in Nat /\ from.pos < Len(data)
    BY <1>2 DEF IInv, Stores, Object, ReadFile
  <2> HIDE DEF data, from
  <2> QED BY <2>1
<1>4. o \in Object /\ o.kind = from.kind /\ o.of = from.of
  <2>1. o = [from EXCEPT !.pos = @ + 1]
    OBVIOUS
  <2> HIDE DEF o, from
  <2> QED BY <1>2, <2>1, PosMoves DEF Object
<1>5. h \in Process /\ h.fd = proc[p].fd /\ h.st = "run" /\ Same(proc[p], h)
  <2> HIDE DEF u
  <2> QED BY <1>1, <1>3, HoldingFacts
<1>6. f \in [Fd -> Object] /\ Alike(proc[p].fd, f)
  <2> HIDE DEF o
  <2> QED BY <1>1, <1>2, <1>4, FdFacts DEF Alike
<1>7. Becomes(p, s) /\ UNCHANGED files
  <2>1. s = [h EXCEPT !.fd[0].pos = @ + 1]
    BY <1>5
  <2> QED BY <2>1 DEF ReadFile
<1> HIDE DEF f, h, u, o, from
<1>8. s \in Process /\ s.fd = f /\ s.st = "run" /\ Same(proc[p], s)
  BY <1>5, <1>6, FdSet DEF Same
<1> HIDE DEF s
<1>9. Procs'
  BY <1>1, <1>6, <1>7, <1>8, OwnKeeps DEF Done
<1>10. Stores'
  BY DEF ReadFile, IInv, Stores
<1> QED BY <1>9, <1>10 DEF IInv

LEMMA ReadPipeKeeps ==
  ASSUME IInv, NEW p \in Pid, ReadPipe(p)
  PROVE  IInv'
<1> DEFINE q == proc[p].fd[0].of
           u == Head(pipes[q])
<1>1. /\ p \in Others /\ proc[p] \in Process /\ proc[p].st = "run"
      /\ Good(proc[p], DOMAIN files)
  BY StepOther DEF ReadPipe, Reading, Filter, Done
<1>2. q \in Pipe /\ pipes \in [Pipe -> Seq(Unit)] /\ PipeSize \in Nat
  BY <1>1, FdFacts, SizeAssumption DEF ReadPipe, Reading, Good, End, IInv, Stores
<1>3. /\ pipes[q] # <<>> /\ Becomes(p, Holding(p, u)) /\ pipes' = [pipes EXCEPT ![q] = Tail(@)]
      /\ UNCHANGED <<files, lines, typed>>
  BY DEF ReadPipe
<1> HIDE DEF q
<1>4. /\ u \in Unit /\ Tail(pipes[q]) \in Seq(Unit) /\ Len(pipes[q]) <= PipeSize
      /\ Len(Tail(pipes[q])) = Len(pipes[q]) - 1 /\ Len(pipes[q]) \in Nat
  BY <1>2, <1>3, HeadTailProperties DEF IInv, Stores
<1>5. Len(Tail(pipes[q])) <= PipeSize
  BY <1>2, <1>4
<1> HIDE DEF u
<1>6. Procs'
  <2> DEFINE s == Holding(p, u)
  <2>1. s \in Process /\ s.fd = proc[p].fd /\ s.st = "run" /\ Same(proc[p], s)
    BY <1>1, <1>4, HoldingFacts
  <2>2. Alike(proc[p].fd, s.fd)
    BY <2>1 DEF Alike
  <2>3. Becomes(p, s)
    BY <1>3
  <2> HIDE DEF s
  <2> QED BY <1>1, <1>3, <2>1, <2>2, <2>3, OwnKeeps DEF Done
<1>7. Stores'
  BY <1>2, <1>3, <1>4, <1>5 DEF IInv, Stores
<1> QED BY <1>6, <1>7 DEF IInv

LEMMA ProgramKeeps ==
  ASSUME IInv, NEW p \in Pid, Program(p)
  PROVE  IInv'
<1>1. CASE Ends(p)
  <2>1. p \in Others /\ proc[p].st = "run"
    BY <1>1, StepOther DEF Ends, Done
  <2> QED BY <1>1, <2>1, ExitsKeeps DEF Ends
<1>2. CASE ReadEnd(p)
  <2>1. proc[p].st = "run" /\ Exit(p) /\ UNCHANGED <<pipes, files, lines, typed>>
    BY <1>2 DEF ReadEnd, Reading, Filter
  <2>2. p \in Others
    BY <2>1, StepOther DEF Done
  <2> QED BY <2>1, <2>2, ExitsKeeps
<1> QED BY <1>1, <1>2, MakeKeeps, CopyKeeps, ReadTypedKeeps, ReadFileKeeps, ReadPipeKeeps
        DEF Program

----------------------------------------------------------------------------
(* parseArgs.                                                              *)

LEMMA ParsingFacts ==
  ASSUME IInv, NEW p \in Pid, proc[p].st = "parse"
  PROVE  /\ p \in Others /\ proc[p] \in Process /\ proc[p].fd \in [Fd -> Object]
         /\ proc[p].line \in Line /\ proc[p].line # <<>> /\ proc[p].line \in Seq(STRING)
         /\ Parses(proc[p], DOMAIN files) /\ proc[p].n \in 2..Len(proc[p].line) + 1
         /\ \A x \in Fd : proc[p].fd[x].kind = "read" => proc[p].fd[x].of \in DOMAIN files
<1>1. /\ p \in Others /\ proc[p] \in Process /\ proc[p].fd \in [Fd -> Object]
      /\ Good(proc[p], DOMAIN files)
  BY StepOther
<1>2. ~Vacant(proc[p]) /\ ~Single(proc[p], DOMAIN files) /\ ~Pipes(proc[p], DOMAIN files)
  BY DEF Vacant, Single, Pipes, Writer, Reader, Done
<1>3. /\ proc[p].line \in Line /\ proc[p].line # <<>> /\ Parses(proc[p], DOMAIN files)
  BY <1>1, <1>2 DEF Good
<1>4. proc[p].line \in Seq(STRING) /\ proc[p].n \in 2..Len(proc[p].line) + 1
  BY <1>3, DataAssumption DEF Parses, Behind
<1> QED BY <1>1, <1>3, <1>4 DEF Good

LEMMA NSet ==
  ASSUME NEW r \in Process, NEW n \in Nat, NEW s, s = [r EXCEPT !.n = n]
  PROVE  /\ s \in Process /\ s.n = n /\ s.st = r.st /\ s.up = r.up /\ s.line = r.line
         /\ s.prog = r.prog
BY DEF Process

(* The next token, with other descriptors.                                 *)
LEMMA NextFacts ==
  ASSUME IInv, NEW p \in Pid, proc[p].st = "parse", NEW f \in [Fd -> Object],
         NEW s, s = [Next1(p) EXCEPT !.fd = f]
  PROVE  /\ s \in Process /\ s.fd = f /\ s.n = proc[p].n + 1 /\ s.st = "parse"
         /\ Same(proc[p], s)
<1> DEFINE r == proc[p]
           t == Next1(p)
<1>1. r \in Process /\ r.n \in Nat
  BY ParsingFacts DEF Process
<1>2. t = [r EXCEPT !.n = r.n + 1] /\ r.n + 1 \in Nat
  BY <1>1 DEF Next1
<1>3. s = [t EXCEPT !.fd = f]
  OBVIOUS
<1> HIDE DEF r, t
<1>4. /\ t \in Process /\ t.n = r.n + 1 /\ t.st = r.st /\ t.up = r.up /\ t.line = r.line
      /\ t.prog = r.prog
  BY <1>1, <1>2, NSet
<1>5. /\ s \in Process /\ s.fd = f /\ s.n = t.n /\ s.st = t.st /\ s.up = t.up
      /\ s.line = t.line /\ s.prog = t.prog
  BY <1>3, <1>4 DEF Process
<1> QED BY <1>4, <1>5 DEF Same, r

LEMMA ParseKeeps ==
  ASSUME IInv, NEW p \in Pid, Parsing(p), NEW s \in Process, Becomes(p, s), s.st = "parse",
         s.n = proc[p].n + 1, Same(proc[p], s), DOMAIN files \subseteq DOMAIN files', Stores',
         Alone(s), Input(s, s.n, DOMAIN files'), Output(s, s.n),
         \A x \in Fd : s.fd[x].kind = "read" => s.fd[x].of \in DOMAIN files'
  PROVE  IInv'
<1>1. /\ p \in Others /\ proc[p].line \in Line /\ proc[p].line # <<>>
      /\ proc[p].line \in Seq(STRING)
      /\ proc[p].n \in 2..Len(proc[p].line) + 1 /\ proc[p].n <= Len(proc[p].line)
  BY ParsingFacts DEF Parsing
<1>2. s.n \in 2..Len(s.line) + 1
  <2>1. Len(proc[p].line) \in Nat /\ s.line = proc[p].line
    BY <1>1 DEF Same
  <2> QED BY <1>1, <2>1
<1>3. Parses(s, DOMAIN files')
  BY <1>2 DEF Parses, Behind
<1>4. Good(s, DOMAIN files')
  BY <1>1, <1>3 DEF Good, Same, Alone
<1>5. \A q : ~Writer(s, q) /\ ~Reader(s, q)
  BY VacantKeeps DEF Done
<1>6. Procs'
  BY <1>1, <1>4, <1>5, BecomeKeeps DEF Becomes, Same
<1> QED BY <1>6 DEF IInv

(* A token that redirects nothing.                                         *)
LEMMA InputPasses ==
  ASSUME NEW r, NEW s, NEW have, NEW has, have \subseteq has, r.line \in Seq(STRING),
         r.n \in 2..Len(r.line), s.n = r.n + 1, s.line = r.line, s.prog = r.prog,
         s.fd[0].kind = r.fd[0].kind, s.fd[0].of = r.fd[0].of, Input(r, r.n, have),
         r.n < Len(r.line) /\ r.line[r.n] = "<" => r.line[r.n + 1] \notin have
  PROVE  Input(s, s.n, has)
<1>1. PICK there \in SUBSET File :
        /\ DOMAIN Files \subseteq there /\ there \subseteq have
        /\ r.fd[0].of = LastBefore(r.line, r.n, {"<"}, there)
  BY DEF Input
<1>2. LastBefore(r.line, r.n + 1, {"<"}, there) = LastBefore(r.line, r.n, {"<"}, there)
  BY <1>1, LastNext
<1> QED BY <1>1, <1>2 DEF Input

LEMMA OutputPasses ==
  ASSUME NEW r, NEW s, r.line \in Seq(STRING),
         r.n \in 2..Len(r.line), s.n = r.n + 1, s.line = r.line,
         s.fd[1].kind = r.fd[1].kind, s.fd[1].of = r.fd[1].of, Output(r, r.n),
         r.n < Len(r.line) /\ r.line[r.n] \in {">", ">>"} => r.line[r.n + 1] \notin File
  PROVE  Output(s, s.n)
<1>1. LastBefore(r.line, r.n + 1, {">", ">>"}, File) = LastBefore(r.line, r.n, {">", ">>"}, File)
  BY LastNext
<1> QED BY <1>1 DEF Output

LEMMA SkipKeeps ==
  ASSUME IInv, NEW p \in Pid, Skip(p)
  PROVE  IInv'
<1> DEFINE r == proc[p]
           s == Next1(p)
<1>1. /\ p \in Others /\ r \in Process /\ r.fd \in [Fd -> Object] /\ r.line \in Seq(STRING)
      /\ Parses(r, DOMAIN files) /\ r.n \in 2..Len(r.line) + 1 /\ r.n <= Len(r.line)
      /\ \A x \in Fd : r.fd[x].kind = "read" => r.fd[x].of \in DOMAIN files
  BY ParsingFacts DEF Skip, Parsing
<1>2. r.n \in Nat /\ s = [r EXCEPT !.n = r.n + 1] /\ r.n + 1 \in Nat /\ r.n \in 2..Len(r.line)
  <2>1. s = [r EXCEPT !.n = r.n + 1]
    BY DEF Next1
  <2> HIDE DEF s, r
  <2>2. Len(r.line) \in Nat
    BY <1>1
  <2> QED BY <1>1, <2>1, <2>2
<1>3. Becomes(p, s) /\ r.line[r.n] \notin {"<", ">", ">>", "|"} /\ r.st = "parse"
      /\ UNCHANGED <<files, pipes, lines, typed>>
  BY DEF Skip, Parsing, Token
<1> HIDE DEF r, s
<1>4. /\ s \in Process /\ s.n = r.n + 1 /\ s.st = "parse" /\ s.up = r.up /\ s.line = r.line
      /\ s.prog = r.prog /\ s.fd = r.fd
  BY <1>1, <1>2, <1>3 DEF Process
<1>5. Input(s, s.n, DOMAIN files') /\ Output(s, s.n) /\ Alone(s)
  <2>1. Input(r, r.n, DOMAIN files) /\ Output(r, r.n) /\ Alone(r)
    BY <1>1 DEF Parses
  <2>2. Input(s, s.n, DOMAIN files')
    BY <1>1, <1>2, <1>3, <1>4, <2>1, InputPasses
  <2>3. Output(s, s.n)
    BY <1>1, <1>2, <1>3, <1>4, <2>1, OutputPasses
  <2> QED BY <1>4, <2>1, <2>2, <2>3 DEF Alone
<1>6. Stores' /\ Parsing(p) /\ Same(r, s)
  BY <1>3, <1>4 DEF IInv, Stores, Same, Skip
<1>7. \A x \in Fd : s.fd[x].kind = "read" => s.fd[x].of \in DOMAIN files'
  BY <1>1, <1>3, <1>4
<1> QED BY <1>3, <1>4, <1>5, <1>6, <1>7, ParseKeeps DEF r

LEMMA SaysFacts ==
  ASSUME IInv, NEW p \in Pid, proc[p].st = "parse", NEW f \in [Fd -> Object], Says(p, f),
         UNCHANGED <<pipes, lines, typed>>
  PROVE  /\ Stores' /\ DOMAIN files' = DOMAIN files
         /\ \E s \in Process : /\ Becomes(p, s) /\ s.st = "parse" /\ s.n = proc[p].n + 1
                               /\ Same(proc[p], s) /\ Alike(f, s.fd)
<1> DEFINE out == proc[p].fd[1]
           g == Moved(f)
           s == [Next1(p) EXCEPT !.fd = g]
<1>1. g \in [Fd -> Object] /\ Alike(f, g)
  BY MovedAlike
<1>2. Becomes(p, s) /\ files' = Written(out, "msg") /\ "msg" \in Unit
  BY DEF Says, Unit
<1>3. out \in Object
  BY ParsingFacts, FdFacts
<1> HIDE DEF out, g
<1>4. /\ s \in Process /\ s.fd = g /\ s.n = proc[p].n + 1 /\ s.st = "parse"
      /\ Same(proc[p], s)
  BY <1>1, NextFacts
<1>5. Stores' /\ DOMAIN files' = DOMAIN files
  BY <1>2, <1>3, StoresWritten
<1> HIDE DEF s
<1> QED BY <1>1, <1>2, <1>4, <1>5

(* A token that was said, and that redirects nothing.                      *)
LEMMA SaysKeeps ==
  ASSUME IInv, NEW p \in Pid, Parsing(p), Says(p, proc[p].fd),
         Token(p) = "<" => Named(p, DOMAIN files) = {},
         Token(p) \in {">", ">>"} => Named(p, File) = {}
  PROVE  IInv'
<1> DEFINE r == proc[p]
<1>1. /\ p \in Others /\ r \in Process /\ r.fd \in [Fd -> Object] /\ r.line \in Seq(STRING)
      /\ Parses(r, DOMAIN files) /\ r.n \in 2..Len(r.line)
      /\ \A x \in Fd : r.fd[x].kind = "read" => r.fd[x].of \in DOMAIN files
  BY ParsingFacts DEF Parsing
<1>2. /\ Stores' /\ DOMAIN files' = DOMAIN files
      /\ \E s \in Process : /\ Becomes(p, s) /\ s.st = "parse" /\ s.n = r.n + 1
                            /\ Same(r, s) /\ Alike(r.fd, s.fd)
  BY <1>1, SaysFacts DEF Parsing
<1>3. PICK s \in Process : /\ Becomes(p, s) /\ s.st = "parse" /\ s.n = r.n + 1
                           /\ Same(r, s) /\ Alike(r.fd, s.fd)
  BY <1>2
<1>4. /\ r.n < Len(r.line) /\ r.line[r.n] = "<" => r.line[r.n + 1] \notin DOMAIN files
      /\ r.n < Len(r.line) /\ r.line[r.n] \in {">", ">>"} => r.line[r.n + 1] \notin File
  BY DEF Named, Token
<1>5. /\ s.line = r.line /\ s.prog = r.prog
      /\ \A x \in Fd : s.fd[x].kind = r.fd[x].kind /\ s.fd[x].of = r.fd[x].of
  BY <1>3 DEF Same, Alike
<1> HIDE DEF r
<1>6. Input(r, r.n, DOMAIN files) /\ Output(r, r.n) /\ Alone(r)
  BY <1>1 DEF Parses
<1>7. Input(s, s.n, DOMAIN files')
  BY <1>1, <1>2, <1>3, <1>4, <1>5, <1>6, FdFacts, InputPasses
<1>8. Output(s, s.n)
  BY <1>1, <1>3, <1>4, <1>5, <1>6, FdFacts, OutputPasses
<1>9. Alone(s) /\ \A x \in Fd : s.fd[x].kind = "read" => s.fd[x].of \in DOMAIN files'
  BY <1>1, <1>2, <1>5, <1>6 DEF Alone
<1> QED BY <1>2, <1>3, <1>7, <1>8, <1>9, ParseKeeps DEF r

LEMMA RedirectInKeeps ==
  ASSUME IInv, NEW p \in Pid, RedirectIn(p)
  PROVE  IInv'
<1> DEFINE r == proc[p]
           low == Lowest(r.fd)
<1>1. /\ p \in Others /\ r \in Process /\ r.fd \in [Fd -> Object] /\ r.line \in Seq(STRING)
      /\ Parses(r, DOMAIN files) /\ r.n \in 2..Len(r.line) /\ Parsing(p) /\ r.st = "parse"
      /\ \A x \in Fd : r.fd[x].kind = "read" => r.fd[x].of \in DOMAIN files
      /\ Token(p) = "<"
  BY ParsingFacts DEF Parsing, RedirectIn
<1>2. CASE Named(p, DOMAIN files) = {} /\ Says(p, r.fd)
  BY <1>1, <1>2, SaysKeeps
<1>3. ASSUME HasRoom(r.fd), NEW f \in Named(p, DOMAIN files),
             Says(p, [r.fd EXCEPT ![low] = Open("read", f), ![0] = Open("read", f)])
      PROVE  IInv'
  <2> DEFINE o == Open("read", f)
             g == [r.fd EXCEPT ![low] = o, ![0] = o]
  <2>1. /\ f \in DOMAIN files /\ f \in File /\ r.n < Len(r.line) /\ r.line[r.n] = "<"
        /\ r.line[r.n + 1] = f
    BY <1>1 DEF Named, Token, IInv, Stores
  <2>2. o \in Object /\ o.kind = "read" /\ o.of = f
    <3>1. o \in Object
      BY <2>1, ObjectFacts
    <3>2. o.kind = "read" /\ o.of = f
      BY OpenFacts
    <3> QED BY <3>1, <3>2
  <2>3. low \in Fd /\ r.fd[low] = Closed /\ low # 1
    <3>1. low \in Fd /\ r.fd[low] = Closed
      BY <1>3, LowestClosed
    <3>2. r.fd[1].kind # "closed"
      BY <1>1 DEF Parses, Output
    <3> QED BY <3>1, <3>2, OpenFacts
  <2> HIDE DEF o, low, r
  <2>4. /\ g \in [Fd -> Object] /\ g[0] = o /\ g[1] = r.fd[1]
        /\ \A x \in Fd : g[x] = r.fd[x] \/ g[x] = o
    BY <1>1, <2>2, <2>3, FdFacts
  <2>5. Says(p, g) /\ UNCHANGED <<pipes, lines, typed>>
    BY <1>1, <1>3 DEF Parsing, o
  <2> HIDE DEF g
  <2>6. /\ Stores' /\ DOMAIN files' = DOMAIN files
        /\ \E s \in Process : /\ Becomes(p, s) /\ s.st = "parse" /\ s.n = r.n + 1
                              /\ Same(r, s) /\ Alike(g, s.fd)
    BY <1>1, <2>4, <2>5, SaysFacts DEF r
  <2>7. PICK s \in Process : /\ Becomes(p, s) /\ s.st = "parse" /\ s.n = r.n + 1
                             /\ Same(r, s) /\ Alike(g, s.fd)
    BY <2>6
  <2>8. /\ s.line = r.line /\ s.prog = r.prog
        /\ \A x \in Fd : s.fd[x].kind = g[x].kind /\ s.fd[x].of = g[x].of
    BY <2>7 DEF Same, Alike
  <2>9. Input(r, r.n, DOMAIN files) /\ Output(r, r.n) /\ Alone(r)
    BY <1>1 DEF Parses
  <2>10. Input(s, s.n, DOMAIN files')
    <3> DEFINE there == DOMAIN files
    <3>1. LastBefore(r.line, r.n + 1, {"<"}, there) = f
      <4>1. r.line[r.n] \in {"<"} /\ r.line[r.n + 1] \in there
        BY <2>1
      <4> HIDE DEF there
      <4> QED BY <1>1, <2>1, <4>1, LastNext
    <3>2. there \in SUBSET File /\ DOMAIN Files \subseteq there /\ there \subseteq DOMAIN files'
      BY <2>6 DEF IInv, Stores
    <3>3. s.fd[0].kind = "read" /\ s.fd[0].of = f
      BY <2>2, <2>4, <2>8, FdFacts
    <3>4. s.prog = s.line[1]
      BY <2>8, <2>9 DEF Input
    <3>5. s.fd[0].of = LastBefore(s.line, s.n, {"<"}, there)
      BY <2>7, <2>8, <3>1, <3>3
    <3> HIDE DEF there
    <3> QED BY <3>2, <3>3, <3>4, <3>5 DEF Input
  <2>11. Output(s, s.n)
    BY <1>1, <2>1, <2>4, <2>7, <2>8, <2>9, FdFacts, OutputPasses
  <2>12. Alone(s)
    BY <2>2, <2>4, <2>8, <2>9 DEF Alone, End
  <2>13. \A x \in Fd : s.fd[x].kind = "read" => s.fd[x].of \in DOMAIN files'
    BY <1>1, <2>1, <2>2, <2>4, <2>6, <2>8
  <2> QED BY <1>1, <2>6, <2>7, <2>10, <2>11, <2>12, <2>13, ParseKeeps DEF r
<1> QED BY <1>2, <1>3 DEF RedirectIn

LEMMA RedirectOutKeeps ==
  ASSUME IInv, NEW p \in Pid, RedirectOut(p)
  PROVE  IInv'
<1> DEFINE r == proc[p]
           out == r.fd[1]
           said == Written(out, "msg")
<1>1. /\ p \in Others /\ r \in Process /\ r.fd \in [Fd -> Object] /\ r.line \in Seq(STRING)
      /\ Parses(r, DOMAIN files) /\ r.n \in 2..Len(r.line) /\ Parsing(p) /\ r.st = "parse"
      /\ \A x \in Fd : r.fd[x].kind = "read" => r.fd[x].of \in DOMAIN files
      /\ Token(p) \in {">", ">>"} /\ UNCHANGED <<pipes, lines, typed>>
  BY ParsingFacts DEF Parsing, RedirectOut
<1>2. CASE Named(p, File) = {} /\ Says(p, r.fd)
  BY <1>1, <1>2, SaysKeeps
<1>3. ASSUME NEW f \in Named(p, File), NEW kind \in {"write", "append"},
             Becomes(p, [Next1(p) EXCEPT !.fd[1] = Open(kind, f)]),
             files' = [g \in DOMAIN files \cup {f} |->
                         IF g \in DOMAIN files THEN said[g] ELSE <<>>]
      PROVE  IInv'
  <2> DEFINE o == Open(kind, f)
             g == [r.fd EXCEPT ![1] = o]
             s == [Next1(p) EXCEPT !.fd = g]
  <2>1. /\ f \in File /\ r.n < Len(r.line) /\ r.line[r.n] \in {">", ">>"}
        /\ r.line[r.n + 1] = f
    BY <1>1 DEF Named, Token
  <2>2. o \in Object
    BY <2>1, ObjectFacts
  <2>3. o.kind = kind /\ o.of = f
    BY OpenFacts
  <2>4. Becomes(p, s)
    <3>1. Next1(p).fd = r.fd
      BY <1>1 DEF Next1, Process
    <3>2. s = [Next1(p) EXCEPT !.fd[1] = Open(kind, f)]
      BY <3>1
    <3> HIDE DEF s
    <3> QED BY <1>3, <3>2
  <2>5. out \in Object
    BY <1>1, FdFacts
  <2>6. Stores' /\ DOMAIN files \subseteq DOMAIN files'
    <3>1. "msg" \in Unit
      BY DEF Unit
    <3> HIDE DEF out
    <3>2. \A h \in DOMAIN files : said[h] \in Seq(Unit)
      BY <2>5, <3>1, WrittenType
    <3> HIDE DEF said
    <3>3. DOMAIN files' = DOMAIN files \cup {f} /\ \A h \in DOMAIN files' : files'[h] \in Seq(Unit)
      BY <1>3, <3>2
    <3> QED BY <1>1, <2>1, <3>3 DEF IInv, Stores
  <2> HIDE DEF o, out, said
  <2>7. g \in [Fd -> Object] /\ g[1] = o /\ \A x \in Fd : x # 1 => g[x] = r.fd[x]
    BY <1>1, <2>2, FdFacts
  <2> HIDE DEF g
  <2>8. s \in Process /\ s.fd = g /\ s.n = r.n + 1 /\ s.st = "parse" /\ Same(r, s)
    BY <1>1, <2>7, NextFacts
  <2> HIDE DEF s, r
  <2>9. s.line = r.line /\ s.prog = r.prog
    BY <2>8 DEF Same
  <2>10. Input(r, r.n, DOMAIN files) /\ Output(r, r.n) /\ Alone(r)
    BY <1>1 DEF Parses
  <2>11. Input(s, s.n, DOMAIN files')
    <3>1. r.line[r.n] # "<"
      BY <2>1
    <3>2. s.fd[0] = r.fd[0]
      BY <2>7, <2>8, FdFacts
    <3>3. r.n < Len(r.line) /\ r.line[r.n] = "<" => r.line[r.n + 1] \notin DOMAIN files
      BY <3>1
    <3>4. s.fd[0].kind = r.fd[0].kind /\ s.fd[0].of = r.fd[0].of
      BY <3>2
    <3> QED BY <1>1, <2>6, <2>8, <2>9, <2>10, <3>3, <3>4, InputPasses
  <2>12. Output(s, s.n)
    <3>1. LastBefore(r.line, r.n + 1, {">", ">>"}, File) = f
      BY <1>1, <2>1, LastNext
    <3> QED BY <2>3, <2>7, <2>8, <2>9, <3>1 DEF Output
  <2>13. Alone(s)
    BY <2>3, <2>7, <2>8, <2>10 DEF Alone, End
  <2>14. \A x \in Fd : s.fd[x].kind = "read" => s.fd[x].of \in DOMAIN files'
    BY <1>1, <2>3, <2>6, <2>7, <2>8
  <2> QED BY <1>1, <2>4, <2>6, <2>8, <2>11, <2>12, <2>13, <2>14, ParseKeeps DEF r
<1>4. CASE \E f \in Named(p, File) :
             LET kind == IF Token(p) = ">" THEN "write" ELSE "append"
             IN  /\ Becomes(p, [Next1(p) EXCEPT !.fd[1] = Open(kind, f)])
                 /\ files' = [g \in DOMAIN files \cup {f} |->
                                IF g \in DOMAIN files THEN said[g] ELSE <<>>]
  <2> HIDE DEF said
  <2> QED BY <1>3, <1>4
<1> QED BY <1>2, <1>4 DEF RedirectOut

LEMMA ParseStepKeeps ==
  ASSUME IInv, NEW p \in Pid, Parse(p)
  PROVE  IInv'
<1>1. CASE Bar(p)
  BY <1>1, SaysKeeps DEF Bar
<1> QED BY <1>1, SkipKeeps, RedirectInKeeps, RedirectOutKeeps DEF Parse

----------------------------------------------------------------------------
(* bepipin.                                                                *)

(* A writer has write ends of its pipe and of no other, and so a reader.   *)
LEMMA WriterEnds ==
  ASSUME NEW r, NEW q, Writer(r, q)
  PROVE  /\ \E x \in Fd : r.fd[x] = Open("w", q)
         /\ \A x \in Fd : r.fd[x].kind = "w" => r.fd[x] = Open("w", q)
<1>1. ASSUME NEW rs, NEW ws, NEW x \in ws, x \in Fd, EndsAre(r.fd, q, rs, ws)
      PROVE  /\ \E y \in Fd : r.fd[y] = Open("w", q)
             /\ \A y \in Fd : r.fd[y].kind = "w" => r.fd[y] = Open("w", q)
  BY <1>1, OpenFacts DEF EndsAre, End
<1>2. CASE \E a, b \in Above : WriterAt(r, q, a, b)
  <2>1. PICK a \in Above, b \in Above : WriterAt(r, q, a, b)
    BY <1>2
  <2>2. b \in Fd /\ \E rs, ws : b \in ws /\ EndsAre(r.fd, q, rs, ws)
    BY <2>1 DEF WriterAt, Above
  <2> QED BY <2>2, <1>1
<1>3. CASE EndsAre(r.fd, q, {}, {1})
  BY <1>1, <1>3, FdFacts
<1> QED BY <1>2, <1>3 DEF Writer

LEMMA ReaderEnds ==
  ASSUME NEW r, NEW q, Reader(r, q)
  PROVE  /\ \E x \in Fd : r.fd[x] = Open("r", q)
         /\ \A x \in Fd : r.fd[x].kind = "r" => r.fd[x] = Open("r", q)
<1>1. ASSUME NEW rs, NEW ws, NEW x \in rs, x \in Fd, EndsAre(r.fd, q, rs, ws)
      PROVE  /\ \E y \in Fd : r.fd[y] = Open("r", q)
             /\ \A y \in Fd : r.fd[y].kind = "r" => r.fd[y] = Open("r", q)
  BY <1>1, OpenFacts DEF EndsAre, End
<1>2. CASE \E a, b \in Above : ReaderAt(r, q, a, b)
  <2>1. PICK a \in Above, b \in Above : ReaderAt(r, q, a, b)
    BY <1>2
  <2>2. a \in Fd /\ \E rs, ws : a \in rs /\ EndsAre(r.fd, q, rs, ws)
    BY <2>1 DEF ReaderAt, Above
  <2> QED BY <2>2, <1>1
<1>3. CASE EndsAre(r.fd, q, {0}, {})
  BY <1>1, <1>3, FdFacts
<1> QED BY <1>2, <1>3 DEF Reader

(* Nobody is both.                                                         *)
LEMMA Exclusive ==
  ASSUME NEW r, NEW q, NEW k, Writer(r, q)
  PROVE  ~Reader(r, k)
<1> SUFFICES ASSUME Reader(r, k) PROVE FALSE
  OBVIOUS
<1> PICK x \in Fd : r.fd[x] = Open("w", q)
  BY WriterEnds
<1> PICK y \in Fd : r.fd[y] = Open("r", k)
  BY ReaderEnds
<1>1. r.fd[x].kind = "w" /\ r.fd[y].kind = "r"
  BY EndFacts
<1>2. ASSUME NEW n, NEW ws, EndsAre(r.fd, n, {}, ws) PROVE FALSE
  <2>1. y \in ws => r.fd[y].kind = "w"
    BY <1>2, EndFacts DEF EndsAre
  <2>2. y \notin ws => r.fd[y].kind \notin End
    BY <1>2 DEF EndsAre
  <2> QED BY <1>1, <2>1, <2>2 DEF End
<1>3. ASSUME NEW n, NEW rs, EndsAre(r.fd, n, rs, {}) PROVE FALSE
  <2>1. x \in rs => r.fd[x].kind = "r"
    BY <1>3, EndFacts DEF EndsAre
  <2>2. x \notin rs => r.fd[x].kind \notin End
    BY <1>3 DEF EndsAre
  <2> QED BY <1>1, <2>1, <2>2 DEF End
<1>4. r.st = "ops" /\ \E a, b \in Above : WriterAt(r, q, a, b)
  BY <1>2 DEF Writer
<1>5. \E a, b \in Above : ReaderAt(r, k, a, b)
  BY <1>3 DEF Reader
<1>6. PICK a, b : r.todo = WriterTodo(a, b)
  BY <1>2, <1>4 DEF WriterAt
<1>7. PICK c, d : r.todo = ReaderTodo(c, d)
  <2>1. PICK c \in Above, d \in Above : ReaderAt(r, k, c, d)
    BY <1>5
  <2>2. CASE r.todo = ReaderTodo(c, d)
    BY <2>2
  <2>3. CASE EndsAre(r.fd, k, {c}, {}) \/ EndsAre(r.fd, k, {0, c}, {})
    BY <2>3, <1>3
  <2> QED BY <2>1, <2>2, <2>3 DEF ReaderAt
<1>8. WriterTodo(a, b)[2] = Op("close", 1) /\ ReaderTodo(c, d)[2] = Op("close", 0)
  BY DEF WriterTodo, ReaderTodo
<1>9. Op("close", 1).x = 1 /\ Op("close", 0).x = 0
  BY DEF Op
<1> QED BY <1>6, <1>7, <1>8, <1>9

(* The process has parsed its line.                                        *)
LEMMA ParsedFacts ==
  ASSUME IInv, NEW p \in Pid, Parsed(p)
  PROVE  /\ p \in Others /\ proc[p] \in Process /\ proc[p].fd \in [Fd -> Object]
         /\ proc[p].line \in Line /\ proc[p].line # <<>> /\ Alone(proc[p])
         /\ proc[p].st = "parse"
         /\ Input(proc[p], Behind(proc[p]), DOMAIN files) /\ Output(proc[p], Behind(proc[p]))
         /\ \A x \in Fd : proc[p].fd[x].kind = "read" => proc[p].fd[x].of \in DOMAIN files
<1>1. /\ p \in Others /\ proc[p] \in Process /\ proc[p].fd \in [Fd -> Object]
      /\ proc[p].line \in Line /\ proc[p].line # <<>> /\ proc[p].line \in Seq(STRING)
      /\ Parses(proc[p], DOMAIN files) /\ proc[p].n \in 2..Len(proc[p].line) + 1
      /\ \A x \in Fd : proc[p].fd[x].kind = "read" => proc[p].fd[x].of \in DOMAIN files
  BY ParsingFacts DEF Parsed
<1>2. proc[p].n = Behind(proc[p])
  <2>1. proc[p].n > Len(proc[p].line) /\ Len(proc[p].line) \in Nat
    BY <1>1 DEF Parsed
  <2> QED BY <1>1, <2>1 DEF Behind
<1> QED BY <1>1, <1>2 DEF Parses

LEMMA NoPipeKeeps ==
  ASSUME IInv, NEW p \in Pid, NoPipe(p)
  PROVE  IInv'
<1> DEFINE r == proc[p]
           s == [r EXCEPT !.st = "say"]
<1>1. /\ p \in Others /\ r \in Process /\ r.line \in Line /\ r.line # <<>> /\ Alone(r)
      /\ r.st = "parse" /\ Input(r, Behind(r), DOMAIN files) /\ Output(r, Behind(r))
      /\ \A x \in Fd : r.fd[x].kind = "read" => r.fd[x].of \in DOMAIN files
  BY ParsedFacts DEF NoPipe
<1>2. /\ proc' = [proc EXCEPT ![p] = s] /\ Bars(r.line) = {}
      /\ UNCHANGED <<files, pipes, lines, typed>>
  BY DEF NoPipe, Now, Parsed
<1>3. s = [r EXCEPT !.st = "say"]
  OBVIOUS
<1> HIDE DEF s
<1>4. /\ s \in Process /\ s.fd = r.fd /\ s.st = "say" /\ s.up = r.up /\ s.line = r.line
      /\ s.prog = r.prog
  BY <1>1, <1>3, StSet
<1> HIDE DEF r
<1>5. Single(s, DOMAIN files')
  <2>1. Behind(s) = Behind(r) /\ Alone(s)
    BY <1>1, <1>4 DEF Behind, Alone
  <2>2. Input(s, Behind(s), DOMAIN files') /\ Output(s, Behind(s))
    BY <1>1, <1>2, <1>4, <2>1 DEF Input, Output
  <2> QED BY <1>2, <1>4, <2>1, <2>2 DEF Single, Done
<1>6. Good(s, DOMAIN files')
  BY <1>1, <1>2, <1>4, <1>5 DEF Good, Single, Alone
<1>7. ASSUME NEW q PROVE ~Writer(s, q) /\ ~Reader(s, q)
  <2>1. s.fd[0].kind \notin End /\ s.fd[1].kind \notin End /\ s.st # "ops"
    BY <1>4, <1>5, FdFacts DEF Single, Alone
  <2>2. ~EndsAre(s.fd, q, {}, {1}) /\ ~EndsAre(s.fd, q, {0}, {})
    <3>1. s.fd[1] # Open("w", q) /\ s.fd[0] # Open("r", q)
      BY <2>1, EndFacts DEF End
    <3> QED BY <3>1, FdFacts DEF EndsAre
  <2> QED BY <2>1, <2>2 DEF Writer, Reader
<1>8. Procs'
  <2>1. s.up = proc[p].up /\ s.st # "none" /\ proc[p].st # "none"
    BY <1>1, <1>4 DEF r
  <2> QED BY <1>1, <1>2, <1>4, <1>6, <1>7, <2>1, BecomeKeeps
<1>9. Stores'
  BY <1>2 DEF IInv, Stores
<1> QED BY <1>8, <1>9 DEF IInv

(* What is left to do, one operation at a time: s is r after the next.     *)
Goes(r, s) == /\ s.fd = Does(r.fd, Head(r.todo)) /\ s.todo = Tail(r.todo)
              /\ s.st = IF Len(r.todo) = 1 THEN "say" ELSE "ops"

LEMMA TodoFacts ==
  ASSUME NEW r, NEW s, Goes(r, s), NEW a, NEW b, NEW c, NEW d
  PROVE  /\ r.todo = <<a, b, c, d>>
              => s.fd = Does(r.fd, a) /\ s.todo = <<b, c, d>> /\ s.st = "ops"
         /\ r.todo = <<b, c, d>> => s.fd = Does(r.fd, b) /\ s.todo = <<c, d>> /\ s.st = "ops"
         /\ r.todo = <<c, d>> => s.fd = Does(r.fd, c) /\ s.todo = <<d>> /\ s.st = "ops"
         /\ r.todo = <<d>> => s.fd = Does(r.fd, d) /\ s.st = "say"
<1>1. ASSUME r.todo = <<a, b, c, d>>
      PROVE  s.fd = Does(r.fd, a) /\ s.todo = <<b, c, d>> /\ s.st = "ops"
  <2>1. Head(r.todo) = a /\ Tail(r.todo) = <<b, c, d>> /\ Len(r.todo) # 1
    BY <1>1
  <2> QED BY <2>1 DEF Goes
<1>2. ASSUME r.todo = <<b, c, d>>
      PROVE  s.fd = Does(r.fd, b) /\ s.todo = <<c, d>> /\ s.st = "ops"
  <2>1. Head(r.todo) = b /\ Tail(r.todo) = <<c, d>> /\ Len(r.todo) # 1
    BY <1>2
  <2> QED BY <2>1 DEF Goes
<1>3. ASSUME r.todo = <<c, d>>
      PROVE  s.fd = Does(r.fd, c) /\ s.todo = <<d>> /\ s.st = "ops"
  <2>1. Head(r.todo) = c /\ Tail(r.todo) = <<d>> /\ Len(r.todo) # 1
    BY <1>3
  <2> QED BY <2>1 DEF Goes
<1>4. ASSUME r.todo = <<d>> PROVE s.fd = Does(r.fd, d) /\ s.st = "say"
  <2>1. Head(r.todo) = d /\ Len(r.todo) = 1
    BY <1>4
  <2> QED BY <2>1 DEF Goes
<1> QED BY <1>1, <1>2, <1>3, <1>4

LEMMA Closes ==
  ASSUME NEW f \in [Fd -> Object], NEW x \in Fd, NEW g, g = Does(f, Op("close", x))
  PROVE  /\ g \in [Fd -> Object] /\ g[x] = Closed
         /\ \A y \in Fd : y # x => g[y] = f[y]
<1>1. g = [f EXCEPT ![x] = Closed]
  BY DEF Does, Op
<1>2. Closed \in Object
  BY ObjectFacts
<1> QED BY <1>1, <1>2

LEMMA Dups ==
  ASSUME NEW f \in [Fd -> Object], NEW x \in Fd, NEW low \in Fd, low = Lowest(f),
         NEW g, g = Does(f, Op("dup", x))
  PROVE  /\ g \in [Fd -> Object] /\ g[low] = f[x]
         /\ \A y \in Fd : y # low => g[y] = f[y]
<1>1. g = [f EXCEPT ![low] = f[x]]
  BY DEF Does, Op
<1> QED BY <1>1

LEMMA ClosedNoEnd == Closed.kind \notin End
BY EndFacts DEF End

LEMMA AboveFacts ==
  ASSUME NEW a \in Above
  PROVE  a \in Fd /\ a # 0 /\ a # 1
BY FdFacts DEF Above

(* The writer moves its write end to 1, which only it has closed.          *)
LEMMA WriterDoes ==
  ASSUME NEW r, NEW s, Goes(r, s), NEW q, Writer(r, q), r.st = "ops",
         r.fd \in [Fd -> Object], r.fd[0].kind # "closed"
  PROVE  /\ s.fd \in [Fd -> Object] /\ s.fd[0] = r.fd[0] /\ Writer(s, q)
         /\ \A x \in Fd : s.fd[x] = Closed \/ \E y \in Fd : s.fd[x] = r.fd[y]
<1> PICK a \in Above, b \in Above : a # b /\ WriterAt(r, q, a, b)
  BY DEF Writer, Done
<1>1. /\ 0 \in Fd /\ 1 \in Fd /\ a \in Fd /\ b \in Fd
      /\ a # 0 /\ a # 1 /\ b # 0 /\ b # 1 /\ Closed.kind \notin End
  BY FdFacts, AboveFacts, ClosedNoEnd
<1>2. CASE r.todo = WriterTodo(a, b) /\ EndsAre(r.fd, q, {a}, {b})
  <2>1. s.fd = Does(r.fd, Op("close", a)) /\ s.st = "ops"
        /\ s.todo = <<Op("close", 1), Op("dup", b), Op("close", b)>>
    BY <1>2, TodoFacts DEF WriterTodo
  <2>2. /\ s.fd \in [Fd -> Object] /\ s.fd[a] = Closed
        /\ \A y \in Fd : y # a => s.fd[y] = r.fd[y]
    BY <1>1, <2>1, Closes
  <2>3. EndsAre(s.fd, q, {}, {b})
    BY <1>1, <1>2, <2>2 DEF EndsAre
  <2>4. Writer(s, q)
    <3>1. WriterAt(s, q, a, b)
      BY <2>1, <2>2, <2>3 DEF WriterAt
    <3> QED BY <2>1, <3>1 DEF Writer
  <2> QED BY <1>1, <2>2, <2>4
<1>3. CASE r.todo = <<Op("close", 1), Op("dup", b), Op("close", b)>> /\ EndsAre(r.fd, q, {}, {b})
  <2>1. s.fd = Does(r.fd, Op("close", 1)) /\ s.st = "ops"
        /\ s.todo = <<Op("dup", b), Op("close", b)>>
    BY <1>3, TodoFacts
  <2>2. /\ s.fd \in [Fd -> Object] /\ s.fd[1] = Closed
        /\ \A y \in Fd : y # 1 => s.fd[y] = r.fd[y]
    BY <1>1, <2>1, Closes
  <2>3. EndsAre(s.fd, q, {}, {b})
    BY <1>1, <1>3, <2>2 DEF EndsAre
  <2>4. Writer(s, q)
    <3>1. WriterAt(s, q, a, b)
      BY <2>1, <2>2, <2>3 DEF WriterAt
    <3> QED BY <2>1, <3>1 DEF Writer
  <2> QED BY <1>1, <2>2, <2>4
<1>4. CASE r.todo = <<Op("dup", b), Op("close", b)>> /\ EndsAre(r.fd, q, {}, {b}) /\ r.fd[1] = Closed
  <2>1. s.fd = Does(r.fd, Op("dup", b)) /\ s.st = "ops" /\ s.todo = <<Op("close", b)>>
    BY <1>4, TodoFacts
  <2>2. Lowest(r.fd) = 1
    <3>1. /\ Lowest(r.fd) \in Fd /\ r.fd[Lowest(r.fd)] = Closed
          /\ \A y \in Fd : r.fd[y] = Closed => Lowest(r.fd) <= y
      <4>1. HasRoom(r.fd)
        BY <1>1, <1>4 DEF HasRoom
      <4> QED BY <4>1, LowestClosed
    <3>2. Lowest(r.fd) <= 1 /\ Lowest(r.fd) \in Nat
      BY <1>1, <1>4, <3>1, FdFacts
    <3>3. Lowest(r.fd) # 0
      <4>1. r.fd[Lowest(r.fd)].kind = "closed"
        BY <3>1, EndFacts
      <4> QED BY <4>1
    <3> QED BY <3>2, <3>3
  <2>3. /\ s.fd \in [Fd -> Object] /\ s.fd[1] = r.fd[b]
        /\ \A y \in Fd : y # 1 => s.fd[y] = r.fd[y]
    BY <1>1, <2>1, <2>2, Dups
  <2>4. EndsAre(s.fd, q, {}, {1, b})
    BY <1>1, <1>4, <2>3 DEF EndsAre
  <2>5. Writer(s, q)
    <3>1. WriterAt(s, q, a, b)
      BY <2>1, <2>4 DEF WriterAt
    <3> QED BY <2>1, <3>1 DEF Writer
  <2> QED BY <1>1, <2>3, <2>5
<1>5. CASE r.todo = <<Op("close", b)>> /\ EndsAre(r.fd, q, {}, {1, b})
  <2>1. s.fd = Does(r.fd, Op("close", b)) /\ s.st = "say"
    BY <1>5, TodoFacts
  <2>2. /\ s.fd \in [Fd -> Object] /\ s.fd[b] = Closed
        /\ \A y \in Fd : y # b => s.fd[y] = r.fd[y]
    BY <1>1, <2>1, Closes
  <2>3. EndsAre(s.fd, q, {}, {1})
    BY <1>1, <1>5, <2>2 DEF EndsAre
  <2>4. Writer(s, q)
    BY <2>1, <2>3 DEF Writer, Done
  <2> QED BY <1>1, <2>2, <2>4
<1> QED BY <1>2, <1>3, <1>4, <1>5 DEF WriterAt

LEMMA ReaderDoes ==
  ASSUME NEW r, NEW s, Goes(r, s), NEW q, Reader(r, q), r.st = "ops",
         r.fd \in [Fd -> Object], r.fd[1].kind # "closed"
  PROVE  /\ s.fd \in [Fd -> Object] /\ s.fd[1] = r.fd[1] /\ Reader(s, q)
         /\ \A x \in Fd : s.fd[x] = Closed \/ \E y \in Fd : s.fd[x] = r.fd[y]
<1> PICK a \in Above, b \in Above : a # b /\ ReaderAt(r, q, a, b)
  BY DEF Reader, Done
<1>1. /\ 0 \in Fd /\ 1 \in Fd /\ a \in Fd /\ b \in Fd
      /\ a # 0 /\ a # 1 /\ b # 0 /\ b # 1 /\ Closed.kind \notin End
  BY FdFacts, AboveFacts, ClosedNoEnd
<1>2. CASE r.todo = ReaderTodo(a, b) /\ EndsAre(r.fd, q, {a}, {b})
  <2>1. s.fd = Does(r.fd, Op("close", b)) /\ s.st = "ops"
        /\ s.todo = <<Op("close", 0), Op("dup", a), Op("close", a)>>
    BY <1>2, TodoFacts DEF ReaderTodo
  <2>2. /\ s.fd \in [Fd -> Object] /\ s.fd[b] = Closed
        /\ \A y \in Fd : y # b => s.fd[y] = r.fd[y]
    BY <1>1, <2>1, Closes
  <2>3. EndsAre(s.fd, q, {a}, {})
    BY <1>1, <1>2, <2>2 DEF EndsAre
  <2>4. Reader(s, q)
    <3>1. ReaderAt(s, q, a, b)
      BY <2>1, <2>2, <2>3 DEF ReaderAt
    <3> QED BY <2>1, <3>1 DEF Reader
  <2> QED BY <1>1, <2>2, <2>4
<1>3. CASE r.todo = <<Op("close", 0), Op("dup", a), Op("close", a)>> /\ EndsAre(r.fd, q, {a}, {})
  <2>1. s.fd = Does(r.fd, Op("close", 0)) /\ s.st = "ops"
        /\ s.todo = <<Op("dup", a), Op("close", a)>>
    BY <1>3, TodoFacts
  <2>2. /\ s.fd \in [Fd -> Object] /\ s.fd[0] = Closed
        /\ \A y \in Fd : y # 0 => s.fd[y] = r.fd[y]
    BY <1>1, <2>1, Closes
  <2>3. EndsAre(s.fd, q, {a}, {})
    BY <1>1, <1>3, <2>2 DEF EndsAre
  <2>4. Reader(s, q)
    <3>1. ReaderAt(s, q, a, b)
      BY <2>1, <2>2, <2>3 DEF ReaderAt
    <3> QED BY <2>1, <3>1 DEF Reader
  <2> QED BY <1>1, <2>2, <2>4
<1>4. CASE r.todo = <<Op("dup", a), Op("close", a)>> /\ EndsAre(r.fd, q, {a}, {}) /\ r.fd[0] = Closed
  <2>1. s.fd = Does(r.fd, Op("dup", a)) /\ s.st = "ops" /\ s.todo = <<Op("close", a)>>
    BY <1>4, TodoFacts
  <2>2. Lowest(r.fd) = 0
    <3>1. /\ Lowest(r.fd) \in Fd /\ r.fd[Lowest(r.fd)] = Closed
          /\ \A y \in Fd : r.fd[y] = Closed => Lowest(r.fd) <= y
      <4>1. HasRoom(r.fd)
        BY <1>1, <1>4 DEF HasRoom
      <4> QED BY <4>1, LowestClosed
    <3>2. Lowest(r.fd) <= 0 /\ Lowest(r.fd) \in Nat
      BY <1>1, <1>4, <3>1, FdFacts
    <3> QED BY <3>2
  <2>3. /\ s.fd \in [Fd -> Object] /\ s.fd[0] = r.fd[a]
        /\ \A y \in Fd : y # 0 => s.fd[y] = r.fd[y]
    BY <1>1, <2>1, <2>2, Dups
  <2>4. EndsAre(s.fd, q, {0, a}, {})
    BY <1>1, <1>4, <2>3 DEF EndsAre
  <2>5. Reader(s, q)
    <3>1. ReaderAt(s, q, a, b)
      BY <2>1, <2>4 DEF ReaderAt
    <3> QED BY <2>1, <3>1 DEF Reader
  <2> QED BY <1>1, <2>3, <2>5
<1>5. CASE r.todo = <<Op("close", a)>> /\ EndsAre(r.fd, q, {0, a}, {})
  <2>1. s.fd = Does(r.fd, Op("close", a)) /\ s.st = "say"
    BY <1>5, TodoFacts
  <2>2. /\ s.fd \in [Fd -> Object] /\ s.fd[a] = Closed
        /\ \A y \in Fd : y # a => s.fd[y] = r.fd[y]
    BY <1>1, <2>1, Closes
  <2>3. EndsAre(s.fd, q, {0}, {})
    BY <1>1, <1>5, <2>2 DEF EndsAre
  <2>4. Reader(s, q)
    BY <2>1, <2>3 DEF Reader, Done
  <2> QED BY <1>1, <2>2, <2>4
<1> QED BY <1>2, <1>3, <1>4, <1>5 DEF ReaderAt

LEMMA SamePipe ==
  ASSUME NEW r, NEW q, NEW k
  PROVE  /\ Writer(r, q) /\ Writer(r, k) => k = q
         /\ Reader(r, q) /\ Reader(r, k) => k = q
<1>1. \A e : Open(e, q).of = q /\ Open(e, k).of = k /\ Open(e, q).kind = e
             /\ Open(e, k).kind = e
  BY OpenFacts
<1>2. ASSUME Writer(r, q), Writer(r, k) PROVE k = q
  <2>1. PICK x \in Fd : r.fd[x] = Open("w", q)
    BY <1>2, WriterEnds
  <2>2. r.fd[x] = Open("w", k)
    BY <1>1, <1>2, <2>1, WriterEnds
  <2> QED BY <1>1, <2>1, <2>2
<1>3. ASSUME Reader(r, q), Reader(r, k) PROVE k = q
  <2>1. PICK x \in Fd : r.fd[x] = Open("r", q)
    BY <1>3, ReaderEnds
  <2>2. r.fd[x] = Open("r", k)
    BY <1>1, <1>3, <2>1, ReaderEnds
  <2> QED BY <1>1, <2>1, <2>2
<1> QED BY <1>2, <1>3

LEMMA DescriptorKeeps ==
  ASSUME IInv, NEW p \in Pid, Descriptor(p)
  PROVE  IInv'
<1> DEFINE r == proc[p]
           f == Does(r.fd, Head(r.todo))
           t == Tail(r.todo)
           st == IF Len(r.todo) = 1 THEN "say" ELSE "ops"
           s1 == [r EXCEPT !.fd = f]
           s2 == [s1 EXCEPT !.todo = t]
           s == [s2 EXCEPT !.st = st]
<1>1. /\ p \in Others /\ r \in Process /\ r.fd \in [Fd -> Object] /\ r.st = "ops"
      /\ Good(r, DOMAIN files)
  BY StepOther DEF Descriptor
<1>2. proc' = [proc EXCEPT ![p] = s] /\ UNCHANGED <<pipes, files, lines, typed>>
  BY DEF Descriptor, Becomes
<1>3. st \in {"say", "ops"}
  OBVIOUS
<1>4. s1 = [r EXCEPT !.fd = f] /\ s2 = [s1 EXCEPT !.todo = t] /\ s = [s2 EXCEPT !.st = st]
  OBVIOUS
<1>5. r.line \in Line /\ r.line # <<>> /\ Pipes(r, DOMAIN files)
  BY <1>1 DEF Good, Vacant, Parses, Single, Done
<1>6. PICK q \in Pipe : \/ Writer(r, q) /\ Input(r, Behind(r), DOMAIN files)
                        \/ /\ Reader(r, q) /\ Output(r, Behind(r))
                           /\ r.prog = TailName(r.line)
  BY <1>5 DEF Pipes
<1>7. r.todo # <<>> /\ r.todo \in Seq([op : {"close", "dup"}, x : Fd])
  <2>1. r.todo \in Seq([op : {"close", "dup"}, x : Fd])
    BY <1>1 DEF Process
  <2>2. \E a, b \in Above : WriterAt(r, q, a, b) \/ ReaderAt(r, q, a, b)
    BY <1>1, <1>6 DEF Writer, Reader, Done
  <2>3. \A u, v, w, z : /\ <<u, v, w, z>> # <<>> /\ <<v, w, z>> # <<>>
                        /\ <<w, z>> # <<>> /\ <<z>> # <<>>
    OBVIOUS
  <2>4. r.todo # <<>>
    BY <2>2, <2>3 DEF WriterAt, ReaderAt, WriterTodo, ReaderTodo
  <2> QED BY <2>1, <2>4
<1>8. t \in Seq([op : {"close", "dup"}, x : Fd])
  BY <1>7
<1> HIDE DEF f, t, st, s1, s2, s, r
<1>9. ASSUME f \in [Fd -> Object]
      PROVE  /\ s \in Process /\ s.fd = f /\ s.todo = t /\ s.st = st /\ s.up = r.up
             /\ s.line = r.line /\ s.prog = r.prog
  <2>1. /\ s1 \in Process /\ s1.fd = f /\ s1.up = r.up /\ s1.line = r.line
        /\ s1.prog = r.prog
    BY <1>1, <1>4, <1>9, FdSet
  <2>2. /\ s2 \in Process /\ s2.fd = f /\ s2.todo = t /\ s2.up = r.up /\ s2.line = r.line
        /\ s2.prog = r.prog
    BY <1>4, <1>8, <2>1 DEF Process
  <2>3. st \in {"exec", "run", "say", "ops"} /\ s2 \in Process
    BY <1>3, <2>2
  <2>4. s = [s2 EXCEPT !.st = st]
    BY <1>4
  <2>5. /\ s \in Process /\ s.fd = s2.fd /\ s.todo = s2.todo /\ s.st = st /\ s.up = s2.up
        /\ s.line = s2.line /\ s.prog = s2.prog
    BY <2>3, <2>4 DEF Process
  <2> QED BY <2>2, <2>5
<1>10. s.fd = f /\ s.todo = t /\ s.st = st
  BY <1>1, <1>4 DEF Process
<1>11. /\ \/ /\ Writer(r, q) /\ Input(r, Behind(r), DOMAIN files)
             /\ Writer(s, q) /\ f[0] = r.fd[0]
          \/ /\ Reader(r, q) /\ Output(r, Behind(r)) /\ r.prog = TailName(r.line)
             /\ Reader(s, q) /\ f[1] = r.fd[1]
       /\ f \in [Fd -> Object] /\ \A x \in Fd : f[x] = Closed \/ \E y \in Fd : f[x] = r.fd[y]
  <2>1. Goes(r, s)
    BY <1>10 DEF Goes, f, t, st
  <2>2. CASE Writer(r, q) /\ Input(r, Behind(r), DOMAIN files)
    <3>1. Writer(r, q) /\ r.st = "ops" /\ r.fd \in [Fd -> Object]
      BY <1>1, <2>2
    <3>2. r.fd[0].kind # "closed"
      BY <2>2 DEF Input
    <3>3. /\ s.fd \in [Fd -> Object] /\ s.fd[0] = r.fd[0] /\ Writer(s, q)
          /\ \A x \in Fd : s.fd[x] = Closed \/ \E y \in Fd : s.fd[x] = r.fd[y]
      BY <2>1, <3>1, <3>2, WriterDoes
    <3> QED BY <1>10, <2>2, <3>3
  <2>3. CASE Reader(r, q) /\ Output(r, Behind(r)) /\ r.prog = TailName(r.line)
    <3>1. Reader(r, q) /\ r.st = "ops" /\ r.fd \in [Fd -> Object]
      BY <1>1, <2>3
    <3>2. r.fd[1].kind # "closed"
      BY <2>3 DEF Output
    <3>3. /\ s.fd \in [Fd -> Object] /\ s.fd[1] = r.fd[1] /\ Reader(s, q)
          /\ \A x \in Fd : s.fd[x] = Closed \/ \E y \in Fd : s.fd[x] = r.fd[y]
      BY <2>1, <3>1, <3>2, ReaderDoes
    <3> QED BY <1>10, <2>3, <3>3
  <2> QED BY <1>6, <2>2, <2>3
<1>12. /\ s \in Process /\ s.fd = f /\ s.st = st /\ s.up = r.up /\ s.line = r.line
       /\ s.prog = r.prog /\ Behind(s) = Behind(r)
  BY <1>9, <1>11 DEF Behind
<1>13. Pipes(s, DOMAIN files')
  <2>1. CASE /\ Writer(r, q) /\ Input(r, Behind(r), DOMAIN files)
             /\ Writer(s, q) /\ f[0] = r.fd[0]
    <3>1. Input(s, Behind(s), DOMAIN files')
      BY <1>2, <1>12, <2>1 DEF Input
    <3> QED BY <1>5, <1>12, <2>1, <3>1 DEF Pipes
  <2>2. CASE /\ Reader(r, q) /\ Output(r, Behind(r)) /\ r.prog = TailName(r.line)
             /\ Reader(s, q) /\ f[1] = r.fd[1]
    <3>1. Output(s, Behind(s))
      BY <1>12, <2>2 DEF Output
    <3> QED BY <1>5, <1>12, <2>2, <3>1 DEF Pipes
  <2> QED BY <1>11, <2>1, <2>2
<1>14. Good(s, DOMAIN files')
  <2>1. \A x \in Fd : /\ s.fd[x].kind = "read" => s.fd[x].of \in DOMAIN files'
                      /\ s.fd[x].kind \in End => s.fd[x].of \in Pipe
    BY <1>1, <1>2, <1>11, <1>12, OpenFacts DEF Good, End
  <2> QED BY <1>5, <1>12, <1>13, <2>1 DEF Good
<1>15. \A k \in Pipe : /\ Writer(s, k) => Writer(r, k)
                       /\ Reader(s, k) => Reader(r, k)
  BY <1>11, SamePipe, Exclusive
<1>16. Procs'
  <2>1. s.st # "none" /\ r.st # "none" /\ DOMAIN files \subseteq DOMAIN files'
    BY <1>1, <1>2, <1>3, <1>12
  <2> QED BY <1>1, <1>2, <1>12, <1>14, <1>15, <2>1, BecomeKeeps DEF r
<1>17. Stores'
  BY <1>2 DEF IInv, Stores
<1> QED BY <1>16, <1>17 DEF IInv

(* A pipe that nobody has an end of gets a writer p, and a reader d if     *)
(* fork does not fail (d is the writer itself where it does).              *)
Joins(p, q, d) ==
  /\ \A c \in Pid : c \notin {p, d} => proc'[c] = proc[c]
  /\ proc[p].st # "none" /\ proc'[p].st # "none" /\ proc'[p].up = proc[p].up
  /\ Good(proc'[p], DOMAIN files)
  /\ \A k \in Pipe : (Writer(proc'[p], k) => k = q) /\ ~Reader(proc'[p], k)
  /\ d # p => /\ proc[d].st = "none" /\ proc'[d].up = p /\ Good(proc'[d], DOMAIN files)
              /\ \A k \in Pipe : (Reader(proc'[d], k) => k = q) /\ ~Writer(proc'[d], k)

LEMMA PipeKeeps ==
  ASSUME IInv, NEW p \in Others, NEW q \in FreePipes, NEW d \in Others,
         proc' \in [Pid -> Process], files' = files, Joins(p, q, d)
  PROVE  Procs'
<1> USE DEF Joins
<1>1. shell \in Pid /\ p \in Pid /\ d \in Pid /\ p # shell /\ d # shell
  BY PidAssumption DEF Others
<1>2. Children' = Children
  <2>1. \A c \in Pid : proc'[c].st # "none" /\ proc'[c].up = shell
                       <=> proc[c].st # "none" /\ proc[c].up = shell
    BY <1>1
  <2> QED BY <2>1 DEF Children
<1>3. ShellOK'
  BY <1>1, <1>2 DEF IInv, Procs, ShellOK
<1>4. ProcsOK'
  BY <1>1 DEF IInv, Procs, ProcsOK, Others
<1>5. \A c \in Others : ~Writer(proc[c], q) /\ ~Reader(proc[c], q)
  BY WriterEnds, ReaderEnds DEF FreePipes, Holders, Others
<1>6. OneEach'
  <2>1. ASSUME NEW k \in Pipe, k # q, NEW c \in Others
        PROVE  (Writer(proc'[c], k) => Writer(proc[c], k))
               /\ (Reader(proc'[c], k) => Reader(proc[c], k))
    BY <1>1, <2>1 DEF Others
  <2>2. ASSUME NEW c \in Others
        PROVE  (Writer(proc'[c], q) => c = p) /\ (Reader(proc'[c], q) => c = d)
    BY <1>1, <1>5 DEF Others, FreePipes
  <2> QED BY <2>1, <2>2 DEF IInv, Procs, OneEach
<1> QED BY <1>3, <1>4, <1>6 DEF Procs

LEMMA TodoType ==
  ASSUME NEW a \in Fd, NEW b \in Fd
  PROVE  /\ WriterTodo(a, b) \in Seq([op : {"close", "dup"}, x : Fd])
         /\ ReaderTodo(a, b) \in Seq([op : {"close", "dup"}, x : Fd])
<1>1. \A x \in Fd : /\ Op("close", x) \in [op : {"close", "dup"}, x : Fd]
                    /\ Op("dup", x) \in [op : {"close", "dup"}, x : Fd]
  BY DEF Op
<1> QED BY <1>1, FdFacts DEF WriterTodo, ReaderTodo

(* The descriptors of a process whose line has a pipe, before and after it *)
(* calls pipe.                                                             *)
Plain(f) ==
  /\ f \in [Fd -> Object] /\ f[0].kind # "closed" /\ f[1].kind # "closed"
  /\ \A x \in Fd : f[x].kind \notin End

PipeMakes(f, q, a, g, b, h) ==
  /\ a = Lowest(f) /\ HasRoom(f) /\ g = [f EXCEPT ![a] = Open("r", q)]
  /\ b = Lowest(g) /\ HasRoom(g) /\ h = [g EXCEPT ![b] = Open("w", q)]

PipeMade(f, q, a, b, h) ==
  /\ a \in Above /\ b \in Above /\ a # b /\ h \in [Fd -> Object]
  /\ h[0] = f[0] /\ h[1] = f[1] /\ EndsAre(h, q, {a}, {b})
  /\ \A x \in Fd : h[x] = f[x] \/ h[x] = Open("r", q) \/ h[x] = Open("w", q)

LEMMA PipeEnds ==
  ASSUME NEW f, Plain(f), NEW q \in Pipe,
         NEW a, NEW g, NEW b, NEW h, PipeMakes(f, q, a, g, b, h)
  PROVE  PipeMade(f, q, a, b, h)
<1>1. /\ Open("r", q) \in Object /\ Open("w", q) \in Object
      /\ Open("r", q).kind = "r" /\ Open("w", q).kind = "w" /\ Closed.kind = "closed"
  BY ObjectFacts, EndFacts DEF End
<1> USE DEF PipeMakes, Plain
<1>2. a \in Fd /\ f[a] = Closed /\ b \in Fd /\ g[b] = Closed
  BY LowestClosed
<1>3. a # 0 /\ a # 1
  BY <1>1, <1>2
<1>4. /\ g \in [Fd -> Object] /\ g[a] = Open("r", q) /\ g[0] = f[0] /\ g[1] = f[1]
      /\ \A x \in Fd : x # a => g[x] = f[x]
  BY <1>1, <1>2, <1>3, FdFacts
<1>5. b # 0 /\ b # 1 /\ a # b
  BY <1>1, <1>2, <1>4
<1>6. /\ h \in [Fd -> Object] /\ h[b] = Open("w", q) /\ h[a] = Open("r", q)
      /\ h[0] = f[0] /\ h[1] = f[1]
      /\ \A x \in Fd : x # a /\ x # b => h[x] = f[x]
  BY <1>1, <1>2, <1>3, <1>4, <1>5, FdFacts
<1>7. a > 1 /\ b > 1
  BY <1>2, <1>3, <1>5, FdFacts
<1> QED BY <1>2, <1>5, <1>6, <1>7 DEF EndsAre, Above, PipeMade

LEMMA BepipinKeeps ==
  ASSUME IInv, NEW p \in Pid, Bepipin(p)
  PROVE  IInv'
<1> DEFINE r  == proc[p]
           a  == Lowest(r.fd)
           q  == CHOOSE q \in FreePipes : TRUE
           g  == [r.fd EXCEPT ![a] = Open("r", q)]
           b  == Lowest(g)
           h  == [g EXCEPT ![b] = Open("w", q)]
           both   == [r EXCEPT !.fd = h, !.st = "ops"]
           writer == [both EXCEPT !.todo = WriterTodo(a, b)]
           reader == [both EXCEPT !.todo = ReaderTodo(a, b), !.up = p,
                                  !.prog = TailName(r.line)]
           t == [r EXCEPT !.fd = h]
           u == [both EXCEPT !.todo = ReaderTodo(a, b)]
           v == [u EXCEPT !.up = p]
           name == TailName(r.line)
           have == DOMAIN files
<1>1. /\ p \in Others /\ r \in Process /\ r.fd \in [Fd -> Object] /\ r.line \in Line
      /\ r.line # <<>> /\ Alone(r) /\ r.st = "parse" /\ Input(r, Behind(r), have)
      /\ Output(r, Behind(r)) /\ Bars(r.line) # {}
      /\ \A x \in Fd : r.fd[x].kind = "read" => r.fd[x].of \in have
  BY ParsedFacts DEF Bepipin
<1>2. /\ FreePipes # {} /\ HasRoom(r.fd) /\ HasRoom(g) /\ pipes' = [pipes EXCEPT ![q] = <<>>]
      /\ \/ proc' = [proc EXCEPT ![p] = writer]
         \/ \E c \in FreePids : proc' = [proc EXCEPT ![p] = writer, ![c] = reader]
      /\ UNCHANGED <<files, lines, typed>>
  BY DEF Bepipin, Parsed, Becomes
<1>3. /\ t = [r EXCEPT !.fd = h] /\ both = [t EXCEPT !.st = "ops"]
      /\ writer = [both EXCEPT !.todo = WriterTodo(a, b)]
      /\ u = [both EXCEPT !.todo = ReaderTodo(a, b)] /\ v = [u EXCEPT !.up = p]
      /\ reader = [v EXCEPT !.prog = name]
      /\ a = Lowest(r.fd) /\ g = [r.fd EXCEPT ![a] = Open("r", q)] /\ b = Lowest(g)
      /\ h = [g EXCEPT ![b] = Open("w", q)] /\ have = DOMAIN files /\ r = proc[p]
  OBVIOUS
<1>4. name \in STRING \cup {""} /\ name = TailName(r.line)
  BY <1>1, TailNameType
<1>5. q \in FreePipes
  BY <1>2
<1> HIDE DEF r, q, a, g, b, h, both, writer, reader, t, u, v, name, have
<1>6. q \in Pipe
  BY <1>5 DEF FreePipes
<1>7. /\ a \in Above /\ b \in Above /\ a # b /\ h \in [Fd -> Object]
      /\ h[0] = r.fd[0] /\ h[1] = r.fd[1] /\ EndsAre(h, q, {a}, {b})
      /\ \A x \in Fd : h[x] = r.fd[x] \/ h[x] = Open("r", q) \/ h[x] = Open("w", q)
  <2>1. Plain(r.fd)
    BY <1>1 DEF Input, Output, Alone, Plain
  <2>2. PipeMakes(r.fd, q, a, g, b, h)
    BY <1>2, <1>3 DEF PipeMakes
  <2>3. PipeMade(r.fd, q, a, b, h)
    BY <1>6, <2>1, <2>2, PipeEnds
  <2> QED BY <2>3 DEF PipeMade
<1>8. WriterTodo(a, b) \in Seq([op : {"close", "dup"}, x : Fd])
      /\ ReaderTodo(a, b) \in Seq([op : {"close", "dup"}, x : Fd])
  BY <1>7, TodoType DEF Above
<1>9. /\ both \in Process /\ both.fd = h /\ both.st = "ops" /\ both.up = r.up
      /\ both.line = r.line /\ both.prog = r.prog
  <2>1. /\ t \in Process /\ t.fd = h /\ t.up = r.up /\ t.line = r.line /\ t.prog = r.prog
    BY <1>1, <1>3, <1>7, FdSet
  <2>2. both = [t EXCEPT !.st = "ops"]
    BY <1>3
  <2> QED BY <2>1, <2>2 DEF Process
<1>10. /\ writer \in Process /\ writer.fd = h /\ writer.st = "ops" /\ writer.up = r.up
       /\ writer.line = r.line /\ writer.prog = r.prog /\ writer.todo = WriterTodo(a, b)
  <2>1. writer = [both EXCEPT !.todo = WriterTodo(a, b)]
    BY <1>3
  <2> QED BY <1>8, <1>9, <2>1 DEF Process
<1>11. /\ reader \in Process /\ reader.fd = h /\ reader.st = "ops" /\ reader.up = p
       /\ reader.line = r.line /\ reader.prog = name /\ reader.todo = ReaderTodo(a, b)
  <2>1. /\ u = [both EXCEPT !.todo = ReaderTodo(a, b)] /\ v = [u EXCEPT !.up = p]
        /\ reader = [v EXCEPT !.prog = name] /\ p \in Pid
    BY <1>1, <1>3 DEF Others
  <2>2. /\ u \in Process /\ u.fd = h /\ u.st = "ops" /\ u.line = r.line
        /\ u.todo = ReaderTodo(a, b)
    BY <1>8, <1>9, <2>1 DEF Process
  <2>3. /\ v \in Process /\ v.fd = h /\ v.st = "ops" /\ v.line = r.line
        /\ v.todo = ReaderTodo(a, b) /\ v.up = p
    BY <2>1, <2>2 DEF Process
  <2> QED BY <1>4, <2>1, <2>3 DEF Process
<1>12. Writer(writer, q) /\ Reader(reader, q)
  BY <1>7, <1>10, <1>11 DEF Writer, Reader, WriterAt, ReaderAt
<1>13. Input(writer, Behind(writer), have) /\ Output(reader, Behind(reader))
       /\ Bars(writer.line) # {} /\ Bars(reader.line) # {} /\ reader.prog = TailName(reader.line)
  BY <1>1, <1>4, <1>7, <1>10, <1>11 DEF Input, Output, Behind
<1>14. Pipes(writer, have) /\ Pipes(reader, have)
  BY <1>6, <1>12, <1>13 DEF Pipes
<1>15. \A x \in Fd : /\ h[x].kind = "read" => h[x].of \in have
                     /\ h[x].kind \in End => h[x].of \in Pipe
  <2> SUFFICES ASSUME NEW x \in Fd
               PROVE  /\ h[x].kind = "read" => h[x].of \in have
                      /\ h[x].kind \in End => h[x].of \in Pipe
    OBVIOUS
  <2>1. CASE h[x] = r.fd[x]
    BY <1>1, <2>1 DEF Alone
  <2>2. CASE h[x] = Open("r", q) \/ h[x] = Open("w", q)
    BY <1>6, <2>2, EndFacts
  <2> QED BY <1>7, <2>1, <2>2
<1>16. Good(writer, have) /\ Good(reader, have)
  BY <1>1, <1>10, <1>11, <1>14, <1>15 DEF Good
<1>17. \A k \in Pipe : /\ (Writer(writer, k) => k = q) /\ ~Reader(writer, k)
                       /\ (Reader(reader, k) => k = q) /\ ~Writer(reader, k)
  BY <1>12, SamePipe, Exclusive
<1>18. proc \in [Pid -> Process] /\ p \in Pid /\ p # shell
  BY <1>1 DEF IInv, Procs, Others
<1>19. ASSUME proc' = [proc EXCEPT ![p] = writer] PROVE Procs'
  <2>1. /\ proc' \in [Pid -> Process] /\ proc'[p] = writer
        /\ \A c \in Pid : c # p => proc'[c] = proc[c]
    BY <1>10, <1>18, <1>19
  <2>2. /\ proc[p].st # "none" /\ proc'[p].st # "none" /\ proc'[p].up = proc[p].up
        /\ files' = files /\ Good(proc'[p], DOMAIN files)
    BY <1>1, <1>2, <1>3, <1>10, <1>16, <2>1
  <2>3. \A k \in Pipe : (Writer(proc'[p], k) => k = q) /\ ~Reader(proc'[p], k)
    BY <1>17, <2>1
  <2>4. Joins(p, q, p)
    BY <2>1, <2>2, <2>3 DEF Joins
  <2> QED BY <1>1, <1>5, <2>1, <2>2, <2>4, PipeKeeps
<1>20. ASSUME NEW c \in FreePids, proc' = [proc EXCEPT ![p] = writer, ![c] = reader]
       PROVE  Procs'
  <2>1. c \in Others /\ c # p /\ proc[c].st = "none" /\ c \in Pid
    BY <1>1, <1>3 DEF FreePids, Others, IInv, Procs, ShellOK
  <2>2. /\ proc' \in [Pid -> Process] /\ proc'[p] = writer /\ proc'[c] = reader
        /\ \A e \in Pid : e \notin {p, c} => proc'[e] = proc[e]
    BY <1>10, <1>11, <1>18, <1>20, <2>1
  <2>3. /\ proc[p].st # "none" /\ proc'[p].st # "none" /\ proc'[p].up = proc[p].up
        /\ files' = files
    BY <1>1, <1>2, <1>3, <1>10, <2>2
  <2>4. Good(proc'[p], DOMAIN files) /\ Good(proc'[c], DOMAIN files) /\ proc'[c].up = p
    BY <1>3, <1>11, <1>16, <2>2
  <2>5. /\ \A k \in Pipe : (Writer(proc'[p], k) => k = q) /\ ~Reader(proc'[p], k)
        /\ \A k \in Pipe : (Reader(proc'[c], k) => k = q) /\ ~Writer(proc'[c], k)
    BY <1>17, <2>2
  <2>6. Joins(p, q, c)
    BY <2>1, <2>2, <2>3, <2>4, <2>5 DEF Joins
  <2> QED BY <1>1, <1>5, <2>1, <2>2, <2>3, <2>6, PipeKeeps
<1>21. Stores'
  <2>1. pipes \in [Pipe -> Seq(Unit)] /\ PipeSize \in Nat /\ <<>> \in Seq(Unit) /\ Len(<<>>) = 0
    BY SizeAssumption DEF IInv, Stores
  <2>2. /\ pipes' \in [Pipe -> Seq(Unit)]
        /\ \A k \in Pipe : pipes'[k] = pipes[k] \/ pipes'[k] = <<>>
    BY <1>2, <2>1
  <2>3. \A k \in Pipe : Len(pipes'[k]) <= PipeSize
    BY <2>1, <2>2 DEF IInv, Stores
  <2> QED BY <1>2, <2>2, <2>3 DEF IInv, Stores
<1> QED BY <1>2, <1>19, <1>20, <1>21 DEF IInv

----------------------------------------------------------------------------
(* The shell.                                                              *)

LEMMA ShellFacts ==
  ASSUME IInv
  PROVE  /\ shell \in Pid /\ proc \in [Pid -> Process] /\ proc[shell] \in Process
         /\ proc[shell].fd = Terminal /\ proc[shell].up = Orphan
         /\ proc[shell].st \in {"prompt", "wait", "ended", "eof"}
BY PidAssumption DEF IInv, Procs, ShellOK

(* The shell gets another status.                                          *)
LEMMA ShellSet ==
  ASSUME IInv, NEW st \in {"prompt", "wait", "ended", "eof"}
  PROVE  LET s == [proc[shell] EXCEPT !.st = st] IN
         s \in Process /\ s.fd = Terminal /\ s.up = Orphan /\ s.st = st
<1> DEFINE r == proc[shell]
           s == [r EXCEPT !.st = st]
<1>1. r \in Process /\ r.fd = Terminal /\ r.up = Orphan
  BY ShellFacts
<1>2. s = [r EXCEPT !.st = st]
  OBVIOUS
<1>3. s \in Process /\ s.fd = Terminal /\ s.up = Orphan /\ s.st = st
  <2> HIDE DEF r, s
  <2> QED BY <1>1, <1>2 DEF Process
<1> QED BY <1>3

(* It stops, with no child.                                                *)
LEMMA StopKeeps ==
  ASSUME IInv, NEW st \in {"ended", "eof"}, Now(shell, st), proc[shell].st = "prompt",
         files' = files
  PROVE  Procs'
<1> DEFINE s == [proc[shell] EXCEPT !.st = st]
<1>1. s \in Process /\ s.fd = Terminal /\ s.up = Orphan /\ s.st = st
  BY ShellSet
<1>2. proc' = [proc EXCEPT ![shell] = s]
  BY DEF Now
<1> HIDE DEF s
<1>3. /\ proc' \in [Pid -> Process] /\ proc'[shell] = s
      /\ \A c \in Pid : c # shell => proc'[c] = proc[c]
  BY <1>1, <1>2, ShellFacts
<1>4. Children' = Children
  BY <1>3 DEF Children
<1>5. Children = {}
  BY DEF IInv, Procs, ShellOK
<1>6. ShellOK'
  BY <1>1, <1>3, <1>4, <1>5 DEF ShellOK
<1>7. ProcsOK'
  BY <1>3 DEF IInv, Procs, ProcsOK, Others
<1>8. OneEach'
  BY <1>3 DEF IInv, Procs, OneEach, Others
<1> QED BY <1>3, <1>6, <1>7, <1>8 DEF Procs

(* It forks a child, or has waited for the one it has.                     *)
LEMMA ChildKeeps ==
  ASSUME IInv, NEW c \in Others, NEW r \in Process, NEW st \in {"prompt", "wait"},
         proc' = [proc EXCEPT ![shell].st = st, ![c] = r], files' = files,
         \/ st = "wait" /\ proc[shell].st = "prompt" /\ r.st # "none" /\ r.up = shell
         \/ st = "prompt" /\ proc[shell].st = "wait" /\ c \in Children /\ r.st = "none",
         r.up # c, Good(r, DOMAIN files), \A q \in Pipe : ~Writer(r, q) /\ ~Reader(r, q)
  PROVE  Procs'
<1> DEFINE s == [proc[shell] EXCEPT !.st = st]
<1>1. s \in Process /\ s.fd = Terminal /\ s.up = Orphan /\ s.st = st
  BY ShellSet
<1>2. proc' = [proc EXCEPT ![shell] = s, ![c] = r]
  OBVIOUS
<1> HIDE DEF s
<1>3. /\ proc' \in [Pid -> Process] /\ proc'[shell] = s /\ proc'[c] = r
      /\ \A d \in Pid : d # shell /\ d # c => proc'[d] = proc[d]
  BY <1>1, <1>2, ShellFacts DEF Others
<1>4. Children' = IF st = "wait" THEN {c} ELSE {}
  <2>1. CASE st = "wait"
    <3>1. Children = {} /\ r.st # "none" /\ r.up = shell
      BY <2>1 DEF IInv, Procs, ShellOK
    <3>2. \A d \in Others : d \in Children' <=> d = c
      BY <1>3, <3>1 DEF Children, Others
    <3> QED BY <2>1, <3>2 DEF Children, Others
  <2>2. CASE st = "prompt"
    <3>1. Children = {c} /\ r.st = "none"
      BY <2>2 DEF IInv, Procs, ShellOK
    <3>2. \A d \in Others : d \notin Children'
      BY <1>3, <3>1 DEF Children, Others
    <3> QED BY <2>2, <3>2 DEF Children, Others
  <2> QED BY <2>1, <2>2
<1>5. ShellOK'
  BY <1>1, <1>3, <1>4 DEF ShellOK
<1>6. ProcsOK'
  BY <1>3 DEF IInv, Procs, ProcsOK, Others
<1>7. OneEach'
  <2>1. \A d \in Others, q \in Pipe : /\ Writer(proc'[d], q) => Writer(proc[d], q)
                                      /\ Reader(proc'[d], q) => Reader(proc[d], q)
    BY <1>3 DEF Others
  <2> QED BY <2>1 DEF IInv, Procs, OneEach
<1> QED BY <1>3, <1>5, <1>6, <1>7 DEF Procs

LEMMA TerminalFacts ==
  /\ Terminal \in [Fd -> Object] /\ Terminal[0] = Tty /\ Terminal[1] = Tty
  /\ \A x \in Fd : Terminal[x].kind \in {"tty", "closed"}
<1>1. \A x \in Fd : Terminal[x] = IF x <= 2 THEN Tty ELSE Closed
  BY DEF Terminal
<1>2. Terminal \in [Fd -> Object]
  BY ObjectFacts DEF Terminal
<1>3. Terminal[0] = Tty /\ Terminal[1] = Tty
  BY <1>1, FdFacts
<1>4. \A x \in Fd : Terminal[x] = Tty \/ Terminal[x] = Closed
  BY <1>1
<1> QED BY <1>2, <1>3, <1>4, OpenFacts

(* What sysm forks: it starts to parse its line.                           *)
LEMMA ChildFacts ==
  ASSUME IInv, NEW line \in Line, line # <<>>
  PROVE  LET r == Child(line, Terminal) IN
         /\ r \in Process /\ r.st = "parse" /\ r.up = shell /\ Good(r, DOMAIN files)
         /\ \A q \in Pipe : ~Writer(r, q) /\ ~Reader(r, q)
<1> DEFINE r == Child(line, Terminal)
           a == [NoProc EXCEPT !.st = "parse"]
           b == [a EXCEPT !.up = shell]
           c == [b EXCEPT !.fd = Terminal]
           d == [c EXCEPT !.line = line]
           e == [d EXCEPT !.n = 2]
           name == line[1]
<1>1. /\ a = [NoProc EXCEPT !.st = "parse"] /\ b = [a EXCEPT !.up = shell]
      /\ c = [b EXCEPT !.fd = Terminal] /\ d = [c EXCEPT !.line = line]
      /\ e = [d EXCEPT !.n = 2] /\ r = [e EXCEPT !.prog = name] /\ name = line[1]
  BY DEF Child
<1>2. line \in Seq(STRING) /\ Len(line) \in Nat /\ Len(line) >= 1 /\ name \in STRING \cup {""}
  <2>1. line \in Seq(STRING)
    BY DataAssumption
  <2>2. Len(line) \in Nat /\ Len(line) # 0
    BY <2>1, EmptySeq
  <2>3. line[1] \in STRING
    BY <2>1, <2>2
  <2>4. Len(line) >= 1
    BY <2>2
  <2>5. name \in STRING \cup {""}
    BY <2>3
  <2> QED BY <2>1, <2>2, <2>4, <2>5
<1> HIDE DEF a, b, c, d, e, r, name
<1>3. a \in Process /\ a.st = "parse"
  BY <1>1, NoProcFacts DEF Process
<1>4. b \in Process /\ b.st = "parse" /\ b.up = shell
  <2>1. b = [a EXCEPT !.up = shell]
    BY <1>1
  <2> QED BY <1>3, <2>1, PidAssumption DEF Process
<1>5. c \in Process /\ c.st = "parse" /\ c.up = shell /\ c.fd = Terminal
  <2>1. c = [b EXCEPT !.fd = Terminal]
    BY <1>1
  <2> QED BY <1>4, <2>1, TerminalFacts DEF Process
<1>6. d \in Process /\ d.st = "parse" /\ d.up = shell /\ d.fd = Terminal /\ d.line = line
  <2>1. d = [c EXCEPT !.line = line]
    BY <1>1
  <2> QED BY <1>5, <2>1 DEF Process
<1>7. /\ e \in Process /\ e.st = "parse" /\ e.up = shell /\ e.fd = Terminal /\ e.line = line
      /\ e.n = 2
  <2>1. e = [d EXCEPT !.n = 2]
    BY <1>1
  <2> QED BY <1>6, <2>1 DEF Process
<1>8. /\ r \in Process /\ r.st = "parse" /\ r.up = shell /\ r.fd = Terminal /\ r.line = line
      /\ r.n = 2 /\ r.prog = line[1]
  <2>1. r = [e EXCEPT !.prog = name] /\ name = line[1]
    BY <1>1
  <2> QED BY <1>2, <1>7, <2>1 DEF Process
<1>9. Input(r, r.n, DOMAIN files)
  <2> DEFINE there == DOMAIN Files
  <2>1. there \in SUBSET File /\ DOMAIN Files \subseteq there /\ there \subseteq DOMAIN files
    BY NamesAssumption DEF IInv, Stores
  <2>2. r.fd[0].kind = "tty" /\ r.fd[0].of = ""
    BY <1>8, TerminalFacts, OpenFacts
  <2>3. LastBefore(r.line, r.n, {"<"}, there) = ""
    BY <1>8, LastFirst
  <2> HIDE DEF there
  <2> QED BY <1>8, <2>1, <2>2, <2>3 DEF Input
<1>10. Output(r, r.n)
  <2>1. r.fd[1].kind = "tty" /\ r.fd[1].of = ""
    BY <1>8, TerminalFacts, OpenFacts
  <2> QED BY <1>8, <2>1, LastFirst DEF Output
<1>11. Alone(r) /\ \A x \in Fd : r.fd[x].kind # "read"
  BY <1>8, TerminalFacts DEF Alone, End
<1>12. Parses(r, DOMAIN files)
  <2>1. Len(r.line) \in Nat /\ Len(r.line) >= 1 /\ r.n = 2
    BY <1>2, <1>8
  <2>2. r.n \in 2..Len(r.line) + 1
    BY <2>1
  <2> QED BY <1>8, <1>9, <1>10, <1>11, <2>2 DEF Parses, Behind
<1>13. Good(r, DOMAIN files)
  BY <1>8, <1>11, <1>12 DEF Good, Alone
<1>14. \A q : ~Writer(r, q) /\ ~Reader(r, q)
  BY <1>8, VacantKeeps DEF Done
<1> QED BY <1>8, <1>13, <1>14 DEF r

LEMMA TypesKeeps ==
  ASSUME IInv, NEW line \in Line, Types(line)
  PROVE  IInv'
<1>1. Reads(line)
  BY DEF Types, Crash, Cd, Quit, Fork, ForkFails, Runs
<1>2. Stores' /\ files' = files /\ proc[shell].st = "prompt"
  <2>1. lines' = lines + 1 /\ lines < MaxLines /\ UNCHANGED <<pipes, files, typed>>
    BY <1>1 DEF Reads
  <2>2. lines' \in 0..MaxLines
    BY <2>1, SizeAssumption DEF IInv, Stores
  <2> QED BY <1>1, <2>1, <2>2 DEF IInv, Stores, Reads
<1>3. CASE Now(shell, "ended")
  <2>1. Procs'
    BY <1>2, <1>3, StopKeeps
  <2> QED BY <1>2, <2>1 DEF IInv
<1>4. CASE Cd(line)
  <2>1. proc' = proc
    BY <1>4 DEF Cd
  <2>2. Procs'
    BY <1>2, <2>1 DEF IInv, Procs, ShellOK, Children, ProcsOK, OneEach
  <2> QED BY <1>2, <2>2 DEF IInv
<1>5. CASE Fork(line)
  <2> DEFINE r == Child(line, Terminal)
  <2>1. line # <<>> /\ \E c \in FreePids : proc' = [proc EXCEPT ![shell].st = "wait", ![c] = r]
    BY <1>5, ShellFacts DEF Fork, Runs
  <2>2. PICK c \in FreePids : proc' = [proc EXCEPT ![shell].st = "wait", ![c] = r]
    BY <2>1
  <2>3. /\ r \in Process /\ r.st = "parse" /\ r.up = shell /\ Good(r, DOMAIN files)
        /\ \A q \in Pipe : ~Writer(r, q) /\ ~Reader(r, q)
    BY <2>1, ChildFacts
  <2> HIDE DEF r
  <2>4. c \in Others
    BY <1>2 DEF FreePids, Others
  <2>5. Procs'
    BY <1>2, <2>2, <2>3, <2>4, ChildKeeps DEF Others
  <2> QED BY <1>2, <2>5 DEF IInv
<1> QED BY <1>3, <1>4, <1>5 DEF Types, Crash, Quit, ForkFails

LEMMA EndOfInputKeeps ==
  ASSUME IInv, EndOfInput
  PROVE  IInv'
<1>1. Procs'
  BY StopKeeps DEF EndOfInput
<1>2. Stores'
  BY DEF EndOfInput, IInv, Stores
<1> QED BY <1>1, <1>2 DEF IInv

LEMMA WaitKeeps ==
  ASSUME IInv, Wait
  PROVE  IInv'
<1>1. PICK c \in Pid : /\ proc[c].st = "zombie" /\ proc[c].up = shell
                       /\ proc' = [proc EXCEPT ![shell].st = "prompt", ![c] = NoProc]
  BY DEF Wait
<1>2. proc[shell].st = "wait" /\ UNCHANGED <<pipes, files, lines, typed>>
  BY DEF Wait
<1>3. c \in Others /\ c \in Children
  BY <1>1, <1>2 DEF Others, Children
<1>4. /\ NoProc \in Process /\ NoProc.st = "none" /\ NoProc.up # c
      /\ Good(NoProc, DOMAIN files) /\ \A q \in Pipe : ~Writer(NoProc, q) /\ ~Reader(NoProc, q)
  BY <1>1, PidAssumption, NoProcFacts, VacantKeeps DEF Done
<1>5. Procs'
  BY <1>1, <1>2, <1>3, <1>4, ChildKeeps
<1>6. Stores'
  BY <1>2 DEF IInv, Stores
<1> QED BY <1>5, <1>6 DEF IInv

LEMMA InitKeeps == Init => IInv
<1> SUFFICES ASSUME Init PROVE IInv
  OBVIOUS
<1> DEFINE a == [NoProc EXCEPT !.st = "prompt"]
           s == [NoProc EXCEPT !.st = "prompt", !.fd = Terminal]
<1>1. s = [a EXCEPT !.fd = Terminal] /\ a = [NoProc EXCEPT !.st = "prompt"]
  OBVIOUS
<1>2. proc = [p \in Pid |-> IF p = shell THEN s ELSE NoProc]
  BY DEF Init
<1> HIDE DEF a, s
<1>3. a \in Process /\ a.st = "prompt" /\ a.up = Orphan
  BY <1>1, NoProcFacts DEF Process
<1>4. s \in Process /\ s.st = "prompt" /\ s.up = Orphan /\ s.fd = Terminal
  BY <1>1, <1>3, TerminalFacts DEF Process
<1>5. /\ proc \in [Pid -> Process] /\ shell \in Pid /\ proc[shell] = s
      /\ \A p \in Others : proc[p] = NoProc
  BY <1>2, <1>4, NoProcFacts, PidAssumption DEF Others
<1>6. Children = {}
  BY <1>5, NoProcFacts DEF Children, Others
<1>7. ShellOK
  BY <1>4, <1>5, <1>6 DEF ShellOK
<1>8. ProcsOK
  <2>1. \A p \in Others : p # Orphan
    BY PidAssumption DEF Others
  <2> QED BY <1>5, <2>1, NoProcFacts DEF ProcsOK
<1>9. OneEach
  BY <1>5, NoProcFacts, VacantKeeps DEF OneEach, Done
<1>10. Stores
  <2>1. /\ pipes = [q \in Pipe |-> <<>>] /\ files = Files /\ lines = 0 /\ typed = 0
    BY DEF Init
  <2>2. pipes \in [Pipe -> Seq(Unit)] /\ \A q \in Pipe : Len(pipes[q]) <= PipeSize
    BY <2>1, SizeAssumption
  <2>3. lines \in 0..MaxLines /\ typed \in 0..MaxTyped
    BY <2>1, SizeAssumption
  <2> QED BY <2>1, <2>2, <2>3, NamesAssumption, DataAssumption DEF Stores
<1> QED BY <1>5, <1>7, <1>8, <1>9, <1>10 DEF IInv, Procs

----------------------------------------------------------------------------
(* The invariant, and what it implies.                                     *)

LEMMA NextKeeps ==
  ASSUME IInv, [Next]_vars
  PROVE  IInv'
<1>1. CASE \E line \in Line : Types(line)
  BY <1>1, TypesKeeps
<1>2. CASE \E p \in Pid : Step(p)
  <2>1. PICK p \in Pid : Step(p)
    BY <1>2
  <2> QED BY <2>1, ParseStepKeeps, NoPipeKeeps, BepipinKeeps, DescriptorKeeps, TriesKeeps,
             execveKeeps, ProgramKeeps DEF Step
<1>3. CASE UNCHANGED vars
  BY <1>3 DEF vars, IInv, Stores, Procs, ShellOK, Children, ProcsOK, OneEach
<1> QED BY <1>1, <1>2, <1>3, EndOfInputKeeps, WaitKeeps DEF Next

(* In every reachable state each process of a line is alone on its         *)
(* terminal and files, or the writer or the reader of one pipe, with the   *)
(* descriptors that the tokens and operations behind it have made; each    *)
(* pipe has at most one of either; and the shell has its first descriptors *)
(* and one child while it waits, none otherwise.                           *)
THEOREM Invariance == Spec => []IInv
<1>1. Init => IInv
  BY InitKeeps
<1>2. IInv /\ [Next]_vars => IInv'
  BY NextKeeps
<1> QED BY <1>1, <1>2, PTL DEF Spec

(* Every process, pipe, file and counter keeps its form, whatever lines    *)
(* are typed; no pipe holds more than it has room for; and sysm has one    *)
(* child exactly while it waits, so that wait takes the child of its line. *)
THEOREM TypeCorrect == Spec => []TypeOK
<1>1. ASSUME IInv PROVE TypeOK
  <2>1. Cardinality(Children) = (IF proc[shell].st = "wait" THEN 1 ELSE 0)
    <3>1. CASE proc[shell].st = "wait"
      <4>1. PICK c \in Others : Children = {c}
        BY <1>1, <3>1 DEF IInv, Procs, ShellOK
      <4> QED BY <3>1, <4>1, FS_Singleton
    <3>2. CASE proc[shell].st # "wait"
      <4>1. Children = {}
        BY <1>1, <3>2 DEF IInv, Procs, ShellOK
      <4> QED BY <3>2, <4>1, FS_EmptySet
    <3> QED BY <3>1, <3>2
  <2> QED BY <1>1, <2>1 DEF TypeOK, IInv, Stores, Procs, ShellOK
<1> QED BY <1>1, Invariance, PTL

(* Who has a write end of q, and is not still moving it, is its writer.    *)
LEMMA OneHolder ==
  ASSUME IInv, NEW q \in Pipe, NEW p \in Others, NEW c \in Pid, proc[c].st # "ops"
  PROVE  /\ Writer(proc[p], q) /\ c \in Holders("w", q) => c = p
         /\ Reader(proc[p], q) /\ c \in Holders("r", q) => c = p
<1> SUFFICES ASSUME c \in Holders("w", q) \/ c \in Holders("r", q)
             PROVE  /\ Writer(proc[p], q) /\ c \in Holders("w", q) => c = p
                    /\ Reader(proc[p], q) /\ c \in Holders("r", q) => c = p
  OBVIOUS
<1> DEFINE r == proc[c]
<1>1. PICK x \in Fd : r.fd[x] \in {Open("w", q), Open("r", q)}
  BY DEF Holders
<1>2. r.fd[x].kind \in End /\ r.fd[x].of = q
  BY <1>1, EndFacts DEF End
<1>3. c \in Others
  <2>1. c # shell
    BY <1>2, TerminalFacts, ShellFacts DEF End
  <2> QED BY <2>1 DEF Others
<1>4. Pipes(r, DOMAIN files)
  BY <1>2, <1>3 DEF IInv, Procs, ProcsOK, Good, Vacant, Parses, Single, Alone
<1>5. PICK k \in Pipe : Writer(r, k) \/ Reader(r, k)
  BY <1>4 DEF Pipes
<1>6. r.st # "ops"
  OBVIOUS
<1>7. ASSUME c \in Holders("w", q) PROVE Writer(r, q)
  <2>1. PICK y \in Fd : r.fd[y] = Open("w", q)
    BY <1>7 DEF Holders
  <2>2. r.fd[y].kind = "w" /\ r.fd[y].of = q
    BY <2>1, EndFacts
  <2>3. ~Reader(r, k)
    <3> SUFFICES ASSUME Reader(r, k) PROVE FALSE
      OBVIOUS
    <3>1. EndsAre(r.fd, k, {0}, {})
      BY <1>6 DEF Reader
    <3>2. r.fd[y].kind = "r" \/ r.fd[y].kind \notin End
      BY <3>1, EndFacts DEF EndsAre
    <3> QED BY <2>2, <3>2 DEF End
  <2>4. r.fd[y] = Open("w", k)
    BY <1>5, <2>2, <2>3, WriterEnds
  <2>5. k = q
    BY <2>2, <2>4, EndFacts
  <2> QED BY <1>5, <2>3, <2>5
<1>8. ASSUME c \in Holders("r", q) PROVE Reader(r, q)
  <2>1. PICK y \in Fd : r.fd[y] = Open("r", q)
    BY <1>8 DEF Holders
  <2>2. r.fd[y].kind = "r" /\ r.fd[y].of = q
    BY <2>1, EndFacts
  <2>3. ~Writer(r, k)
    <3> SUFFICES ASSUME Writer(r, k) PROVE FALSE
      OBVIOUS
    <3>1. EndsAre(r.fd, k, {}, {1})
      BY <1>6 DEF Writer
    <3>2. r.fd[y].kind = "w" \/ r.fd[y].kind \notin End
      BY <3>1, EndFacts DEF EndsAre
    <3> QED BY <2>2, <3>2 DEF End
  <2>4. r.fd[y] = Open("r", k)
    BY <1>5, <2>2, <2>3, ReaderEnds
  <2>5. k = q
    BY <2>2, <2>4, EndFacts
  <2> QED BY <1>5, <2>3, <2>5
<1> QED BY <1>3, <1>7, <1>8 DEF IInv, Procs, OneEach

(* A process that bepipin and parseArgs are through with.                  *)
LEMMA DoneWired ==
  ASSUME IInv, NEW p \in Pid, proc[p].st \in Done
  PROVE  Connected(p)
<1> DEFINE r == proc[p]
<1>1. p \in Others /\ Good(r, DOMAIN files)
  BY StepOther
<1>2. r.line \in Seq(STRING) /\ (Single(r, DOMAIN files) \/ Pipes(r, DOMAIN files))
  BY <1>1, DataAssumption DEF Good, Vacant, Parses, Done
<1>3. Input(r, Behind(r), DOMAIN files) =>
        /\ r.prog = r.line[1]
        /\ \E there \in SUBSET File :
             /\ DOMAIN Files \subseteq there /\ there \subseteq DOMAIN files
             /\ r.fd[0].of = LastFile(r.line, {"<"}, there)
  BY <1>2, LastWhole DEF Input, Behind
<1>4. Output(r, Behind(r)) => r.fd[1].of = LastFile(r.line, {">", ">>"}, File)
  BY <1>2, LastWhole DEF Output, Behind
<1>5. CASE Single(r, DOMAIN files)
  <2>1. r.fd[0].kind \notin End /\ r.fd[1].kind \notin End /\ \A x \in Fd : r.fd[x].kind \notin End
    BY <1>5, FdFacts DEF Single, Alone
  <2> QED BY <1>3, <1>4, <1>5, <2>1 DEF Connected, Single, End
<1>6. CASE Pipes(r, DOMAIN files)
  <2>1. PICK q \in Pipe : \/ Writer(r, q) /\ Input(r, Behind(r), DOMAIN files)
                          \/ /\ Reader(r, q) /\ Output(r, Behind(r))
                             /\ r.prog = TailName(r.line)
    BY <1>6 DEF Pipes
  <2>2. CASE Writer(r, q) /\ Input(r, Behind(r), DOMAIN files)
    <3>1. EndsAre(r.fd, q, {}, {1})
      BY <2>2 DEF Writer, Done
    <3>2. /\ r.fd[1].kind = "w" /\ r.fd[0].kind # "r" /\ r.fd[1].of = q
          /\ \A x \in Fd : r.fd[x].kind # "r" /\ (r.fd[x].kind = "w" => x = 1)
      <4>1. ASSUME NEW x \in Fd PROVE r.fd[x].kind # "r" /\ (r.fd[x].kind = "w" => x = 1)
        <5>1. x = 1 => r.fd[x] = Open("w", q)
          BY <3>1 DEF EndsAre
        <5>2. x # 1 => r.fd[x].kind \notin End
          BY <3>1 DEF EndsAre
        <5> QED BY <5>1, <5>2, EndFacts DEF End
      <4>2. r.fd[1] = Open("w", q)
        BY <3>1, FdFacts DEF EndsAre
      <4> QED BY <4>1, <4>2, FdFacts, EndFacts
    <3>3. Holders("w", q) \subseteq {p} \cup {c \in Pid : proc[c].st = "ops"}
      BY <1>1, <2>2, OneHolder DEF Holders
    <3> QED BY <1>3, <1>6, <2>2, <3>2, <3>3 DEF Connected, Pipes
  <2>3. CASE Reader(r, q) /\ Output(r, Behind(r)) /\ r.prog = TailName(r.line)
    <3>1. EndsAre(r.fd, q, {0}, {})
      BY <2>3 DEF Reader, Done
    <3>2. /\ r.fd[0].kind = "r" /\ r.fd[1].kind # "w" /\ r.fd[0].of = q
          /\ \A x \in Fd : r.fd[x].kind # "w" /\ (r.fd[x].kind = "r" => x = 0)
      <4>1. ASSUME NEW x \in Fd PROVE r.fd[x].kind # "w" /\ (r.fd[x].kind = "r" => x = 0)
        <5>1. x = 0 => r.fd[x] = Open("r", q)
          BY <3>1 DEF EndsAre
        <5>2. x # 0 => r.fd[x].kind \notin End
          BY <3>1 DEF EndsAre
        <5> QED BY <5>1, <5>2, EndFacts DEF End
      <4>2. r.fd[0] = Open("r", q)
        BY <3>1, FdFacts DEF EndsAre
      <4> QED BY <4>1, <4>2, FdFacts, EndFacts
    <3>3. Holders("r", q) \subseteq {p} \cup {c \in Pid : proc[c].st = "ops"}
      BY <1>1, <2>3, OneHolder DEF Holders
    <3> QED BY <1>4, <1>6, <2>3, <3>2, <3>3 DEF Connected, Pipes
  <2> QED BY <2>1, <2>2, <2>3
<1> QED BY <1>2, <1>5, <1>6

(* A process that becomes its program reads and writes where its line      *)
(* says: its file, terminal or pipe is the one of the last token for it,   *)
(* no process keeps an end of a pipe that is not its own, and the shell's  *)
(* descriptors are never touched, for every line and order of the steps.   *)
THEOREM AlwaysWired == Spec => []Wired
<1>1. ASSUME IInv PROVE Wired
  <2>1. proc[shell].fd = Terminal
    BY <1>1, ShellFacts
  <2>2. \A p \in Pid : proc[p].st \in {"say", "exec", "run"} => Connected(p)
    BY <1>1, DoneWired DEF Done
  <2> QED BY <2>1, <2>2 DEF Wired
<1> QED BY <1>1, Invariance, PTL
=============================================================================

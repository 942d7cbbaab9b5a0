------------------------- MODULE FileTransferProofs -------------------------
(***************************************************************************)
(* Proofs about the clients and the server of lab8, for any number of      *)
(* clients, any commands and files, and any number of short reads and of   *)
(* killed clients.                                                         *)
(***************************************************************************)
EXTENDS FileTransfer, SequenceTheorems, FiniteSetTheorems, TLAPS

Name == STRING \cup {"", "ECHO"}

Cmd == Name \X (Name \ {"top"})

Said == {Pad, <<"entry">>, <<"$">>} \cup ({"dir"} \X Name) \cup ({"size"} \X Int)
          \cup ({"data"} \X {"client", "server"} \X Name \X Nat)

Unit == Said \cup {<<"nl">>} \cup ({"cmd"} \X Cmd)

End == {"up", "fin", "rst", "pipe"}

StreamsOK ==
  /\ c2s \in [Clients -> Seq(Unit)]
  /\ s2c \in [Clients -> Seq(Said)]
  /\ link \in [Clients -> [c : End, s : End]]
  /\ backlog \in Seq(Clients)

ServerRec ==
  [pc : {"accept", "read", "write", "put_size", "put_data", "spin", "fail", "dead"},
   client : Clients \cup {Nobody}, line : Unit, out : Seq(Seq(Said)),
   then : {"read", "put_size", "spin", "fail"}, left : Int]

ServerOK ==
  /\ sv \in ServerRec
  /\ sv.pc = "accept" \/ sv.client \in Clients
  /\ sv.pc = "write" => sv.out # <<>>
  /\ sv.pc = "put_data" => sv.left > 0

(* A directory of the server holds files whose data a client can read.     *)
ServerFilesOK ==
  /\ DOMAIN sfile \subseteq Name /\ IsFiniteSet(DOMAIN sfile)
  /\ \A d \in DOMAIN sfile : /\ IsFiniteSet(DOMAIN sfile[d])
                           /\ \A f \in Name : Content(sfile[d], f) \in Seq(Said)
  /\ "top" \in DOMAIN sfile
  /\ cwd \in DOMAIN sfile \ {"none"}

ClientRec ==
  [pc : {"off", "prompt", "write", "get_size", "get_data", "ls", "pwd", "spin", "gone"},
   out : Seq(Seq(Unit)), then : {"prompt", "get_size", "ls", "pwd", "spin"},
   path : Name, left : Int, off : Nat, odd : BOOLEAN]

(* What getClient has written so far is in the file that it opened, if any.*)
ClientOK(k) ==
  LET c == cl[k] IN
  /\ c \in ClientRec
  /\ c.pc = "write" => c.out # <<>>
  /\ c.pc # "get_data" => c.off = 0
  /\ c.pc = "get_data" => c.left > 0
  /\ c.pc = "get_data" /\ c.path \notin ClientDirs
       => /\ c.path \in DOMAIN cfile[k]
          /\ c.off <= Len(cfile[k][c.path])

ClientFilesOK(k) == \A f \in Name : Content(cfile[k], f) \in Seq(Said)

ClientsOK ==
  /\ cl = [k \in Clients |-> cl[k]]
  /\ cfile = [k \in Clients |-> cfile[k]]
  /\ \A k \in Clients : ClientOK(k) /\ ClientFilesOK(k)

Types == StreamsOK /\ ServerOK /\ ServerFilesOK /\ ClientsOK

Fails(s) == s.pc = "fail" \/ (s.pc = "write" /\ s.then = "fail")

ListsOther(line) == line[1] = "cmd" /\ line[2][1] = "ls" /\ line[2][2] # ""

(* Only an ls of another directory than the working directory fails, and   *)
(* an end that does not see its client any more has lost it.               *)
EndsBy ==
  /\ ServerEndsBy
  /\ Fails(sv) => ListsOther(sv.line)
  /\ \A k \in Clients : link[k].s # "up" => cl[k].pc = "gone"

IInv == Types /\ EndsBy

----------------------------------------------------------------------------
(* Units and streams.                                                      *)

LEMMA SaidUnit == Said \subseteq Unit /\ Pad \in Said /\ <<"nl">> \in Unit
BY DEF Unit, Said

(* The size and the command that a unit tells are an int and a line.       *)
LEMMA UnitKinds ==
  /\ \A u \in Said : u[1] \in Answers
  /\ \A u \in Unit : u[1] \in Answers \cup {"cmd", "nl"}
  /\ \A u \in Unit : u[1] = "cmd" => u[2] \in Cmd /\ u = Text(u[2])
  /\ \A u \in Unit : u[1] = "size" => u[2] \in Int
<1>1. \A u \in Said : u[1] \in Answers
  BY DEF Said, Answers, Pad
<1>2. \A u \in Unit : u[1] \in Answers \cup {"cmd", "nl"}
  BY <1>1 DEF Unit
<1>3. \A u \in Unit : u[1] = "cmd" => u \in {"cmd"} \X Cmd
  BY <1>1 DEF Unit, Answers
<1>4. \A u \in {"cmd"} \X Cmd : u[2] \in Cmd /\ u = Text(u[2])
  BY DEF Text
<1>5. \A u \in Unit : u[1] = "size" => u[2] \in Int
  BY DEF Unit, Said, Pad
<1> QED BY <1>1, <1>2, <1>3, <1>4, <1>5

LEMMA Texts == \A cmd \in Cmd : Text(cmd) \in Unit /\ Text(cmd)[1] = "cmd" /\ Text(cmd)[2] = cmd
BY DEF Text, Unit

LEMMA Sizes == \A u \in Unit : SizesIn(u) \subseteq Int
BY UnitKinds, JunkAssumption DEF SizesIn

(* A message is its text and padding.                                      *)
LEMMA MsgType ==
  ASSUME NEW S, Pad \in S, NEW u \in S
  PROVE  /\ Msg(u) \in Seq(S) /\ Msg(u) # <<>>
         /\ Msg(u)[1] = u
         /\ \A i \in DOMAIN Msg(u) : i # 1 => Msg(u)[i] = Pad
<1> DEFINE rest == [i \in 1..MAX - 1 |-> Pad]
<1>1. MAX - 1 \in Nat /\ rest \in Seq(S)
  BY BufferAssumption
<1>2. <<u>> \in Seq(S)
  OBVIOUS
<1>3. /\ <<u>> \o rest \in Seq(S) /\ Len(<<u>> \o rest) = 1 + Len(rest)
      /\ \A i \in 1..1 + Len(rest) : (<<u>> \o rest)[i] = IF i <= 1 THEN u ELSE rest[i - 1]
  BY <1>1, <1>2, ConcatProperties
<1> QED BY <1>1, <1>3 DEF Msg

LEMMA Products ==
  /\ \A a \in Nat, b \in Nat \ {0} : a \div b \in Nat
  /\ \A a, b \in Nat : a * b \in Nat
OBVIOUS

LEMMA ChunksType ==
  ASSUME NEW S, NEW data \in Seq(S)
  PROVE  Chunks(data) \in Seq(Seq(S))
<1> DEFINE n == (Len(data) + MAX - 1) \div MAX
           last(i) == IF i * MAX < Len(data) THEN i * MAX ELSE Len(data)
<1>1. n \in Nat
  BY Products, BufferAssumption
<1>2. ASSUME NEW i \in 1..n PROVE SubSeq(data, (i - 1) * MAX + 1, last(i)) \in Seq(S)
  <2>1. i - 1 \in Nat /\ i \in Nat /\ MAX \in Nat
    BY <1>1, BufferAssumption
  <2>2. (i - 1) * MAX \in Nat /\ i * MAX \in Nat
    BY <2>1, Products
  <2>3. last(i) \in Nat /\ last(i) <= Len(data)
    BY <2>2
  <2> HIDE DEF last
  <2>4. \A m \in (i - 1) * MAX + 1..last(i) : data[m] \in S
    BY <2>2, <2>3
  <2> QED BY <2>2, <2>3, <2>4, SubSeqProperties
<1> HIDE DEF n
<1>3. Chunks(data) = [i \in 1..n |-> SubSeq(data, (i - 1) * MAX + 1, last(i))]
  BY DEF Chunks, n
<1> DEFINE chunk(i) == SubSeq(data, (i - 1) * MAX + 1, last(i))
<1> HIDE DEF chunk, last
<1>4. \A i \in 1..n : chunk(i) \in Seq(S)
  BY <1>2 DEF chunk
<1>5. [i \in 1..n |-> chunk(i)] \in Seq(Seq(S))
  BY <1>1, <1>4
<1> QED BY <1>3, <1>5 DEF chunk

LEMMA SizedType ==
  ASSUME NEW data \in Seq(Said)
  PROVE  /\ Sized(data) \in Seq(Seq(Unit)) /\ Sized(data) # <<>>
         /\ data # <<>> => Sized(data) \in Seq(Seq(Said))
         /\ \A m \in DOMAIN Sized(data) : \A i \in DOMAIN Sized(data)[m] :
              Sized(data)[m][i][1] # "cmd"
<1> DEFINE size == IF data = <<>> THEN <<"nl">> ELSE <<"size", Len(data)>>
<1>1. size \in Unit /\ (data # <<>> => size \in Said) /\ size[1] # "cmd"
  BY DEF Unit, Said
<1>2. /\ Msg(size) \in Seq(Unit) /\ Msg(size)[1] = size
      /\ \A i \in DOMAIN Msg(size) : i # 1 => Msg(size)[i] = Pad
      /\ data # <<>> => Msg(size) \in Seq(Said)
  BY <1>1, SaidUnit, MsgType
<1>3. Chunks(data) \in Seq(Seq(Said)) /\ Chunks(data) \in Seq(Seq(Unit))
  BY SaidUnit, ChunksType
<1>4. \A m \in DOMAIN Chunks(data) : \A i \in DOMAIN Chunks(data)[m] :
        Chunks(data)[m][i][1] # "cmd"
  <2>1. \A m \in DOMAIN Chunks(data) : Chunks(data)[m] \in Seq(Said)
    BY <1>3
  <2>2. \A t \in Seq(Said) : \A i \in DOMAIN t : t[i] \in Said
    OBVIOUS
  <2> QED BY <2>1, <2>2, UnitKinds DEF Answers
<1> HIDE DEF size
<1>5. Sized(data) = <<Msg(size)>> \o Chunks(data)
  BY DEF Sized, size
<1>6. /\ Len(Sized(data)) = 1 + Len(Chunks(data))
      /\ Sized(data) \in Seq(Seq(Unit))
      /\ data # <<>> => Sized(data) \in Seq(Seq(Said))
      /\ \A m \in DOMAIN Sized(data) :
           Sized(data)[m] = IF m = 1 THEN Msg(size) ELSE Chunks(data)[m - 1]
  BY <1>2, <1>3, <1>5, ConcatProperties
<1>7. \A i \in DOMAIN Msg(size) : Msg(size)[i][1] # "cmd"
  BY <1>1, <1>2 DEF Pad
<1>8. \A m \in DOMAIN Sized(data) : m # 1 => m - 1 \in DOMAIN Chunks(data)
  BY <1>3, <1>6
<1> QED BY <1>4, <1>6, <1>7, <1>8

(* What a put sends behind its line.                                       *)
LEMMA PutType ==
  ASSUME NEW k \in Clients, NEW f, Content(cfile[k], f) \in Seq(Said)
  PROVE  /\ client_put(k, f) \in Seq(Seq(Unit)) /\ client_put(k, f) # <<>>
         /\ \A m \in DOMAIN client_put(k, f) : \A i \in DOMAIN client_put(k, f)[m] :
              client_put(k, f)[m][i][1] # "cmd"
<1>1. CASE f \notin ClientDirs
  BY <1>1, SizedType DEF client_put
<1>2. CASE f \in ClientDirs
  <2> DEFINE size == <<"size", DirSize>>
  <2>1. size \in Unit /\ size[1] = "size"
    BY BufferAssumption DEF Unit, Said, DirSize
  <2>2. /\ Msg(size) \in Seq(Unit) /\ Msg(size)[1] = size
        /\ \A i \in DOMAIN Msg(size) : i # 1 => Msg(size)[i] = Pad
    BY <2>1, SaidUnit, MsgType
  <2> HIDE DEF size
  <2>3. \A i \in DOMAIN Msg(size) : Msg(size)[i][1] # "cmd"
    BY <2>1, <2>2 DEF Pad
  <2>4. client_put(k, f) = <<Msg(size)>>
    BY <1>2 DEF client_put, size
  <2> QED BY <2>2, <2>3, <2>4
<1> QED BY <1>1, <1>2

LEMMA RestType ==
  ASSUME NEW S, NEW stream \in Seq(S), NEW n \in 1..Len(stream)
  PROVE  /\ Rest(stream, n) \in Seq(S) /\ Len(Rest(stream, n)) = Len(stream) - n
         /\ \A i \in 1..Len(stream) - n : Rest(stream, n)[i] = stream[n + i]
BY SubSeqProperties DEF Rest

LEMMA ReadLength ==
  ASSUME NEW S, NEW stream \in Seq(S), NEW n, ReadStream(stream, n)
  PROVE  n \in 1..Len(stream) /\ stream # <<>>
BY BufferAssumption DEF ReadStream, Lengths, Avail

LEMMA OverwrittenType ==
  ASSUME NEW S, NEW old \in Seq(S), NEW data \in Seq(S), NEW off \in 0..Len(old)
  PROVE  /\ Overwritten(old, off, data) \in Seq(S)
         /\ Len(Overwritten(old, off, data)) >= off + Len(data)
<1> DEFINE a == SubSeq(old, 1, off)
           b == SubSeq(old, off + Len(data) + 1, Len(old))
<1>1. a \in Seq(S) /\ Len(a) = off
  BY SubSeqProperties
<1>2. b \in Seq(S)
  BY SubSeqProperties
<1> HIDE DEF a, b
<1>3. a \o data \in Seq(S) /\ Len(a \o data) = off + Len(data)
  BY <1>1, ConcatProperties
<1>4. (a \o data) \o b \in Seq(S) /\ Len((a \o data) \o b) >= off + Len(data)
  BY <1>2, <1>3, ConcatProperties
<1> QED BY <1>4 DEF Overwritten, a, b

----------------------------------------------------------------------------
(* The server executes a line.                                             *)

(* What Execute leaves of the server and its files.                        *)
Executed ==
  /\ ServerOK' /\ ServerFilesOK'
  /\ sv'.client = sv.client /\ sv'.pc # "dead"
  /\ Fails(sv') => ListsOther(sv'.line)

LEMMA AnswerType ==
  ASSUME ServerOK, sv.client \in Clients, NEW line \in Unit,
         NEW writes \in Seq(Seq(Said)), NEW then \in {"read", "put_size", "spin", "fail"},
         Answer(line, writes, then),
         then = "fail" => ListsOther(line)
  PROVE  /\ ServerOK' /\ sv'.client = sv.client /\ sv'.pc # "dead"
         /\ Fails(sv') => ListsOther(sv'.line)
BY DEF ServerOK, ServerRec, Answer, Fails

LEMMA EmptyAnswer == <<>> \in Seq(Seq(Said))
OBVIOUS

LEMMA EntriesFinite ==
  ASSUME ServerFilesOK, NEW d \in DOMAIN sfile
  PROVE  IsFiniteSet(Entries(d))
<1>1. IsFiniteSet(DOMAIN sfile \ {"top"}) /\ IsFiniteSet({}) /\ IsFiniteSet(DOMAIN sfile[d])
  BY FS_Subset, FS_EmptySet DEF ServerFilesOK
<1> QED BY <1>1, FS_Union DEF Entries

LEMMA GetExecuted ==
  ASSUME ServerOK, ServerFilesOK, sv.client \in Clients, NEW line \in Unit, NEW f \in Name,
         server_get(line, f), UNCHANGED <<sfile, cwd>>
  PROVE  Executed
<1> DEFINE data == Content(sfile[cwd], f)
<1>1. data \in Seq(Said)
  BY DEF ServerFilesOK
<1>2. <<"size", DirSize>> \in Said
  BY BufferAssumption DEF Said, DirSize
<1>3. <<Msg(<<"size", DirSize>>)>> \in Seq(Seq(Said))
  BY <1>2, SaidUnit, MsgType
<1>4. data # <<>> => Sized(data) \in Seq(Seq(Said))
  BY <1>1, SizedType
<1>5. ServerFilesOK'
  BY DEF ServerFilesOK, Content
<1>6. CASE f \in Entries(cwd) \ DOMAIN sfile[cwd]
  BY <1>3, <1>5, <1>6, AnswerType DEF server_get, Executed
<1>7. CASE f \notin Entries(cwd) \ DOMAIN sfile[cwd]
  <2>1. Answer(line, IF data = <<>> THEN <<>> ELSE Sized(data), "read")
    BY <1>7 DEF server_get
  <2> QED BY <1>4, <1>5, <2>1, AnswerType, EmptyAnswer DEF Executed
<1> QED BY <1>6, <1>7

LEMMA LsExecuted ==
  ASSUME ServerOK, ServerFilesOK, sv.client \in Clients, NEW line \in Unit,
         NEW arg \in Name, line[1] = "cmd", line[2][1] = "ls", line[2][2] = arg,
         ls_dir(line, arg), UNCHANGED <<sfile, cwd>>
  PROVE  Executed
<1> DEFINE d == Dir(arg)
           lines(n) == [i \in 1..n |-> Msg(<<"entry">>)]
           found == IF d = "none" THEN {} ELSE {".", ".."} \cup (Entries(d) \cap Entries(cwd))
<1>1. ServerFilesOK'
  BY DEF ServerFilesOK, Content
<1>2. d \in DOMAIN sfile \cup {"none"} /\ (arg = "" => d = cwd /\ d # "none")
  BY DEF Dir, ServerFilesOK
<1>3. <<"entry">> \in Said /\ <<"$">> \in Said
  BY DEF Said
<1>4. Msg(<<"entry">>) \in Seq(Said) /\ Msg(<<"$">>) \in Seq(Said)
  BY <1>3, SaidUnit, MsgType
<1>5. \A n \in Nat : lines(n) \in Seq(Seq(Said)) /\ lines(n) \o <<Msg(<<"$">>)>> \in Seq(Seq(Said))
  <2>1. \A n \in Nat : lines(n) \in Seq(Seq(Said))
    BY <1>4
  <2>2. <<Msg(<<"$">>)>> \in Seq(Seq(Said))
    BY <1>4
  <2> HIDE DEF lines
  <2> QED BY <2>1, <2>2, ConcatProperties
<1>6. CASE d = "none"
  <2>1. Answer(line, <<>>, "fail")
    BY <1>6 DEF ls_dir
  <2> QED BY <1>1, <1>2, <1>6, <2>1, AnswerType, EmptyAnswer DEF Executed, ListsOther
<1>7. CASE d # "none"
  <2>1. IsFiniteSet(Entries(d) \cap Entries(cwd))
    BY <1>2, <1>7, EntriesFinite, FS_Subset
  <2>2. IsFiniteSet({".", ".."})
    <3>1. {".", ".."} = {"."} \cup {".."}
      OBVIOUS
    <3>2. IsFiniteSet({"."}) /\ IsFiniteSet({".."})
      BY FS_Singleton
    <3> QED BY <3>1, <3>2, FS_Union
  <2>3. Cardinality(found) \in Nat
    BY <1>7, <2>1, <2>2, FS_Union, FS_CardinalityType
  <2>4. CASE Entries(d) \subseteq found
    <3>1. Answer(line, lines(Cardinality(found)) \o <<Msg(<<"$">>)>>, "read")
      BY <1>7, <2>4 DEF ls_dir
    <3> HIDE DEF lines, found
    <3> QED BY <1>1, <1>5, <2>3, <3>1, AnswerType DEF Executed
  <2>5. CASE ~(Entries(d) \subseteq found)
    <3>1. arg # ""
      BY <1>2, <1>7, <2>5
    <3>2. PICK n \in 0..Cardinality(found) : Answer(line, lines(n), "fail")
      BY <1>7, <2>5 DEF ls_dir
    <3>3. n \in Nat /\ ListsOther(line)
      <4> HIDE DEF found
      <4>1. n \in Nat
        BY <2>3
      <4>2. ListsOther(line)
        BY <3>1 DEF ListsOther
      <4> QED BY <4>1, <4>2
    <3>4. lines(n) \in Seq(Seq(Said))
      BY <1>5, <3>3
    <3> HIDE DEF lines, found
    <3> QED BY <1>1, <3>2, <3>3, <3>4, AnswerType DEF Executed
  <2> QED BY <2>4, <2>5
<1> QED BY <1>6, <1>7

LEMMA SilentExecuted ==
  ASSUME ServerOK, ServerFilesOK, sv.client \in Clients, NEW line \in Unit,
         NEW op \in Name, NEW arg \in Name \ {"top"}, Silent(line, op, arg)
  PROVE  Executed
<1>1. /\ ServerOK' /\ sv'.client = sv.client /\ sv'.pc # "dead"
      /\ Fails(sv') => ListsOther(sv'.line)
  BY AnswerType, EmptyAnswer DEF Silent
<1>2. cwd' = cwd \/ (cwd' \in DOMAIN sfile \ {"none"} /\ op = "cd")
  BY DEF Silent, Dir, ServerFilesOK
<1>3. CASE op = "mkdir" /\ cwd = "top" /\ arg \notin Entries("top")
  <2>1. sfile' = With(sfile, arg, <<>>) /\ cwd' = cwd
    BY <1>2, <1>3 DEF Silent
  <2>2. DOMAIN sfile' = DOMAIN sfile \cup {arg} /\ sfile'[arg] = <<>>
        /\ \A d \in DOMAIN sfile \ {arg} : sfile'[d] = sfile[d]
    BY <2>1 DEF With
  <2>3. IsFiniteSet(DOMAIN sfile')
    <3>1. IsFiniteSet(DOMAIN sfile)
      BY DEF ServerFilesOK
    <3> QED BY <2>2, <3>1, FS_AddElement
  <2>6. DOMAIN <<>> = {}
    OBVIOUS
  <2>7. IsFiniteSet(DOMAIN <<>>)
    BY <2>6, FS_EmptySet
  <2>4. \A f \in Name : Content(<<>>, f) \in Seq(Said)
    BY DEF Content
  <2>5. ServerFilesOK'
    BY <2>1, <2>2, <2>3, <2>4, <2>7 DEF ServerFilesOK, Content
  <2> QED BY <1>1, <2>5 DEF Executed
<1>4. CASE op = "rmdir" /\ cwd = "top" /\ arg \in DOMAIN sfile /\ Entries(arg) = {}
  <2>1. sfile' = Restrict(sfile, DOMAIN sfile \ {arg}) /\ cwd' = cwd
    BY <1>2, <1>4 DEF Silent
  <2>2. DOMAIN sfile' = DOMAIN sfile \ {arg} /\ \A d \in DOMAIN sfile' : sfile'[d] = sfile[d]
    BY <2>1 DEF Restrict
  <2>3. IsFiniteSet(DOMAIN sfile')
    BY <2>2, FS_Subset DEF ServerFilesOK
  <2>4. ServerFilesOK'
    BY <1>4, <2>1, <2>2, <2>3 DEF ServerFilesOK, Content
  <2> QED BY <1>1, <2>4 DEF Executed
<1>5. CASE op = "rm"
  <2>1. /\ sfile' = [sfile EXCEPT ![cwd] = Restrict(@, DOMAIN @ \ {arg})]
        /\ cwd' = cwd
    BY <1>2, <1>5 DEF Silent
  <2>2. /\ DOMAIN sfile' = DOMAIN sfile
        /\ \A d \in DOMAIN sfile \ {cwd} : sfile'[d] = sfile[d]
        /\ DOMAIN sfile'[cwd] = DOMAIN sfile[cwd] \ {arg}
        /\ \A f \in DOMAIN sfile'[cwd] : sfile'[cwd][f] = sfile[cwd][f]
    BY <2>1 DEF Restrict, ServerFilesOK
  <2>3. IsFiniteSet(DOMAIN sfile'[cwd])
    BY <2>2, FS_Subset DEF ServerFilesOK
  <2>4. \A f \in Name : Content(sfile'[cwd], f) \in {Content(sfile[cwd], f), <<>>}
    BY <2>2 DEF Content
  <2>5. \A d \in DOMAIN sfile' : /\ IsFiniteSet(DOMAIN sfile'[d])
                                 /\ \A f \in Name : Content(sfile'[d], f) \in Seq(Said)
    <3>1. \A f \in Name : Content(sfile'[cwd], f) \in Seq(Said)
      <4>1. <<>> \in Seq(Said) /\ cwd \in DOMAIN sfile
        BY DEF ServerFilesOK
      <4>2. \A f \in Name : Content(sfile[cwd], f) \in Seq(Said)
        BY <4>1 DEF ServerFilesOK
      <4> QED BY <2>4, <4>1, <4>2
    <3>2. \A d \in DOMAIN sfile : IsFiniteSet(DOMAIN sfile'[d])
      BY <2>2, <2>3 DEF ServerFilesOK
    <3>3. \A d \in DOMAIN sfile \ {cwd} :
            \A f \in Name : Content(sfile'[d], f) \in Seq(Said)
      BY <2>2 DEF ServerFilesOK
    <3> QED BY <2>2, <3>1, <3>2, <3>3
  <2>6. ServerFilesOK'
    BY <2>1, <2>2, <2>5 DEF ServerFilesOK, Content
  <2> QED BY <1>1, <2>6 DEF Executed
<1>6. CASE sfile' = sfile
  BY <1>1, <1>2, <1>6 DEF Executed, ServerFilesOK, Content
<1> QED BY <1>3, <1>4, <1>5, <1>6 DEF Silent

LEMMA ExecuteType ==
  ASSUME ServerOK, ServerFilesOK, sv.client \in Clients, NEW unit \in Unit, Execute(unit)
  PROVE  Executed /\ UNCHANGED cfile
<1>1. CASE unit[1] # "cmd"
  <2>1. Answer(unit, <<>>, "read") /\ UNCHANGED files
    BY <1>1 DEF Execute
  <2>2. ServerFilesOK'
    BY <2>1 DEF files, ServerFilesOK, Content
  <2> QED BY <2>1, <2>2, AnswerType, EmptyAnswer DEF Executed, files
<1>2. CASE unit[1] = "cmd"
  <2> DEFINE op == unit[2][1]
             arg == unit[2][2]
  <2>1. op \in Name /\ arg \in Name \ {"top"}
    BY <1>2, UnitKinds DEF Cmd
  <2>2. UNCHANGED cfile
    BY <1>2 DEF Execute
  <2>3. CASE op = "get" /\ server_get(unit, arg) /\ UNCHANGED <<sfile, cwd>>
    BY <2>1, <2>2, <2>3, GetExecuted
  <2>4. CASE op = "put" /\ Answer(unit, <<>>, "put_size") /\ UNCHANGED <<sfile, cwd>>
    <3>1. ServerFilesOK'
      BY <2>4 DEF ServerFilesOK, Content
    <3> QED BY <2>2, <2>4, <3>1, AnswerType, EmptyAnswer DEF Executed
  <2>5. CASE op = "ls" /\ ls_dir(unit, arg) /\ UNCHANGED <<sfile, cwd>>
    BY <1>2, <2>1, <2>2, <2>5, LsExecuted
  <2>6. CASE op = "pwd" /\ Answer(unit, <<Msg(<<"dir", cwd>>)>>, "read")
             /\ UNCHANGED <<sfile, cwd>>
    <3>1. ServerFilesOK'
      BY <2>6 DEF ServerFilesOK, Content
    <3>2. <<"dir", cwd>> \in Said
      BY DEF Said, ServerFilesOK
    <3>3. <<Msg(<<"dir", cwd>>)>> \in Seq(Seq(Said))
      BY <3>2, SaidUnit, MsgType
    <3> QED BY <2>2, <2>6, <3>1, <3>3, AnswerType DEF Executed
  <2>7. CASE op \in {"cd", "mkdir", "rmdir", "rm"} /\ Silent(unit, op, arg)
    BY <2>1, <2>2, <2>7, SilentExecuted
  <2> QED BY <1>2, <2>3, <2>4, <2>5, <2>6, <2>7 DEF Execute
<1> QED BY <1>1, <1>2

----------------------------------------------------------------------------
(* Steps of the server.                                                    *)

LEMMA ClientsKept ==
  ASSUME ClientsOK, UNCHANGED <<cl, cfile>>
  PROVE  ClientsOK'
BY DEF ClientsOK, ClientOK, ClientFilesOK, Content

LEMMA FilesKept ==
  ASSUME ServerFilesOK, UNCHANGED <<sfile, cwd>>
  PROVE  ServerFilesOK'
BY DEF ServerFilesOK, Content

(* An end stays what it is or sees more of the other one's death.          *)
LEMMA EndKinds ==
  /\ \A e \in End : AfterWrite[e] \subseteq End /\ AfterEnd(e) \in End
  /\ \A e \in End : \A f \in AfterWrite[e] : f # "up" => e # "up"
  /\ \A e \in End : AfterEnd(e) # "up" => e # "up"
BY DEF End, AfterWrite, AfterEnd

LEMMA LinkType ==
  ASSUME link \in [Clients -> [c : End, s : End]], NEW k \in Clients, NEW e \in End
  PROVE  /\ [link EXCEPT ![k].s = e] \in [Clients -> [c : End, s : End]]
         /\ [link EXCEPT ![k].c = e] \in [Clients -> [c : End, s : End]]
OBVIOUS

LEMMA HeadType ==
  ASSUME NEW S, NEW s \in Seq(S), s # <<>>
  PROVE  Head(s) \in S /\ Tail(s) \in Seq(S) /\ (Len(s) # 1 => Tail(s) # <<>>)
<1>1. Head(s) \in S /\ Tail(s) \in Seq(S) /\ Len(Tail(s)) = Len(s) - 1
  BY HeadTailProperties
<1>2. Len(<<>>) = 0 /\ Len(s) \in Nat
  OBVIOUS
<1> QED BY <1>1, <1>2

LEMMA AcceptKeeps == IInv /\ Accept => IInv'
<1> SUFFICES ASSUME IInv, Accept PROVE IInv' OBVIOUS
<1> USE DEF IInv, Types, Accept, files, history
<1>1. Head(backlog) \in Clients /\ Tail(backlog) \in Seq(Clients)
  BY DEF StreamsOK
<1>2. StreamsOK'
  BY <1>1 DEF StreamsOK
<1>3. ServerOK'
  BY <1>1 DEF ServerOK, ServerRec
<1>4. ServerFilesOK' /\ ClientsOK'
  BY ClientsKept, FilesKept
<1>5. EndsBy'
  BY DEF EndsBy, ServerEndsBy, Fails, ServerOK, ServerRec
<1> QED BY <1>2, <1>3, <1>4, <1>5

LEMMA ServerWriteKeeps == IInv /\ ServerWrite => IInv'
<1> SUFFICES ASSUME IInv, ServerWrite PROVE IInv' OBVIOUS
<1> USE DEF IInv, Types, ServerWrite, files, history
<1>1. sv.client \in Clients /\ sv.out \in Seq(Seq(Said)) /\ sv.out # <<>>
  BY DEF ServerOK, ServerRec
<1>2. /\ Head(sv.out) \in Seq(Said) /\ Tail(sv.out) \in Seq(Seq(Said))
      /\ Len(sv.out) # 1 => Tail(sv.out) # <<>>
  BY <1>1, HeadType
<1>3. PICK state \in AfterWrite[link[sv.client].s] :
        /\ link' = [link EXCEPT ![sv.client].s = state]
        /\ s2c' = IF link[sv.client].s # "up" THEN s2c
                  ELSE [s2c EXCEPT ![sv.client] = @ \o Head(sv.out)]
        /\ sv' = [sv EXCEPT !.out = Tail(@),
                            !.pc = IF Len(sv.out) = 1 THEN sv.then ELSE "write"]
  OBVIOUS
<1>4. link[sv.client].s \in End /\ state \in End /\ (state # "up" => link[sv.client].s # "up")
  BY <1>1, <1>3, EndKinds DEF StreamsOK
<1>5. s2c[sv.client] \o Head(sv.out) \in Seq(Said)
  BY <1>1, <1>2, ConcatProperties DEF StreamsOK
<1>6. StreamsOK'
  <2>1. s2c' \in [Clients -> Seq(Said)]
    BY <1>1, <1>3, <1>5 DEF StreamsOK
  <2>2. link \in [Clients -> [c : End, s : End]]
    BY DEF StreamsOK
  <2>3. link' \in [Clients -> [c : End, s : End]]
    BY <1>1, <1>3, <1>4, <2>2, LinkType
  <2> QED BY <2>1, <2>3 DEF StreamsOK
<1>7. ServerOK'
  BY <1>1, <1>2, <1>3 DEF ServerOK, ServerRec
<1>8. ServerFilesOK' /\ ClientsOK'
  BY ClientsKept, FilesKept
<1>9. EndsBy'
  <2>1. \A k \in Clients : link'[k].s # "up" => link[k].s # "up"
    BY <1>1, <1>3, <1>4 DEF StreamsOK
  <2>2. Fails(sv') => ListsOther(sv'.line)
    BY <1>3 DEF Fails, ServerOK, EndsBy, ServerRec
  <2>3. sv'.pc # "dead"
    BY <1>3 DEF ServerOK, ServerRec
  <2> QED BY <2>1, <2>2, <2>3 DEF EndsBy, ServerEndsBy
<1> QED BY <1>6, <1>7, <1>8, <1>9

LEMMA ServerFailsKeeps == IInv /\ ServerFails => IInv'
<1> SUFFICES ASSUME IInv, ServerFails PROVE IInv' OBVIOUS
<1> USE DEF IInv, Types, ServerFails, ServerDies, files, history
<1>1. ServerOK'
  BY EmptyAnswer DEF ServerOK, ServerRec
<1>2. StreamsOK'
  <2>1. <<>> \in Seq(Unit) /\ <<>> \in Seq(Clients)
    OBVIOUS
  <2>2. \A k \in Clients : Closed(c2s[k]) \in End
    BY DEF Closed, End
  <2>3. link' \in [Clients -> [c : End, s : End]]
    BY <2>2 DEF StreamsOK, End
  <2> QED BY <2>1, <2>3 DEF StreamsOK
<1>3. ServerFilesOK' /\ ClientsOK'
  BY ClientsKept, FilesKept
<1>4. EndsBy'
  <2>1. \A k \in Clients : link'[k].s = link[k].s
    BY DEF StreamsOK
  <2>2. sv'.pc = "dead" /\ sv'.line = sv.line /\ sv'.client = sv.client
    BY DEF ServerOK, ServerRec
  <2>3. ListsOther(sv.line) \/ cl[sv.client].pc = "gone"
    BY DEF EndsBy, Fails, ServerOK, ServerRec
  <2> QED BY <2>1, <2>2, <2>3 DEF EndsBy, ServerEndsBy, Fails, ListsOther
<1> QED BY <1>1, <1>2, <1>3, <1>4

LEMMA ServerReadsType ==
  ASSUME StreamsOK, sv.client \in Clients, NEW n, ServerReads(n)
  PROVE  /\ StreamsOK' /\ Head(c2s[sv.client]) \in Unit /\ UNCHANGED <<link, cl>>
         /\ n \in 1..Len(c2s[sv.client])
<1>1. c2s[sv.client] \in Seq(Unit)
  BY DEF StreamsOK
<1>2. n \in 1..Len(c2s[sv.client]) /\ c2s[sv.client] # <<>>
  BY <1>1, ReadLength DEF ServerReads
<1>3. Rest(c2s[sv.client], n) \in Seq(Unit)
  BY <1>1, <1>2, RestType
<1> QED BY <1>1, <1>2, <1>3, HeadType DEF ServerReads, StreamsOK

LEMMA ServerEndType ==
  ASSUME StreamsOK, sv.client \in Clients, ServerEnd
  PROVE  /\ StreamsOK' /\ UNCHANGED cl
         /\ \A k \in Clients : link'[k].s # "up" => link[k].s # "up"
<1>1. link[sv.client].s \in End
  BY DEF StreamsOK
<1> QED BY <1>1, EndKinds DEF ServerEnd, StreamsOK

LEMMA StaleUnit == \A u \in Unit : Stale(u) \in Unit
<1> SUFFICES ASSUME NEW u \in Unit, u[1] = "cmd" PROVE Text(<<u[2][1], "ECHO">>) \in Unit
  BY DEF Stale
<1>1. u[2] \in Cmd
  BY UnitKinds
<1>2. u[2][1] \in Name
  BY <1>1 DEF Cmd
<1>3. "ECHO" \in Name \ {"top"}
  BY DEF Name
<1>4. <<u[2][1], "ECHO">> \in Cmd
  BY <1>2, <1>3 DEF Cmd
<1> QED BY <1>4, Texts

LEMMA LinesUnit ==
  ASSUME NEW u \in Unit, NEW n
  PROVE  Lines(u, n) \subseteq Unit
<1>1. \A cmd \in Scraps : cmd \in Cmd
  BY ScrapAssumption DEF Cmd, Name
<1>2. \A cmd \in Scraps : Text(cmd) \in Unit
  BY <1>1, Texts
<1> QED BY <1>2, SaidUnit DEF Lines

LEMMA ServerReadsLineKeeps == IInv /\ ServerReadsLine => IInv'
<1> SUFFICES ASSUME IInv, ServerReadsLine PROVE IInv' OBVIOUS
<1> USE DEF IInv, Types, ServerReadsLine
<1>1. sv.client \in Clients
  BY DEF ServerOK, ServerRec
<1>2. StreamsOK' /\ Head(c2s[sv.client]) \in Unit /\ UNCHANGED <<link, cl>>
  BY <1>1, ServerReadsType
<1>6. \E line \in Unit : Execute(line)
  BY <1>2, LinesUnit
<1>3. Executed /\ UNCHANGED cfile
  BY <1>1, <1>6, ExecuteType
<1>4. ClientsOK'
  BY <1>2, <1>3, ClientsKept
<1>5. EndsBy'
  BY <1>2, <1>3 DEF Executed, EndsBy, ServerEndsBy
<1> QED BY <1>2, <1>3, <1>4, <1>5 DEF Executed

LEMMA ServerLosesClientKeeps == IInv /\ ServerLosesClient => IInv'
<1> SUFFICES ASSUME IInv, ServerLosesClient PROVE IInv' OBVIOUS
<1> USE DEF IInv, Types, ServerLosesClient
<1>1. sv.client \in Clients /\ Stale(sv.line) \in Unit
  BY StaleUnit DEF ServerOK, ServerRec
<1>2. /\ StreamsOK' /\ UNCHANGED cl
      /\ \A k \in Clients : link'[k].s # "up" => link[k].s # "up"
  BY <1>1, ServerEndType
<1>3. CASE link[sv.client].s = "rst"
  <2>1. Executed /\ UNCHANGED cfile
    BY <1>1, <1>3, ExecuteType
  <2>2. ClientsOK'
    BY <1>2, <2>1, ClientsKept
  <2>3. EndsBy'
    BY <1>2, <2>1 DEF Executed, EndsBy, ServerEndsBy
  <2> QED BY <1>2, <2>1, <2>2, <2>3 DEF Executed
<1>4. CASE link[sv.client].s # "rst"
  <2>1. sv' = [sv EXCEPT !.pc = "accept", !.client = Nobody] /\ UNCHANGED files
    BY <1>4
  <2>2. ServerOK'
    BY <2>1 DEF ServerOK, ServerRec
  <2>3. ServerFilesOK' /\ ClientsOK'
    BY <1>2, <2>1, ClientsKept, FilesKept DEF files
  <2>4. EndsBy'
    BY <1>2, <2>1 DEF EndsBy, ServerEndsBy, Fails, ServerOK, ServerRec
  <2> QED BY <1>2, <2>2, <2>3, <2>4
<1> QED BY <1>3, <1>4

LEMMA ServerReadsSizeKeeps == IInv /\ ServerReadsSize => IInv'
<1> SUFFICES ASSUME IInv, ServerReadsSize PROVE IInv' OBVIOUS
<1> USE DEF IInv, Types, ServerReadsSize
<1>1. sv.client \in Clients
  BY DEF ServerOK, ServerRec
<1>2. /\ StreamsOK' /\ UNCHANGED cl
      /\ \A k \in Clients : link'[k].s # "up" => link[k].s # "up"
      /\ \E sizes \in SUBSET Int : PutSize(sizes)
  BY <1>1, ServerReadsType, ServerEndType, Sizes, JunkAssumption
<1>3. PICK size \in Int :
        /\ sv' = [sv EXCEPT !.left = size, !.pc = IF size <= 0 THEN "read" ELSE "put_data"]
        /\ UNCHANGED files
  BY <1>2 DEF PutSize
<1>4. ServerOK'
  <2>1. CASE size <= 0
    BY <1>1, <1>3, <2>1 DEF ServerOK, ServerRec
  <2>2. CASE ~(size <= 0)
    <3>1. size > 0
      BY <2>2
    <3> QED BY <1>1, <1>3, <2>2, <3>1 DEF ServerOK, ServerRec
  <2> QED BY <2>1, <2>2
<1>5. ServerFilesOK' /\ ClientsOK'
  BY <1>2, <1>3, ClientsKept, FilesKept DEF files
<1>6. EndsBy'
  BY <1>2, <1>3 DEF EndsBy, ServerEndsBy, Fails, ServerOK, ServerRec
<1> QED BY <1>2, <1>4, <1>5, <1>6

LEMMA ServerReadsDataKeeps == IInv /\ ServerReadsData => IInv'
<1> SUFFICES ASSUME IInv, ServerReadsData PROVE IInv' OBVIOUS
<1> USE DEF IInv, Types, ServerReadsData
<1>1. sv.client \in Clients
  BY DEF ServerOK, ServerRec
<1>2. PICK n \in Int :
        /\ PutCount(n)
        /\ StreamsOK' /\ UNCHANGED cl
        /\ \A k \in Clients : link'[k].s # "up" => link[k].s # "up"
  <2>1. CASE \E n \in 1..MAX : ServerReads(n) /\ PutCount(n)
    BY <1>1, <2>1, ServerReadsType
  <2>2. CASE ServerEnd /\ link[sv.client].s = "rst" /\ PutCount(-1)
    BY <1>1, <2>2, ServerEndType
  <2> QED BY <2>1, <2>2
<1>3. ServerOK'
  <2>1. sv.left \in Int
    BY DEF ServerOK, ServerRec
  <2>2. CASE sv.left <= n
    <3>1. sv' = [sv EXCEPT !.left = 0, !.pc = "read"]
      BY <1>2, <2>2 DEF PutCount
    <3>2. sv' \in ServerRec
      <4>1. sv \in ServerRec
        BY DEF ServerOK
      <4>2. /\ 0 \in Int
            /\ "read" \in {"accept", "read", "write", "put_size", "put_data", "spin",
                          "fail", "dead"}
        OBVIOUS
      <4> QED BY ONLY <3>1, <4>1, <4>2 DEF ServerRec
    <3>3. sv'.pc = "read" /\ sv'.client = sv.client
      BY <3>1 DEF ServerOK, ServerRec
    <3> QED BY <1>1, <3>2, <3>3 DEF ServerOK
  <2>3. CASE ~(sv.left <= n)
    <3>1. sv.left - n \in Int /\ sv.left - n > 0
      BY <2>1, <2>3
    <3>2. sv' = [sv EXCEPT !.left = @ - n]
      BY <1>2, <2>3 DEF PutCount
    <3>3. sv' \in ServerRec
      BY <3>1, <3>2 DEF ServerOK, ServerRec
    <3>4. sv'.left = sv.left - n /\ sv'.pc = "put_data" /\ sv'.client = sv.client
      BY <3>2 DEF ServerOK, ServerRec
    <3> QED BY <1>1, <3>1, <3>3, <3>4 DEF ServerOK
  <2> QED BY <2>2, <2>3
<1>4. ServerFilesOK' /\ ClientsOK'
  BY <1>2, ClientsKept, FilesKept DEF PutCount, files
<1>5. EndsBy'
  BY <1>2 DEF EndsBy, ServerEndsBy, Fails, ServerOK, PutCount, ServerRec
<1> QED BY <1>2, <1>3, <1>4, <1>5

----------------------------------------------------------------------------
(* Steps of the clients.                                                   *)

LEMMA OneClient ==
  ASSUME ClientsOK, NEW k \in Clients,
         NEW c, cl' = [cl EXCEPT ![k] = c],
         NEW dir, cfile' = [cfile EXCEPT ![k] = dir],
         ClientOK(k)', ClientFilesOK(k)'
  PROVE  ClientsOK'
BY DEF ClientsOK, ClientOK, ClientFilesOK, Content

LEMMA SameFiles ==
  ASSUME ClientsOK, NEW k \in Clients, UNCHANGED cfile
  PROVE  /\ cfile' = [cfile EXCEPT ![k] = cfile[k]]
         /\ ClientFilesOK(k)'
BY DEF ClientsOK, ClientFilesOK, Content

LEMMA IdleType ==
  /\ Idle \in ClientRec /\ Idle.off = 0 /\ Idle.pc = "off"
  /\ [Idle EXCEPT !.pc = "gone"] \in ClientRec
  /\ [Idle EXCEPT !.pc = "gone"].pc = "gone" /\ [Idle EXCEPT !.pc = "gone"].off = 0
  /\ \A c \in ClientRec : Prompt(c) \in ClientRec /\ Prompt(c).pc = "prompt" /\ Prompt(c).off = 0
<1>1. Idle \in ClientRec /\ Idle.off = 0 /\ Idle.pc = "off"
  <2>1. <<>> \in Seq(Seq(Unit))
    OBVIOUS
  <2> QED BY <2>1 DEF Idle, ClientRec, Name
<1> QED BY <1>1 DEF Prompt, ClientRec

LEMMA PromptOK ==
  ASSUME ClientsOK, NEW k \in Clients, UNCHANGED cfile,
         NEW c \in ClientRec, c.pc \in {"prompt", "gone"}, c.off = 0,
         cl' = [cl EXCEPT ![k] = c]
  PROVE  ClientsOK'
<1>1. ClientOK(k)'
  BY DEF ClientOK, ClientsOK
<1> QED BY <1>1, SameFiles, OneClient

(* The process of a client ends.                                           *)
LEMMA ClientEndsKeeps ==
  ASSUME IInv, NEW k \in Clients, cl[k].pc # "off", ClientEnds(k)
  PROVE  IInv'
<1> USE DEF IInv, Types, ClientEnds, files
<1>2. ClientsOK'
  BY IdleType, PromptOK
<1>3. ServerOK' /\ ServerFilesOK'
  BY FilesKept DEF ServerOK, ServerRec
<1>4. StreamsOK'
  <2>1. <<>> \in Seq(Said) /\ Closed(s2c[k]) \in End
    BY DEF Closed, End
  <2>2. link' \in [Clients -> [c : End, s : End]]
    BY <2>1, LinkType DEF StreamsOK
  <2> QED BY <2>1, <2>2 DEF StreamsOK
<1>5. EndsBy'
  <2>1. \A j \in Clients : cl'[j] = cl[j] \/ cl'[j].pc = "gone"
    BY IdleType DEF ClientsOK
  <2>2. cl'[k].pc = "gone"
    BY IdleType DEF ClientsOK
  <2>3. \A j \in Clients \ {k} : link'[j].s = link[j].s
    BY DEF StreamsOK
  <2>4. sv.pc = "dead" => sv.client \in Clients
    BY DEF ServerOK
  <2>5. ServerEndsBy'
    BY <2>1, <2>4 DEF EndsBy, ServerEndsBy
  <2> QED BY <2>1, <2>2, <2>3, <2>5 DEF EndsBy, Fails, ListsOther
<1> QED BY <1>2, <1>3, <1>4, <1>5

(* Steps of a client that changes what it does and not what is at the      *)
(* server keep all but what is said of itself.                             *)
LEMMA ClientStep ==
  ASSUME IInv, NEW k \in Clients, NEW c, cl' = [cl EXCEPT ![k] = c],
         cl[k].pc # "gone" \/ c.pc = "gone",
         UNCHANGED <<sv, sfile, cwd>>, StreamsOK', ClientsOK',
         \A j \in Clients : link'[j].s = link[j].s
  PROVE  IInv'
<1> USE DEF IInv, Types
<1>1. ServerOK' /\ ServerFilesOK'
  BY FilesKept DEF ServerOK, ServerRec
<1>2. \A j \in Clients : cl[j].pc = "gone" => cl'[j].pc = "gone"
  BY DEF ClientsOK
<1>3. sv.pc = "dead" => sv.client \in Clients
  BY DEF ServerOK
<1>4. EndsBy'
  BY <1>2, <1>3 DEF EndsBy, ServerEndsBy, Fails, ListsOther
<1> QED BY <1>1, <1>4

LEMMA ConnectKeeps == \A k \in Clients : IInv /\ Connect(k) => IInv'
<1> SUFFICES ASSUME NEW k \in Clients, IInv, Connect(k) PROVE IInv' OBVIOUS
<1> USE DEF IInv, Types, Connect, files, history
<1> DEFINE c == [cl[k] EXCEPT !.pc = "prompt"]
<1>1. cl' = [cl EXCEPT ![k] = c]
  OBVIOUS
<1>2. c \in ClientRec /\ c.pc = "prompt" /\ c.off = 0
  BY DEF ClientsOK, ClientOK, ClientRec
<1>3. ClientsOK'
  BY <1>1, <1>2, PromptOK
<1>4. StreamsOK'
  BY AppendProperties DEF StreamsOK
<1> QED BY <1>1, <1>3, <1>4, ClientStep

LEMMA SplitConcat ==
  ASSUME NEW S, NEW s \in Seq(S), NEW t \in Seq(S)
  PROVE  s \o t \in Seq(S) /\ (s # <<>> => s \o t # <<>>)
BY ConcatProperties

LEMMA AskKeeps ==
  \A k \in Clients : \A cmd \in Commands[k] : IInv /\ Ask(k, cmd) => IInv'
<1> SUFFICES ASSUME NEW k \in Clients, NEW cmd \in Commands[k], IInv, Ask(k, cmd)
             PROVE  IInv'
  OBVIOUS
<1> USE DEF IInv, Types, files
<1>1. cmd \in Cmd
  BY CommandAssumption DEF Cmd, Name
<1>2. Content(cfile[k], cmd[2]) \in Seq(Said)
  BY <1>1 DEF ClientsOK, ClientFilesOK, Cmd
<1> DEFINE put == IF cmd[1] = "put" THEN client_put(k, cmd[2]) ELSE <<>>
           out == <<Msg(Text(cmd))>> \o put
           odd == cl[k].odd \/ IsOdd(k, cmd)
           c == [cl[k] EXCEPT !.pc = "write", !.path = cmd[2], !.then = Afterwards(cmd),
                              !.out = out, !.odd = odd]
<1>3. out \in Seq(Seq(Unit)) /\ out # <<>>
  <2>1. put \in Seq(Seq(Unit))
    BY <1>2, PutType
  <2>2. Msg(Text(cmd)) \in Seq(Unit)
    BY <1>1, Texts, SaidUnit, MsgType
  <2>3. <<Msg(Text(cmd))>> \in Seq(Seq(Unit)) /\ <<Msg(Text(cmd))>> # <<>>
    BY <2>2
  <2> HIDE DEF put
  <2> QED BY <2>1, <2>3, SplitConcat
<1>4. /\ cl' = [cl EXCEPT ![k] = c] /\ cl[k].pc = "prompt"
      /\ Afterwards(cmd) \in {"prompt", "get_size", "ls", "pwd", "spin"}
  <2>1. cl' = [cl EXCEPT ![k] = c] /\ cl[k].pc = "prompt" /\ cmd[1] \in DOMAIN Waits
    BY DEF Ask
  <2>2. \A op \in DOMAIN Waits : Waits[op] \in {"prompt", "get_size", "ls", "pwd"}
    BY DEF Waits
  <2> QED BY <2>1, <2>2 DEF Afterwards
<1>5. odd \in BOOLEAN
  OBVIOUS
<1>6. cl[k] \in ClientRec /\ cl[k].off = 0
  BY <1>4 DEF ClientsOK, ClientOK
<1>7. c \in ClientRec /\ c.pc = "write" /\ c.off = 0 /\ c.out # <<>>
  <2>1. cmd[2] \in Name
    BY <1>1 DEF Cmd
  <2> HIDE DEF out, odd
  <2> QED BY <1>3, <1>4, <1>5, <1>6, <2>1 DEF ClientRec
<1> HIDE DEF c
<1>8. ClientOK(k)'
  BY <1>4, <1>7 DEF ClientOK, ClientsOK
<1>9. ClientsOK'
  BY <1>4, <1>8, SameFiles, OneClient DEF Ask
<1>10. StreamsOK'
  BY DEF Ask, StreamsOK
<1> QED BY <1>4, <1>9, <1>10, ClientStep DEF Ask

LEMMA GoesType ==
  ASSUME NEW c \in ClientRec, NEW pc \in {"prompt", "write", "get_size", "get_data", "ls", "pwd", "spin"}
  PROVE  /\ Goes(c, pc) \in ClientRec /\ Goes(c, pc).pc = pc
         /\ pc = "prompt" => Goes(c, pc).off = 0
         /\ pc # "prompt" => Goes(c, pc) = [c EXCEPT !.pc = pc]
BY IdleType DEF Goes, ClientRec

LEMMA ClientWriteKeeps == \A k \in Clients : IInv /\ ClientWrite(k) => IInv'
<1> SUFFICES ASSUME NEW k \in Clients, IInv, ClientWrite(k) PROVE IInv' OBVIOUS
<1> USE DEF IInv, Types, files, history
<1> DEFINE rest == [cl[k] EXCEPT !.out = Tail(@)]
           pc == IF Len(cl[k].out) = 1 THEN cl[k].then ELSE "write"
           c == Sent(cl[k])
<1>1. PICK state \in AfterWrite[link[k].c] :
        /\ link' = [link EXCEPT ![k].c = state]
        /\ c2s' = IF link[k].c # "up" THEN c2s ELSE [c2s EXCEPT ![k] = @ \o Head(cl[k].out)]
        /\ cl' = [cl EXCEPT ![k] = c]
  BY DEF ClientWrite
<1>2. cl[k] \in ClientRec /\ cl[k].pc = "write" /\ cl[k].out # <<>> /\ cl[k].off = 0
  BY DEF ClientsOK, ClientOK, ClientWrite
<1>3. cl[k].out \in Seq(Seq(Unit))
  BY <1>2 DEF ClientRec
<1>4. /\ Head(cl[k].out) \in Seq(Unit) /\ Tail(cl[k].out) \in Seq(Seq(Unit))
      /\ Len(cl[k].out) # 1 => Tail(cl[k].out) # <<>>
  BY <1>2, <1>3, HeadType
<1>5. rest \in ClientRec /\ rest.off = 0 /\ rest.out = Tail(cl[k].out)
  BY <1>2, <1>4 DEF ClientRec
<1>6. /\ c \in ClientRec /\ c.pc = pc /\ c.off = 0 /\ c.pc # "get_data"
      /\ c.pc = "write" => c.out # <<>>
  <2>1. pc \in {"prompt", "write", "get_size", "ls", "pwd", "spin"} /\ (pc = "write" => Len(cl[k].out) # 1)
    BY <1>2 DEF ClientRec
  <2>4. c = Goes(rest, pc)
    BY DEF Sent
  <2> HIDE DEF rest, pc, c
  <2>2. /\ c \in ClientRec /\ c.pc = pc /\ (pc = "prompt" => c.off = 0)
        /\ pc # "prompt" => c = [rest EXCEPT !.pc = pc]
    BY <1>5, <2>1, <2>4, GoesType
  <2>3. pc # "prompt" => c.off = 0 /\ c.out = rest.out
    BY <1>5, <2>2 DEF ClientRec
  <2> QED BY <1>4, <1>5, <2>1, <2>2, <2>3
<1> HIDE DEF c, rest, pc
<1>7. ClientOK(k)'
  BY <1>1, <1>6 DEF ClientOK, ClientsOK
<1>8. ClientsOK'
  BY <1>1, <1>7, SameFiles, OneClient DEF ClientWrite
<1>9. state \in End
  BY EndKinds DEF StreamsOK
<1>10. c2s[k] \o Head(cl[k].out) \in Seq(Unit)
  BY <1>4, SplitConcat DEF StreamsOK
<1>11. StreamsOK'
  <2>1. c2s' \in [Clients -> Seq(Unit)]
    BY <1>1, <1>10 DEF StreamsOK
  <2>2. link' \in [Clients -> [c : End, s : End]]
    BY <1>1, <1>9, LinkType DEF StreamsOK
  <2> QED BY <2>1, <2>2 DEF StreamsOK, ClientWrite
<1>12. \A j \in Clients : link'[j].s = link[j].s
  BY <1>1 DEF StreamsOK
<1> QED BY <1>1, <1>2, <1>8, <1>11, <1>12, ClientStep DEF ClientWrite

(* A read of a client: data that the server sent, or the end.              *)
LEMMA ClientReadsType ==
  ASSUME StreamsOK, NEW k \in Clients, NEW n, ClientReads(k, n)
  PROVE  /\ StreamsOK' /\ UNCHANGED link /\ Head(s2c[k]) \in Unit
         /\ n \in 1..Len(s2c[k])
<1>1. s2c[k] \in Seq(Said)
  BY DEF StreamsOK
<1>2. n \in 1..Len(s2c[k]) /\ s2c[k] # <<>>
  BY <1>1, ReadLength DEF ClientReads
<1>3. Rest(s2c[k], n) \in Seq(Said)
  BY <1>1, <1>2, RestType
<1>4. Head(s2c[k]) \in Unit
  BY <1>1, <1>2, HeadType, SaidUnit
<1> QED BY <1>2, <1>3, <1>4 DEF ClientReads, StreamsOK

LEMMA ClientEndType ==
  ASSUME StreamsOK, NEW k \in Clients, ClientEnd(k)
  PROVE  StreamsOK' /\ \A j \in Clients : link'[j].s = link[j].s
<1>1. AfterEnd(link[k].c) \in End
  BY EndKinds DEF StreamsOK
<1>2. link' \in [Clients -> [c : End, s : End]]
  BY <1>1, LinkType DEF ClientEnd, StreamsOK
<1> QED BY <1>2 DEF ClientEnd, StreamsOK

LEMMA ReadAnswerKeeps == \A k \in Clients : IInv /\ ReadAnswer(k) => IInv'
<1> SUFFICES ASSUME NEW k \in Clients, IInv, ReadAnswer(k) PROVE IInv' OBVIOUS
<1> USE DEF IInv, Types
<1>1. /\ StreamsOK' /\ \A j \in Clients : link'[j].s = link[j].s
      /\ UNCHANGED <<sv, sfile, cwd, cfile>>
      /\ UNCHANGED cl \/ cl' = [cl EXCEPT ![k] = Prompt(@)]
  BY ClientReadsType, ClientEndType DEF ReadAnswer, ClientReads, ClientEnd
<1>2. cl[k] \in ClientRec /\ cl[k].pc # "gone"
  BY DEF ReadAnswer, ClientsOK, ClientOK
<1>3. CASE UNCHANGED cl
  <2>1. ClientsOK'
    BY <1>1, <1>3, ClientsKept
  <2>2. cl' = [cl EXCEPT ![k] = cl[k]]
    BY <1>3 DEF ClientsOK
  <2> QED BY <1>1, <1>2, <2>1, <2>2, ClientStep
<1>4. CASE cl' = [cl EXCEPT ![k] = Prompt(cl[k])]
  <2>1. /\ Prompt(cl[k]) \in ClientRec /\ Prompt(cl[k]).pc = "prompt"
        /\ Prompt(cl[k]).off = 0
    BY <1>2, IdleType
  <2>2. ClientsOK'
    BY <1>1, <1>4, <2>1, PromptOK
  <2> QED BY <1>1, <1>2, <1>4, <2>2, ClientStep
<1> QED BY <1>1, <1>3, <1>4

LEMMA ReadSizeKeeps == \A k \in Clients : IInv /\ ReadSize(k) => IInv'
<1> SUFFICES ASSUME NEW k \in Clients, IInv, ReadSize(k) PROVE IInv' OBVIOUS
<1> USE DEF IInv, Types
<1>1. /\ StreamsOK' /\ \A j \in Clients : link'[j].s = link[j].s
      /\ UNCHANGED <<sv, sfile, cwd>>
      /\ \E sizes \in SUBSET Int : GetSize(k, sizes)
  BY ClientReadsType, ClientEndType, Sizes, JunkAssumption DEF ReadSize, ClientReads, ClientEnd
<1>2. /\ cl[k] \in ClientRec /\ cl[k].pc = "get_size" /\ cl[k].off = 0
      /\ cl[k].path \in Name
  BY DEF ReadSize, ClientsOK, ClientOK, ClientRec
<1>3. PICK size \in Int :
        /\ cl' = [cl EXCEPT ![k] =
             Goes([cl[k] EXCEPT !.left = size], IF size <= 0 THEN "prompt" ELSE "get_data")]
        /\ cfile' = IF size <= 0 \/ cl[k].path \in ClientDirs THEN cfile
                    ELSE [cfile EXCEPT ![k] = With(@, cl[k].path, Content(@, cl[k].path))]
  BY <1>1 DEF GetSize
<1> DEFINE sized == [cl[k] EXCEPT !.left = size]
<1>4. /\ sized \in ClientRec /\ sized.left = size
      /\ sized.off = 0 /\ sized.path = cl[k].path
  BY <1>2 DEF ClientRec
<1>5. CASE size <= 0
  <2>1. cl' = [cl EXCEPT ![k] = Goes(sized, "prompt")] /\ UNCHANGED cfile
    BY <1>3, <1>5
  <2> HIDE DEF sized
  <2>2. /\ Goes(sized, "prompt") \in ClientRec /\ Goes(sized, "prompt").pc = "prompt"
        /\ Goes(sized, "prompt").off = 0
    BY <1>4, GoesType
  <2>3. ClientsOK'
    BY <2>1, <2>2, PromptOK
  <2> QED BY <1>1, <1>2, <2>1, <2>3, ClientStep
<1>6. CASE ~(size <= 0)
  <2> DEFINE c == Goes(sized, "get_data")
             f == cl[k].path
             dir == IF f \in ClientDirs THEN cfile[k]
                    ELSE With(cfile[k], f, Content(cfile[k], f))
  <2>1. /\ cl' = [cl EXCEPT ![k] = c]
        /\ cfile' = [cfile EXCEPT ![k] = dir]
    BY <1>3, <1>6 DEF ClientsOK
  <2> HIDE DEF sized
  <2>2. /\ c \in ClientRec /\ c.pc = "get_data" /\ c.left > 0 /\ c.off = 0 /\ c.path = f
    <3>1. c \in ClientRec /\ c.pc = "get_data" /\ c = [sized EXCEPT !.pc = "get_data"]
      BY <1>4, GoesType
    <3> HIDE DEF c
    <3>2. c.left = size /\ c.off = 0 /\ c.path = f
      BY <1>4, <3>1 DEF ClientRec
    <3> QED BY <1>6, <3>1, <3>2
  <2> HIDE DEF c
  <2>3. /\ f \notin ClientDirs => f \in DOMAIN dir
        /\ \A g \in Name : Content(dir, g) = Content(cfile[k], g)
    BY DEF With, Content
  <2>4. /\ Content(cfile[k], f) \in Seq(Said)
        /\ f \notin ClientDirs => dir[f] = Content(cfile[k], f)
    BY <1>2 DEF With, ClientsOK, ClientFilesOK
  <2> HIDE DEF dir, f
  <2>5. cfile'[k] = dir /\ cl'[k] = c
    BY <2>1 DEF ClientsOK
  <2>6. ClientFilesOK(k)'
    BY <2>3, <2>5 DEF ClientFilesOK, ClientsOK
  <2>7. f \notin ClientDirs => 0 <= Len(dir[f])
    BY <2>4
  <2>8. ClientOK(k)'
    BY <2>2, <2>3, <2>5, <2>7 DEF ClientOK
  <2>9. ClientsOK'
    BY <2>1, <2>6, <2>8, OneClient
  <2> QED BY <1>1, <1>2, <2>1, <2>9, ClientStep
<1> QED BY <1>5, <1>6

LEMMA ReadDataKeeps == \A k \in Clients : IInv /\ ReadData(k) => IInv'
<1> SUFFICES ASSUME NEW k \in Clients, IInv, ReadData(k) PROVE IInv' OBVIOUS
<1> USE DEF IInv, Types
<1>1. /\ cl[k] \in ClientRec /\ cl[k].pc = "get_data" /\ cl[k].left > 0
      /\ cl[k].off \in Nat /\ cl[k].left \in Int /\ cl[k].path \in Name
      /\ cl[k].path \notin ClientDirs => /\ cl[k].path \in DOMAIN cfile[k]
                                       /\ cl[k].off <= Len(cfile[k][cl[k].path])
  BY DEF ReadData, ClientsOK, ClientOK, ClientRec
<1> DEFINE f == cl[k].path
           old == cfile[k][f]
<1>2. f \notin ClientDirs => old \in Seq(Said)
  <2>1. Content(cfile[k], f) \in Seq(Said)
    BY <1>1 DEF ClientsOK, ClientFilesOK
  <2> QED BY <1>1, <2>1 DEF Content
<1>3. CASE ClientEnd(k) /\ link[k].c = "rst" /\ cl' = [cl EXCEPT ![k].left = @ + 1]
             /\ UNCHANGED cfile
  <2> DEFINE left == cl[k].left + 1
             c == [cl[k] EXCEPT !.left = left]
  <2>1. cl' = [cl EXCEPT ![k] = c] /\ left \in Int /\ left > 0
    BY <1>1, <1>3 DEF ClientRec
  <2> HIDE DEF left
  <2>2. /\ c \in ClientRec /\ c.pc = "get_data" /\ c.left > 0
        /\ c.path = f /\ c.off = cl[k].off
    BY <1>1, <2>1 DEF ClientRec
  <2> HIDE DEF c
  <2>3. cl'[k] = c
    BY <2>1 DEF ClientsOK
  <2>4. ClientOK(k)'
    BY <1>1, <1>3, <2>2, <2>3 DEF ClientOK
  <2>5. ClientsOK'
    BY <1>3, <2>1, <2>4, SameFiles, OneClient
  <2>6. StreamsOK' /\ \A j \in Clients : link'[j].s = link[j].s
    BY <1>3, ClientEndType
  <2> QED BY <1>1, <1>3, <2>1, <2>5, <2>6, ClientStep DEF ClientEnd
<1>4. CASE \E n \in 1..MAX :
             /\ ClientReads(k, n)
             /\ cfile' = IF f \in ClientDirs THEN cfile
                         ELSE [cfile EXCEPT ![k][f] =
                                 Overwritten(@, cl[k].off, SubSeq(s2c[k], 1, n))]
             /\ cl' = [cl EXCEPT ![k] = Received(@, n)]
  <2>1. PICK n \in 1..MAX :
          /\ ClientReads(k, n)
          /\ cfile' = IF f \in ClientDirs THEN cfile
                      ELSE [cfile EXCEPT ![k][f] =
                              Overwritten(@, cl[k].off, SubSeq(s2c[k], 1, n))]
          /\ cl' = [cl EXCEPT ![k] = Received(@, n)]
    BY <1>4
  <2>2. StreamsOK' /\ UNCHANGED link /\ n \in 1..Len(s2c[k]) /\ n \in Nat
    BY <2>1, ClientReadsType
  <2> DEFINE data == SubSeq(s2c[k], 1, n)
             new == Overwritten(old, cl[k].off, data)
             dir == IF f \in ClientDirs THEN cfile[k] ELSE [cfile[k] EXCEPT ![f] = new]
             c == Received(cl[k], n)
             got == [cl[k] EXCEPT !.left = @ - n, !.off = @ + n]
             pc == IF cl[k].left <= n THEN "prompt" ELSE "get_data"
  <2>3. data \in Seq(Said) /\ Len(data) = n
    BY <2>2, SubSeqProperties DEF StreamsOK
  <2>4. cfile' = [cfile EXCEPT ![k] = dir] /\ cl' = [cl EXCEPT ![k] = c]
    BY <2>1 DEF ClientsOK
  <2> HIDE DEF data
  <2>5. f \notin ClientDirs => new \in Seq(Said) /\ Len(new) >= cl[k].off + n
    <3> SUFFICES ASSUME f \notin ClientDirs
                 PROVE  new \in Seq(Said) /\ Len(new) >= cl[k].off + n
      OBVIOUS
    <3>1. cl[k].off \in 0..Len(old)
      BY <1>1, <1>2
    <3> HIDE DEF old
    <3> QED BY <1>2, <2>3, <3>1, OverwrittenType
  <2> HIDE DEF new, old
  <2>6. /\ f \notin ClientDirs => f \in DOMAIN dir /\ dir[f] = new
        /\ \A g \in Name : \/ Content(dir, g) = Content(cfile[k], g)
                           \/ f \notin ClientDirs /\ Content(dir, g) = new
    BY <1>1 DEF Content
  <2>7. cfile'[k] = dir /\ cl'[k] = c
    BY <2>4 DEF ClientsOK
  <2>8. ClientFilesOK(k)'
    BY <2>5, <2>6, <2>7 DEF ClientFilesOK, ClientsOK
  <2>9. /\ c \in ClientRec /\ c.pc = pc /\ (pc = "prompt" => c.off = 0)
        /\ pc = "get_data" => c.left > 0 /\ c.path = f /\ c.off = cl[k].off + n
    <3>1. /\ got \in ClientRec /\ got.left = cl[k].left - n /\ got.off = cl[k].off + n
          /\ got.path = f
      <4>1. cl[k].left - n \in Int /\ cl[k].off + n \in Nat
        BY <1>1, <2>2
      <4> DEFINE left == cl[k].left - n
                 off == cl[k].off + n
      <4>2. got = [cl[k] EXCEPT !.left = left, !.off = off]
        OBVIOUS
      <4> HIDE DEF left, off, got
      <4>3. left \in Int /\ off \in Nat
        BY <4>1 DEF left, off
      <4>4. got \in ClientRec /\ got.left = left /\ got.off = off /\ got.path = f
        BY <1>1, <4>2, <4>3 DEF ClientRec
      <4> QED BY <4>4 DEF left, off
    <3>2. c = Goes(got, pc) /\ pc \in {"prompt", "get_data"}
      BY DEF Received
    <3>3. pc = "get_data" => cl[k].left - n > 0
      BY <1>1, <2>2
    <3> HIDE DEF got, pc, c
    <3>4. /\ c \in ClientRec /\ c.pc = pc /\ (pc = "prompt" => c.off = 0)
          /\ pc # "prompt" => c = [got EXCEPT !.pc = pc]
      BY <3>1, <3>2, GoesType
    <3>5. pc = "get_data" => c.left = got.left /\ c.path = got.path /\ c.off = got.off
      BY <3>1, <3>4 DEF ClientRec
    <3> QED BY <3>1, <3>3, <3>4, <3>5
  <2>10. pc \in {"prompt", "get_data"}
    OBVIOUS
  <2> HIDE DEF c, dir, pc
  <2>11. ClientOK(k)'
    <3>1. CASE pc = "prompt"
      BY <2>7, <2>9, <3>1 DEF ClientOK
    <3>2. CASE pc = "get_data"
      BY <2>5, <2>6, <2>7, <2>9, <3>2 DEF ClientOK
    <3> QED BY <2>10, <3>1, <3>2
  <2>12. ClientsOK'
    BY <2>4, <2>8, <2>11, OneClient
  <2> QED BY <1>1, <2>1, <2>2, <2>4, <2>12, ClientStep DEF ClientReads
<1> QED BY <1>3, <1>4 DEF ReadData

----------------------------------------------------------------------------
(* The invariant.                                                          *)

LEMMA FilesOfType ==
  ASSUME NEW owner \in {"client", "server"},
         NEW dir \in {ClientFiles} \cup {ServerFiles[d] : d \in DOMAIN ServerFiles}
  PROVE  /\ IsFiniteSet(DOMAIN FilesOf(owner, dir))
         /\ \A f \in Name : Content(FilesOf(owner, dir), f) \in Seq(Said)
<1>1. DOMAIN dir \subseteq Name /\ IsFiniteSet(DOMAIN dir) /\ \A f \in DOMAIN dir : dir[f] \in Nat
  BY FileAssumption DEF Name
<1>2. ASSUME NEW f \in DOMAIN dir
      PROVE  [i \in 1..dir[f] |-> <<"data", owner, f, i>>] \in Seq(Said)
  <2>1. \A i \in 1..dir[f] : <<"data", owner, f, i>> \in Said
    BY <1>1 DEF Said
  <2> QED BY <1>1, <2>1
<1>3. <<>> \in Seq(Said)
  OBVIOUS
<1>4. /\ DOMAIN FilesOf(owner, dir) = DOMAIN dir
      /\ \A f \in DOMAIN dir :
           FilesOf(owner, dir)[f] = [i \in 1..dir[f] |-> <<"data", owner, f, i>>]
  BY DEF FilesOf
<1> QED BY <1>1, <1>2, <1>3, <1>4 DEF Content

LEMMA InitIInv == Init => IInv
<1> SUFFICES ASSUME Init PROVE IInv OBVIOUS
<1> USE DEF Init
<1>1. StreamsOK
  <2>1. <<>> \in Seq(Unit) /\ <<>> \in Seq(Said) /\ <<>> \in Seq(Clients)
    OBVIOUS
  <2> QED BY <2>1 DEF StreamsOK, End
<1>2. ServerOK
  BY EmptyAnswer, SaidUnit DEF ServerOK, ServerRec
<1>3. ServerFilesOK
  <2>1. /\ DOMAIN sfile = DOMAIN ServerFiles
        /\ \A d \in DOMAIN sfile : sfile[d] = FilesOf("server", ServerFiles[d])
    OBVIOUS
  <2> QED BY <2>1, FilesOfType, FileAssumption DEF ServerFilesOK, Name
<1>4. ClientsOK
  <2>1. \A k \in Clients : ClientFilesOK(k)
    BY FilesOfType DEF ClientFilesOK
  <2>3. \A k \in Clients : ClientOK(k)
    BY IdleType DEF ClientOK
  <2> QED BY <2>1, <2>3 DEF ClientsOK
<1>5. EndsBy
  BY DEF EndsBy, ServerEndsBy, Fails
<1> QED BY <1>1, <1>2, <1>3, <1>4, <1>5 DEF IInv, Types

LEMMA NextIInv == IInv /\ [Next]_vars => IInv'
<1> SUFFICES ASSUME IInv, [Next]_vars PROVE IInv' OBVIOUS
<1>1. CASE UNCHANGED vars
  <2> USE <1>1 DEF vars
  <2>1. StreamsOK' /\ ServerOK' /\ ServerFilesOK' /\ ClientsOK'
    BY ClientsKept, FilesKept DEF IInv, Types, StreamsOK, ServerOK, ServerRec
  <2>2. EndsBy'
    BY DEF IInv, EndsBy, ServerEndsBy, Fails, ListsOther
  <2> QED BY <2>1, <2>2 DEF IInv, Types
<1>2. CASE Server
  BY <1>2, AcceptKeeps, ServerWriteKeeps, ServerFailsKeeps, ServerReadsLineKeeps,
     ServerLosesClientKeeps, ServerReadsSizeKeeps, ServerReadsDataKeeps DEF Server
<1>3. ASSUME NEW k \in Clients, User(k) PROVE IInv'
  <2>1. CASE Connect(k)
    BY <2>1, ConnectKeeps
  <2>2. CASE Exit(k)
    BY <2>2, ClientEndsKeeps DEF Exit
  <2>3. CASE KillClient(k)
    BY <2>3, ClientEndsKeeps DEF KillClient
  <2>4. CASE \E cmd \in Commands[k] : Ask(k, cmd)
    BY <2>4, AskKeeps
  <2> QED BY <1>3, <2>1, <2>2, <2>3, <2>4 DEF User
<1>4. ASSUME NEW k \in Clients, Client(k) PROVE IInv'
  <2>1. CASE ClientPipe(k)
    BY <2>1, ClientEndsKeeps DEF ClientPipe
  <2> QED BY <1>4, <2>1, ClientWriteKeeps, ReadAnswerKeeps, ReadSizeKeeps, ReadDataKeeps
          DEF Client
<1> QED BY <1>1, <1>2, <1>3, <1>4 DEF Next

(* The invariant holds of every state of the clients and the server.       *)
THEOREM Invariance == Spec => []IInv
BY InitIInv, NextIInv, PTL DEF Spec

LEMMA TypesTypeOK == IInv => TypeOK
<1> SUFFICES ASSUME IInv PROVE TypeOK OBVIOUS
<1> USE DEF IInv, Types
<1>1. ASSUME NEW k \in Clients
      PROVE  /\ {s2c[k][i][1] : i \in DOMAIN s2c[k]} \subseteq Answers
             /\ {c2s[k][i][1] : i \in DOMAIN c2s[k]} \subseteq Answers \cup {"cmd", "nl"}
  <2>1. s2c[k] \in Seq(Said) /\ c2s[k] \in Seq(Unit)
    BY DEF StreamsOK
  <2>2. \A i \in DOMAIN s2c[k] : s2c[k][i] \in Said
    BY <2>1
  <2>3. \A i \in DOMAIN c2s[k] : c2s[k][i] \in Unit
    BY <2>1
  <2> QED BY <2>2, <2>3, UnitKinds
<1>2. ASSUME NEW k \in Clients
      PROVE  /\ link[k] \in [c : DOMAIN AfterWrite, s : DOMAIN AfterWrite]
             /\ cl[k].pc \in {"off", "prompt", "write", "get_size", "get_data", "ls", "pwd",
                              "spin", "gone"}
             /\ cl[k].pc = "get_data" => cl[k].left > 0
             /\ cl[k].pc = "write" => cl[k].out # <<>>
  <2>1. DOMAIN AfterWrite = End
    BY DEF AfterWrite, End
  <2>2. link[k] \in [c : End, s : End]
    BY DEF StreamsOK
  <2>3. ClientOK(k)
    BY DEF ClientsOK
  <2> QED BY <2>1, <2>2, <2>3 DEF ClientOK, ClientRec
<1>3. /\ sv.pc \in {"accept", "read", "write", "put_size", "put_data", "spin", "fail", "dead"}
      /\ sv.pc = "put_data" => sv.left > 0
      /\ sv.pc = "write" => sv.out # <<>>
      /\ sv.pc \in {"accept", "dead"} \/ sv.client \in Clients
      /\ cwd \in DOMAIN sfile
  BY DEF ServerOK, ServerRec, ServerFilesOK
<1> QED BY <1>1, <1>2, <1>3 DEF TypeOK

(* Streams carry what the other side can send, a client that receives data *)
(* has some left to receive, a process that writes has something to write, *)
(* and the server's working directory is there: whatever reads are short   *)
(* and whoever is killed.                                                  *)
THEOREM TypeCorrect == Spec => []TypeOK
BY Invariance, TypesTypeOK, PTL

(* However many clients there are and whenever they are killed, the server *)
(* ends only by ls_file's exit and readdir(NULL), for an ls with an        *)
(* argument, or while it answers a client that has gone.                   *)
THEOREM ServerAlwaysEndsBy == Spec => []ServerEndsBy
<1>1. IInv => ServerEndsBy
  BY DEF IInv, EndsBy
<1> QED BY <1>1, Invariance, PTL

-----------------------------------------------------------------------------
(* What a client asked and what the server executed for it.                *)

IsCmd(u) == u[1] = "cmd"

HistoryOK == asked \in [Clients -> Seq(Cmd)] /\ done \in [Clients -> Seq(Cmd)]

LEMMA ExecuteDone ==
  ASSUME NEW unit, Execute(unit)
  PROVE  /\ UNCHANGED asked
         /\ \/ UNCHANGED done
            \/ IsCmd(unit) /\ done' = [done EXCEPT ![sv.client] = Append(@, unit[2])]
BY DEF Execute, IsCmd

LEMMA ExecuteHistory ==
  ASSUME IInv, HistoryOK, NEW unit \in Unit, Execute(unit)
  PROVE  HistoryOK'
<1>1. IsCmd(unit) => unit[2] \in Cmd
  BY UnitKinds DEF IsCmd
<1>2. CASE UNCHANGED done
  BY <1>2, ExecuteDone DEF HistoryOK
<1>3. CASE IsCmd(unit) /\ done' = [done EXCEPT ![sv.client] = Append(@, unit[2])]
  <2>1. \A k \in Clients : Append(done[k], unit[2]) \in Seq(Cmd)
    BY <1>1, <1>3, AppendProperties DEF HistoryOK
  <2>2. done' \in [Clients -> Seq(Cmd)]
    BY <1>3, <2>1 DEF HistoryOK
  <2> QED BY <2>2, ExecuteDone DEF HistoryOK
<1> QED BY <1>2, <1>3, ExecuteDone

LEMMA InitHistory == Init => HistoryOK
<1>1. <<>> \in Seq(Cmd)
  OBVIOUS
<1> QED BY <1>1 DEF Init, HistoryOK

LEMMA NextHistory == IInv /\ HistoryOK /\ [Next]_vars => HistoryOK'
<1> SUFFICES ASSUME IInv, HistoryOK, [Next]_vars PROVE HistoryOK' OBVIOUS
<1>1. CASE UNCHANGED <<asked, done>>
  BY <1>1 DEF HistoryOK
<1>2. CASE ServerReadsLine
  <2>1. sv.client \in Clients
    BY <1>2 DEF ServerReadsLine, IInv, Types, ServerOK
  <2>2. Head(c2s[sv.client]) \in Unit
    BY <1>2, <2>1, ServerReadsType DEF ServerReadsLine, IInv, Types
  <2> QED BY <1>2, <2>2, LinesUnit, ExecuteHistory DEF ServerReadsLine
<1>3. CASE ServerLosesClient
  <2>1. Stale(sv.line) \in Unit
    BY StaleUnit DEF IInv, Types, ServerOK, ServerRec
  <2> QED BY <1>1, <1>3, <2>1, ExecuteHistory DEF ServerLosesClient
<1>4. CASE Server /\ ~ServerReadsLine /\ ~ServerLosesClient
  <2>1. UNCHANGED <<asked, done>>
    BY <1>4 DEF Server, Accept, ServerWrite, ServerFails, ServerReadsSize, PutSize,
                ServerReadsData, PutCount, history
  <2> QED BY <1>1, <2>1
<1>5. ASSUME NEW k \in Clients, NEW cmd \in Commands[k], Ask(k, cmd) PROVE HistoryOK'
  <2>1. cmd \in Cmd
    BY CommandAssumption DEF Cmd, Name
  <2> QED BY <1>5, <2>1, AppendProperties DEF Ask, HistoryOK
<1>6. ASSUME NEW k \in Clients, User(k) \/ Client(k), \A cmd \in Commands[k] : ~Ask(k, cmd)
      PROVE  HistoryOK'
  <2>1. UNCHANGED <<asked, done>>
    BY <1>6 DEF User, Client, Connect, Exit, KillClient, ClientEnds, ClientWrite, ClientPipe,
                ReadAnswer, ReadSize, ReadData, ClientReads, ClientEnd, history
  <2> QED BY <1>1, <2>1
<1>7. CASE UNCHANGED vars
  BY <1>1, <1>7 DEF vars
<1> QED BY <1>2, <1>3, <1>4, <1>5, <1>6, <1>7 DEF Next, User

-----------------------------------------------------------------------------
(* Connections, and what they carry.                                       *)

(* Before it connects nothing is sent to a client or by it, and it sees    *)
(* its connection end only when the server does.                           *)
ConnectionsOK ==
  /\ cuts \in Nat
  /\ \A k \in Clients : cl[k].pc = "off" =>
       /\ c2s[k] = <<>> /\ s2c[k] = <<>>
       /\ sv.client # k /\ \A i \in DOMAIN backlog : backlog[i] # k
  /\ \A k \in Clients : link[k].c # "up" => sv.pc = "dead" /\ c2s[k] = <<>>

(* Products and lengths.                                                   *)
LEMMA Times == \A a \in Nat : a * MAX \in Nat
BY BufferAssumption

LEMMA TimesNext == \A a \in Nat : (a + 1) * MAX = a * MAX + MAX
BY BufferAssumption

LEMMA TimesMore == \A a, b \in Nat : a <= b => a * MAX <= b * MAX
<1> SUFFICES ASSUME NEW a \in Nat, NEW b \in Nat, a <= b PROVE a * MAX <= b * MAX
  OBVIOUS
<1>1. b - a \in Nat /\ b = a + (b - a)
  OBVIOUS
<1>2. \A d \in Nat : (a + d) * MAX = a * MAX + d * MAX
  BY BufferAssumption
<1>3. b * MAX = a * MAX + (b - a) * MAX
  BY <1>1, <1>2
<1> QED BY <1>1, <1>3, Times

LEMMA Quotient ==
  ASSUME NEW a \in Nat
  PROVE  LET q == (a + MAX - 1) \div MAX
         IN  q \in Nat /\ q * MAX >= a /\ (q # 0 => (q - 1) * MAX < a)
<1> DEFINE b == a + MAX - 1
           q == b \div MAX
<1>1. b \in Nat /\ MAX \in Nat /\ MAX > 0
  BY BufferAssumption
<1>2. q \in Nat /\ q * MAX <= b /\ b < q * MAX + MAX
  <2> HIDE DEF b
  <2> QED BY <1>1
<1>3. q # 0 => q - 1 \in Nat /\ q * MAX = (q - 1) * MAX + MAX
  <2>1. q # 0 => q - 1 \in Nat /\ (q - 1) + 1 = q
    BY <1>2
  <2> HIDE DEF q
  <2> QED BY <2>1, TimesNext
<1> HIDE DEF q
<1>4. q * MAX \in Nat /\ (q # 0 => (q - 1) * MAX \in Nat)
  BY <1>2, <1>3, Times
<1> QED BY <1>1, <1>2, <1>3, <1>4 DEF q

LEMMA AvailFacts ==
  ASSUME NEW S, NEW s \in Seq(S), s # <<>>
  PROVE  /\ Avail(s) \in 1..Len(s)
         /\ Avail(s) = Len(s) \/ Avail(s) = MAX
         /\ Len(s) >= MAX => Avail(s) = MAX
<1>1. Len(s) \in Nat \ {0}
  BY EmptySeq
<1> QED BY <1>1, BufferAssumption DEF Avail

LEMMA MsgLength ==
  ASSUME NEW u \in Unit
  PROVE  Msg(u) \in Seq(Unit) /\ Len(Msg(u)) = MAX /\ Msg(u)[1] = u
         /\ \A i \in 1..MAX : i # 1 => Msg(u)[i] = Pad
<1> DEFINE rest == [i \in 1..MAX - 1 |-> Pad]
<1>1. MAX - 1 \in Nat /\ rest \in Seq(Unit) /\ Len(rest) = MAX - 1
  BY SaidUnit, BufferAssumption
<1>2. <<u>> \in Seq(Unit) /\ Len(<<u>>) = 1
  OBVIOUS
<1>3. Len(<<u>> \o rest) = 1 + Len(rest)
  BY <1>1, <1>2, ConcatProperties
<1>4. Len(Msg(u)) = MAX
  BY <1>1, <1>3, BufferAssumption DEF Msg
<1>5. Msg(u) \in Seq(Unit) /\ Msg(u)[1] = u /\ \A i \in DOMAIN Msg(u) : i # 1 => Msg(u)[i] = Pad
  BY SaidUnit, MsgType
<1> QED BY <1>4, <1>5

LEMMA SentType ==
  ASSUME NEW c \in ClientRec, c.out # <<>>
  PROVE  /\ Sent(c) \in ClientRec
         /\ Sent(c).pc = IF Len(c.out) = 1 THEN c.then ELSE "write"
         /\ Len(c.out) # 1 => Sent(c).out = Tail(c.out)
<1> DEFINE rest == [c EXCEPT !.out = Tail(@)]
           pc == IF Len(c.out) = 1 THEN c.then ELSE "write"
<1>1. c.out \in Seq(Seq(Unit)) /\ Tail(c.out) \in Seq(Seq(Unit))
  <2>1. c.out \in Seq(Seq(Unit))
    BY DEF ClientRec
  <2> QED BY <2>1, HeadTailProperties
<1>2. rest \in ClientRec /\ rest.out = Tail(c.out)
  BY <1>1 DEF ClientRec
<1>3. pc \in {"prompt", "write", "get_size", "ls", "pwd", "spin"}
  BY DEF ClientRec
<1>4. Sent(c) = Goes(rest, pc) /\ (Len(c.out) # 1 => pc # "prompt")
  BY DEF Sent
<1> HIDE DEF rest
<1>5. /\ Goes(rest, pc) \in ClientRec /\ Goes(rest, pc).pc = pc
      /\ pc # "prompt" => Goes(rest, pc) = [rest EXCEPT !.pc = pc]
  <2> HIDE DEF pc
  <2> QED BY <1>2, <1>3, GoesType
<1>6. pc # "prompt" => Goes(rest, pc).out = rest.out
  BY <1>2, <1>5 DEF ClientRec
<1> QED BY <1>2, <1>4, <1>5, <1>6

LEMMA ReadAll ==
  ASSUME cuts \in Nat, NEW S, NEW stream \in Seq(S), NEW n, ReadStream(stream, n)
  PROVE  cuts' \in Nat /\ (cuts' = 0 => cuts = 0 /\ n = Avail(stream)) /\ stream # <<>>
<1>1. n \in 1..Avail(stream) /\ stream # <<>> /\ n \in Int /\ Avail(stream) \in Int
  <2>1. stream # <<>> /\ n \in 1..Avail(stream)
    BY ReadLength DEF ReadStream, Lengths
  <2> QED BY <2>1, AvailFacts
<1> QED BY <1>1 DEF ReadStream

LEMMA ConnectionsServer ==
  ASSUME IInv, ConnectionsOK, sv.pc # "dead", UNCHANGED <<cl, backlog>>,
         \A k \in Clients : link'[k].c = link[k].c,
         sv'.client \in {sv.client, Nobody},
         \A k \in Clients : k # sv.client => c2s'[k] = c2s[k] /\ s2c'[k] = s2c[k],
         cuts' \in Nat
  PROVE  ConnectionsOK'
BY ClientAssumption DEF ConnectionsOK

LEMMA ConnectionsClient ==
  ASSUME IInv, ConnectionsOK, NEW k \in Clients, UNCHANGED sv,
         \A j \in Clients \ {k} : cl'[j] = cl[j] /\ c2s'[j] = c2s[j] /\ s2c'[j] = s2c[j],
         cl'[k].pc # "off",
         backlog' = backlog \/ backlog' = Append(backlog, k),
         \A j \in Clients : link'[j].c # "up" => link[j].c # "up",
         link[k].c = "up" \/ c2s'[k] = c2s[k],
         cuts' \in Nat
  PROVE  ConnectionsOK'
<1>1. ASSUME NEW j \in Clients, cl'[j].pc = "off"
      PROVE  /\ c2s'[j] = <<>> /\ s2c'[j] = <<>>
             /\ sv'.client # j /\ \A i \in DOMAIN backlog' : backlog'[i] # j
  <2>1. j # k /\ cl[j].pc = "off"
    BY <1>1
  <2>2. backlog \in Seq(Clients)
    BY DEF IInv, Types, StreamsOK
  <2>3. \A i \in DOMAIN backlog' : backlog'[i] # j
    BY <2>1, <2>2, AppendProperties DEF ConnectionsOK
  <2> QED BY <2>1, <2>3 DEF ConnectionsOK
<1>2. \A j \in Clients : link'[j].c # "up" => sv'.pc = "dead" /\ c2s'[j] = <<>>
  BY DEF ConnectionsOK
<1> QED BY <1>1, <1>2 DEF ConnectionsOK

LEMMA ExecuteClient ==
  ASSUME sv \in ServerRec, NEW unit, Execute(unit)
  PROVE  sv'.client = sv.client /\ sv'.pc # "dead"
<1>1. \A line, writes : \A then \in {"read", "put_size", "spin", "fail"} :
        Answer(line, writes, then) => sv'.client = sv.client /\ sv'.pc # "dead"
  BY DEF Answer, ServerRec
<1>2. \A line, f : server_get(line, f) => sv'.client = sv.client /\ sv'.pc # "dead"
  BY <1>1 DEF server_get
<1>3. \A line, arg : ls_dir(line, arg) => sv'.client = sv.client /\ sv'.pc # "dead"
  BY <1>1 DEF ls_dir
<1>4. \A line, op, arg : Silent(line, op, arg) => sv'.client = sv.client /\ sv'.pc # "dead"
  BY <1>1 DEF Silent
<1> QED BY <1>1, <1>2, <1>3, <1>4 DEF Execute

LEMMA PutClient ==
  ASSUME sv \in ServerRec
  PROVE  /\ \A sizes : PutSize(sizes) => sv'.client = sv.client
         /\ \A n : PutCount(n) => sv'.client = sv.client
BY DEF PutSize, PutCount, ServerRec

LEMMA ServerKeepsConnections == IInv /\ ConnectionsOK /\ Server => ConnectionsOK'
<1> SUFFICES ASSUME IInv, ConnectionsOK, Server PROVE ConnectionsOK' OBVIOUS
<1> USE DEF IInv, Types
<1>1. sv \in ServerRec
  BY DEF ServerOK
<1>2. ASSUME ServerEnd
      PROVE  /\ \A k \in Clients : link'[k].c = link[k].c
             /\ UNCHANGED <<cl, backlog, c2s, s2c>> /\ cuts' \in Nat
  BY <1>2 DEF ServerEnd, StreamsOK, ConnectionsOK
<1>3. ASSUME sv.client \in Clients, NEW n \in 1..MAX, ServerReads(n)
      PROVE  /\ \A k \in Clients : link'[k].c = link[k].c
             /\ UNCHANGED <<cl, backlog>> /\ cuts' \in Nat
             /\ \A k \in Clients : k # sv.client => c2s'[k] = c2s[k] /\ s2c'[k] = s2c[k]
  <2>1. cuts' \in Nat
    BY <1>3, ReadAll DEF ServerReads, StreamsOK, ConnectionsOK
  <2> QED BY <1>3, <2>1 DEF ServerReads, StreamsOK
<1>4. CASE Accept
  <2>1. /\ backlog \in Seq(Clients) /\ backlog # <<>>
        /\ backlog' = Tail(backlog) /\ sv'.client = Head(backlog)
        /\ sv.pc # "dead" /\ UNCHANGED <<c2s, s2c, link, cl, cuts>>
    BY <1>1, <1>4 DEF Accept, history, StreamsOK, ServerRec
  <2>2. /\ Head(backlog) = backlog[1] /\ 1 \in DOMAIN backlog
        /\ \A i \in DOMAIN Tail(backlog) :
             i + 1 \in DOMAIN backlog /\ Tail(backlog)[i] = backlog[i + 1]
    <3>1. Len(backlog) \in Nat \ {0}
      BY <2>1, EmptySeq
    <3>2. /\ Tail(backlog) \in Seq(Clients) /\ Len(Tail(backlog)) = Len(backlog) - 1
          /\ \A i \in 1..Len(Tail(backlog)) : Tail(backlog)[i] = backlog[i + 1]
      BY <2>1, HeadTailProperties
    <3>3. ASSUME NEW i \in DOMAIN Tail(backlog) PROVE i + 1 \in DOMAIN backlog
      <4>1. i \in 1..Len(backlog) - 1
        BY <3>2
      <4>2. i + 1 \in 1..Len(backlog)
        BY <3>1, <4>1
      <4> QED BY <2>1, <4>2
    <3> QED BY <2>1, <3>1, <3>2, <3>3
  <2> QED BY <2>1, <2>2 DEF ConnectionsOK
<1>5. CASE ServerWrite
  <2>1. /\ sv.client \in Clients /\ sv.pc # "dead" /\ sv'.client = sv.client
        /\ UNCHANGED <<cl, backlog, c2s, cuts>>
        /\ \A k \in Clients : link'[k].c = link[k].c
        /\ \A k \in Clients : k # sv.client => s2c'[k] = s2c[k]
    BY <1>1, <1>5 DEF ServerWrite, history, ServerOK, StreamsOK, ServerRec
  <2> QED BY <2>1, ConnectionsServer DEF ConnectionsOK
<1>6. CASE ServerFails
  <2>1. sv'.pc = "dead" /\ sv'.client = sv.client
    BY <1>1, <1>6 DEF ServerFails, ServerDies, ServerRec
  <2>2. c2s' = [k \in Clients |-> <<>>] /\ backlog' = <<>> /\ UNCHANGED <<s2c, cl, cuts>>
    BY <1>6 DEF ServerFails, ServerDies, history
  <2> QED BY <2>1, <2>2 DEF ConnectionsOK
<1>7. CASE ServerReadsLine
  <2>1. sv.client \in Clients /\ sv.pc # "dead"
    BY <1>7 DEF ServerReadsLine, ServerOK
  <2>2. PICK n \in 1..MAX : ServerReads(n)
    BY <1>7 DEF ServerReadsLine
  <2>3. sv'.client = sv.client
    BY <1>1, <1>7, ExecuteClient DEF ServerReadsLine
  <2> QED BY <1>3, <2>1, <2>2, <2>3, ConnectionsServer
<1>8. CASE ServerLosesClient
  <2>1. sv.client \in Clients /\ sv.pc # "dead" /\ ServerEnd
    BY <1>8 DEF ServerLosesClient, ServerOK
  <2>2. sv'.client \in {sv.client, Nobody}
    BY <1>1, <1>8, ExecuteClient DEF ServerLosesClient, ServerRec
  <2> QED BY <1>2, <2>1, <2>2, ConnectionsServer
<1>9. CASE ServerReadsSize \/ ServerReadsData
  <2>1. sv.client \in Clients /\ sv.pc # "dead" /\ sv'.client = sv.client
    BY <1>1, <1>9, PutClient DEF ServerReadsSize, ServerReadsData, ServerOK
  <2>2. CASE ServerEnd
    BY <1>2, <2>1, <2>2, ConnectionsServer
  <2>3. CASE \E n \in 1..MAX : ServerReads(n)
    BY <1>3, <2>1, <2>3, ConnectionsServer
  <2> QED BY <1>9, <2>2, <2>3 DEF ServerReadsSize, ServerReadsData
<1> QED BY <1>4, <1>5, <1>6, <1>7, <1>8, <1>9 DEF Server

LEMMA ClientEndConnections ==
  ASSUME IInv, NEW k \in Clients, ClientEnd(k)
  PROVE  \A j \in Clients : link'[j].c # "up" => link[j].c # "up"
<1>1. link[k].c \in End /\ link[k].c # "up"
  BY DEF IInv, Types, StreamsOK, ClientEnd
<1> QED BY <1>1 DEF ClientEnd, IInv, Types, StreamsOK

LEMMA ClientsOther ==
  ASSUME IInv, NEW k \in Clients, NEW c, cl' = [cl EXCEPT ![k] = c]
  PROVE  cl'[k] = c /\ \A j \in Clients \ {k} : cl'[j] = cl[j]
BY DEF IInv, Types, ClientsOK

LEMMA AskClient ==
  ASSUME IInv, NEW k \in Clients, NEW cmd, Ask(k, cmd)
  PROVE  /\ cl'[k].pc = "write" /\ cl'[k].then = Afterwards(cmd) /\ cl'[k].path = cmd[2]
         /\ cl'[k].odd = (cl[k].odd \/ IsOdd(k, cmd))
         /\ cl'[k].out = <<Msg(Text(cmd))>> \o
                         (IF cmd[1] = "put" THEN client_put(k, cmd[2]) ELSE <<>>)
         /\ \A j \in Clients \ {k} : cl'[j] = cl[j]
<1> DEFINE out == <<Msg(Text(cmd))>> \o
                    (IF cmd[1] = "put" THEN client_put(k, cmd[2]) ELSE <<>>)
           odd == cl[k].odd \/ IsOdd(k, cmd)
           then == Afterwards(cmd)
           c == [cl[k] EXCEPT !.pc = "write", !.then = then, !.path = cmd[2],
                              !.out = out, !.odd = odd]
<1>1. cl' = [cl EXCEPT ![k] = c]
  BY DEF Ask
<1>2. cl[k] \in ClientRec
  BY DEF IInv, Types, ClientsOK, ClientOK
<1> HIDE DEF out, odd, then
<1>3. c.pc = "write" /\ c.then = then /\ c.out = out /\ c.odd = odd /\ c.path = cmd[2]
  BY <1>2 DEF ClientRec
<1> HIDE DEF c
<1> QED BY <1>1, <1>3, ClientsOther DEF out, then, odd

(* A client that stays in step puts a file that fills whole buffers.       *)
LEMMA RegularPut ==
  ASSUME NEW k \in Clients, NEW cmd, ~IsOdd(k, cmd)
  PROVE  /\ Afterwards(cmd) = Waits[cmd[1]]
         /\ cmd[1] = "put" => LET data == Content(cfile[k], cmd[2])
                              IN  /\ client_put(k, cmd[2]) = Sized(data)
                                  /\ data # <<>> /\ Len(data) % MAX = 0
<1>1. Len(<<>>) = 0
  OBVIOUS
<1> QED BY <1>1 DEF IsOdd, Afterwards, client_put

LEMMA ClientKeepsConnections ==
  \A k \in Clients : IInv /\ ConnectionsOK /\ (User(k) \/ Client(k)) => ConnectionsOK'
<1> SUFFICES ASSUME NEW k \in Clients, IInv, ConnectionsOK, User(k) \/ Client(k)
             PROVE  ConnectionsOK'
  OBVIOUS
<1>1. cl[k] \in ClientRec
  BY DEF IInv, Types, ClientsOK, ClientOK
<1>2. ASSUME ClientEnds(k) PROVE ConnectionsOK'
  <2> DEFINE gone == [Idle EXCEPT !.pc = "gone"]
  <2>1. cl' = [cl EXCEPT ![k] = gone] /\ gone.pc = "gone"
    BY <1>2, IdleType DEF ClientEnds
  <2> HIDE DEF gone
  <2>2. cl'[k] = gone /\ \A j \in Clients \ {k} : cl'[j] = cl[j]
    BY <2>1, ClientsOther
  <2>3. \A j \in Clients : link'[j].c = link[j].c
    BY <1>2 DEF ClientEnds, IInv, Types, StreamsOK
  <2>4. /\ UNCHANGED <<sv, c2s, backlog, cuts>>
        /\ \A j \in Clients \ {k} : s2c'[j] = s2c[j]
    BY <1>2 DEF ClientEnds, IInv, Types, StreamsOK
  <2> QED BY <2>1, <2>2, <2>3, <2>4, ConnectionsClient DEF ConnectionsOK
<1>3. CASE Connect(k)
  <2> DEFINE c == [cl[k] EXCEPT !.pc = "prompt"]
  <2>1. cl' = [cl EXCEPT ![k] = c] /\ c.pc = "prompt"
    BY <1>1, <1>3 DEF Connect, ClientRec
  <2> HIDE DEF c
  <2>2. cl'[k] = c /\ \A j \in Clients \ {k} : cl'[j] = cl[j]
    BY <2>1, ClientsOther
  <2>3. UNCHANGED <<c2s, s2c, link, sv, cuts>> /\ backlog' = Append(backlog, k)
    BY <1>3 DEF Connect, history
  <2> QED BY <2>1, <2>2, <2>3, ConnectionsClient DEF ConnectionsOK
<1>4. CASE Exit(k) \/ KillClient(k) \/ ClientPipe(k)
  BY <1>2, <1>4 DEF Exit, KillClient, ClientPipe
<1>5. CASE \E cmd \in Commands[k] : Ask(k, cmd)
  <2>1. UNCHANGED <<c2s, s2c, link, sv, cuts, backlog>>
    BY <1>5 DEF Ask
  <2>2. cl'[k].pc = "write" /\ \A j \in Clients \ {k} : cl'[j] = cl[j]
    BY <1>5, AskClient
  <2> QED BY <2>1, <2>2, ConnectionsClient DEF ConnectionsOK
<1>6. CASE ClientWrite(k)
  <2>1. cl[k].out # <<>> /\ cl' = [cl EXCEPT ![k] = Sent(cl[k])]
    BY <1>6 DEF ClientWrite, IInv, Types, ClientsOK, ClientOK
  <2>2. cl'[k] = Sent(cl[k]) /\ \A j \in Clients \ {k} : cl'[j] = cl[j]
    BY <2>1, ClientsOther
  <2>3. Sent(cl[k]).pc # "off"
    BY <1>1, <2>1, SentType DEF ClientRec
  <2>4. \A j \in Clients : link'[j].c # "up" => link[j].c # "up"
    BY <1>6, EndKinds DEF ClientWrite, IInv, Types, StreamsOK, AfterWrite
  <2>5. /\ UNCHANGED <<sv, s2c, backlog, cuts>>
        /\ link[k].c = "up" \/ c2s'[k] = c2s[k]
        /\ \A j \in Clients \ {k} : c2s'[j] = c2s[j]
    BY <1>6 DEF ClientWrite, history, IInv, Types, StreamsOK
  <2> QED BY <2>2, <2>3, <2>4, <2>5, ConnectionsClient DEF ConnectionsOK
<1>7. CASE ReadAnswer(k) \/ ReadSize(k) \/ ReadData(k)
  <2>1. cl'[k].pc # "off" /\ \A j \in Clients \ {k} : cl'[j] = cl[j]
    <3>1. CASE ReadAnswer(k)
      <4>1. cl[k].pc # "off" /\ (UNCHANGED cl \/ cl' = [cl EXCEPT ![k] = Prompt(cl[k])])
        BY <3>1 DEF ReadAnswer
      <4>2. Prompt(cl[k]).pc = "prompt"
        BY <1>1, IdleType
      <4> QED BY <4>1, <4>2, ClientsOther
    <3>2. CASE ReadSize(k)
      <4>1. PICK size \in Int :
              cl' = [cl EXCEPT ![k] =
                 Goes([cl[k] EXCEPT !.left = size], IF size <= 0 THEN "prompt" ELSE "get_data")]
        <5>1. PICK sizes \in SUBSET Int : GetSize(k, sizes)
          BY <3>2, ClientReadsType, Sizes, JunkAssumption DEF ReadSize, IInv, Types
        <5> QED BY <5>1 DEF GetSize
      <4> DEFINE sized == [cl[k] EXCEPT !.left = size]
                 pc == IF size <= 0 THEN "prompt" ELSE "get_data"
      <4>2. sized \in ClientRec /\ pc \in {"prompt", "get_data"}
        BY <1>1 DEF ClientRec
      <4>3. cl' = [cl EXCEPT ![k] = Goes(sized, pc)]
        BY <4>1
      <4> HIDE DEF sized, pc
      <4>4. Goes(sized, pc).pc = pc
        BY <4>2, GoesType
      <4> QED BY <4>2, <4>3, <4>4, ClientsOther
    <3>3. CASE ReadData(k)
      <4>1. CASE \E n \in 1..MAX : cl' = [cl EXCEPT ![k] = Received(@, n)]
        <5>1. PICK n \in 1..MAX : cl' = [cl EXCEPT ![k] = Received(cl[k], n)]
          BY <4>1
        <5>2. Received(cl[k], n).pc # "off"
          <6> DEFINE got == [cl[k] EXCEPT !.left = @ - n, !.off = @ + n]
                     pc == IF cl[k].left <= n THEN "prompt" ELSE "get_data"
          <6>1. Received(cl[k], n) = Goes(got, pc) /\ pc \in {"prompt", "get_data"}
            BY DEF Received
          <6>2. got \in ClientRec
            <7>1. n \in Nat /\ cl[k].left \in Int /\ cl[k].off \in Nat
              BY <1>1, BufferAssumption DEF ClientRec
            <7> DEFINE left == cl[k].left - n
                       off == cl[k].off + n
            <7>2. got = [cl[k] EXCEPT !.left = left, !.off = off] /\ left \in Int /\ off \in Nat
              BY <7>1
            <7> HIDE DEF left, off, got
            <7> QED BY <1>1, <7>2 DEF ClientRec
          <6> HIDE DEF got, pc
          <6> QED BY <6>1, <6>2, GoesType
        <5> QED BY <5>1, <5>2, ClientsOther
      <4>2. CASE cl' = [cl EXCEPT ![k].left = @ + 1]
        <5> DEFINE left == cl[k].left + 1
                   c == [cl[k] EXCEPT !.left = left]
        <5>1. cl' = [cl EXCEPT ![k] = c]
          BY <4>2
        <5> HIDE DEF left
        <5>2. c.pc = cl[k].pc
          BY <1>1 DEF ClientRec
        <5> HIDE DEF c
        <5>3. cl[k].pc = "get_data"
          BY <3>3 DEF ReadData
        <5> QED BY <5>1, <5>2, <5>3, ClientsOther
      <4> QED BY <3>3, <4>1, <4>2 DEF ReadData
    <3> QED BY <1>7, <3>1, <3>2, <3>3
  <2>2. CASE ClientEnd(k)
    <3>1. \A j \in Clients : link'[j].c # "up" => link[j].c # "up"
      BY <2>2, ClientEndConnections
    <3>2. UNCHANGED <<c2s, s2c, backlog, sv, cuts>>
      BY <2>2 DEF ClientEnd, history
    <3> QED BY <2>1, <3>1, <3>2, ConnectionsClient DEF ConnectionsOK
  <2>3. CASE \E n \in 1..MAX : ClientReads(k, n)
    <3>1. PICK n \in 1..MAX : ClientReads(k, n)
      BY <2>3
    <3>2. cuts' \in Nat
      BY <3>1, ReadAll DEF ClientReads, IInv, Types, StreamsOK, ConnectionsOK
    <3>3. /\ UNCHANGED <<c2s, link, backlog, sv>>
          /\ \A j \in Clients \ {k} : s2c'[j] = s2c[j]
      BY <3>1 DEF ClientReads, IInv, Types, StreamsOK
    <3> QED BY <2>1, <3>2, <3>3, ConnectionsClient DEF ConnectionsOK
  <2> QED BY <1>7, <2>2, <2>3 DEF ReadAnswer, ReadSize, ReadData
<1> QED BY <1>3, <1>4, <1>5, <1>6, <1>7 DEF User, Client

LEMMA InitConnections == Init => ConnectionsOK
<1> SUFFICES ASSUME Init PROVE ConnectionsOK OBVIOUS
<1>1. \A k \in Clients : c2s[k] = <<>> /\ s2c[k] = <<>> /\ link[k].c = "up"
  BY DEF Init
<1>2. backlog = <<>> /\ sv.client = Nobody /\ cuts = 0
  BY DEF Init
<1> QED BY <1>1, <1>2, ClientAssumption DEF ConnectionsOK

LEMMA NextConnections == IInv /\ ConnectionsOK /\ [Next]_vars => ConnectionsOK'
<1> SUFFICES ASSUME IInv, ConnectionsOK, [Next]_vars PROVE ConnectionsOK' OBVIOUS
<1>1. CASE UNCHANGED vars
  BY <1>1 DEF vars, ConnectionsOK
<1> QED BY <1>1, ServerKeepsConnections, ClientKeepsConnections DEF Next

-----------------------------------------------------------------------------
(* No command is lost.  Without a short read, and if every file that a     *)
(* client puts fills whole buffers, what the client sends is a sequence of *)
(* buffers, each read by one read of the server, and none of them is taken *)
(* for a part of another.                                                  *)

\* The server has executed c commands and expects: a line (l = 0), the size of a file
\* (l = -1), or l units of its data.  After the buffer f it has executed d commands and
\* expects m.  The commands that a client sends are those of a, in order.
BufferOK(a, f, l, c, m, d) ==
  /\ Len(f) = MAX
  /\ l = 0 => /\ IsCmd(f[1])
              /\ d = c + 1 /\ d \in DOMAIN a /\ a[d] = f[1][2]
              /\ m = IF f[1][2][1] = "put" THEN -1 ELSE 0
  /\ l # 0 => d = c
  /\ l = -1 => f[1][1] = "size" /\ f[1][2] > 0 /\ m = f[1][2]
  /\ l > 0 => m = l - MAX /\ m >= 0

\* The same of the buffers fs, one after the other.
Follows(a, fs, l, c, m, d) ==
  \E left \in [0..Len(fs) -> Int], cnt \in [0..Len(fs) -> Nat] :
    /\ left[0] = l /\ cnt[0] = c
    /\ left[Len(fs)] = m /\ cnt[Len(fs)] = d
    /\ \A i \in 1..Len(fs) : BufferOK(a, fs[i], left[i - 1], cnt[i - 1], left[i], cnt[i])

\* The stream in consists of the buffers fs.
Framed(in, fs) ==
  /\ Len(in) = Len(fs) * MAX
  /\ \A i \in 1..Len(fs) : \A x \in 1..MAX : fs[i][x] = in[(i - 1) * MAX + x]

\* What is in the stream and still to be written leads from the commands d, executed, to
\* all those that were asked.
Kept(in, out, a, d, l) ==
  \E fs \in Seq(Seq(Unit)) : Framed(in, fs) /\ Follows(a, fs \o out, l, Len(d), 0, Len(a))

(* Sequences of buffers.                                                   *)
LEMMA TailConcat ==
  ASSUME NEW S, NEW s \in Seq(S), s # <<>>, NEW t \in Seq(S)
  PROVE  /\ s \o t \in Seq(S) /\ s \o t # <<>> /\ Head(s \o t) = Head(s)
         /\ Tail(s \o t) = Tail(s) \o t
<1> DEFINE u == s \o t
           v == Tail(s) \o t
<1>1. /\ Len(s) \in Nat \ {0} /\ Len(t) \in Nat
      /\ Tail(s) \in Seq(S) /\ Len(Tail(s)) = Len(s) - 1
      /\ \A i \in 1..Len(Tail(s)) : Tail(s)[i] = s[i + 1]
  BY EmptySeq, HeadTailProperties
<1>2. /\ u \in Seq(S) /\ Len(u) = Len(s) + Len(t)
      /\ \A i \in 1..Len(s) + Len(t) : u[i] = IF i <= Len(s) THEN s[i] ELSE t[i - Len(s)]
  BY ConcatProperties
<1>3. /\ v \in Seq(S) /\ Len(v) = Len(s) - 1 + Len(t)
      /\ \A i \in 1..Len(s) - 1 + Len(t) :
           v[i] = IF i <= Len(s) - 1 THEN Tail(s)[i] ELSE t[i - (Len(s) - 1)]
  BY <1>1, ConcatProperties
<1> HIDE DEF u, v
<1>4. u # <<>>
  <2>1. Len(u) # 0
    BY <1>1, <1>2
  <2> QED BY <2>1
<1>5. /\ Tail(u) \in Seq(S) /\ Len(Tail(u)) = Len(u) - 1
      /\ \A i \in 1..Len(Tail(u)) : Tail(u)[i] = u[i + 1]
  BY <1>2, <1>4, HeadTailProperties
<1>6. ASSUME NEW i \in 1..Len(v) PROVE Tail(u)[i] = v[i]
  <2>1. i \in 1..Len(s) - 1 + Len(t) /\ i \in 1..Len(Tail(u)) /\ i + 1 \in 1..Len(s) + Len(t)
    BY <1>1, <1>2, <1>3, <1>5
  <2>2. Tail(u)[i] = IF i + 1 <= Len(s) THEN s[i + 1] ELSE t[(i + 1) - Len(s)]
    BY <1>2, <1>5, <2>1
  <2>3. CASE i <= Len(s) - 1
    <3>1. i + 1 <= Len(s) /\ i \in 1..Len(Tail(s))
      BY <1>1, <2>1, <2>3
    <3>2. v[i] = Tail(s)[i] /\ Tail(s)[i] = s[i + 1]
      BY <1>1, <1>3, <2>1, <2>3, <3>1
    <3> QED BY <2>2, <3>1, <3>2
  <2>4. CASE ~(i <= Len(s) - 1)
    <3>1. ~(i + 1 <= Len(s)) /\ (i + 1) - Len(s) = i - (Len(s) - 1)
      BY <1>1, <2>1, <2>4
    <3>2. v[i] = t[i - (Len(s) - 1)]
      BY <1>3, <2>1, <2>4
    <3> QED BY <2>2, <3>1, <3>2
  <2> QED BY <2>3, <2>4
<1>7. Tail(u) = v
  <2>1. Len(Tail(u)) = Len(v)
    BY <1>1, <1>2, <1>3, <1>5
  <2> QED BY <1>3, <1>5, <1>6, <2>1, SeqEqual
<1>8. Head(u) = Head(s)
  <2>1. 1 \in 1..Len(s) + Len(t) /\ 1 <= Len(s)
    BY <1>1
  <2>2. u[1] = s[1]
    BY <1>2, <2>1
  <2> QED BY <1>2, <1>4, <2>2
<1> QED BY <1>2, <1>4, <1>7, <1>8 DEF u, v

LEMMA AppendConcat ==
  ASSUME NEW S, NEW s \in Seq(S), NEW t \in Seq(S), t # <<>>
  PROVE  Append(s, Head(t)) \o Tail(t) = s \o t
<1> DEFINE h == <<Head(t)>>
<1>1. Head(t) \in S /\ Tail(t) \in Seq(S) /\ h \in Seq(S)
  BY HeadTailProperties
<1>2. Append(s, Head(t)) = s \o h
  BY <1>1, AppendIsConcat
<1>3. h \o Tail(t) = t
  BY <1>1, HeadTailAppend, ConcatProperties
<1> HIDE DEF h
<1>4. (s \o h) \o Tail(t) = s \o (h \o Tail(t))
  BY <1>1, ConcatAssociative
<1> QED BY <1>2, <1>3, <1>4

LEMMA FollowsNone ==
  ASSUME NEW a, NEW l \in Int, NEW c \in Nat
  PROVE  /\ Follows(a, <<>>, l, c, l, c)
         /\ \A m, d : Follows(a, <<>>, l, c, m, d) => m = l /\ d = c
<1>1. Len(<<>>) = 0 /\ 1..0 = {}
  OBVIOUS
<1>2. Follows(a, <<>>, l, c, l, c)
  <2> DEFINE left == [i \in 0..0 |-> l]
             cnt == [i \in 0..0 |-> c]
  <2>1. left \in [0..0 -> Int] /\ cnt \in [0..0 -> Nat] /\ left[0] = l /\ cnt[0] = c
    OBVIOUS
  <2> HIDE DEF left, cnt
  <2> QED BY <1>1, <2>1 DEF Follows
<1>3. \A m, d : Follows(a, <<>>, l, c, m, d) => m = l /\ d = c
  BY <1>1 DEF Follows
<1> QED BY <1>2, <1>3

LEMMA FollowsHead ==
  ASSUME NEW a, NEW fs \in Seq(Seq(Unit)), fs # <<>>, NEW l, NEW c, NEW m, NEW d,
         Follows(a, fs, l, c, m, d)
  PROVE  \E p \in Int, q \in Nat :
           BufferOK(a, Head(fs), l, c, p, q) /\ Follows(a, Tail(fs), p, q, m, d)
<1>1. /\ Len(fs) \in Nat \ {0} /\ Head(fs) = fs[1] /\ Tail(fs) \in Seq(Seq(Unit))
      /\ Len(Tail(fs)) = Len(fs) - 1
      /\ \A i \in 1..Len(Tail(fs)) : Tail(fs)[i] = fs[i + 1]
  BY EmptySeq, HeadTailProperties
<1>2. PICK left \in [0..Len(fs) -> Int], cnt \in [0..Len(fs) -> Nat] :
        /\ left[0] = l /\ cnt[0] = c
        /\ left[Len(fs)] = m /\ cnt[Len(fs)] = d
        /\ \A i \in 1..Len(fs) : BufferOK(a, fs[i], left[i - 1], cnt[i - 1], left[i], cnt[i])
  BY DEF Follows
<1>3. left[1] \in Int /\ cnt[1] \in Nat /\ BufferOK(a, Head(fs), l, c, left[1], cnt[1])
  <2>1. 1 \in 1..Len(fs) /\ 1 - 1 = 0 /\ 1 \in 0..Len(fs)
    BY <1>1
  <2> QED BY <1>1, <1>2, <2>1
<1> DEFINE n == Len(fs) - 1
           lt == [i \in 0..n |-> left[i + 1]]
           ct == [i \in 0..n |-> cnt[i + 1]]
<1>4. \A i \in 0..n : i + 1 \in 0..Len(fs)
  BY <1>1
<1>5. 0 \in 0..n /\ n \in 0..n /\ n + 1 = Len(fs) /\ 0 + 1 = 1 /\ Len(Tail(fs)) = n
  BY <1>1
<1>6. lt \in [0..n -> Int] /\ ct \in [0..n -> Nat]
  BY <1>2, <1>4
<1>7. lt[0] = left[1] /\ ct[0] = cnt[1] /\ lt[n] = m /\ ct[n] = d
  BY <1>2, <1>5
<1>8. ASSUME NEW i \in 1..n
      PROVE  BufferOK(a, Tail(fs)[i], lt[i - 1], ct[i - 1], lt[i], ct[i])
  <2>1. i + 1 \in 1..Len(fs) /\ (i + 1) - 1 = i /\ i \in 0..n /\ i - 1 \in 0..n
        /\ (i - 1) + 1 = i
    BY <1>1
  <2>2. BufferOK(a, fs[i + 1], left[i], cnt[i], left[i + 1], cnt[i + 1])
    BY <1>2, <2>1
  <2>3. /\ lt[i - 1] = left[i] /\ ct[i - 1] = cnt[i]
        /\ lt[i] = left[i + 1] /\ ct[i] = cnt[i + 1]
        /\ Tail(fs)[i] = fs[i + 1]
    BY <1>1, <2>1
  <2> QED BY <2>2, <2>3
<1> HIDE DEF n, lt, ct
<1>9. Follows(a, Tail(fs), left[1], cnt[1], m, d)
  BY <1>5, <1>6, <1>7, <1>8 DEF Follows
<1> QED BY <1>3, <1>9

LEMMA FollowsConcat ==
  ASSUME NEW a, NEW fs \in Seq(Seq(Unit)), NEW gs \in Seq(Seq(Unit)),
         NEW l, NEW c, NEW p, NEW q, NEW m, NEW d,
         Follows(a, fs, l, c, p, q), Follows(a, gs, p, q, m, d)
  PROVE  Follows(a, fs \o gs, l, c, m, d)
<1> DEFINE n == Len(fs)
           r == Len(gs)
           u == fs \o gs
<1>1. n \in Nat /\ r \in Nat
  OBVIOUS
<1>2. /\ u \in Seq(Seq(Unit)) /\ Len(u) = n + r
      /\ \A i \in 1..n + r : u[i] = IF i <= n THEN fs[i] ELSE gs[i - n]
  BY ConcatProperties
<1>3. PICK lf \in [0..n -> Int], cf \in [0..n -> Nat] :
        /\ lf[0] = l /\ cf[0] = c /\ lf[n] = p /\ cf[n] = q
        /\ \A i \in 1..n : BufferOK(a, fs[i], lf[i - 1], cf[i - 1], lf[i], cf[i])
  BY DEF Follows
<1>4. PICK lg \in [0..r -> Int], cg \in [0..r -> Nat] :
        /\ lg[0] = p /\ cg[0] = q /\ lg[r] = m /\ cg[r] = d
        /\ \A i \in 1..r : BufferOK(a, gs[i], lg[i - 1], cg[i - 1], lg[i], cg[i])
  BY DEF Follows
<1> DEFINE left == [i \in 0..n + r |-> IF i <= n THEN lf[i] ELSE lg[i - n]]
           cnt == [i \in 0..n + r |-> IF i <= n THEN cf[i] ELSE cg[i - n]]
<1> HIDE DEF n, r, u
<1>5. ASSUME NEW i \in 0..n + r
      PROVE  /\ i <= n => i \in 0..n /\ left[i] = lf[i] /\ cnt[i] = cf[i]
             /\ i >= n => i - n \in 0..r /\ left[i] = lg[i - n] /\ cnt[i] = cg[i - n]
  <2>1. i <= n => i \in 0..n
    BY <1>1
  <2>2. i >= n => i - n \in 0..r
    BY <1>1
  <2>3. i = n => i - n = 0 /\ i <= n
    BY <1>1
  <2>4. i >= n /\ i # n => ~(i <= n)
    BY <1>1
  <2> QED BY <1>3, <1>4, <2>1, <2>2, <2>3, <2>4
<1>6. left \in [0..n + r -> Int] /\ cnt \in [0..n + r -> Nat]
  <2>1. \A i \in 0..n + r : i <= n \/ i >= n
    BY <1>1
  <2>2. \A i \in 0..n + r : left[i] \in Int /\ cnt[i] \in Nat
    BY <1>3, <1>4, <1>5, <2>1
  <2> QED BY <2>2
<1>7. left[0] = l /\ cnt[0] = c /\ left[n + r] = m /\ cnt[n + r] = d
  <2>1. 0 \in 0..n + r /\ 0 <= n /\ n + r \in 0..n + r /\ n + r >= n /\ (n + r) - n = r
    BY <1>1
  <2> QED BY <1>3, <1>4, <1>5, <2>1
<1>8. ASSUME NEW i \in 1..n + r
      PROVE  BufferOK(a, u[i], left[i - 1], cnt[i - 1], left[i], cnt[i])
  <2>1. i \in 0..n + r /\ i - 1 \in 0..n + r
    BY <1>1
  <2>2. CASE i <= n
    <3>1. i \in 1..n /\ i - 1 <= n
      BY <1>1, <2>2
    <3>2. /\ left[i] = lf[i] /\ cnt[i] = cf[i]
          /\ left[i - 1] = lf[i - 1] /\ cnt[i - 1] = cf[i - 1]
          /\ u[i] = fs[i]
      BY <1>2, <1>5, <2>1, <2>2, <3>1
    <3> QED BY <1>3, <3>1, <3>2
  <2>3. CASE i > n
    <3>1. i - n \in 1..r /\ i >= n /\ i - 1 >= n /\ (i - 1) - n = (i - n) - 1 /\ ~(i <= n)
      BY <1>1, <2>3
    <3>2. /\ left[i] = lg[i - n] /\ cnt[i] = cg[i - n]
          /\ left[i - 1] = lg[(i - n) - 1] /\ cnt[i - 1] = cg[(i - n) - 1]
      BY <1>5, <2>1, <3>1
    <3>3. u[i] = gs[i - n]
      BY <1>2, <3>1
    <3> QED BY <1>4, <3>1, <3>2, <3>3
  <2>4. i <= n \/ i > n
    BY <1>1
  <2> QED BY <2>2, <2>3, <2>4
<1> HIDE DEF left, cnt
<1>9. Follows(a, u, l, c, m, d)
  BY <1>2, <1>6, <1>7, <1>8 DEF Follows
<1> QED BY <1>9 DEF u

LEMMA BufferMore ==
  ASSUME NEW a \in Seq(Cmd), NEW cmd \in Cmd, NEW f, NEW l, NEW c, NEW m, NEW d \in Nat,
         BufferOK(a, f, l, c, m, d)
  PROVE  BufferOK(Append(a, cmd), f, l, c, m, d)
<1>1. \A i \in DOMAIN a : i \in DOMAIN Append(a, cmd) /\ Append(a, cmd)[i] = a[i]
  <2>1. /\ Append(a, cmd) \in Seq(Cmd) /\ Len(Append(a, cmd)) = Len(a) + 1
        /\ \A i \in 1..Len(a) : Append(a, cmd)[i] = a[i]
    BY AppendProperties
  <2>2. \A i \in 1..Len(a) : i \in 1..Len(a) + 1
    OBVIOUS
  <2>3. DOMAIN a = 1..Len(a) /\ DOMAIN Append(a, cmd) = 1..Len(a) + 1
    BY <2>1
  <2> QED BY <2>1, <2>2, <2>3
<1> QED BY <1>1 DEF BufferOK

LEMMA FollowsMore ==
  ASSUME NEW a \in Seq(Cmd), NEW cmd \in Cmd, NEW fs \in Seq(Seq(Unit)),
         NEW l, NEW c, NEW m, NEW d, Follows(a, fs, l, c, m, d)
  PROVE  Follows(Append(a, cmd), fs, l, c, m, d)
<1>1. PICK left \in [0..Len(fs) -> Int], cnt \in [0..Len(fs) -> Nat] :
        /\ left[0] = l /\ cnt[0] = c
        /\ left[Len(fs)] = m /\ cnt[Len(fs)] = d
        /\ \A i \in 1..Len(fs) : BufferOK(a, fs[i], left[i - 1], cnt[i - 1], left[i], cnt[i])
  BY DEF Follows
<1> DEFINE b == Append(a, cmd)
<1>2. ASSUME NEW i \in 1..Len(fs)
      PROVE  BufferOK(b, fs[i], left[i - 1], cnt[i - 1], left[i], cnt[i])
  <2>1. Len(fs) \in Nat
    OBVIOUS
  <2>2. i \in 0..Len(fs)
    BY <2>1
  <2>3. cnt[i] \in Nat
    BY <1>1, <2>2
  <2> QED BY <1>1, <2>3, BufferMore
<1> HIDE DEF b
<1>3. Follows(b, fs, l, c, m, d)
  BY <1>1, <1>2 DEF Follows
<1> QED BY <1>3 DEF b

LEMMA FollowsOne ==
  ASSUME NEW a, NEW f, NEW l \in Int, NEW c \in Nat, NEW m \in Int, NEW d \in Nat,
         BufferOK(a, f, l, c, m, d)
  PROVE  Follows(a, <<f>>, l, c, m, d)
<1> DEFINE left == [i \in 0..1 |-> IF i = 0 THEN l ELSE m]
           cnt == [i \in 0..1 |-> IF i = 0 THEN c ELSE d]
           fs == <<f>>
<1>1. Len(fs) = 1 /\ fs[1] = f
  OBVIOUS
<1>2. left \in [0..1 -> Int] /\ cnt \in [0..1 -> Nat]
      /\ left[0] = l /\ cnt[0] = c /\ left[1] = m /\ cnt[1] = d
  OBVIOUS
<1> HIDE DEF left, cnt, fs
<1>3. \A i \in 1..1 : i = 1 /\ i - 1 = 0
  OBVIOUS
<1>4. Follows(a, fs, l, c, m, d)
  BY <1>1, <1>2, <1>3 DEF Follows
<1> QED BY <1>4 DEF fs

(* The data of a file that fills whole buffers.                            *)
LEMMA FollowsChunks ==
  ASSUME NEW a, NEW data \in Seq(Said), data # <<>>, Len(data) % MAX = 0, NEW c \in Nat
  PROVE  Follows(a, Chunks(data), Len(data), c, 0, c)
<1> DEFINE q == (Len(data) + MAX - 1) \div MAX
           last(i) == IF i * MAX < Len(data) THEN i * MAX ELSE Len(data)
           left == [i \in 0..q |-> Len(data) - i * MAX]
           cnt == [i \in 0..q |-> c]
           fs == Chunks(data)
<1>1. Len(data) \in Nat \ {0} /\ MAX \in Nat \ {0}
  BY EmptySeq, BufferAssumption
<1>2. q \in Nat /\ q * MAX >= Len(data) /\ (q # 0 => (q - 1) * MAX < Len(data))
  BY <1>1, Quotient
<1> HIDE DEF q
<1>3. PICK z \in Nat : Len(data) = z * MAX
  <2> DEFINE z == Len(data) \div MAX
  <2>1. z \in Nat /\ Len(data) = z * MAX + (Len(data) % MAX)
    <3>1. \A x \in Nat, y \in Nat \ {0} : x \div y \in Nat /\ x = (x \div y) * y + (x % y)
      OBVIOUS
    <3> QED BY <1>1, <3>1
  <2> HIDE DEF z
  <2>2. z * MAX \in Nat
    BY <2>1, Times
  <2>3. Len(data) = z * MAX
    BY <2>1, <2>2
  <2> QED BY <2>1, <2>3
<1>4. q = z
  <2>1. q # 0
    <3>1. 0 * MAX = 0
      BY <1>1
    <3> QED BY <1>1, <1>2, <3>1
  <2>2. q <= z
    <3> SUFFICES ASSUME z < q PROVE FALSE
      BY <1>2, <1>3
    <3>1. z <= q - 1 /\ q - 1 \in Nat
      BY <1>2, <1>3, <2>1
    <3>2. z * MAX <= (q - 1) * MAX /\ z * MAX \in Nat /\ (q - 1) * MAX \in Nat
      BY <1>3, <3>1, Times, TimesMore
    <3> QED BY <1>2, <1>3, <2>1, <3>2
  <2>3. z <= q
    <3> SUFFICES ASSUME q < z PROVE FALSE
      BY <1>2, <1>3
    <3>1. q + 1 <= z /\ q + 1 \in Nat
      BY <1>2, <1>3
    <3>2. (q + 1) * MAX <= z * MAX /\ (q + 1) * MAX = q * MAX + MAX /\ q * MAX \in Nat
          /\ z * MAX \in Nat
      BY <1>2, <1>3, <3>1, Times, TimesNext, TimesMore
    <3> QED BY <1>1, <1>2, <1>3, <3>2
  <2> QED BY <1>2, <1>3, <2>2, <2>3
<1>5. /\ fs = [i \in 1..q |-> SubSeq(data, (i - 1) * MAX + 1, last(i))]
      /\ Len(fs) = q
  <2>1. fs = [i \in 1..q |-> SubSeq(data, (i - 1) * MAX + 1, last(i))]
    BY DEF Chunks, q
  <2> HIDE DEF last, fs
  <2> QED BY <1>2, <2>1
<1>6. \A i \in 0..q : i * MAX \in Nat /\ i * MAX <= Len(data)
  <2> SUFFICES ASSUME NEW i \in 0..q PROVE i * MAX \in Nat /\ i * MAX <= Len(data)
    OBVIOUS
  <2>1. i \in Nat /\ i <= z
    BY <1>2, <1>4
  <2> QED BY <1>3, <2>1, Times, TimesMore
<1>7. left \in [0..q -> Int] /\ cnt \in [0..q -> Nat]
  <2>1. \A i \in 0..q : Len(data) - i * MAX \in Int
    BY <1>1, <1>6
  <2> QED BY <2>1
<1>8. left[0] = Len(data) /\ cnt[0] = c /\ left[q] = 0 /\ cnt[q] = c
  <2>1. 0 * MAX = 0 /\ 0 \in 0..q /\ q \in 0..q /\ q * MAX = Len(data)
    BY <1>1, <1>2, <1>3, <1>4
  <2>2. left[0] = Len(data) - 0 * MAX /\ left[q] = Len(data) - q * MAX
    BY <2>1
  <2> HIDE DEF left
  <2> QED BY <1>1, <2>1, <2>2
<1>9. ASSUME NEW i \in 1..q
      PROVE  BufferOK(a, fs[i], left[i - 1], cnt[i - 1], left[i], cnt[i])
  <2>1. i \in 0..q /\ i - 1 \in 0..q /\ i - 1 \in Nat /\ (i - 1) + 1 = i
    BY <1>2
  <2> DEFINE b == (i - 1) * MAX
             e == i * MAX
  <2>2. b \in Nat /\ e \in Nat /\ e = b + MAX /\ e <= Len(data)
    <3>1. ((i - 1) + 1) * MAX = (i - 1) * MAX + MAX
      BY <2>1, TimesNext
    <3> QED BY <1>6, <2>1, <3>1
  <2>3. left[i - 1] = Len(data) - b /\ left[i] = Len(data) - e /\ cnt[i - 1] = c /\ cnt[i] = c
    BY <2>1
  <2>4. fs[i] = SubSeq(data, b + 1, last(i)) /\ last(i) = IF e < Len(data) THEN e ELSE Len(data)
    BY <1>5
  <2> HIDE DEF b, e, left, cnt, fs, last
  <2>5. last(i) = e
    BY <1>1, <2>2, <2>4
  <2>6. Len(fs[i]) = MAX
    <3>1. \A j \in b + 1..e : data[j] \in Said
      BY <2>2
    <3>2. Len(SubSeq(data, b + 1, e)) = e - b
      BY <1>1, <2>2, <3>1, SubSeqProperties
    <3> QED BY <1>1, <2>2, <2>4, <2>5, <3>2
  <2>7. left[i - 1] > 0 /\ left[i] = left[i - 1] - MAX /\ left[i] >= 0 /\ left[i - 1] \in Int
    BY <1>1, <2>2, <2>3
  <2> QED BY <2>3, <2>6, <2>7 DEF BufferOK
<1> HIDE DEF left, cnt, fs
<1>10. Follows(a, fs, Len(data), c, 0, c)
  BY <1>5, <1>7, <1>8, <1>9 DEF Follows
<1> QED BY <1>10 DEF fs

(* What a client writes for a command leads to that command, executed, if  *)
(* the file of a put fills whole buffers.                                  *)
LEMMA SizedFollows ==
  ASSUME NEW a, NEW data \in Seq(Said), data # <<>>, Len(data) % MAX = 0, NEW c \in Nat
  PROVE  Follows(a, Sized(data), -1, c, 0, c)
<1> DEFINE u == <<"size", Len(data)>>
           f == Msg(u)
<1>1. Len(data) \in Nat /\ Len(data) > 0
  BY EmptySeq
<1>2. u \in Unit /\ u[1] = "size" /\ u[2] = Len(data)
  BY <1>1 DEF Unit, Said
<1> HIDE DEF u
<1>3. f \in Seq(Unit) /\ Len(f) = MAX /\ f[1] = u
  BY <1>2, MsgLength
<1> HIDE DEF f
<1>4. BufferOK(a, f, -1, c, Len(data), c)
  BY <1>1, <1>2, <1>3 DEF BufferOK
<1>5. Follows(a, <<f>>, -1, c, Len(data), c)
  BY <1>1, <1>4, FollowsOne
<1>6. Follows(a, Chunks(data), Len(data), c, 0, c)
  BY FollowsChunks
<1>7. <<f>> \in Seq(Seq(Unit)) /\ Chunks(data) \in Seq(Seq(Unit))
  <2>1. data \in Seq(Unit)
    BY SaidUnit
  <2> QED BY <1>3, <2>1, ChunksType
<1>8. Sized(data) = <<f>> \o Chunks(data)
  BY DEF Sized, f, u
<1>9. Follows(a, <<f>> \o Chunks(data), -1, c, 0, c)
  BY <1>5, <1>6, <1>7, FollowsConcat
<1> QED BY <1>8, <1>9

LEMMA FollowsCommand ==
  ASSUME NEW a \in Seq(Cmd), NEW cmd \in Cmd, NEW data \in Seq(Said),
         cmd[1] = "put" => data # <<>> /\ Len(data) % MAX = 0
  PROVE  LET out == <<Msg(Text(cmd))>> \o (IF cmd[1] = "put" THEN Sized(data) ELSE <<>>)
         IN  out \in Seq(Seq(Unit)) /\ Follows(Append(a, cmd), out, 0, Len(a), 0, Len(a) + 1)
<1> DEFINE b == Append(a, cmd)
           f == Msg(Text(cmd))
           c == Len(a)
           more == IF cmd[1] = "put" THEN Sized(data) ELSE <<>>
           m == IF cmd[1] = "put" THEN -1 ELSE 0
<1>1. /\ b \in Seq(Cmd) /\ Len(b) = c + 1 /\ b[c + 1] = cmd /\ c \in Nat
  BY AppendProperties
<1>2. c + 1 \in DOMAIN b
  <2>1. DOMAIN b = 1..c + 1 /\ c + 1 \in 1..c + 1
    BY <1>1
  <2> QED BY <2>1
<1>3. /\ f \in Seq(Unit) /\ Len(f) = MAX /\ f[1] = Text(cmd)
      /\ Text(cmd)[1] = "cmd" /\ Text(cmd)[2] = cmd
  BY Texts, MsgLength
<1> HIDE DEF f, b, c
<1>4. BufferOK(b, f, 0, c, m, c + 1)
  <2>1. IsCmd(f[1]) /\ f[1][2] = cmd
    BY <1>3 DEF IsCmd
  <2> QED BY <1>1, <1>2, <1>3, <2>1 DEF BufferOK
<1>5. Follows(b, <<f>>, 0, c, m, c + 1)
  <2>1. c + 1 \in Nat /\ 0 \in Int /\ m \in Int
    BY <1>1
  <2> HIDE DEF m
  <2> QED BY <1>1, <1>4, <2>1, FollowsOne
<1>6. Follows(b, more, m, c + 1, 0, c + 1) /\ more \in Seq(Seq(Unit))
  <2>1. c + 1 \in Nat
    BY <1>1
  <2>2. CASE cmd[1] = "put"
    BY <2>1, <2>2, SizedFollows, SizedType
  <2>3. CASE cmd[1] # "put"
    BY <2>1, <2>3, FollowsNone
  <2> QED BY <2>2, <2>3
<1>7. <<f>> \in Seq(Seq(Unit))
  BY <1>3
<1> HIDE DEF more, m
<1>8. Follows(b, <<f>> \o more, 0, c, 0, c + 1) /\ <<f>> \o more \in Seq(Seq(Unit))
  BY <1>5, <1>6, <1>7, FollowsConcat, ConcatProperties
<1> QED BY <1>8 DEF f, more, b, c

(* The buffers of a stream.                                                *)
LEMMA FramedNone ==
  /\ Framed(<<>>, <<>>)
  /\ \A fs \in Seq(Seq(Unit)) : Framed(<<>>, fs) => fs = <<>>
<1>1. Framed(<<>>, <<>>)
  <2>1. Len(<<>>) = 0 /\ 0 * MAX = 0 /\ 1..0 = {}
    BY BufferAssumption
  <2> QED BY <2>1 DEF Framed
<1>2. ASSUME NEW fs \in Seq(Seq(Unit)), Framed(<<>>, fs), fs # <<>>
      PROVE  FALSE
  <2>1. Len(fs) \in Nat /\ Len(fs) >= 1
    BY <1>2, EmptySeq
  <2>2. 1 * MAX <= Len(fs) * MAX
    BY <2>1, TimesMore
  <2>4. 1 * MAX = MAX /\ MAX > 0 /\ MAX \in Nat
    BY BufferAssumption
  <2>3. 0 = Len(fs) * MAX
    <3>1. Len(<<>>) = 0
      OBVIOUS
    <3> QED BY <1>2, <3>1 DEF Framed
  <2> DEFINE p == Len(fs) * MAX
  <2>5. 0 = p /\ MAX <= p
    BY <2>2, <2>3, <2>4
  <2> HIDE DEF p
  <2> QED BY <2>4, <2>5
<1> QED BY <1>1, <1>2

LEMMA FramedRead ==
  ASSUME NEW in \in Seq(Unit), in # <<>>, NEW fs \in Seq(Seq(Unit)), Framed(in, fs)
  PROVE  /\ fs # <<>> /\ Avail(in) = MAX /\ Head(fs)[1] = Head(in)
         /\ Rest(in, MAX) \in Seq(Unit) /\ Framed(Rest(in, MAX), Tail(fs))
<1> DEFINE r == Rest(in, MAX)
           gs == Tail(fs)
<1>1. Len(in) \in Nat \ {0} /\ MAX \in Nat \ {0} /\ Len(in) = Len(fs) * MAX
  BY EmptySeq, BufferAssumption DEF Framed
<1>2. Len(fs) \in Nat /\ Len(fs) >= 1
  <2>1. Len(fs) = 0 => Len(in) = 0 * MAX
    BY <1>1
  <2>2. 0 * MAX = 0
    BY <1>1
  <2> QED BY <1>1, <2>1, <2>2
<1>3. fs # <<>>
  BY <1>2
<1>4. /\ gs \in Seq(Seq(Unit)) /\ Len(gs) = Len(fs) - 1 /\ Head(fs) = fs[1]
      /\ \A i \in 1..Len(gs) : gs[i] = fs[i + 1]
  BY <1>3, HeadTailProperties
<1>5. Len(in) >= MAX /\ Len(in) = Len(gs) * MAX + MAX /\ Len(gs) * MAX \in Nat
  <2>1. Len(gs) \in Nat /\ Len(gs) + 1 = Len(fs)
    BY <1>2, <1>4
  <2>2. (Len(gs) + 1) * MAX = Len(gs) * MAX + MAX /\ Len(gs) * MAX \in Nat
    BY <2>1, Times, TimesNext
  <2>3. Len(in) = (Len(gs) + 1) * MAX
    BY <1>1, <2>1
  <2> HIDE DEF gs
  <2> DEFINE p == Len(gs) * MAX
  <2>4. p \in Nat /\ Len(in) = p + MAX
    BY <2>2, <2>3
  <2> HIDE DEF p
  <2>5. Len(in) >= MAX
    BY <1>1, <2>4
  <2> QED BY <2>4, <2>5 DEF p
<1>6. Avail(in) = MAX /\ MAX \in 1..Len(in)
  BY <1>1, <1>5, AvailFacts
<1>7. /\ r \in Seq(Unit) /\ Len(r) = Len(in) - MAX
      /\ \A i \in 1..Len(in) - MAX : r[i] = in[MAX + i]
  BY <1>6, RestType
<1>8. Head(fs)[1] = Head(in)
  <2>1. 1 \in 1..Len(fs) /\ 1 \in 1..MAX /\ (1 - 1) * MAX + 1 = 1
    BY <1>1, <1>2
  <2>2. fs[1][1] = in[(1 - 1) * MAX + 1]
    BY <2>1 DEF Framed
  <2> QED BY <1>4, <2>1, <2>2
<1> HIDE DEF r, gs
<1>9. ASSUME NEW i \in 1..Len(gs), NEW x \in 1..MAX
      PROVE  gs[i][x] = r[(i - 1) * MAX + x]
  <2> DEFINE b == (i - 1) * MAX
  <2>1. i + 1 \in 1..Len(fs) /\ i - 1 \in Nat /\ (i + 1) - 1 = i /\ (i - 1) + 1 = i
        /\ i \in Nat /\ i <= Len(gs) /\ Len(gs) \in Nat
    BY <1>2, <1>4
  <2>2. b \in Nat /\ i * MAX = b + MAX /\ i * MAX <= Len(gs) * MAX
    <3>1. ((i - 1) + 1) * MAX = (i - 1) * MAX + MAX
      BY <2>1, TimesNext
    <3> QED BY <2>1, <3>1, Times, TimesMore
  <2>3. fs[i + 1][x] = in[((i + 1) - 1) * MAX + x]
    BY <2>1 DEF Framed
  <2> HIDE DEF b
  <2>4. b + x \in 1..Len(in) - MAX /\ MAX + (b + x) = i * MAX + x
    BY <1>1, <1>5, <2>2
  <2>5. r[b + x] = in[i * MAX + x]
    BY <1>7, <2>4
  <2>6. gs[i][x] = in[i * MAX + x]
    BY <1>4, <2>1, <2>3
  <2> QED BY <2>5, <2>6 DEF b
<1>10. Framed(r, gs)
  <2>1. Len(r) = Len(gs) * MAX
    BY <1>1, <1>5, <1>7
  <2> QED BY <1>9, <2>1 DEF Framed
<1> QED BY <1>3, <1>6, <1>7, <1>8, <1>10 DEF r, gs

LEMMA FramedWrite ==
  ASSUME NEW in \in Seq(Unit), NEW fs \in Seq(Seq(Unit)), Framed(in, fs),
         NEW f \in Seq(Unit), Len(f) = MAX
  PROVE  /\ in \o f \in Seq(Unit) /\ Append(fs, f) \in Seq(Seq(Unit))
         /\ Framed(in \o f, Append(fs, f))
<1> DEFINE s == in \o f
           gs == Append(fs, f)
           n == Len(fs)
<1>1. n \in Nat /\ Len(in) = n * MAX /\ n * MAX \in Nat /\ MAX \in Nat
      /\ (n + 1) * MAX = n * MAX + MAX
  BY Times, TimesNext, BufferAssumption DEF Framed
<1>2. /\ s \in Seq(Unit) /\ Len(s) = Len(in) + Len(f)
      /\ \A i \in 1..Len(in) + Len(f) : s[i] = IF i <= Len(in) THEN in[i] ELSE f[i - Len(in)]
  BY ConcatProperties
<1>3. /\ gs \in Seq(Seq(Unit)) /\ Len(gs) = n + 1 /\ gs[n + 1] = f
      /\ \A i \in 1..n : gs[i] = fs[i]
  BY AppendProperties
<1> HIDE DEF s, gs
<1>4. ASSUME NEW i \in 1..n + 1, NEW x \in 1..MAX
      PROVE  gs[i][x] = s[(i - 1) * MAX + x]
  <2> DEFINE b == (i - 1) * MAX
  <2> HIDE DEF n
  <2>1. i - 1 \in Nat /\ (i - 1) + 1 = i /\ i \in Nat
    BY <1>1
  <2>2. b \in Nat /\ i * MAX = b + MAX
    <3>1. ((i - 1) + 1) * MAX = (i - 1) * MAX + MAX
      BY <2>1, TimesNext
    <3> QED BY <2>1, <3>1, Times
  <2>3. CASE i <= n
    <3>1. i \in 1..n /\ i * MAX <= n * MAX
      BY <1>1, <2>1, <2>3, TimesMore
    <3>2. fs[i][x] = in[b + x]
      BY <3>1 DEF Framed, n
    <3> DEFINE p == i * MAX
               q == n * MAX
    <3>6. p = b + MAX /\ p <= q /\ q = Len(in) /\ b \in Nat /\ q \in Nat
      BY <1>1, <2>2, <3>1
    <3> HIDE DEF b, p, q
    <3>3. b + x \in 1..Len(in) + Len(f) /\ b + x <= Len(in)
      BY <1>1, <3>6
    <3>4. s[b + x] = in[b + x]
      BY <1>2, <3>3
    <3>5. gs[i] = fs[i]
      BY <1>3, <3>1
    <3> QED BY <3>2, <3>4, <3>5 DEF b
  <2>4. CASE ~(i <= n)
    <3>1. i = n + 1 /\ i - 1 = n
      BY <1>1, <2>4
    <3>2. b = Len(in)
      BY <1>1, <3>1
    <3> HIDE DEF b
    <3>3. /\ b + x \in 1..Len(in) + Len(f) /\ ~(b + x <= Len(in))
          /\ (b + x) - Len(in) = x
      BY <1>1, <3>2
    <3>4. s[b + x] = f[x]
      BY <1>2, <3>3
    <3>5. gs[i] = f
      BY <1>3, <3>1
    <3> QED BY <3>4, <3>5 DEF b
  <2> QED BY <2>3, <2>4
<1>5. Framed(s, gs)
  <2>1. Len(s) = Len(gs) * MAX
    BY <1>1, <1>2, <1>3
  <2> QED BY <1>3, <1>4, <2>1 DEF Framed
<1> QED BY <1>2, <1>3, <1>5 DEF s, gs

(* A stream and what is to be written to it.                               *)
LEMMA KeptWrite ==
  ASSUME NEW in \in Seq(Unit), NEW out \in Seq(Seq(Unit)), out # <<>>,
         NEW a, NEW d, NEW l, Kept(in, out, a, d, l)
  PROVE  in \o Head(out) \in Seq(Unit) /\ Kept(in \o Head(out), Tail(out), a, d, l)
<1>1. PICK fs \in Seq(Seq(Unit)) :
        Framed(in, fs) /\ Follows(a, fs \o out, l, Len(d), 0, Len(a))
  BY DEF Kept
<1> DEFINE u == fs \o out
<1>2. /\ Len(fs) \in Nat /\ Len(out) \in Nat \ {0} /\ Head(out) = out[1]
      /\ Head(out) \in Seq(Unit)
  BY EmptySeq, HeadTailProperties
<1>3. /\ Len(u) = Len(fs) + Len(out)
      /\ \A i \in 1..Len(fs) + Len(out) : u[i] = IF i <= Len(fs) THEN fs[i] ELSE out[i - Len(fs)]
  BY ConcatProperties
<1>4. \A i \in 1..Len(u) : Len(u[i]) = MAX
  <2>1. Follows(a, u, l, Len(d), 0, Len(a))
    BY <1>1
  <2> HIDE DEF u
  <2> QED BY <2>1 DEF Follows, BufferOK
<1> HIDE DEF u
<1>5. Len(Head(out)) = MAX
  <2>1. /\ Len(fs) + 1 \in 1..Len(u) /\ Len(fs) + 1 \in 1..Len(fs) + Len(out)
        /\ ~(Len(fs) + 1 <= Len(fs)) /\ (Len(fs) + 1) - Len(fs) = 1
    BY <1>2, <1>3
  <2>2. u[Len(fs) + 1] = out[1]
    BY <1>3, <2>1
  <2>3. Len(u[Len(fs) + 1]) = MAX
    BY <1>4, <2>1
  <2> QED BY <1>2, <2>2, <2>3
<1>6. /\ in \o Head(out) \in Seq(Unit) /\ Append(fs, Head(out)) \in Seq(Seq(Unit))
      /\ Framed(in \o Head(out), Append(fs, Head(out)))
  BY <1>1, <1>2, <1>5, FramedWrite
<1>7. Append(fs, Head(out)) \o Tail(out) = u
  BY AppendConcat DEF u
<1>8. Follows(a, u, l, Len(d), 0, Len(a))
  BY <1>1 DEF u
<1> QED BY <1>6, <1>7, <1>8 DEF Kept

LEMMA KeptRead ==
  ASSUME NEW in \in Seq(Unit), in # <<>>, NEW out \in Seq(Seq(Unit)),
         NEW a, NEW d \in Seq(Cmd), NEW l, Kept(in, out, a, d, l)
  PROVE  /\ Avail(in) = MAX /\ Rest(in, MAX) \in Seq(Unit)
         /\ \E f \in Seq(Unit), p \in Int, q \in Nat :
              /\ f[1] = Head(in) /\ BufferOK(a, f, l, Len(d), p, q)
              /\ \A e : Len(e) = q => Kept(Rest(in, MAX), out, a, e, p)
<1>1. PICK fs \in Seq(Seq(Unit)) :
        Framed(in, fs) /\ Follows(a, fs \o out, l, Len(d), 0, Len(a))
  BY DEF Kept
<1>2. /\ fs # <<>> /\ Avail(in) = MAX /\ Head(fs)[1] = Head(in)
      /\ Rest(in, MAX) \in Seq(Unit) /\ Framed(Rest(in, MAX), Tail(fs))
  BY <1>1, FramedRead
<1> DEFINE u == fs \o out
<1>3. /\ u \in Seq(Seq(Unit)) /\ u # <<>> /\ Head(u) = Head(fs) /\ Tail(u) = Tail(fs) \o out
      /\ Tail(fs) \in Seq(Seq(Unit))
  <2>1. Tail(fs) \in Seq(Seq(Unit))
    BY <1>2, HeadTailProperties
  <2> QED BY <1>2, <2>1, TailConcat
<1>4. Follows(a, u, l, Len(d), 0, Len(a))
  BY <1>1
<1> HIDE DEF u
<1>5. PICK p \in Int, q \in Nat :
        BufferOK(a, Head(u), l, Len(d), p, q) /\ Follows(a, Tail(u), p, q, 0, Len(a))
  BY <1>3, <1>4, FollowsHead
<1>6. \A e : Len(e) = q => Kept(Rest(in, MAX), out, a, e, p)
  BY <1>2, <1>3, <1>5 DEF Kept
<1> DEFINE f == Head(fs)
<1>7. f \in Seq(Unit) /\ f[1] = Head(in) /\ BufferOK(a, f, l, Len(d), p, q)
  BY <1>2, <1>3, <1>5, HeadTailProperties
<1> HIDE DEF f
<1> QED BY <1>2, <1>6, <1>7

LEMMA KeptLine ==
  ASSUME NEW in \in Seq(Unit), in # <<>>, NEW out \in Seq(Seq(Unit)),
         NEW a, NEW d \in Seq(Cmd), Kept(in, out, a, d, 0)
  PROVE  /\ Avail(in) = MAX /\ IsCmd(Head(in))
         /\ Len(d) + 1 \in DOMAIN a /\ a[Len(d) + 1] = Head(in)[2]
         /\ Kept(Rest(in, MAX), out, a, Append(d, Head(in)[2]),
                 IF Head(in)[2][1] = "put" THEN -1 ELSE 0)
<1>1. PICK f \in Seq(Unit), p \in Int, q \in Nat :
        /\ f[1] = Head(in) /\ BufferOK(a, f, 0, Len(d), p, q)
        /\ \A e : Len(e) = q => Kept(Rest(in, MAX), out, a, e, p)
  BY KeptRead
<1>2. Avail(in) = MAX
  BY KeptRead
<1>3. /\ IsCmd(Head(in)) /\ q = Len(d) + 1 /\ q \in DOMAIN a /\ a[q] = Head(in)[2]
      /\ p = IF Head(in)[2][1] = "put" THEN -1 ELSE 0
  BY <1>1 DEF BufferOK
<1>4. Head(in) \in Unit
  BY HeadTailProperties
<1>5. Len(Append(d, Head(in)[2])) = q
  <2>1. Head(in)[2] \in Cmd
    BY <1>3, <1>4, UnitKinds DEF IsCmd
  <2> QED BY <1>3, <2>1, AppendProperties
<1>6. Kept(Rest(in, MAX), out, a, Append(d, Head(in)[2]), p)
  BY <1>1, <1>5
<1> QED BY <1>2, <1>3, <1>6

LEMMA KeptSize ==
  ASSUME NEW in \in Seq(Unit), in # <<>>, NEW out \in Seq(Seq(Unit)),
         NEW a, NEW d \in Seq(Cmd), Kept(in, out, a, d, -1)
  PROVE  /\ Avail(in) = MAX /\ Head(in)[1] = "size" /\ Head(in)[2] > 0
         /\ Kept(Rest(in, MAX), out, a, d, Head(in)[2])
<1>1. PICK f \in Seq(Unit), p \in Int, q \in Nat :
        /\ f[1] = Head(in) /\ BufferOK(a, f, -1, Len(d), p, q)
        /\ \A e : Len(e) = q => Kept(Rest(in, MAX), out, a, e, p)
  BY KeptRead
<1>2. Avail(in) = MAX
  BY KeptRead
<1>3. Head(in)[1] = "size" /\ Head(in)[2] > 0 /\ q = Len(d) /\ p = Head(in)[2]
  BY <1>1 DEF BufferOK
<1> QED BY <1>1, <1>2, <1>3

LEMMA KeptData ==
  ASSUME NEW in \in Seq(Unit), in # <<>>, NEW out \in Seq(Seq(Unit)),
         NEW a, NEW d \in Seq(Cmd), NEW l \in Int, l > 0, Kept(in, out, a, d, l)
  PROVE  /\ Avail(in) = MAX /\ l - MAX >= 0
         /\ Kept(Rest(in, MAX), out, a, d, l - MAX)
<1>1. PICK f \in Seq(Unit), p \in Int, q \in Nat :
        /\ f[1] = Head(in) /\ BufferOK(a, f, l, Len(d), p, q)
        /\ \A e : Len(e) = q => Kept(Rest(in, MAX), out, a, e, p)
  BY KeptRead
<1>2. Avail(in) = MAX
  BY KeptRead
<1>3. p = l - MAX /\ p >= 0 /\ q = Len(d)
  BY <1>1 DEF BufferOK
<1> QED BY <1>1, <1>2, <1>3

LEMMA KeptAsk ==
  ASSUME NEW in \in Seq(Unit), NEW a \in Seq(Cmd), NEW d \in Seq(Cmd), NEW l,
         Kept(in, <<>>, a, d, l),
         NEW cmd \in Cmd, NEW data \in Seq(Said),
         cmd[1] = "put" => data # <<>> /\ Len(data) % MAX = 0
  PROVE  Kept(in, <<Msg(Text(cmd))>> \o (IF cmd[1] = "put" THEN Sized(data) ELSE <<>>),
              Append(a, cmd), d, l)
<1> DEFINE out == <<Msg(Text(cmd))>> \o (IF cmd[1] = "put" THEN Sized(data) ELSE <<>>)
           b == Append(a, cmd)
<1>1. PICK fs \in Seq(Seq(Unit)) :
        Framed(in, fs) /\ Follows(a, fs \o <<>>, l, Len(d), 0, Len(a))
  BY DEF Kept
<1>2. out \in Seq(Seq(Unit)) /\ Follows(b, out, 0, Len(a), 0, Len(a) + 1)
  BY FollowsCommand
<1> HIDE DEF out
<1>3. fs \o <<>> = fs
  BY ConcatEmptySeq
<1>4. Follows(b, fs, l, Len(d), 0, Len(a))
  BY <1>1, <1>3, FollowsMore
<1>5. Len(b) = Len(a) + 1
  BY AppendProperties
<1> HIDE DEF b
<1>6. Follows(b, fs \o out, l, Len(d), 0, Len(b))
  BY <1>2, <1>4, <1>5, FollowsConcat
<1>7. Kept(in, out, b, d, l)
  BY <1>1, <1>6 DEF Kept
<1> QED BY <1>7 DEF out, b

LEMMA KeptNone ==
  /\ Kept(<<>>, <<>>, <<>>, <<>>, 0)
  /\ \A a \in Seq(Cmd), d \in Seq(Cmd), l \in Int :
       Kept(<<>>, <<>>, a, d, l) => Len(d) = Len(a)
<1>1. <<>> \o <<>> = <<>> /\ <<>> \in Seq(Seq(Unit)) /\ Len(<<>>) = 0
  OBVIOUS
<1>2. Kept(<<>>, <<>>, <<>>, <<>>, 0)
  <2>1. Follows(<<>>, <<>>, 0, 0, 0, 0)
    BY FollowsNone
  <2> QED BY <1>1, <2>1, FramedNone DEF Kept
<1>3. ASSUME NEW a \in Seq(Cmd), NEW d \in Seq(Cmd), NEW l \in Int, Kept(<<>>, <<>>, a, d, l)
      PROVE  Len(d) = Len(a)
  <2>1. PICK fs \in Seq(Seq(Unit)) :
          Framed(<<>>, fs) /\ Follows(a, fs \o <<>>, l, Len(d), 0, Len(a))
    BY <1>3 DEF Kept
  <2>2. fs = <<>>
    BY <2>1, FramedNone
  <2>3. Follows(a, <<>>, l, Len(d), 0, Len(a)) /\ Len(d) \in Nat
    BY <1>1, <2>1, <2>2
  <2>4. \A m, x : Follows(a, <<>>, l, Len(d), m, x) => m = l /\ x = Len(d)
    BY <2>3, FollowsNone
  <2>5. Len(a) = Len(d)
    BY <2>3, <2>4
  <2> QED BY <2>5
<1> QED BY <1>2, <1>3

-----------------------------------------------------------------------------
(* What the server expects of client k, in state s: see BufferOK.          *)
Expects(s, k) ==
  IF s.client # k THEN 0
  ELSE IF s.pc = "put_size" THEN -1
  ELSE IF s.pc = "put_data" THEN s.left
  ELSE 0

\* The commands d are the first ones of a.
Begins(d, a) == Len(d) <= Len(a) /\ \A i \in 1..Len(d) : d[i] = a[i]

\* Of the commands a of client k the server has executed the first ones, d, and as long
\* as it runs the others are on their way.
Lossless(k, out, in, a, d, s) ==
  /\ Begins(d, a)
  /\ s.pc # "dead" => Kept(in, out, a, d, Expects(s, k))

Regular(k) == cuts = 0 /\ cl[k].pc # "gone" /\ ~cl[k].odd

NoneLost ==
  /\ sv.pc = "write" => sv.then # "put_size"
  /\ \A k \in Clients :
       /\ cl[k].pc # "write" => cl[k].out = <<>>
       /\ Regular(k) => Lossless(k, cl[k].out, c2s[k], asked[k], done[k], sv)

LEMMA BeginsMore ==
  ASSUME NEW d \in Seq(Cmd), NEW a \in Seq(Cmd), Begins(d, a), NEW cmd \in Cmd
  PROVE  /\ Begins(d, Append(a, cmd))
         /\ Len(d) + 1 \in DOMAIN a /\ a[Len(d) + 1] = cmd => Begins(Append(d, cmd), a)
<1>1. Begins(d, Append(a, cmd))
  <2>1. /\ Len(Append(a, cmd)) = Len(a) + 1
        /\ \A i \in 1..Len(a) : Append(a, cmd)[i] = a[i]
    BY AppendProperties
  <2>2. Len(d) <= Len(a) /\ Len(d) <= Len(a) + 1 /\ \A i \in 1..Len(d) : i \in 1..Len(a)
    BY DEF Begins
  <2> QED BY <2>1, <2>2 DEF Begins
<1>2. ASSUME Len(d) + 1 \in DOMAIN a, a[Len(d) + 1] = cmd PROVE Begins(Append(d, cmd), a)
  <2>1. /\ Len(Append(d, cmd)) = Len(d) + 1 /\ Append(d, cmd)[Len(d) + 1] = cmd
        /\ \A i \in 1..Len(d) : Append(d, cmd)[i] = d[i]
    BY AppendProperties
  <2>2. DOMAIN a = 1..Len(a) /\ Len(d) + 1 <= Len(a)
    BY <1>2
  <2>3. \A i \in 1..Len(d) + 1 : i \in 1..Len(d) \/ i = Len(d) + 1
    OBVIOUS
  <2> QED BY <1>2, <2>1, <2>2, <2>3 DEF Begins
<1> QED BY <1>1, <1>2

LEMMA BeginsPrefix ==
  ASSUME NEW S, NEW d \in Seq(S), NEW a \in Seq(S), Begins(d, a)
  PROVE  IsPrefix(d, a) /\ (Len(d) = Len(a) => d = a)
<1>1. Len(d) <= Len(a) /\ Len(d) \in Nat /\ Len(a) \in Nat
      /\ \A i \in 1..Len(d) : d[i] = a[i]
  BY DEF Begins
<1> DEFINE b == SubSeq(a, 1, Len(d))
           e == SubSeq(d, 1, Len(d))
<1>2. /\ e \in Seq(S) /\ Len(e) = Len(d)
      /\ \A i \in 1..Len(d) : e[i] = d[i]
  <2>1. \A i \in 1..Len(d) : d[i] \in S
    OBVIOUS
  <2>2. /\ e \in Seq(S)
        /\ Len(e) = IF 1 <= Len(d) THEN Len(d) - 1 + 1 ELSE 0
        /\ \A i \in 1..Len(d) - 1 + 1 : e[i] = d[1 + i - 1]
    BY <1>1, <2>1, SubSeqProperties
  <2> HIDE DEF e
  <2> QED BY <1>1, <2>2
<1>3. /\ b \in Seq(S) /\ Len(b) = Len(d)
      /\ \A i \in 1..Len(d) : b[i] = a[i]
  <2>1. \A i \in 1..Len(d) : a[i] \in S
    BY <1>1
  <2>2. /\ b \in Seq(S)
        /\ Len(b) = IF 1 <= Len(d) THEN Len(d) - 1 + 1 ELSE 0
        /\ \A i \in 1..Len(d) - 1 + 1 : b[i] = a[1 + i - 1]
    BY <1>1, <2>1, SubSeqProperties
  <2> HIDE DEF b
  <2> QED BY <1>1, <2>2
<1> HIDE DEF b, e
<1>4. e = b
  BY <1>1, <1>2, <1>3, SeqEqual
<1>5. Len(d) = Len(a) => d = a
  BY <1>1, SeqEqual
<1> QED BY <1>1, <1>4, <1>5 DEF IsPrefix, b, e

(* The server executes a line: it expects a size after a put, and the next *)
(* line after any other.                                                   *)
LEMMA ExecuteExpects ==
  ASSUME sv \in ServerRec, NEW unit, Execute(unit)
  PROVE  /\ sv'.client = sv.client /\ sv'.pc \notin {"dead", "put_data"}
         /\ sv'.pc = "write" => sv'.then # "put_size"
         /\ sv'.pc = "put_size" <=> IsCmd(unit) /\ unit[2][1] = "put"
<1> DEFINE Plain == /\ sv'.client = sv.client /\ sv'.pc \in {"read", "spin", "fail", "write"}
                    /\ sv'.then # "put_size"
<1>1. \A line, writes : \A then \in {"read", "spin", "fail"} :
        Answer(line, writes, then) => Plain
  BY DEF Answer, ServerRec
<1>2. \A line : Answer(line, <<>>, "put_size") =>
        sv'.client = sv.client /\ sv'.pc = "put_size"
  BY DEF Answer, ServerRec
<1> HIDE DEF Plain
<1>3. \A line, f : server_get(line, f) => Plain
  BY <1>1 DEF server_get
<1>4. \A line, arg : ls_dir(line, arg) => Plain
  BY <1>1 DEF ls_dir
<1>5. \A line, op, arg : Silent(line, op, arg) => Plain
  BY <1>1 DEF Silent
<1>6. \/ Plain /\ ~(IsCmd(unit) /\ unit[2][1] = "put")
      \/ /\ sv'.client = sv.client /\ sv'.pc = "put_size"
         /\ IsCmd(unit) /\ unit[2][1] = "put"
  BY <1>1, <1>2, <1>3, <1>4, <1>5 DEF Execute, IsCmd
<1> QED BY <1>6 DEF Plain

(* The server does something.                                              *)
LEMMA LostServer ==
  ASSUME NoneLost, UNCHANGED <<cl, asked>>,
         sv'.pc = "write" => sv'.then # "put_size",
         cuts' = 0 => cuts = 0,
         \A k \in Clients :
           /\ Regular(k) /\ cuts' = 0
           /\ Lossless(k, cl[k].out, c2s[k], asked[k], done[k], sv)
           => Lossless(k, cl[k].out, c2s'[k], asked[k], done'[k], sv')
  PROVE  NoneLost'
BY DEF NoneLost, Regular

LEMMA LosslessSame ==
  ASSUME NEW k, NEW out, NEW in, NEW a, NEW d, NEW s, NEW t,
         Lossless(k, out, in, a, d, s),
         t.pc # "dead" => s.pc # "dead" /\ Expects(t, k) = Expects(s, k)
  PROVE  Lossless(k, out, in, a, d, t)
BY DEF Lossless

(* The clients that the server does not serve.                             *)
LEMMA LosslessOthers ==
  ASSUME NEW k \in Clients, k # sv.client, sv'.client \in {sv.client, Nobody}, sv.pc # "dead",
         c2s'[k] = c2s[k], done'[k] = done[k],
         Lossless(k, cl[k].out, c2s[k], asked[k], done[k], sv)
  PROVE  Lossless(k, cl[k].out, c2s'[k], asked[k], done'[k], sv')
<1>1. Expects(sv, k) = 0 /\ Expects(sv', k) = 0
  BY ClientAssumption DEF Expects
<1> QED BY <1>1, LosslessSame

(* The server reads a part of what its client k sent.                      *)
LEMMA LostRead ==
  ASSUME IInv, ConnectionsOK, NoneLost, NEW k \in Clients, k = sv.client, sv.pc # "dead",
         NEW n, ServerReads(n), UNCHANGED asked, sv'.client = k,
         sv'.pc = "write" => sv'.then # "put_size",
         \A j \in Clients \ {k} : done'[j] = done[j],
         /\ c2s[k] # <<>> /\ n = Avail(c2s[k]) /\ Begins(done[k], asked[k])
         /\ Kept(c2s[k], cl[k].out, asked[k], done[k], Expects(sv, k))
         => Lossless(k, cl[k].out, Rest(c2s[k], n), asked[k], done'[k], sv')
  PROVE  NoneLost'
<1>1. c2s \in [Clients -> Seq(Unit)]
  BY DEF IInv, Types, StreamsOK
<1>2. (cuts' = 0 => cuts = 0 /\ n = Avail(c2s[k])) /\ c2s[k] # <<>>
  <2>1. c2s[k] \in Seq(Unit) /\ ReadStream(c2s[k], n)
    BY <1>1 DEF ServerReads
  <2> QED BY <2>1, ReadAll DEF ConnectionsOK
<1>3. /\ UNCHANGED cl /\ c2s'[k] = Rest(c2s[k], n)
      /\ \A j \in Clients \ {k} : c2s'[j] = c2s[j]
  BY <1>1 DEF ServerReads
<1>4. ASSUME NEW j \in Clients, Regular(j), cuts' = 0,
             Lossless(j, cl[j].out, c2s[j], asked[j], done[j], sv)
      PROVE  Lossless(j, cl[j].out, c2s'[j], asked[j], done'[j], sv')
  <2>1. CASE j = k
    BY <1>2, <1>3, <1>4, <2>1 DEF Lossless
  <2>2. CASE j # k
    BY <1>3, <1>4, <2>2, LosslessOthers
  <2> QED BY <2>1, <2>2
<1> QED BY <1>2, <1>3, <1>4, LostServer

(* The stream of the client that the server serves ends: the client has    *)
(* gone.                                                                   *)
LEMMA LostEnd ==
  ASSUME IInv, NoneLost, sv.client \in Clients, sv.pc # "dead", ServerEnd, UNCHANGED asked,
         sv'.client \in {sv.client, Nobody},
         sv'.pc = "write" => sv'.then # "put_size",
         \A j \in Clients \ {sv.client} : done'[j] = done[j]
  PROVE  NoneLost'
<1>1. UNCHANGED <<cl, c2s, cuts>> /\ link[sv.client].s # "up"
  BY DEF ServerEnd
<1>2. cl[sv.client].pc = "gone"
  BY <1>1 DEF IInv, EndsBy
<1>3. ASSUME NEW j \in Clients, Regular(j), cuts' = 0,
             Lossless(j, cl[j].out, c2s[j], asked[j], done[j], sv)
      PROVE  Lossless(j, cl[j].out, c2s'[j], asked[j], done'[j], sv')
  <2>1. j # sv.client
    BY <1>2, <1>3 DEF Regular
  <2> QED BY <1>1, <1>3, <2>1, LosslessOthers
<1> QED BY <1>1, <1>3, LostServer

(* The server does something else than read.                               *)
LEMMA LostQuiet ==
  ASSUME NoneLost, UNCHANGED <<cl, asked, done, cuts>>,
         sv'.pc = "write" => sv'.then # "put_size",
         sv'.pc # "dead" => /\ sv.pc # "dead" /\ UNCHANGED c2s
                            /\ \A k \in Clients : Expects(sv', k) = Expects(sv, k)
  PROVE  NoneLost'
<1>1. ASSUME NEW k \in Clients, Lossless(k, cl[k].out, c2s[k], asked[k], done[k], sv)
      PROVE  Lossless(k, cl[k].out, c2s'[k], asked[k], done'[k], sv')
  <2>1. CASE sv'.pc = "dead"
    BY <1>1, <2>1 DEF Lossless
  <2>2. CASE sv'.pc # "dead"
    BY <1>1, <2>2, LosslessSame
  <2> QED BY <2>1, <2>2
<1> QED BY <1>1, LostServer

LEMMA HistoryTypes ==
  ASSUME IInv, HistoryOK, NEW k \in Clients
  PROVE  /\ sv \in ServerRec /\ asked[k] \in Seq(Cmd) /\ done[k] \in Seq(Cmd)
         /\ c2s[k] \in Seq(Unit) /\ cl[k] \in ClientRec /\ cl[k].out \in Seq(Seq(Unit))
<1>1. cl[k] \in ClientRec
  BY DEF IInv, Types, ClientsOK, ClientOK
<1>2. cl[k].out \in Seq(Seq(Unit))
  BY <1>1 DEF ClientRec
<1> QED BY <1>1, <1>2 DEF IInv, Types, ServerOK, StreamsOK, HistoryOK

LEMMA ExecuteOthers ==
  ASSUME HistoryOK, NEW unit, Execute(unit)
  PROVE  /\ UNCHANGED asked /\ \A j \in Clients \ {sv.client} : done'[j] = done[j]
         /\ IsCmd(unit) /\ sv.client \in Clients =>
              done'[sv.client] = Append(done[sv.client], unit[2])
<1>1. IsCmd(unit) => done' = [done EXCEPT ![sv.client] = Append(@, unit[2])]
  BY DEF Execute, IsCmd
<1> QED BY <1>1, ExecuteDone DEF HistoryOK

(* A whole buffer that begins with a command is read as that command.      *)
LEMMA CommandRead == \A u : IsCmd(u) => Lines(u, MAX) = {u}
BY DEF Lines, IsCmd

LEMMA LostLine ==
  ASSUME IInv, HistoryOK, ConnectionsOK, NoneLost, ServerReadsLine
  PROVE  NoneLost'
<1>1. PICK k \in Clients : k = sv.client
  BY DEF ServerReadsLine, IInv, Types, ServerOK
<1> DEFINE u == Head(c2s[k])
<1>0. PICK n \in 1..MAX : ServerReads(n) /\ \E line \in Lines(u, n) : Execute(line)
  BY <1>1 DEF ServerReadsLine
<1>2. PICK line \in Lines(u, n) : Execute(line)
  BY <1>0
<1>3. sv.pc = "read" /\ Expects(sv, k) = 0
  BY <1>1 DEF ServerReadsLine, Expects
<1>4. /\ sv'.client = sv.client /\ sv'.pc \notin {"dead", "put_data"}
      /\ sv'.pc = "write" => sv'.then # "put_size"
      /\ sv'.pc = "put_size" <=> IsCmd(line) /\ line[2][1] = "put"
  <2>1. sv \in ServerRec
    BY DEF IInv, Types, ServerOK
  <2> QED BY <1>2, <2>1, ExecuteExpects
<1>5. /\ UNCHANGED asked /\ \A j \in Clients \ {k} : done'[j] = done[j]
      /\ IsCmd(line) => done'[k] = Append(done[k], line[2])
  BY <1>1, <1>2, ExecuteOthers
<1>6. ASSUME c2s[k] # <<>>, n = Avail(c2s[k]), Begins(done[k], asked[k]),
             Kept(c2s[k], cl[k].out, asked[k], done[k], Expects(sv, k))
      PROVE  Lossless(k, cl[k].out, Rest(c2s[k], n), asked[k], done'[k], sv')
  <2>1. /\ asked[k] \in Seq(Cmd) /\ done[k] \in Seq(Cmd)
        /\ c2s[k] \in Seq(Unit) /\ cl[k].out \in Seq(Seq(Unit))
    BY HistoryTypes
  <2>2. /\ Avail(c2s[k]) = MAX /\ IsCmd(u)
        /\ Len(done[k]) + 1 \in DOMAIN asked[k] /\ asked[k][Len(done[k]) + 1] = u[2]
        /\ Kept(Rest(c2s[k], MAX), cl[k].out, asked[k], Append(done[k], u[2]),
                IF u[2][1] = "put" THEN -1 ELSE 0)
    <3>1. Kept(c2s[k], cl[k].out, asked[k], done[k], 0)
      BY <1>3, <1>6
    <3> QED BY <1>6, <2>1, <3>1, KeptLine
  <2>3. u[2] \in Cmd
    BY <1>6, <2>1, <2>2, HeadTailProperties, UnitKinds DEF IsCmd
  <2> HIDE DEF u
  <2>6. line = u
    BY <1>2, <1>6, <2>2, CommandRead
  <2>4. Begins(done'[k], asked[k])
    BY <1>5, <1>6, <2>1, <2>2, <2>3, <2>6, BeginsMore
  <2>5. Expects(sv', k) = IF u[2][1] = "put" THEN -1 ELSE 0
    BY <1>1, <1>4, <2>2, <2>6 DEF Expects
  <2> QED BY <1>5, <1>6, <2>2, <2>4, <2>5, <2>6 DEF Lossless
<1> HIDE DEF u
<1>7. sv.pc # "dead" /\ sv'.client = k
  BY <1>1, <1>3, <1>4
<1> QED BY <1>0, <1>1, <1>4, <1>5, <1>6, <1>7, LostRead

LEMMA LostSize ==
  ASSUME IInv, HistoryOK, ConnectionsOK, NoneLost, ServerReadsSize
  PROVE  NoneLost'
<1>1. PICK k \in Clients : k = sv.client
  BY DEF ServerReadsSize, IInv, Types, ServerOK
<1>2. sv \in ServerRec /\ sv.pc = "put_size" /\ Expects(sv, k) = -1
  BY <1>1 DEF ServerReadsSize, Expects, IInv, Types, ServerOK
<1>3. ASSUME NEW size, sv' = [sv EXCEPT !.left = size,
                                        !.pc = IF size <= 0 THEN "read" ELSE "put_data"]
      PROVE  /\ sv'.client = k /\ sv'.pc # "write"
             /\ ~(size <= 0) => Expects(sv', k) = size
  <2> DEFINE pc == IF size <= 0 THEN "read" ELSE "put_data"
  <2>1. pc \in {"read", "put_data"}
    OBVIOUS
  <2>2. ~(size <= 0) => pc = "put_data"
    OBVIOUS
  <2> HIDE DEF pc
  <2>3. sv'.client = sv.client /\ sv'.pc = pc /\ sv'.left = size
    BY <1>2, <1>3 DEF ServerRec, pc
  <2> QED BY <1>1, <2>1, <2>2, <2>3 DEF Expects
<1>4. \A sizes : PutSize(sizes) =>
        /\ UNCHANGED <<asked, done>> /\ sv'.client = k /\ sv'.pc # "write"
        /\ \E size \in sizes : ~(size <= 0) => Expects(sv', k) = size
  BY <1>3 DEF PutSize
<1>5. CASE ServerEnd /\ PutSize(JunkSizes)
  BY <1>1, <1>2, <1>4, <1>5, LostEnd
<1>6. CASE (\E n \in 1..MAX : ServerReads(n)) /\ PutSize(SizesIn(Head(c2s[sv.client])))
  <2>1. PICK n \in 1..MAX : ServerReads(n)
    BY <1>6
  <2> DEFINE u == Head(c2s[k])
  <2>2. /\ UNCHANGED <<asked, done>> /\ sv'.client = k /\ sv'.pc # "write"
        /\ \E size \in SizesIn(u) : ~(size <= 0) => Expects(sv', k) = size
    BY <1>1, <1>4, <1>6
  <2>3. ASSUME c2s[k] # <<>>, n = Avail(c2s[k]), Begins(done[k], asked[k]),
               Kept(c2s[k], cl[k].out, asked[k], done[k], Expects(sv, k))
        PROVE  Lossless(k, cl[k].out, Rest(c2s[k], n), asked[k], done'[k], sv')
    <3>1. /\ asked[k] \in Seq(Cmd) /\ done[k] \in Seq(Cmd)
          /\ c2s[k] \in Seq(Unit) /\ cl[k].out \in Seq(Seq(Unit))
      BY HistoryTypes
    <3>2. /\ Avail(c2s[k]) = MAX /\ u[1] = "size" /\ u[2] > 0
          /\ Kept(Rest(c2s[k], MAX), cl[k].out, asked[k], done[k], u[2])
      <4>1. Kept(c2s[k], cl[k].out, asked[k], done[k], -1)
        BY <1>2, <2>3
      <4> QED BY <2>3, <3>1, <4>1, KeptSize
    <3>3. u \in Unit
      BY <2>3, <3>1, HeadTailProperties
    <3> HIDE DEF u
    <3>4. ~(u[2] <= 0)
      BY <3>2, <3>3, UnitKinds
    <3>5. Expects(sv', k) = u[2]
      BY <2>2, <3>2, <3>4 DEF SizesIn
    <3> QED BY <2>2, <2>3, <3>2, <3>5 DEF Lossless
  <2> HIDE DEF u
  <2> QED BY <1>1, <1>2, <2>1, <2>2, <2>3, LostRead
<1> QED BY <1>5, <1>6 DEF ServerReadsSize

LEMMA LostData ==
  ASSUME IInv, HistoryOK, ConnectionsOK, NoneLost, ServerReadsData
  PROVE  NoneLost'
<1>1. PICK k \in Clients : k = sv.client
  BY DEF ServerReadsData, IInv, Types, ServerOK
<1>2. sv \in ServerRec /\ sv.pc = "put_data" /\ Expects(sv, k) = sv.left
      /\ sv.left \in Int /\ sv.left > 0
  BY <1>1 DEF ServerReadsData, Expects, IInv, Types, ServerOK, ServerRec
<1>3. \A n : PutCount(n) =>
        /\ UNCHANGED <<asked, done>> /\ sv'.client = k /\ sv'.pc # "write"
        /\ Expects(sv', k) = IF sv.left <= n THEN 0 ELSE sv.left - n
  <2> SUFFICES ASSUME NEW n, PutCount(n)
               PROVE  /\ sv'.client = k /\ sv'.pc # "write"
                      /\ Expects(sv', k) = IF sv.left <= n THEN 0 ELSE sv.left - n
    BY DEF PutCount
  <2>1. CASE sv.left <= n
    <3>1. sv' = [sv EXCEPT !.left = 0, !.pc = "read"]
      BY <2>1 DEF PutCount
    <3>2. sv'.client = sv.client /\ sv'.pc = "read"
      BY <1>2, <3>1 DEF ServerRec
    <3> QED BY <1>1, <2>1, <3>2 DEF Expects
  <2>2. CASE ~(sv.left <= n)
    <3> DEFINE left == sv.left - n
    <3>1. sv' = [sv EXCEPT !.left = left]
      BY <2>2 DEF PutCount
    <3> HIDE DEF left
    <3>2. sv'.client = sv.client /\ sv'.pc = "put_data" /\ sv'.left = left
      BY <1>2, <3>1 DEF ServerRec
    <3> QED BY <1>1, <2>2, <3>2 DEF Expects, left
  <2> QED BY <2>1, <2>2
<1>4. CASE ServerEnd /\ PutCount(-1)
  BY <1>1, <1>2, <1>3, <1>4, LostEnd
<1>5. CASE \E n \in 1..MAX : ServerReads(n) /\ PutCount(n)
  <2>1. PICK n \in 1..MAX : ServerReads(n) /\ PutCount(n)
    BY <1>5
  <2>2. /\ UNCHANGED <<asked, done>> /\ sv'.client = k /\ sv'.pc # "write"
        /\ Expects(sv', k) = IF sv.left <= n THEN 0 ELSE sv.left - n
    BY <1>3, <2>1
  <2>3. ASSUME c2s[k] # <<>>, n = Avail(c2s[k]), Begins(done[k], asked[k]),
               Kept(c2s[k], cl[k].out, asked[k], done[k], Expects(sv, k))
        PROVE  Lossless(k, cl[k].out, Rest(c2s[k], n), asked[k], done'[k], sv')
    <3>1. /\ asked[k] \in Seq(Cmd) /\ done[k] \in Seq(Cmd)
          /\ c2s[k] \in Seq(Unit) /\ cl[k].out \in Seq(Seq(Unit))
      BY HistoryTypes
    <3>2. /\ Avail(c2s[k]) = MAX /\ sv.left - MAX >= 0
          /\ Kept(Rest(c2s[k], MAX), cl[k].out, asked[k], done[k], sv.left - MAX)
      <4>1. Kept(c2s[k], cl[k].out, asked[k], done[k], sv.left)
        BY <1>2, <2>3
      <4> QED BY <1>2, <2>3, <3>1, <4>1, KeptData
    <3>3. Expects(sv', k) = sv.left - MAX
      <4>1. n = MAX
        BY <2>3, <3>2
      <4>2. sv.left <= MAX => sv.left - MAX = 0
        BY <1>2, <3>2, BufferAssumption
      <4> QED BY <2>2, <4>1, <4>2
    <3> QED BY <2>2, <2>3, <3>2, <3>3 DEF Lossless
  <2> QED BY <1>1, <1>2, <2>1, <2>2, <2>3, LostRead
<1> QED BY <1>4, <1>5 DEF ServerReadsData

LEMMA ServerLosesNone ==
  IInv /\ HistoryOK /\ ConnectionsOK /\ NoneLost /\ Server => NoneLost'
<1> SUFFICES ASSUME IInv, HistoryOK, ConnectionsOK, NoneLost, Server PROVE NoneLost' OBVIOUS
<1>0. sv \in ServerRec
  BY DEF IInv, Types, ServerOK
<1>1. CASE Accept
  <2>1. sv' = [sv EXCEPT !.pc = "read", !.client = Head(backlog)] /\ sv.pc = "accept"
    BY <1>1 DEF Accept
  <2>2. sv'.pc = "read"
    BY <1>0, <2>1 DEF ServerRec
  <2>3. \A k \in Clients : Expects(sv', k) = Expects(sv, k)
    BY <2>1, <2>2 DEF Expects
  <2> QED BY <1>1, <2>1, <2>2, <2>3, LostQuiet DEF Accept, history
<1>2. CASE ServerWrite
  <2> DEFINE pc == IF Len(sv.out) = 1 THEN sv.then ELSE "write"
  <2>1. sv' = [sv EXCEPT !.out = Tail(@), !.pc = pc] /\ sv.pc = "write"
    BY <1>2 DEF ServerWrite
  <2>2. sv.then # "put_size"
    BY <2>1 DEF NoneLost
  <2>3. pc \in {"read", "spin", "fail", "write"}
    BY <1>0, <2>2 DEF ServerRec
  <2> HIDE DEF pc
  <2>4. sv'.pc = pc /\ sv'.then = sv.then /\ sv'.client = sv.client
    BY <1>0, <2>1 DEF ServerRec
  <2>5. \A k \in Clients : Expects(sv', k) = Expects(sv, k)
    BY <2>1, <2>3, <2>4 DEF Expects
  <2> QED BY <1>2, <2>1, <2>2, <2>4, <2>5, LostQuiet DEF ServerWrite, history
<1>3. CASE ServerFails
  <2>1. sv' = [sv EXCEPT !.pc = "dead", !.out = <<>>]
    BY <1>3 DEF ServerFails, ServerDies
  <2>2. sv'.pc = "dead"
    BY <1>0, <2>1 DEF ServerRec
  <2> QED BY <1>3, <2>2, LostQuiet DEF ServerFails, history
<1>4. CASE ServerLosesClient
  <2>1. ServerEnd /\ sv.pc = "read" /\ sv.client \in Clients
    BY <1>4 DEF ServerLosesClient, IInv, Types, ServerOK
  <2>2. CASE Execute(Stale(sv.line))
    BY <1>0, <2>1, <2>2, ExecuteExpects, ExecuteOthers, LostEnd
  <2>3. CASE /\ sv' = [sv EXCEPT !.pc = "accept", !.client = Nobody]
             /\ UNCHANGED <<files, asked, done>>
    <3>1. sv'.pc = "accept" /\ sv'.client = Nobody
      BY <1>0, <2>3 DEF ServerRec
    <3> QED BY <2>1, <2>3, <3>1, LostEnd
  <2> QED BY <1>4, <2>2, <2>3 DEF ServerLosesClient
<1> QED BY <1>1, <1>2, <1>3, <1>4, LostLine, LostSize, LostData DEF Server

(* A client does something.                                                *)
LEMMA LostClient ==
  ASSUME NoneLost, NEW k \in Clients, UNCHANGED sv, cuts' = 0 => cuts = 0,
         \A j \in Clients \ {k} : /\ cl'[j] = cl[j] /\ c2s'[j] = c2s[j]
                                  /\ asked'[j] = asked[j] /\ done'[j] = done[j],
         cl'[k].pc # "write" => cl'[k].out = <<>>,
         cuts = 0 /\ cl'[k].pc # "gone" /\ ~cl'[k].odd =>
           Lossless(k, cl'[k].out, c2s'[k], asked'[k], done'[k], sv)
  PROVE  NoneLost'
BY DEF NoneLost, Regular

(* A client that neither asks nor writes.                                  *)
LEMMA LostNothing ==
  ASSUME IInv, NoneLost, NEW k \in Clients, NEW c, cl' = [cl EXCEPT ![k] = c],
         UNCHANGED <<sv, c2s, asked, done>>, cuts' = 0 => cuts = 0,
         c.out = <<>> \/ (c.out = cl[k].out /\ cl[k].pc # "write"),
         c.pc # "gone" => c.odd = cl[k].odd /\ cl[k].pc \notin {"gone", "write"}
  PROVE  NoneLost'
<1>1. cl'[k] = c /\ \A j \in Clients \ {k} : cl'[j] = cl[j]
  BY ClientsOther
<1>2. c.out = <<>>
  BY DEF NoneLost
<1>3. ASSUME cuts = 0, c.pc # "gone", ~c.odd
      PROVE  Lossless(k, c.out, c2s[k], asked[k], done[k], sv)
  <2>1. Regular(k) /\ cl[k].out = c.out
    BY <1>2, <1>3 DEF Regular, NoneLost
  <2> QED BY <2>1 DEF NoneLost
<1> QED BY <1>1, <1>2, <1>3, LostClient

LEMMA GoesOdd ==
  /\ \A c \in ClientRec : Prompt(c).odd = c.odd
  /\ \A pc : \A c \in ClientRec : Goes(c, pc).odd = c.odd
  /\ \A pc : \A c \in ClientRec : Goes(c, pc).out = IF pc = "prompt" THEN <<>> ELSE c.out
<1>1. \A c \in ClientRec : Prompt(c).odd = c.odd /\ Prompt(c).out = <<>>
  BY DEF Prompt, Idle
<1>2. \A pc : \A c \in ClientRec : [c EXCEPT !.pc = pc].odd = c.odd /\ [c EXCEPT !.pc = pc].out = c.out
  BY DEF ClientRec
<1> QED BY <1>1, <1>2 DEF Goes

LEMMA SentOut ==
  ASSUME NEW c \in ClientRec, c.out # <<>>
  PROVE  /\ Sent(c).odd = c.odd /\ Sent(c).out = Tail(c.out)
         /\ Sent(c).pc # "write" => Tail(c.out) = <<>>
<1> DEFINE out == Tail(c.out)
           rest == [c EXCEPT !.out = out]
           pc == IF Len(c.out) = 1 THEN c.then ELSE "write"
<1>1. /\ c.out \in Seq(Seq(Unit)) /\ out \in Seq(Seq(Unit))
      /\ Len(c.out) = 1 => out = <<>>
  <2>1. c.out \in Seq(Seq(Unit))
    BY DEF ClientRec
  <2>2. out \in Seq(Seq(Unit)) /\ Len(out) = Len(c.out) - 1
    BY <2>1, HeadTailProperties
  <2> HIDE DEF out
  <2>3. Len(c.out) = 1 => Len(out) = 0
    BY <2>2
  <2> QED BY <2>1, <2>2, <2>3, EmptySeq
<1>2. Sent(c) = Goes(rest, pc)
  BY DEF Sent
<1> HIDE DEF out
<1>3. rest \in ClientRec /\ rest.out = out /\ rest.odd = c.odd
  BY <1>1 DEF ClientRec
<1> HIDE DEF rest, pc
<1>4. Sent(c).odd = c.odd /\ Sent(c).out = IF pc = "prompt" THEN <<>> ELSE out
  BY <1>2, <1>3, GoesOdd
<1>5. Sent(c).pc = pc
  BY SentType DEF pc
<1>6. pc # "write" => Len(c.out) = 1
  BY DEF pc
<1> QED BY <1>1, <1>4, <1>5, <1>6 DEF out

LEMMA LostAsk ==
  ASSUME IInv, HistoryOK, NoneLost, NEW k \in Clients, NEW cmd \in Commands[k], Ask(k, cmd)
  PROVE  NoneLost'
<1> DEFINE data == Content(cfile[k], cmd[2])
           out == <<Msg(Text(cmd))>> \o (IF cmd[1] = "put" THEN Sized(data) ELSE <<>>)
<1>1. cmd \in Cmd
  BY CommandAssumption DEF Cmd, Name
<1>2. data \in Seq(Said)
  BY <1>1 DEF IInv, Types, ClientsOK, ClientFilesOK, Cmd
<1>3. /\ cl'[k].pc = "write" /\ cl'[k].odd = (cl[k].odd \/ IsOdd(k, cmd))
      /\ ~IsOdd(k, cmd) => cl'[k].out = out
      /\ \A j \in Clients \ {k} : cl'[j] = cl[j]
  BY AskClient, RegularPut
<1>5. /\ cl[k].pc = "prompt" /\ UNCHANGED <<c2s, sv, done, cuts>>
      /\ asked' = [asked EXCEPT ![k] = Append(@, cmd)]
  BY DEF Ask
<1>6. /\ asked[k] \in Seq(Cmd) /\ done[k] \in Seq(Cmd) /\ c2s[k] \in Seq(Unit)
      /\ asked'[k] = Append(asked[k], cmd)
      /\ \A j \in Clients \ {k} : asked'[j] = asked[j]
  BY <1>5, HistoryTypes DEF HistoryOK
<1>7. ASSUME cuts = 0, ~cl'[k].odd
      PROVE  Lossless(k, cl'[k].out, c2s[k], Append(asked[k], cmd), done[k], sv)
  <2>1. ~cl[k].odd /\ ~IsOdd(k, cmd)
    BY <1>3, <1>7
  <2>2. Lossless(k, <<>>, c2s[k], asked[k], done[k], sv)
    BY <1>5, <1>7, <2>1 DEF Regular, NoneLost
  <2>3. cmd[1] = "put" => data # <<>> /\ Len(data) % MAX = 0
    BY <2>1, RegularPut
  <2> HIDE DEF data
  <2>4. Begins(done[k], Append(asked[k], cmd))
    BY <1>1, <1>6, <2>2, BeginsMore DEF Lossless
  <2>5. sv.pc # "dead" => Kept(c2s[k], out, Append(asked[k], cmd), done[k], Expects(sv, k))
    BY <1>1, <1>2, <1>6, <2>2, <2>3, KeptAsk DEF Lossless
  <2> QED BY <1>3, <2>1, <2>4, <2>5 DEF Lossless
<1> HIDE DEF out
<1> QED BY <1>3, <1>5, <1>6, <1>7, LostClient

LEMMA LostWrite ==
  ASSUME IInv, HistoryOK, ConnectionsOK, NoneLost, NEW k \in Clients, ClientWrite(k)
  PROVE  NoneLost'
<1>1. /\ cl[k] \in ClientRec /\ c2s[k] \in Seq(Unit) /\ cl[k].out \in Seq(Seq(Unit))
      /\ cl[k].pc = "write" /\ cl[k].out # <<>>
  BY HistoryTypes DEF ClientWrite, IInv, Types, ClientsOK, ClientOK
<1> DEFINE c == Sent(cl[k])
<1>2. cl' = [cl EXCEPT ![k] = c] /\ UNCHANGED <<sv, asked, done, cuts>>
  BY DEF ClientWrite, history
<1>3. cl'[k] = c /\ \A j \in Clients \ {k} : cl'[j] = cl[j]
  BY <1>2, ClientsOther
<1>4. /\ \A j \in Clients \ {k} : c2s'[j] = c2s[j]
      /\ link[k].c = "up" => c2s'[k] = c2s[k] \o Head(cl[k].out)
  BY DEF ClientWrite, IInv, Types, StreamsOK
<1>5. /\ c.odd = cl[k].odd /\ c.out = Tail(cl[k].out)
      /\ c.pc # "write" => c.out = <<>>
  BY <1>1, SentOut
<1> HIDE DEF c
<1>6. ASSUME cuts = 0, ~c.odd
      PROVE  Lossless(k, c.out, c2s'[k], asked[k], done[k], sv)
  <2>1. Regular(k)
    BY <1>1, <1>5, <1>6 DEF Regular
  <2>2. Lossless(k, cl[k].out, c2s[k], asked[k], done[k], sv)
    BY <2>1 DEF NoneLost
  <2>3. ASSUME sv.pc # "dead"
        PROVE  Kept(c2s'[k], c.out, asked[k], done[k], Expects(sv, k))
    <3>1. link[k].c = "up"
      BY <2>3 DEF ConnectionsOK
    <3>2. Kept(c2s[k], cl[k].out, asked[k], done[k], Expects(sv, k))
      BY <2>2, <2>3 DEF Lossless
    <3>3. Kept(c2s[k] \o Head(cl[k].out), Tail(cl[k].out), asked[k], done[k], Expects(sv, k))
      BY <1>1, <3>2, KeptWrite
    <3> QED BY <1>4, <1>5, <3>1, <3>3
  <2> QED BY <2>2, <2>3 DEF Lossless
<1> QED BY <1>2, <1>3, <1>4, <1>5, <1>6, LostClient

(* A read of a client changes neither what it put nor what it writes.      *)
LEMMA ReadsForm ==
  ASSUME IInv, NEW k \in Clients, ReadAnswer(k) \/ ReadSize(k) \/ ReadData(k)
  PROVE  /\ cl' = [cl EXCEPT ![k] = cl'[k]]
         /\ cl'[k].odd = cl[k].odd /\ cl'[k].out \in {<<>>, cl[k].out}
<1>1. cl[k] \in ClientRec /\ cl = [cl EXCEPT ![k] = cl[k]]
  BY DEF IInv, Types, ClientsOK, ClientOK
<1>2. CASE ReadAnswer(k)
  <2>1. CASE UNCHANGED cl
    BY <1>1, <2>1
  <2>2. CASE cl' = [cl EXCEPT ![k] = Prompt(cl[k])]
    <3> DEFINE c == Prompt(cl[k])
    <3>1. c.odd = cl[k].odd /\ c.out = <<>>
      BY <1>1, GoesOdd DEF Goes
    <3>2. cl' = [cl EXCEPT ![k] = c]
      BY <2>2
    <3> HIDE DEF c
    <3>3. cl'[k] = c
      BY <3>2, ClientsOther
    <3> QED BY <3>1, <3>2, <3>3
  <2> QED BY <1>2, <2>1, <2>2 DEF ReadAnswer
<1>3. CASE ReadSize(k)
  <2>1. PICK size \in Int :
          cl' = [cl EXCEPT ![k] =
             Goes([cl[k] EXCEPT !.left = size], IF size <= 0 THEN "prompt" ELSE "get_data")]
    <3>1. PICK sizes \in SUBSET Int : GetSize(k, sizes)
      BY <1>3, ClientReadsType, Sizes, JunkAssumption DEF ReadSize, IInv, Types
    <3> QED BY <3>1 DEF GetSize
  <2> DEFINE sized == [cl[k] EXCEPT !.left = size]
             pc == IF size <= 0 THEN "prompt" ELSE "get_data"
             c == Goes(sized, pc)
  <2>2. sized \in ClientRec /\ sized.odd = cl[k].odd /\ sized.out = cl[k].out
    BY <1>1 DEF ClientRec
  <2>3. cl' = [cl EXCEPT ![k] = c]
    BY <2>1
  <2> HIDE DEF sized, pc
  <2>4. c.odd = cl[k].odd /\ c.out \in {<<>>, cl[k].out}
    BY <2>2, GoesOdd
  <2> HIDE DEF c
  <2>5. cl'[k] = c
    BY <2>3, ClientsOther
  <2> QED BY <2>3, <2>4, <2>5
<1>4. CASE ReadData(k)
  <2>1. CASE \E n \in 1..MAX : cl' = [cl EXCEPT ![k] = Received(@, n)]
    <3>1. PICK n \in 1..MAX : cl' = [cl EXCEPT ![k] = Received(cl[k], n)]
      BY <2>1
    <3> DEFINE left == cl[k].left - n
               off == cl[k].off + n
               got == [cl[k] EXCEPT !.left = left, !.off = off]
               pc == IF cl[k].left <= n THEN "prompt" ELSE "get_data"
               c == Goes(got, pc)
    <3>2. left \in Int /\ off \in Nat
      <4>1. n \in Nat /\ cl[k].left \in Int /\ cl[k].off \in Nat
        BY <1>1, BufferAssumption DEF ClientRec
      <4> QED BY <4>1
    <3>3. Received(cl[k], n) = c
      BY DEF Received
    <3> HIDE DEF left, off, pc
    <3>4. got \in ClientRec /\ got.odd = cl[k].odd /\ got.out = cl[k].out
      BY <1>1, <3>2 DEF ClientRec
    <3> HIDE DEF got
    <3>5. c.odd = cl[k].odd /\ c.out \in {<<>>, cl[k].out}
      BY <3>4, GoesOdd
    <3> HIDE DEF c
    <3>6. cl' = [cl EXCEPT ![k] = c]
      BY <3>1, <3>3
    <3>7. cl'[k] = c
      BY <3>6, ClientsOther
    <3> QED BY <3>5, <3>6, <3>7
  <2>2. CASE cl' = [cl EXCEPT ![k].left = @ + 1]
    <3> DEFINE left == cl[k].left + 1
               c == [cl[k] EXCEPT !.left = left]
    <3>1. cl' = [cl EXCEPT ![k] = c]
      BY <2>2
    <3> HIDE DEF left
    <3>2. c.odd = cl[k].odd /\ c.out = cl[k].out
      BY <1>1 DEF ClientRec
    <3> HIDE DEF c
    <3>3. cl'[k] = c
      BY <3>1, ClientsOther
    <3> QED BY <3>1, <3>2, <3>3
  <2> QED BY <1>4, <2>1, <2>2 DEF ReadData
<1> QED BY <1>2, <1>3, <1>4

LEMMA LostReads ==
  ASSUME IInv, ConnectionsOK, NoneLost, NEW k \in Clients,
         ReadAnswer(k) \/ ReadSize(k) \/ ReadData(k)
  PROVE  NoneLost'
<1> DEFINE c == cl'[k]
<1>1. /\ cl' = [cl EXCEPT ![k] = c]
      /\ c.odd = cl[k].odd /\ c.out \in {<<>>, cl[k].out}
  BY ReadsForm
<1>2. /\ UNCHANGED <<sv, c2s, asked, done>> /\ (cuts' = 0 => cuts = 0)
      /\ cl[k].pc \notin {"gone", "write"}
  <2>1. CASE ClientEnd(k)
    BY <2>1 DEF ReadAnswer, ReadSize, ReadData, ClientEnd, history
  <2>2. CASE \E n \in 1..MAX : ClientReads(k, n)
    <3>1. PICK n \in 1..MAX : ClientReads(k, n)
      BY <2>2
    <3>2. cuts' = 0 => cuts = 0
      BY <3>1, ReadAll DEF ClientReads, IInv, Types, StreamsOK, ConnectionsOK
    <3> QED BY <3>1, <3>2 DEF ReadAnswer, ReadSize, ReadData, ClientReads
  <2> QED BY <2>1, <2>2 DEF ReadAnswer, ReadSize, ReadData
<1> QED BY <1>1, <1>2, LostNothing

LEMMA ClientLosesNone ==
  \A k \in Clients :
    IInv /\ HistoryOK /\ ConnectionsOK /\ NoneLost /\ (User(k) \/ Client(k)) => NoneLost'
<1> SUFFICES ASSUME NEW k \in Clients, IInv, HistoryOK, ConnectionsOK, NoneLost,
                    User(k) \/ Client(k)
             PROVE  NoneLost'
  OBVIOUS
<1>1. CASE Connect(k)
  <2> DEFINE c == [cl[k] EXCEPT !.pc = "prompt"]
  <2>1. cl' = [cl EXCEPT ![k] = c] /\ cl[k].pc = "off"
    BY <1>1 DEF Connect
  <2>2. c.odd = cl[k].odd /\ c.out = cl[k].out
    <3>1. cl[k] \in ClientRec
      BY HistoryTypes
    <3> QED BY <3>1 DEF ClientRec
  <2> HIDE DEF c
  <2> QED BY <1>1, <2>1, <2>2, LostNothing DEF Connect, history
<1>2. CASE Exit(k) \/ KillClient(k) \/ ClientPipe(k)
  <2> DEFINE gone == [Idle EXCEPT !.pc = "gone"]
  <2>1. ClientEnds(k) /\ UNCHANGED <<sv, c2s, asked, done, cuts>>
    BY <1>2 DEF Exit, KillClient, ClientPipe, ClientEnds
  <2>2. cl' = [cl EXCEPT ![k] = gone] /\ gone.pc = "gone" /\ gone.out = <<>>
    BY <2>1, IdleType DEF ClientEnds, Idle
  <2> HIDE DEF gone
  <2> QED BY <2>1, <2>2, LostNothing
<1>3. CASE \E cmd \in Commands[k] : Ask(k, cmd)
  BY <1>3, LostAsk
<1>4. CASE ClientWrite(k)
  BY <1>4, LostWrite
<1>5. CASE ReadAnswer(k) \/ ReadSize(k) \/ ReadData(k)
  BY <1>5, LostReads
<1> QED BY <1>1, <1>2, <1>3, <1>4, <1>5 DEF User, Client

LEMMA InitLost == Init => NoneLost
<1> SUFFICES ASSUME Init PROVE NoneLost OBVIOUS
<1>1. sv.pc = "accept"
  BY DEF Init
<1>2. ASSUME NEW k \in Clients
      PROVE  /\ cl[k].out = <<>> /\ c2s[k] = <<>> /\ asked[k] = <<>> /\ done[k] = <<>>
             /\ Expects(sv, k) = 0
  BY <1>1 DEF Init, Idle, Expects
<1>3. Begins(<<>>, <<>>)
  BY DEF Begins
<1>4. \A k \in Clients : Lossless(k, cl[k].out, c2s[k], asked[k], done[k], sv)
  BY <1>2, <1>3, KeptNone DEF Lossless
<1> QED BY <1>1, <1>2, <1>4 DEF NoneLost

LEMMA NextLost ==
  IInv /\ HistoryOK /\ ConnectionsOK /\ NoneLost /\ [Next]_vars => NoneLost'
<1> SUFFICES ASSUME IInv, HistoryOK, ConnectionsOK, NoneLost, [Next]_vars PROVE NoneLost'
  OBVIOUS
<1>1. CASE UNCHANGED vars
  BY <1>1 DEF vars, NoneLost, Regular
<1> QED BY <1>1, ServerLosesNone, ClientLosesNone DEF Next

LEMMA LostInOrder == IInv /\ HistoryOK /\ NoneLost => CommandsInOrder
<1> SUFFICES ASSUME IInv, HistoryOK, NoneLost PROVE CommandsInOrder OBVIOUS
<1>1. ASSUME NEW k \in Clients, Regular(k)
      PROVE  /\ IsPrefix(done[k], asked[k])
             /\ sv.client = k /\ sv.pc = "read" /\ c2s[k] = <<>> /\ cl[k].out = <<>>
                => done[k] = asked[k]
  <2>1. Lossless(k, cl[k].out, c2s[k], asked[k], done[k], sv)
    BY <1>1 DEF NoneLost
  <2>2. asked[k] \in Seq(Cmd) /\ done[k] \in Seq(Cmd)
    BY HistoryTypes
  <2>3. /\ IsPrefix(done[k], asked[k])
        /\ Len(done[k]) = Len(asked[k]) => done[k] = asked[k]
    BY <2>1, <2>2, BeginsPrefix DEF Lossless
  <2>4. ASSUME sv.client = k, sv.pc = "read", c2s[k] = <<>>, cl[k].out = <<>>
        PROVE  Len(done[k]) = Len(asked[k])
    <3>1. Expects(sv, k) = 0
      BY <2>4 DEF Expects
    <3>2. Kept(<<>>, <<>>, asked[k], done[k], 0)
      BY <2>1, <2>4, <3>1 DEF Lossless
    <3> QED BY <2>2, <3>2, KeptNone
  <2> QED BY <2>3, <2>4
<1> QED BY <1>1 DEF CommandsInOrder, Regular

(* No command is lost without a short read or an odd put.  The server has  *)
(* then executed the first commands that a client sent, and all of them    *)
(* when it waits for a line of a client that has written everything: each  *)
(* of its reads takes one write of the client, a command for a command, a  *)
(* size for a size and data for data, for any number of clients.           *)
THEOREM CommandsAlwaysInOrder == Spec => []CommandsInOrder
<1> DEFINE Lost == HistoryOK /\ ConnectionsOK /\ NoneLost
<1>1. Init => Lost
  BY InitHistory, InitConnections, InitLost
<1>2. IInv /\ Lost /\ [Next]_vars => Lost'
  BY NextHistory, NextConnections, NextLost
<1>3. IInv /\ Lost => CommandsInOrder
  BY LostInOrder
<1> HIDE DEF Lost
<1> QED BY <1>1, <1>2, <1>3, Invariance, PTL DEF Spec

-----------------------------------------------------------------------------
(* Answers.  Without a short read, a client and the server take turns: a   *)
(* command that is answered is the last thing in the client's stream, and  *)
(* what the server sends and still has to send is one answer, of the form  *)
(* that the client waits for.                                              *)

Asks(u) == IsCmd(u) /\ u[2][1] \in {"get", "ls", "pwd"}

\* The writes of out carry n units.
Carries(out, n) ==
  \E left \in [0..Len(out) -> Nat] :
    /\ left[0] = n /\ left[Len(out)] = 0
    /\ \A i \in 1..Len(out) : out[i] # <<>> /\ left[i - 1] = Len(out[i]) + left[i]

\* A client in state c has at most one question in its stream, which comes last,
\* and then nothing is on the way to it.
Asking(c, in, s, out) ==
  \A i \in DOMAIN in : Asks(in[i]) =>
    /\ i + MAX - 1 = Len(in)
    /\ c.pc = Waits[in[i][2][1]]
    /\ s = <<>> /\ out = <<>>

\* The messages that an ls reads; the last one is "$".
Listing(s, out) ==
  /\ \E m \in Nat : Len(s) = m * MAX
  /\ \A i \in DOMAIN s : s[i] = <<"$">> => i + MAX - 1 = Len(s) /\ out = <<>>
  /\ \A i \in DOMAIN out : /\ Len(out[i]) = MAX
                           /\ \A x \in 1..MAX : out[i][x] = <<"$">> => i = Len(out) /\ x = 1

OneMessage(s, out) ==
  \/ out = <<>> /\ (s = <<>> \/ Len(s) = MAX)
  \/ s = <<>> /\ Len(out) = 1 /\ Len(out[1]) = MAX

\* A message that says that at least n units follow it.
Announces(s, n) ==
  /\ Len(s) >= MAX
  /\ s[1][1] = "size" /\ s[1][2] > 0
  /\ Len(s) - MAX + n <= s[1][2]

\* The size of a file and what is in it.
SizeAndData(s, out) ==
  \/ s = <<>> /\ out = <<>>
  \/ /\ s = <<>> /\ out # <<>>
     /\ \E n \in Nat : Carries(Tail(out), n) /\ Len(out[1]) = MAX /\ Announces(out[1], n)
  \/ s # <<>> /\ \E n \in Nat : Carries(out, n) /\ Announces(s, n)

Answered(c, s, out) ==
  /\ c.pc \in {"prompt", "write"} => s = <<>> /\ out = <<>>
  /\ c.pc = "pwd" => OneMessage(s, out)
  /\ c.pc = "ls" => Listing(s, out)
  /\ c.pc = "get_size" => SizeAndData(s, out)
  /\ c.pc = "get_data" => \E n \in Nat : Carries(out, n) /\ Len(s) + n <= c.left

\* What a client writes asks at most once, at its end.
Questions(c) ==
  \A m \in DOMAIN c.out : \A x \in DOMAIN c.out[m] : Asks(c.out[m][x]) =>
    /\ m = 1 /\ x = 1
    /\ Len(c.out) = 1 /\ Len(c.out[1]) = MAX
    /\ c.then = Waits[c.out[m][x][2][1]]

\* A client in state c, with what it sent, what is sent to it, and what the server is
\* about to send.
Turn(c, in, s, out) ==
  c.pc \notin {"off", "gone"} =>
    /\ Asking(c, in, s, out)
    /\ Answered(c, s, out)
    /\ c.pc = "write" => Questions(c)

Out(k) == IF sv.pc = "write" /\ sv.client = k THEN sv.out ELSE <<>>

\* No read was short, and the client put no file that leads the server out of step.
InStep(k) == cuts = 0 /\ ~cl[k].odd

TurnsTaken == \A k \in Clients : InStep(k) => Turn(cl[k], c2s[k], s2c[k], Out(k))

LEMMA CarriesNone ==
  /\ Carries(<<>>, 0)
  /\ \A out \in Seq(Seq(Unit)) : Carries(out, 0) => out = <<>>
<1>1. Carries(<<>>, 0)
  <2> DEFINE left == [i \in 0..Len(<<>>) |-> 0]
  <2>1. left \in [0..Len(<<>>) -> Nat] /\ left[0] = 0 /\ left[Len(<<>>)] = 0
    OBVIOUS
  <2>2. 1..Len(<<>>) = {}
    OBVIOUS
  <2> HIDE DEF left
  <2> QED BY <2>1, <2>2 DEF Carries
<1>2. ASSUME NEW out \in Seq(Seq(Unit)), Carries(out, 0), out # <<>> PROVE FALSE
  <2>1. PICK left \in [0..Len(out) -> Nat] :
          /\ left[0] = 0
          /\ \A i \in 1..Len(out) : out[i] # <<>> /\ left[i - 1] = Len(out[i]) + left[i]
    BY <1>2 DEF Carries
  <2>2. 1 \in 1..Len(out) /\ 1 \in 0..Len(out)
    BY <1>2, EmptySeq
  <2>3. out[1] \in Seq(Unit) /\ out[1] # <<>> /\ 0 = Len(out[1]) + left[1] /\ left[1] \in Nat
    <3>1. out[1] # <<>> /\ left[1 - 1] = Len(out[1]) + left[1]
      BY <2>1, <2>2
    <3>2. left[1 - 1] = 0
      BY <2>1
    <3>3. out[1] \in Seq(Unit)
      BY <2>2
    <3>4. left[1] \in Nat
      BY <2>1, <2>2
    <3> QED BY <3>1, <3>2, <3>3, <3>4
  <2>4. Len(out[1]) \in Nat \ {0}
    BY <2>3, EmptySeq
  <2> QED BY <2>3, <2>4
<1> QED BY <1>1, <1>2

LEMMA CarriesTail ==
  ASSUME NEW out \in Seq(Seq(Unit)), out # <<>>, NEW n \in Nat, Carries(out, n)
  PROVE  n - Len(Head(out)) \in Nat /\ Carries(Tail(out), n - Len(Head(out)))
<1>1. PICK left \in [0..Len(out) -> Nat] :
        /\ left[0] = n /\ left[Len(out)] = 0
        /\ \A i \in 1..Len(out) : out[i] # <<>> /\ left[i - 1] = Len(out[i]) + left[i]
  BY DEF Carries
<1>2. /\ Len(out) \in Nat \ {0} /\ Len(Tail(out)) = Len(out) - 1 /\ Head(out) = out[1]
      /\ \A i \in 1..Len(out) - 1 : Tail(out)[i] = out[i + 1]
  BY EmptySeq, HeadTailProperties
<1> DEFINE t == [i \in 0..Len(out) - 1 |-> left[i + 1]]
           m == n - Len(Head(out))
<1>3. 1 \in 1..Len(out) /\ out[1] \in Seq(Unit)
  BY <1>2
<1>4. m = left[1] /\ m \in Nat
  <2>1. left[1 - 1] = Len(out[1]) + left[1]
    BY <1>1, <1>3
  <2>2. 1 - 1 = 0 /\ 1 \in 0..Len(out) /\ Len(out[1]) \in Nat
    BY <1>2, <1>3
  <2>3. left[1] \in Nat /\ left[0] = n
    BY <1>1, <2>2
  <2>4. n = Len(out[1]) + left[1]
    BY <2>1, <2>2, <2>3
  <2> QED BY <1>2, <2>2, <2>3, <2>4
<1>5. t \in [0..Len(Tail(out)) -> Nat] /\ t[0] = m /\ t[Len(Tail(out))] = 0
  BY <1>1, <1>2, <1>4
<1>6. \A i \in 1..Len(Tail(out)) : Tail(out)[i] # <<>> /\ t[i - 1] = Len(Tail(out)[i]) + t[i]
  <2> SUFFICES ASSUME NEW i \in 1..Len(Tail(out))
               PROVE  Tail(out)[i] # <<>> /\ t[i - 1] = Len(Tail(out)[i]) + t[i]
    OBVIOUS
  <2>1. i + 1 \in 1..Len(out) /\ (i + 1) - 1 = i /\ Tail(out)[i] = out[i + 1]
    BY <1>2
  <2>2. out[i + 1] # <<>> /\ left[i] = Len(out[i + 1]) + left[i + 1]
    BY <1>1, <2>1
  <2>3. i \in 0..Len(out) - 1 /\ i - 1 \in 0..Len(out) - 1 /\ (i - 1) + 1 = i
    BY <1>2
  <2> QED BY <2>1, <2>2, <2>3
<1> HIDE DEF t, m
<1>7. Carries(Tail(out), m)
  BY <1>5, <1>6 DEF Carries
<1> QED BY <1>4, <1>7 DEF m

LEMMA CarriesChunks ==
  ASSUME NEW data \in Seq(Said)
  PROVE  Carries(Chunks(data), Len(data))
<1> DEFINE q == (Len(data) + MAX - 1) \div MAX
           last(i) == IF i * MAX < Len(data) THEN i * MAX ELSE Len(data)
           left == [i \in 0..q |-> IF i * MAX < Len(data) THEN Len(data) - i * MAX ELSE 0]
           out == Chunks(data)
<1>1. Len(data) \in Nat
  OBVIOUS
<1>2. q \in Nat /\ q * MAX >= Len(data) /\ (q # 0 => (q - 1) * MAX < Len(data))
  BY <1>1, Quotient
<1> HIDE DEF q
<1>3. /\ out = [i \in 1..q |-> SubSeq(data, (i - 1) * MAX + 1, last(i))]
      /\ Len(out) = q
  <2>1. out = [i \in 1..q |-> SubSeq(data, (i - 1) * MAX + 1, last(i))]
    BY DEF Chunks, q
  <2> HIDE DEF last, out
  <2> QED BY <1>2, <2>1
<1>4. \A i \in 0..q : i * MAX \in Nat /\ left[i] \in Nat
  <2> SUFFICES ASSUME NEW i \in 0..q PROVE i * MAX \in Nat /\ left[i] \in Nat
    OBVIOUS
  <2>1. i * MAX \in Nat
    <3>1. i \in Nat
      BY <1>2
    <3> QED BY <3>1, Times
  <2> DEFINE b == i * MAX
  <2>2. left[i] = IF b < Len(data) THEN Len(data) - b ELSE 0
    OBVIOUS
  <2> HIDE DEF left, b
  <2>3. b \in Nat
    BY <2>1 DEF b
  <2>4. left[i] \in Nat
    BY <1>1, <2>2, <2>3
  <2> QED BY <2>1, <2>4
<1>5. left \in [0..q -> Nat] /\ left[0] = Len(data) /\ left[q] = 0
  <2>1. 0 * MAX = 0
    BY BufferAssumption
  <2>2. 0 \in 0..q /\ q \in 0..q /\ q * MAX \in Nat
    BY <1>2, Times
  <2>3. left[0] = Len(data)
    BY <1>1, <2>1, <2>2
  <2>4. left[q] = 0
    BY <1>1, <1>2, <2>2
  <2> QED BY <1>4, <2>3, <2>4
<1>6. ASSUME NEW i \in 1..q PROVE out[i] # <<>> /\ left[i - 1] = Len(out[i]) + left[i]
  <2>1. i \in Nat /\ i - 1 \in Nat /\ q - 1 \in Nat /\ i - 1 <= q - 1 /\ q # 0
    BY <1>2
  <2>2. (i - 1) * MAX <= (q - 1) * MAX /\ (i - 1) * MAX \in Nat /\ i * MAX \in Nat
        /\ (q - 1) * MAX \in Nat
    BY <2>1, Times, TimesMore
  <2>3. i * MAX = (i - 1) * MAX + MAX
    <3>1. (i - 1) + 1 = i
      BY <2>1
    <3> QED BY <2>1, <3>1, TimesNext
  <2>4. (i - 1) * MAX < Len(data)
    BY <1>1, <1>2, <2>1, <2>2
  <2> DEFINE a == (i - 1) * MAX
             b == i * MAX
  <2>5. out[i] = SubSeq(data, a + 1, last(i))
    BY <1>3
  <2>6. /\ left[i - 1] = IF a < Len(data) THEN Len(data) - a ELSE 0
        /\ left[i] = IF b < Len(data) THEN Len(data) - b ELSE 0
        /\ last(i) = IF b < Len(data) THEN b ELSE Len(data)
    <3>1. i \in 0..q /\ i - 1 \in 0..q
      BY <1>2
    <3> QED BY <3>1
  <2>7. a \in Nat /\ b = a + MAX /\ a < Len(data)
    BY <2>2, <2>3, <2>4
  <2> HIDE DEF a, b, out, left, last
  <2>8. last(i) \in Nat /\ a + 1 <= last(i) /\ last(i) <= Len(data)
    BY <1>1, <2>6, <2>7, BufferAssumption
  <2>9. Len(out[i]) = last(i) - a /\ out[i] \in Seq(Said)
    <3>1. \A j \in a + 1..last(i) : data[j] \in Said
      BY <2>7, <2>8
    <3> QED BY <2>5, <2>7, <2>8, <3>1, SubSeqProperties
  <2>10. left[i - 1] = Len(out[i]) + left[i]
    BY <1>1, <2>6, <2>7, <2>8, <2>9, BufferAssumption
  <2>11. Len(out[i]) > 0
    BY <2>7, <2>8, <2>9
  <2>12. out[i] # <<>>
    <3>1. Len(<<>>) = 0
      OBVIOUS
    <3> QED BY <2>11, <3>1
  <2> QED BY <2>10, <2>12
<1> HIDE DEF out, left
<1>7. Carries(out, Len(data))
  BY <1>3, <1>5, <1>6 DEF Carries
<1> QED BY <1>7 DEF out

LEMMA AsksWaits ==
  /\ \A u \in Unit : Asks(u) =>
       u[2][1] \in {"get", "ls", "pwd"} /\ Waits[u[2][1]] \in {"get_size", "ls", "pwd"}
  /\ ~Asks(Pad)
  /\ \A u \in Said : ~Asks(u)
<1>1. \A op \in {"get", "ls", "pwd"} : Waits[op] \in {"get_size", "ls", "pwd"}
  BY DEF Waits
<1>2. \A u \in Said : ~IsCmd(u)
  BY UnitKinds DEF IsCmd, Answers
<1>3. Pad \in Said
  BY SaidUnit
<1> QED BY <1>1, <1>2, <1>3 DEF Asks

(* The server reads what is there and does not answer.                     *)
LEMMA TurnRead ==
  ASSUME NEW c, NEW in \in Seq(Unit), in # <<>>, NEW s, NEW out, Turn(c, in, s, out)
  PROVE  Turn(c, Rest(in, Avail(in)), s, out)
<1> DEFINE n == Avail(in)
           r == Rest(in, n)
<1>1. n \in 1..Len(in)
  BY AvailFacts
<1>2. Len(r) = Len(in) - n /\ \A i \in 1..Len(in) - n : r[i] = in[n + i]
  BY <1>1, RestType
<1>3. r \in Seq(Unit)
  BY <1>1, RestType
<1> HIDE DEF n, r
<1>4. Asking(c, in, s, out) => Asking(c, r, s, out)
  <2> SUFFICES ASSUME Asking(c, in, s, out), NEW i \in DOMAIN r, Asks(r[i])
               PROVE  /\ i + MAX - 1 = Len(r)
                      /\ c.pc = Waits[r[i][2][1]]
                      /\ s = <<>> /\ out = <<>>
    BY DEF Asking
  <2>1. i \in 1..Len(in) - n /\ n + i \in DOMAIN in /\ r[i] = in[n + i]
    BY <1>1, <1>2, <1>3
  <2>2. /\ n + i + MAX - 1 = Len(in)
        /\ c.pc = Waits[r[i][2][1]]
        /\ s = <<>> /\ out = <<>>
    BY <2>1 DEF Asking
  <2>3. i \in Nat /\ n \in Nat /\ Len(in) \in Nat /\ Len(r) = Len(in) - n
    BY <1>1, <1>2, <2>1
  <2>4. i + MAX - 1 = Len(r)
    <3>1. n + i + MAX - 1 = Len(in)
      BY <2>2
    <3>2. MAX \in Nat
      BY BufferAssumption
    <3> QED BY <2>3, <3>1, <3>2
  <2> QED BY <2>2, <2>4
<1>5. Turn(c, r, s, out)
  BY <1>4 DEF Turn
<1> QED BY <1>5 DEF n, r

(* The stream of a client ends, and the answer with it.                    *)
LEMMA TurnDies ==
  ASSUME NEW c \in ClientRec, NEW in, NEW s \in Seq(Said), NEW out \in Seq(Seq(Said)),
         Turn(c, in, s, out)
  PROVE  Turn(c, <<>>, s, <<>>)
<1>1. Asking(c, <<>>, s, <<>>)
  BY DEF Asking
<1>2. Carries(<<>>, 0)
  BY CarriesNone
<1>3. ASSUME Answered(c, s, out) PROVE Answered(c, s, <<>>)
  <2>1. CASE c.pc = "pwd"
    BY <1>3, <2>1 DEF Answered, OneMessage
  <2>2. CASE c.pc = "ls"
    <3>1. Listing(s, out)
      BY <1>3, <2>2 DEF Answered
    <3>2. Listing(s, <<>>)
      BY <3>1 DEF Listing
    <3> QED BY <2>2, <3>2 DEF Answered
  <2>3. CASE c.pc = "get_size"
    <3>1. SizeAndData(s, out)
      BY <1>3, <2>3 DEF Answered
    <3>2. CASE s = <<>>
      BY <2>3, <3>2 DEF Answered, SizeAndData
    <3>3. CASE s # <<>>
      <4>1. PICK n \in Nat : Announces(s, n)
        BY <3>1, <3>3 DEF SizeAndData
      <4>2. s[1] \in Unit
        BY <3>3, EmptySeq, SaidUnit
      <4>3. Announces(s, 0)
        BY <4>1, <4>2, UnitKinds, BufferAssumption DEF Announces
      <4> QED BY <1>2, <2>3, <3>3, <4>3 DEF Answered, SizeAndData
    <3> QED BY <3>2, <3>3
  <2>4. CASE c.pc = "get_data"
    <3>1. PICK n \in Nat : Len(s) + n <= c.left
      BY <1>3, <2>4 DEF Answered
    <3>2. Len(s) + 0 <= c.left /\ 0 \in Nat
      BY <3>1 DEF ClientRec
    <3> QED BY <1>2, <2>4, <3>2 DEF Answered
  <2> QED BY <1>3, <2>1, <2>2, <2>3, <2>4 DEF Answered, ClientRec
<1> QED BY <1>1, <1>3 DEF Turn

(* The server writes the next part of an answer.                           *)
LEMMA TurnServes ==
  ASSUME NEW c \in ClientRec, NEW in \in Seq(Unit), NEW s \in Seq(Said),
         NEW out \in Seq(Seq(Said)), out # <<>>, Turn(c, in, s, out)
  PROVE  Turn(c, in, s \o Head(out), Tail(out))
<1> DEFINE h == Head(out)
           t == Tail(out)
           z == s \o h
<1> SUFFICES ASSUME c.pc \notin {"off", "gone"}
             PROVE  /\ Asking(c, in, z, t)
                    /\ Answered(c, z, t)
                    /\ c.pc = "write" => Questions(c)
  BY DEF Turn
<1>1. h \in Seq(Said) /\ t \in Seq(Seq(Said)) /\ h = out[1] /\ Len(t) = Len(out) - 1
      /\ \A i \in 1..Len(t) : t[i] = out[i + 1]
  BY HeadTailProperties
<1>2. /\ z \in Seq(Said) /\ Len(z) = Len(s) + Len(h)
      /\ \A i \in 1..Len(s) + Len(h) : z[i] = IF i <= Len(s) THEN s[i] ELSE h[i - Len(s)]
  BY <1>1, ConcatProperties
<1>3. Len(out) \in Nat \ {0} /\ 1 \in DOMAIN out
  BY EmptySeq
<1>4. Asking(c, in, s, out) /\ Answered(c, s, out) /\ (c.pc = "write" => Questions(c))
  BY DEF Turn
<1>5. \A i \in DOMAIN in : ~Asks(in[i])
  BY <1>4 DEF Asking
<1>6. s = <<>> => z = h
  BY <1>1, ConcatEmptySeq
<1> HIDE DEF h, t, z
<1>7. Asking(c, in, z, t)
  BY <1>5 DEF Asking
<1>8. c.pc \notin {"prompt", "write"}
  BY <1>4 DEF Answered
<1>9. CASE c.pc = "pwd"
  <2>1. s = <<>> /\ Len(out) = 1 /\ Len(h) = MAX
    BY <1>1, <1>4, <1>9 DEF Answered, OneMessage
  <2>2. t = <<>> /\ Len(z) = MAX
    <3>1. Len(t) = 0
      BY <1>1, <2>1
    <3> QED BY <1>1, <1>6, <2>1, <3>1, EmptySeq
  <2> QED BY <1>7, <1>9, <2>2 DEF Answered, OneMessage
<1>10. CASE c.pc = "ls"
  <2>1. Listing(s, out)
    BY <1>4, <1>10 DEF Answered
  <2>2. Len(h) = MAX /\ \A x \in 1..MAX : h[x] = <<"$">> => 1 = Len(out) /\ x = 1
    BY <1>1, <1>3, <2>1 DEF Listing
  <2>3. \E m \in Nat : Len(z) = m * MAX
    <3>1. PICK m \in Nat : Len(s) = m * MAX
      BY <2>1 DEF Listing
    <3>2. Len(z) = (m + 1) * MAX /\ m + 1 \in Nat
      BY <1>2, <2>2, <3>1, TimesNext
    <3> QED BY <3>2
  <2>4. ASSUME NEW i \in DOMAIN z, z[i] = <<"$">> PROVE i + MAX - 1 = Len(z) /\ t = <<>>
    <3>1. i \in 1..Len(s) + Len(h) /\ Len(s) \in Nat
      BY <1>2
    <3>2. CASE i <= Len(s)
      <4>1. i \in DOMAIN s /\ s[i] = <<"$">>
        BY <1>2, <2>4, <3>1, <3>2
      <4> QED BY <2>1, <4>1 DEF Listing
    <3>3. CASE i > Len(s)
      <4>1. i - Len(s) \in 1..MAX /\ h[i - Len(s)] = <<"$">>
        <5>1. i - Len(s) \in 1..MAX
          BY <2>2, <3>1, <3>3, BufferAssumption
        <5>2. z[i] = h[i - Len(s)]
          BY <1>2, <3>1, <3>3
        <5> QED BY <2>4, <5>1, <5>2
      <4>2. Len(out) = 1 /\ i - Len(s) = 1
        BY <2>2, <4>1
      <4>3. Len(t) = 0
        BY <1>1, <4>2
      <4>4. t = <<>>
        BY <1>1, <4>3, EmptySeq
      <4>5. i + MAX - 1 = Len(z)
        <5>1. i \in Nat /\ Len(z) = Len(s) + MAX
          BY <1>2, <2>2, <3>1
        <5>2. i = Len(s) + 1
          BY <3>1, <4>2, <5>1
        <5>3. MAX \in Nat /\ Len(s) \in Nat
          BY <3>1, BufferAssumption
        <5> QED BY <5>1, <5>2, <5>3
      <4> QED BY <4>4, <4>5
    <3> QED BY <3>1, <3>2, <3>3
  <2>5. ASSUME NEW i \in DOMAIN t
        PROVE  /\ Len(t[i]) = MAX
               /\ \A x \in 1..MAX : t[i][x] = <<"$">> => i = Len(t) /\ x = 1
    <3>1. i \in 1..Len(t) /\ i + 1 \in DOMAIN out /\ t[i] = out[i + 1]
      <4>1. i \in 1..Len(t)
        <5>1. DOMAIN t = 1..Len(t)
          BY <1>1
        <5> QED BY <5>1
      <4>2. i + 1 \in 1..Len(out)
        <5>1. Len(t) = Len(out) - 1 /\ Len(out) \in Nat
          BY <1>1, <1>3
        <5> QED BY <4>1, <5>1
      <4>3. i + 1 \in DOMAIN out
        BY <4>2
      <4>4. t[i] = out[i + 1]
        BY <1>1, <4>1
      <4> QED BY <4>1, <4>3, <4>4
    <3>2. /\ Len(t[i]) = MAX
          /\ \A x \in 1..MAX : t[i][x] = <<"$">> => i + 1 = Len(out) /\ x = 1
      BY <2>1, <3>1 DEF Listing
    <3>3. i + 1 = Len(out) => i = Len(t)
      BY <1>1, <1>3, <3>1
    <3> QED BY <3>2, <3>3
  <2>6. Listing(z, t)
    BY <2>3, <2>4, <2>5 DEF Listing
  <2> QED BY <1>7, <1>10, <2>6 DEF Answered
<1>11. CASE c.pc = "get_size"
  <2>1. SizeAndData(s, out)
    BY <1>4, <1>11 DEF Answered
  <2>2. CASE s = <<>>
    <3>1. PICK n \in Nat : Carries(t, n) /\ Len(h) = MAX /\ Announces(h, n)
      BY <1>1, <2>1, <2>2 DEF SizeAndData, t
    <3>2. z = h /\ z # <<>>
      <4>1. Len(z) # 0
        BY <1>6, <2>2, <3>1, BufferAssumption
      <4> QED BY <1>6, <2>2, <4>1
    <3> QED BY <1>7, <1>11, <3>1, <3>2 DEF Answered, SizeAndData
  <2>3. CASE s # <<>>
    <3>1. PICK n \in Nat : Carries(out, n) /\ Announces(s, n)
      BY <2>1, <2>3 DEF SizeAndData
    <3>2. n - Len(h) \in Nat /\ Carries(t, n - Len(h))
      <4>1. out \in Seq(Seq(Unit))
        BY SaidUnit
      <4> QED BY <3>1, <4>1, CarriesTail DEF h, t
    <3>3. Len(s) \in Nat \ {0} /\ Len(h) \in Nat /\ z[1] = s[1] /\ s[1] \in Said
      <4>1. Len(s) \in Nat \ {0} /\ Len(h) \in Nat
        BY <1>1, <2>3, EmptySeq
      <4> QED BY <1>2, <4>1
    <3>4. s[1][1] = "size" => s[1][2] \in Int
      BY <3>3, UnitKinds, SaidUnit
    <3>5. Announces(z, n - Len(h))
      BY <1>2, <3>1, <3>2, <3>3, <3>4, BufferAssumption DEF Announces
    <3>6. z # <<>>
      BY <1>2, <3>3
    <3> QED BY <1>7, <1>11, <3>2, <3>5, <3>6 DEF Answered, SizeAndData
  <2> QED BY <2>2, <2>3
<1>12. CASE c.pc = "get_data"
  <2>1. PICK n \in Nat : Carries(out, n) /\ Len(s) + n <= c.left
    BY <1>4, <1>12 DEF Answered
  <2>2. n - Len(h) \in Nat /\ Carries(t, n - Len(h))
    <3>1. out \in Seq(Seq(Unit))
      BY SaidUnit
    <3> QED BY <2>1, <3>1, CarriesTail DEF h, t
  <2>3. Len(z) + (n - Len(h)) <= c.left
    <3>1. Len(s) \in Nat /\ Len(h) \in Nat
      BY <1>1
    <3>2. c.left \in Int
      BY DEF ClientRec
    <3> QED BY <1>2, <2>1, <3>1, <3>2
  <2> QED BY <1>7, <1>12, <2>2, <2>3 DEF Answered
<1>13. CASE c.pc = "spin"
  BY <1>7, <1>13 DEF Answered
<1> QED BY <1>7, <1>8, <1>9, <1>10, <1>11, <1>12, <1>13 DEF ClientRec

(* What is left of a client that waits, when nothing is on the way to it.  *)
LEMMA TurnNothing ==
  ASSUME NEW c \in ClientRec, c.pc # "write", c.pc = "get_data" => c.left >= 0
  PROVE  Turn(c, <<>>, <<>>, <<>>)
<1>1. Asking(c, <<>>, <<>>, <<>>)
  BY DEF Asking
<1>2. 0 \in Nat /\ 0 * MAX = 0 /\ Carries(<<>>, 0)
  BY BufferAssumption, CarriesNone
<1>3. Listing(<<>>, <<>>)
  BY <1>2 DEF Listing
<1>4. Answered(c, <<>>, <<>>)
  <2>1. c.pc = "get_data" => Len(<<>>) + 0 <= c.left
    BY DEF ClientRec
  <2> QED BY <1>2, <1>3, <2>1 DEF Answered, OneMessage, SizeAndData
<1> QED BY <1>1, <1>4 DEF Turn

(* A client at the prompt.                                                 *)
LEMMA TurnPrompt ==
  ASSUME NEW c, c.pc = "prompt", NEW in, \A i \in DOMAIN in : ~Asks(in[i])
  PROVE  Turn(c, in, <<>>, <<>>)
BY DEF Turn, Asking, Answered

(* What the server executes for a client that waits is its only question.  *)
LEMMA TurnAsks ==
  ASSUME NEW c, c.pc \notin {"off", "gone"}, NEW in \in Seq(Unit), in # <<>>, NEW s, NEW out,
         Turn(c, in, s, out), Asks(Head(in))
  PROVE  /\ c.pc = Waits[Head(in)[2][1]]
         /\ s = <<>> /\ out = <<>>
         /\ Rest(in, Avail(in)) = <<>>
<1>1. Head(in) = in[1] /\ 1 \in DOMAIN in /\ Len(in) \in Nat
  BY EmptySeq
<1>2. 1 + MAX - 1 = Len(in) /\ c.pc = Waits[Head(in)[2][1]] /\ s = <<>> /\ out = <<>>
  BY <1>1 DEF Turn, Asking
<1>3. Len(in) = MAX
  BY <1>2, BufferAssumption
<1>4. Avail(in) = Len(in) /\ Avail(in) \in 1..Len(in)
  BY <1>3, AvailFacts
<1>5. Rest(in, Avail(in)) \in Seq(Unit) /\ Len(Rest(in, Avail(in))) = 0
  BY <1>4, RestType
<1> QED BY <1>2, <1>5, EmptySeq

(* The answers.                                                            *)
LEMMA AnswerPwd == \A u \in Said : OneMessage(<<>>, <<Msg(u)>>)
<1> SUFFICES ASSUME NEW u \in Said PROVE OneMessage(<<>>, <<Msg(u)>>)
  OBVIOUS
<1>1. Len(Msg(u)) = MAX
  BY MsgLength, SaidUnit
<1> QED BY <1>1 DEF OneMessage

LEMMA AnswerDir == SizeAndData(<<>>, <<Msg(<<"size", DirSize>>)>>)
<1> DEFINE u == <<"size", DirSize>>
           out == <<Msg(u)>>
<1>1. u \in Said /\ u[1] = "size" /\ u[2] = DirSize
  BY BufferAssumption DEF Said, DirSize
<1>2. DirSize > 0 /\ MAX - MAX + 0 <= DirSize
  BY BufferAssumption DEF DirSize
<1>3. Msg(u) \in Seq(Unit) /\ Len(Msg(u)) = MAX /\ Msg(u)[1] = u
  BY <1>1, SaidUnit, MsgLength
<1> HIDE DEF u
<1>4. Announces(Msg(u), 0)
  BY <1>1, <1>2, <1>3, BufferAssumption DEF Announces
<1>5. out # <<>> /\ out[1] = Msg(u) /\ Tail(out) = <<>>
  OBVIOUS
<1> HIDE DEF out
<1>6. SizeAndData(<<>>, out)
  BY <1>3, <1>4, <1>5, CarriesNone DEF SizeAndData
<1> QED BY <1>6 DEF out, u

LEMMA AnswerGet ==
  ASSUME NEW data \in Seq(Said), data # <<>>
  PROVE  SizeAndData(<<>>, Sized(data))
<1> DEFINE u == <<"size", Len(data)>>
           out == Sized(data)
<1>1. Len(data) \in Nat \ {0}
  BY EmptySeq
<1>2. u \in Said /\ u[1] = "size" /\ u[2] = Len(data)
  BY <1>1 DEF Said
<1>3. Msg(u) \in Seq(Unit) /\ Len(Msg(u)) = MAX /\ Msg(u)[1] = u
  BY <1>2, SaidUnit, MsgLength
<1>4. out = <<Msg(u)>> \o Chunks(data)
  BY DEF Sized
<1>5. Chunks(data) \in Seq(Seq(Unit)) /\ Carries(Chunks(data), Len(data))
  BY ChunksType, SaidUnit, CarriesChunks
<1> HIDE DEF u, out
<1>6. Announces(Msg(u), Len(data))
  BY <1>1, <1>2, <1>3, BufferAssumption DEF Announces
<1>7. out # <<>> /\ out[1] = Msg(u) /\ Tail(out) = Chunks(data)
  <2> DEFINE m == Msg(u)
             ch == Chunks(data)
  <2>1. m \in Seq(Unit) /\ ch \in Seq(Seq(Unit)) /\ out = <<m>> \o ch
    BY <1>3, <1>4, <1>5
  <2> HIDE DEF m, ch
  <2>2. <<m>> \in Seq(Seq(Unit)) /\ Len(<<m>>) = 1 /\ <<m>>[1] = m
    BY <2>1
  <2>3. /\ out \in Seq(Seq(Unit)) /\ Len(out) = 1 + Len(ch)
        /\ \A i \in 1..1 + Len(ch) : out[i] = IF i <= 1 THEN m ELSE ch[i - 1]
    BY <2>1, <2>2, ConcatProperties
  <2>4. out # <<>> /\ out[1] = m
    <3>1. Len(ch) \in Nat
      BY <2>1
    <3> QED BY <2>3, <3>1, EmptySeq
  <2>5. Tail(out) = ch
    <3>1. /\ Tail(out) \in Seq(Seq(Unit)) /\ Len(Tail(out)) = Len(ch)
          /\ \A i \in 1..Len(ch) : Tail(out)[i] = out[i + 1]
      BY <2>1, <2>3, <2>4, HeadTailProperties
    <3>2. \A i \in 1..Len(ch) : Tail(out)[i] = ch[i]
      <4> SUFFICES ASSUME NEW i \in 1..Len(ch) PROVE Tail(out)[i] = ch[i]
        OBVIOUS
      <4>1. i + 1 \in 1..1 + Len(ch) /\ ~(i + 1 <= 1) /\ i + 1 - 1 = i
        BY <2>1
      <4> QED BY <2>3, <3>1, <4>1
    <3> QED BY <2>1, <3>1, <3>2, SeqEqual
  <2> QED BY <2>4, <2>5 DEF m, ch
<1>8. SizeAndData(<<>>, out)
  BY <1>1, <1>3, <1>5, <1>6, <1>7 DEF SizeAndData
<1> QED BY <1>8 DEF out

LEMMA AnswerLs ==
  ASSUME NEW n \in Nat
  PROVE  LET lines == [i \in 1..n |-> Msg(<<"entry">>)]
         IN  Listing(<<>>, lines) /\ Listing(<<>>, lines \o <<Msg(<<"$">>)>>)
<1> DEFINE e == Msg(<<"entry">>)
           d == Msg(<<"$">>)
           lines == [i \in 1..n |-> e]
           out == lines \o <<d>>
<1>1. <<"entry">> \in Unit /\ <<"$">> \in Unit /\ Pad # <<"$">> /\ <<"entry">> # <<"$">>
  BY DEF Unit, Said, Pad
<1>2. /\ e \in Seq(Unit) /\ Len(e) = MAX /\ e[1] # <<"$">>
      /\ \A x \in 1..MAX : x # 1 => e[x] # <<"$">>
  BY <1>1, MsgLength
<1>3. d \in Seq(Unit) /\ Len(d) = MAX /\ \A x \in 1..MAX : x # 1 => d[x] # <<"$">>
  BY <1>1, MsgLength
<1> HIDE DEF e, d
<1>4. lines \in Seq(Seq(Unit)) /\ Len(lines) = n /\ \A i \in 1..n : lines[i] = e
  BY <1>2
<1>5. <<d>> \in Seq(Seq(Unit)) /\ Len(<<d>>) = 1 /\ <<d>>[1] = d
  BY <1>3
<1> HIDE DEF lines
<1>6. /\ out \in Seq(Seq(Unit)) /\ Len(out) = n + 1
      /\ \A i \in 1..n + 1 : out[i] = IF i <= n THEN lines[i] ELSE <<d>>[i - n]
  BY <1>4, <1>5, ConcatProperties
<1>7. \A i \in 1..n + 1 : out[i] = IF i = n + 1 THEN d ELSE e
  BY <1>4, <1>5, <1>6
<1>8. \E m \in Nat : Len(<<>>) = m * MAX
  <2>1. 0 \in Nat /\ 0 * MAX = Len(<<>>)
    BY BufferAssumption
  <2> QED BY <2>1
<1>9. Listing(<<>>, lines)
  BY <1>2, <1>4, <1>8 DEF Listing
<1>10. Listing(<<>>, out)
  <2> HIDE DEF out
  <2>1. ASSUME NEW i \in DOMAIN out
        PROVE  /\ Len(out[i]) = MAX
               /\ \A x \in 1..MAX : out[i][x] = <<"$">> => i = Len(out) /\ x = 1
    <3>1. i \in 1..n + 1
      BY <1>6
    <3>2. out[i] = IF i = n + 1 THEN d ELSE e
      BY <1>7, <3>1
    <3> QED BY <1>2, <1>3, <1>6, <3>2
  <2> QED BY <1>8, <2>1 DEF Listing
<1> QED BY <1>9, <1>10 DEF lines, out, e, d

(* A client writes: whether it arrives or not, it asks no more than once.  *)
LEMMA TurnWrites ==
  ASSUME NEW c \in ClientRec, c.pc = "write", c.out # <<>>, NEW in \in Seq(Unit),
         NEW s, NEW out, Turn(c, in, s, out)
  PROVE  Turn(Sent(c), in, s, out) /\ Turn(Sent(c), in \o Head(c.out), s, out)
<1> DEFINE h == Head(c.out)
           t == Sent(c)
           z == in \o h
<1>1. c.out \in Seq(Seq(Unit)) /\ c.then \in {"prompt", "get_size", "ls", "pwd", "spin"}
  BY DEF ClientRec
<1>2. /\ h \in Seq(Unit) /\ h = c.out[1] /\ 1 \in DOMAIN c.out /\ Len(c.out) \in Nat \ {0}
      /\ Len(Tail(c.out)) = Len(c.out) - 1 /\ Tail(c.out) \in Seq(Seq(Unit))
      /\ \A m \in 1..Len(Tail(c.out)) : Tail(c.out)[m] = c.out[m + 1]
  BY <1>1, EmptySeq, HeadTailProperties
<1>3. /\ z \in Seq(Unit) /\ Len(z) = Len(in) + Len(h)
      /\ \A i \in 1..Len(in) + Len(h) : z[i] = IF i <= Len(in) THEN in[i] ELSE h[i - Len(in)]
  BY <1>2, ConcatProperties
<1>4. /\ t \in ClientRec /\ t.pc = IF Len(c.out) = 1 THEN c.then ELSE "write"
      /\ Len(c.out) # 1 => t.out = Tail(c.out)
  BY SentType
<1>5. Asking(c, in, s, out) /\ Questions(c) /\ s = <<>> /\ out = <<>>
  BY DEF Turn, Answered
<1>6. \A i \in DOMAIN in : in[i] \in Unit /\ ~Asks(in[i])
  BY <1>5, AsksWaits DEF Asking
<1> HIDE DEF h, t, z
<1>7. \A x \in DOMAIN h : h[x] \in Unit /\ (Asks(h[x]) =>
        x = 1 /\ Len(c.out) = 1 /\ Len(h) = MAX /\ t.pc = Waits[h[x][2][1]])
  BY <1>2, <1>4, <1>5 DEF Questions
<1>8. Answered(t, <<>>, <<>>)
  <2>1. CASE t.pc = "write"
    BY <2>1 DEF Answered
  <2>2. CASE t.pc # "write"
    <3>1. t.pc \notin {"off", "gone", "get_data"}
      BY <1>1, <1>4
    <3>2. Turn(t, <<>>, <<>>, <<>>)
      BY <1>4, <2>2, <3>1, TurnNothing
    <3> QED BY <3>1, <3>2 DEF Turn
  <2> QED BY <2>1, <2>2
<1>9. ASSUME t.pc = "write" PROVE Questions(t)
  <2>1. Len(c.out) # 1 /\ t.out = Tail(c.out)
    BY <1>1, <1>4, <1>9
  <2> SUFFICES ASSUME NEW m \in DOMAIN t.out, NEW x \in DOMAIN t.out[m], Asks(t.out[m][x])
               PROVE  FALSE
    BY DEF Questions
  <2>2. m \in 1..Len(Tail(c.out)) /\ t.out[m] = c.out[m + 1]
    BY <1>2, <2>1
  <2>3. m + 1 \in DOMAIN c.out
    <3>1. m + 1 \in 1..Len(c.out)
      BY <1>2, <2>2
    <3> QED BY <1>1, <3>1
  <2>4. Len(c.out) = 1
    BY <1>5, <2>2, <2>3 DEF Questions
  <2> QED BY <2>1, <2>4
<1>10. Turn(t, in, s, out)
  BY <1>5, <1>6, <1>8, <1>9 DEF Turn, Asking
<1>11. Asking(t, z, <<>>, <<>>)
  <2> SUFFICES ASSUME NEW i \in DOMAIN z, Asks(z[i])
               PROVE  i + MAX - 1 = Len(z) /\ t.pc = Waits[z[i][2][1]]
    BY DEF Asking
  <2>1. i \in 1..Len(in) + Len(h) /\ Len(in) \in Nat /\ Len(h) \in Nat
    BY <1>2, <1>3
  <2>2. CASE i <= Len(in)
    <3>1. i \in DOMAIN in /\ z[i] = in[i]
      BY <1>3, <2>1, <2>2
    <3> QED BY <1>6, <3>1
  <2>3. CASE i > Len(in)
    <3>1. i - Len(in) \in 1..Len(h)
      BY <2>1, <2>3
    <3>2. i - Len(in) \in DOMAIN h /\ z[i] = h[i - Len(in)]
      BY <1>2, <1>3, <2>1, <2>3, <3>1
    <3>3. i - Len(in) = 1 /\ Len(h) = MAX
      BY <1>7, <3>2
    <3>4. t.pc = Waits[z[i][2][1]]
      BY <1>7, <3>2
    <3>5. i = Len(in) + 1 /\ Len(z) = Len(in) + MAX /\ MAX \in Nat
      BY <1>3, <2>1, <3>3, BufferAssumption
    <3>6. i + MAX - 1 = Len(z)
      BY <2>1, <3>5
    <3> QED BY <3>4, <3>6
  <2> QED BY <2>1, <2>2, <2>3
<1>12. Turn(t, z, s, out)
  BY <1>5, <1>8, <1>9, <1>11 DEF Turn
<1> QED BY <1>10, <1>12 DEF t, z, h

(* What a client writes for a line asks once if it waits for an answer,    *)
(* and otherwise not.                                                      *)
LEMMA AskQuestions ==
  ASSUME NEW cmd \in Cmd, cmd[1] \in DOMAIN Waits, NEW data \in Seq(Said), NEW c,
         c.out = <<Msg(Text(cmd))>> \o (IF cmd[1] = "put" THEN Sized(data) ELSE <<>>),
         c.then = Waits[cmd[1]]
  PROVE  Questions(c)
<1> DEFINE sized == IF cmd[1] = "put" THEN Sized(data) ELSE <<>>
           msg == Msg(Text(cmd))
           out == <<msg>> \o sized
<1>1. /\ sized \in Seq(Seq(Unit))
      /\ \A m \in DOMAIN sized : \A x \in DOMAIN sized[m] : ~Asks(sized[m][x])
      /\ cmd[1] # "put" => sized = <<>>
  <2>1. CASE cmd[1] = "put"
    <3>1. sized = Sized(data)
      BY <2>1
    <3> HIDE DEF sized
    <3> QED BY <2>1, <3>1, SizedType DEF Asks, IsCmd
  <2>2. CASE cmd[1] # "put"
    <3>1. sized = <<>>
      BY <2>2
    <3> HIDE DEF sized
    <3> QED BY <3>1
  <2> QED BY <2>1, <2>2
<1>2. Text(cmd) \in Unit /\ Text(cmd)[2] = cmd
  BY Texts
<1>3. /\ msg \in Seq(Unit) /\ Len(msg) = MAX /\ msg[1] = Text(cmd)
      /\ \A x \in 1..MAX : x # 1 => msg[x] = Pad
  BY <1>2, MsgLength
<1> HIDE DEF sized, msg
<1>4. <<msg>> \in Seq(Seq(Unit)) /\ Len(<<msg>>) = 1 /\ <<msg>>[1] = msg
  BY <1>3
<1>5. /\ Len(out) = 1 + Len(sized) /\ out \in Seq(Seq(Unit))
      /\ \A m \in 1..1 + Len(sized) : out[m] = IF m <= 1 THEN <<msg>>[m] ELSE sized[m - 1]
  BY <1>1, <1>4, ConcatProperties
<1>6. \A m \in DOMAIN out : m # 1 => m - 1 \in DOMAIN sized /\ out[m] = sized[m - 1]
  BY <1>1, <1>5
<1>7. c.out = out /\ out[1] = msg
  BY <1>1, <1>4, <1>5 DEF sized, msg
<1> HIDE DEF out
<1>8. ASSUME NEW m \in DOMAIN c.out, NEW x \in DOMAIN c.out[m], Asks(c.out[m][x])
      PROVE  /\ m = 1 /\ x = 1
             /\ Len(c.out) = 1 /\ Len(c.out[1]) = MAX
             /\ c.then = Waits[c.out[m][x][2][1]]
  <2>1. m = 1
    BY <1>1, <1>6, <1>7, <1>8
  <2>2. x \in 1..MAX /\ c.out[m] = msg
    BY <1>3, <1>7, <2>1
  <2>3. x = 1
    BY <1>3, <1>8, <2>2, AsksWaits
  <2>4. c.out[m][x] = Text(cmd) /\ cmd[1] # "put"
    BY <1>2, <1>3, <1>8, <2>2, <2>3 DEF Asks
  <2>5. Len(c.out) = 1
    BY <1>1, <1>5, <1>7, <2>4
  <2> QED BY <1>2, <1>3, <1>7, <2>1, <2>3, <2>4, <2>5
<1> QED BY <1>8 DEF Questions

LEMMA RestAvail ==
  ASSUME NEW s \in Seq(Said), s # <<>>
  PROVE  LET r == Rest(s, Avail(s)) IN
         /\ r \in Seq(Said) /\ Len(r) = Len(s) - Avail(s) /\ Len(s) \in Nat
         /\ Len(s) = Avail(s) => r = <<>>
         /\ Len(s) >= MAX => /\ Avail(s) = MAX
                             /\ \A i \in 1..Len(r) : r[i] = s[MAX + i]
<1>1. Avail(s) \in 1..Len(s) /\ Len(s) \in Nat /\ (Len(s) >= MAX => Avail(s) = MAX)
  BY AvailFacts
<1> DEFINE r == Rest(s, Avail(s))
<1>2. r \in Seq(Said) /\ Len(r) = Len(s) - Avail(s)
      /\ \A i \in 1..Len(s) - Avail(s) : r[i] = s[Avail(s) + i]
  BY <1>1, RestType
<1> HIDE DEF r
<1>3. Len(s) = Avail(s) => r = <<>>
  BY <1>1, <1>2, EmptySeq
<1> QED BY <1>1, <1>2, <1>3 DEF r

(* A client reads the answer of a pwd, or a message of that of an ls.      *)
LEMMA TurnReadsAnswer ==
  ASSUME NEW c \in ClientRec, c.pc \in {"ls", "pwd"}, NEW in, NEW s \in Seq(Said), s # <<>>,
         NEW out \in Seq(Seq(Said)), Turn(c, in, s, out)
  PROVE  /\ c.pc = "pwd" \/ Head(s) = <<"$">> => Turn(Prompt(c), in, Rest(s, Avail(s)), out)
         /\ ~(c.pc = "pwd" \/ Head(s) = <<"$">>) => Turn(c, in, Rest(s, Avail(s)), out)
<1> DEFINE r == Rest(s, Avail(s))
<1>1. Asking(c, in, s, out) /\ Answered(c, s, out)
  BY DEF Turn
<1>2. \A i \in DOMAIN in : ~Asks(in[i])
  BY <1>1 DEF Asking
<1>3. Head(s) = s[1] /\ 1 \in DOMAIN s /\ Len(s) \in Nat \ {0} /\ MAX \in Nat \ {0}
  BY EmptySeq, BufferAssumption
<1>4. /\ r \in Seq(Said) /\ Len(r) = Len(s) - Avail(s) /\ Len(s) \in Nat
      /\ Len(s) = Avail(s) => r = <<>>
      /\ Len(s) >= MAX => /\ Avail(s) = MAX
                          /\ \A i \in 1..Len(r) : r[i] = s[MAX + i]
  BY RestAvail
<1> HIDE DEF r
<1>5. ASSUME r = <<>>, out = <<>> PROVE Turn(Prompt(c), in, r, out)
  BY <1>2, <1>5, IdleType, TurnPrompt
<1>6. CASE c.pc = "pwd"
  <2>1. OneMessage(s, out)
    BY <1>1, <1>6 DEF Answered
  <2>2. Len(s) = MAX /\ out = <<>>
    BY <2>1 DEF OneMessage
  <2>3. r = <<>>
    BY <1>3, <1>4, <2>2
  <2> QED BY <1>5, <1>6, <2>2, <2>3 DEF r
<1>7. CASE c.pc = "ls" /\ Head(s) = <<"$">>
  <2>1. Listing(s, out)
    BY <1>1, <1>7 DEF Answered
  <2>2. 1 + MAX - 1 = Len(s) /\ out = <<>>
    BY <1>3, <1>7, <2>1 DEF Listing
  <2>3. r = <<>>
    <3>1. 1 + MAX - 1 = Len(s)
      BY <2>2
    <3>2. Len(s) = MAX
      BY <1>3, <3>1
    <3> QED BY <1>3, <1>4, <3>2
  <2> QED BY <1>5, <1>7, <2>2, <2>3 DEF r
<1>8. CASE c.pc = "ls" /\ Head(s) # <<"$">>
  <2>1. Listing(s, out)
    BY <1>1, <1>8 DEF Answered
  <2>2. PICK m \in Nat : Len(s) = m * MAX
    BY <2>1 DEF Listing
  <2>3. m - 1 \in Nat /\ m = (m - 1) + 1
    <3>1. m # 0
      <4>1. 0 * MAX = 0
        BY <1>3
      <4> QED BY <1>3, <2>2, <4>1
    <3> QED BY <3>1
  <2>4. (m - 1) * MAX \in Nat /\ Len(s) = (m - 1) * MAX + MAX
    BY <2>2, <2>3, Times, TimesNext
  <2> DEFINE b == (m - 1) * MAX
  <2>5. b \in Nat /\ Len(s) = b + MAX
    BY <2>4
  <2>6. Len(s) >= MAX
    <3> HIDE DEF b
    <3> QED BY <1>3, <2>5
  <2>7. Len(r) = b
    <3> HIDE DEF b
    <3> QED BY <1>3, <1>4, <2>5, <2>6
  <2>8. ASSUME NEW i \in DOMAIN r, r[i] = <<"$">>
        PROVE  i + MAX - 1 = Len(r) /\ out = <<>>
    <3>1. i \in 1..Len(r) /\ i \in Nat
      BY <1>4
    <3>2. MAX \in Nat /\ Len(s) \in Nat /\ Len(r) = Len(s) - MAX
      BY <1>3, <1>4, <2>6
    <3>3. MAX + i \in DOMAIN s
      <4>1. MAX + i \in 1..Len(s)
        BY <3>1, <3>2
      <4> QED BY <4>1
    <3>4. s[MAX + i] = <<"$">>
      BY <1>4, <2>6, <2>8, <3>1
    <3>5. MAX + i + MAX - 1 = Len(s) /\ out = <<>>
      BY <2>1, <3>3, <3>4 DEF Listing
    <3>6. MAX + i + MAX - 1 = Len(s)
      BY <3>5
    <3>7. i + MAX - 1 = Len(r)
      <4>1. \A x, y, d \in Nat : y + x + y - 1 = d => x + y - 1 = d - y
        OBVIOUS
      <4>2. i \in Nat /\ MAX \in Nat /\ Len(s) \in Nat
        BY <3>1, <3>2
      <4> QED BY <3>2, <3>6, <4>1, <4>2
    <3> QED BY <3>5, <3>7
  <2>9. Listing(r, out)
    <3>1. \E q \in Nat : Len(r) = q * MAX
      BY <2>3, <2>7
    <3> QED BY <2>1, <2>8, <3>1 DEF Listing
  <2> QED BY <1>2, <1>8, <2>9 DEF Turn, Asking, Answered, r
<1> QED BY <1>6, <1>7, <1>8

(* A client reads the size of a file.                                      *)
LEMMA TurnReadsSize ==
  ASSUME NEW c \in ClientRec, c.pc = "get_size", NEW in, NEW s \in Seq(Said), s # <<>>,
         NEW out \in Seq(Seq(Said)), Turn(c, in, s, out), NEW size \in SizesIn(Head(s))
  PROVE  Turn(Goes([c EXCEPT !.left = size], IF size <= 0 THEN "prompt" ELSE "get_data"),
              in, Rest(s, Avail(s)), out)
<1> DEFINE r == Rest(s, Avail(s))
           sized == [c EXCEPT !.left = size]
           t == Goes(sized, "get_data")
<1>1. Asking(c, in, s, out) /\ SizeAndData(s, out)
  BY DEF Turn, Answered
<1>2. \A i \in DOMAIN in : ~Asks(in[i])
  BY <1>1 DEF Asking
<1>3. PICK n \in Nat : Carries(out, n) /\ Announces(s, n)
  BY <1>1 DEF SizeAndData
<1>4. Head(s) = s[1] /\ s[1] \in Unit /\ MAX \in Nat
  BY EmptySeq, SaidUnit, BufferAssumption
<1>5. size = s[1][2] /\ size \in Int /\ size > 0 /\ Len(s) >= MAX /\ Len(s) - MAX + n <= size
  BY <1>3, <1>4, UnitKinds DEF Announces, SizesIn
<1>6. r \in Seq(Said) /\ Len(r) = Len(s) - MAX /\ Len(s) \in Nat
  BY <1>5, RestAvail
<1>7. sized \in ClientRec /\ sized.left = size
  BY <1>5 DEF ClientRec
<1> HIDE DEF r, sized
<1>8. t.pc = "get_data" /\ t.left = size
  BY <1>7 DEF Goes, ClientRec
<1> HIDE DEF t
<1>9. Len(r) + n <= t.left
  BY <1>4, <1>5, <1>6, <1>8
<1>10. Turn(t, in, r, out)
  BY <1>2, <1>3, <1>8, <1>9 DEF Turn, Asking, Answered
<1>11. ~(size <= 0)
  BY <1>5
<1> QED BY <1>10, <1>11 DEF t, r, sized

(* A client reads data of a file, or the end of it.                        *)
LEMMA TurnReadsData ==
  ASSUME NEW c \in ClientRec, c.pc = "get_data", NEW in, NEW s \in Seq(Said), s # <<>>,
         NEW out \in Seq(Seq(Said)), Turn(c, in, s, out)
  PROVE  Turn(Received(c, Avail(s)), in, Rest(s, Avail(s)), out)
<1> DEFINE n == Avail(s)
           r == Rest(s, n)
           left == c.left - n
           off == c.off + n
           got == [c EXCEPT !.left = left, !.off = off]
<1>1. Asking(c, in, s, out) /\ Answered(c, s, out)
  BY DEF Turn
<1>2. \A i \in DOMAIN in : ~Asks(in[i])
  BY <1>1 DEF Asking
<1>3. PICK more \in Nat : Carries(out, more) /\ Len(s) + more <= c.left
  BY <1>1 DEF Answered
<1>4. n \in 1..Len(s) /\ Len(s) \in Nat /\ c.left \in Int /\ c.off \in Nat
  BY AvailFacts DEF ClientRec
<1>5. r \in Seq(Said) /\ Len(r) = Len(s) - n /\ (Len(s) = n => r = <<>>)
  BY RestAvail
<1>6. Received(c, n) = Goes(got, IF c.left <= n THEN "prompt" ELSE "get_data")
  BY DEF Received
<1> HIDE DEF n, r
<1>7. left \in Int /\ off \in Nat /\ left = c.left - n
  BY <1>4
<1> HIDE DEF left, off
<1>8. got \in ClientRec /\ got.left = left
  BY <1>7 DEF ClientRec
<1> HIDE DEF got
<1>9. CASE c.left <= n
  <2>1. more = 0 /\ Len(s) = n
    BY <1>3, <1>4, <1>9
  <2>2. out = <<>>
    <3>1. out \in Seq(Seq(Unit))
      BY SaidUnit
    <3> QED BY <1>3, <2>1, <3>1, CarriesNone
  <2>3. Received(c, n) = Prompt(got)
    BY <1>6, <1>9 DEF Goes
  <2> QED BY <1>2, <1>5, <1>8, <2>1, <2>2, <2>3, IdleType, TurnPrompt DEF n, r
<1>10. CASE ~(c.left <= n)
  <2> DEFINE t == Received(c, n)
  <2>1. t = [got EXCEPT !.pc = "get_data"]
    BY <1>6, <1>10 DEF Goes
  <2>2. t.pc = "get_data" /\ t.left = left
    BY <1>8, <2>1 DEF ClientRec
  <2> HIDE DEF t
  <2>3. Len(r) + more <= t.left
    BY <1>3, <1>4, <1>5, <1>7, <2>2
  <2>4. Turn(t, in, r, out)
    BY <1>2, <1>3, <2>2, <2>3 DEF Turn, Asking, Answered
  <2> QED BY <2>4 DEF t, n, r
<1> QED BY <1>9, <1>10

-----------------------------------------------------------------------------
(* Turns.                                                                  *)

LEMMA TurnsStep ==
  ASSUME NEW k \in Clients, TurnsTaken, cuts' = 0 => cuts = 0,
         \A j \in Clients \ {k} : /\ cl'[j] = cl[j] /\ c2s'[j] = c2s[j] /\ s2c'[j] = s2c[j]
                                  /\ Out(j)' = Out(j),
         cuts' = 0 /\ ~cl'[k].odd => Turn(cl'[k], c2s'[k], s2c'[k], Out(k)')
  PROVE  TurnsTaken'
BY DEF TurnsTaken, InStep

(* What the server sends a client that asks is what it waits for.          *)
LEMMA AnswerOut ==
  ASSUME sv \in ServerRec, NEW k \in Clients, k = sv.client, NEW line, NEW writes,
         NEW then \in {"read", "put_size", "spin", "fail"}, Answer(line, writes, then)
  PROVE  sv'.client = k /\ Out(k)' = writes
BY DEF Out, Answer, ServerRec

LEMMA ExecuteAnswers ==
  ASSUME Types, NEW k \in Clients, k = sv.client, NEW unit \in Unit, Execute(unit)
  PROVE  /\ ~Asks(unit) => Out(k)' = <<>>
         /\ Asks(unit) => \A c \in ClientRec :
              c.pc = Waits[unit[2][1]] => Answered(c, <<>>, Out(k)')
<1> USE DEF Types
<1>1. sv \in ServerRec
  BY DEF ServerOK
<1> DEFINE op == unit[2][1]
           arg == unit[2][2]
           out == Out(k)'
<1>2. CASE unit[1] # "cmd"
  <2>1. Answer(unit, <<>>, "read")
    BY <1>2 DEF Execute
  <2> QED BY <1>1, <1>2, <2>1, AnswerOut DEF Asks, IsCmd
<1>3. CASE unit[1] = "cmd" /\ op = "get" /\ server_get(unit, arg)
  <2> DEFINE data == Content(sfile[cwd], arg)
             none == <<>>
             dir == <<Msg(<<"size", DirSize>>)>>
             file == Sized(data)
  <2>1. data \in Seq(Said)
    BY <1>3, UnitKinds DEF ServerFilesOK, Cmd
  <2>2. \/ Answer(unit, dir, "spin")
        \/ Answer(unit, none, "read")
        \/ data # <<>> /\ Answer(unit, file, "read")
    BY <1>3 DEF server_get
  <2>3. SizeAndData(<<>>, dir) /\ SizeAndData(<<>>, none)
        /\ (data # <<>> => SizeAndData(<<>>, file))
    BY <2>1, AnswerDir, AnswerGet DEF SizeAndData
  <2> HIDE DEF dir, file, none, data
  <2>4. SizeAndData(<<>>, out)
    BY <1>1, <2>2, <2>3, AnswerOut
  <2>5. Asks(unit) /\ Waits["get"] = "get_size"
    BY <1>3 DEF Asks, IsCmd, Waits
  <2> HIDE DEF out
  <2>6. \A c \in ClientRec : c.pc = "get_size" => Answered(c, <<>>, out)
    BY <2>4 DEF Answered
  <2> QED BY <1>3, <2>5, <2>6 DEF out
<1>4. CASE unit[1] = "cmd" /\ op = "put" /\ Answer(unit, <<>>, "put_size")
  BY <1>1, <1>4, AnswerOut DEF Asks
<1>5. CASE unit[1] = "cmd" /\ op = "ls" /\ ls_dir(unit, arg)
  <2> DEFINE d == Dir(arg)
             lines(n) == [i \in 1..n |-> Msg(<<"entry">>)]
             all(n) == lines(n) \o <<Msg(<<"$">>)>>
             none == <<>>
             found == IF d = "none" THEN {} ELSE {".", ".."} \cup (Entries(d) \cap Entries(cwd))
  <2>1. d \in DOMAIN sfile \cup {"none"}
    BY DEF Dir, ServerFilesOK
  <2>2. d # "none" => Cardinality(found) \in Nat
    <3> SUFFICES ASSUME d # "none" PROVE Cardinality(found) \in Nat
      OBVIOUS
    <3>1. IsFiniteSet(Entries(d) \cap Entries(cwd))
      BY <2>1, EntriesFinite, FS_Subset
    <3>2. {".", ".."} = {"."} \cup {".."} /\ IsFiniteSet({"."}) /\ IsFiniteSet({".."})
      BY FS_Singleton
    <3>3. IsFiniteSet({".", ".."})
      BY <3>2, FS_Union
    <3> QED BY <3>1, <3>3, FS_Union, FS_CardinalityType
  <2>3. \A n \in Nat : Listing(<<>>, lines(n)) /\ Listing(<<>>, all(n))
    BY AnswerLs
  <2>4. Listing(<<>>, none)
    <3>1. lines(0) = <<>> /\ 0 \in Nat
      OBVIOUS
    <3> QED BY <2>3, <3>1
  <2>5. \/ Answer(unit, none, "fail")
        \/ d # "none" /\ Answer(unit, all(Cardinality(found)), "read")
        \/ d # "none" /\ \E n \in 0..Cardinality(found) : Answer(unit, lines(n), "fail")
    BY <1>5 DEF ls_dir
  <2> HIDE DEF lines, all, none, found
  <2>6. Listing(<<>>, out)
    <3>1. CASE Answer(unit, none, "fail")
      BY <1>1, <2>4, <3>1, AnswerOut
    <3>2. CASE d # "none" /\ Answer(unit, all(Cardinality(found)), "read")
      BY <1>1, <2>2, <2>3, <3>2, AnswerOut
    <3>3. CASE d # "none" /\ \E n \in 0..Cardinality(found) : Answer(unit, lines(n), "fail")
      <4>1. PICK n \in 0..Cardinality(found) : Answer(unit, lines(n), "fail")
        BY <3>3
      <4>2. n \in Nat
        BY <2>2, <3>3
      <4> QED BY <1>1, <2>3, <4>1, <4>2, AnswerOut
    <3> QED BY <2>5, <3>1, <3>2, <3>3
  <2>7. Asks(unit) /\ Waits["ls"] = "ls"
    BY <1>5 DEF Asks, IsCmd, Waits
  <2> HIDE DEF out
  <2>8. \A c \in ClientRec : c.pc = "ls" => Answered(c, <<>>, out)
    BY <2>6 DEF Answered
  <2> QED BY <1>5, <2>7, <2>8 DEF out
<1>6. CASE unit[1] = "cmd" /\ op = "pwd" /\ Answer(unit, <<Msg(<<"dir", cwd>>)>>, "read")
  <2> DEFINE dir == <<Msg(<<"dir", cwd>>)>>
  <2>1. <<"dir", cwd>> \in Said
    BY DEF ServerFilesOK, Said
  <2>2. OneMessage(<<>>, dir) /\ Answer(unit, dir, "read")
    BY <1>6, <2>1, AnswerPwd
  <2> HIDE DEF dir
  <2>3. OneMessage(<<>>, out)
    BY <1>1, <2>2, AnswerOut
  <2>4. Asks(unit) /\ Waits["pwd"] = "pwd"
    BY <1>6 DEF Asks, IsCmd, Waits
  <2> HIDE DEF out
  <2>5. \A c \in ClientRec : c.pc = "pwd" => Answered(c, <<>>, out)
    BY <2>3 DEF Answered
  <2> QED BY <1>6, <2>4, <2>5 DEF out
<1>7. CASE unit[1] = "cmd" /\ op \in {"cd", "mkdir", "rmdir", "rm"} /\ Silent(unit, op, arg)
  BY <1>1, <1>7, AnswerOut DEF Silent, Asks
<1> QED BY <1>2, <1>3, <1>4, <1>5, <1>6, <1>7 DEF Execute

LEMMA OutType ==
  ASSUME ServerOK
  PROVE  /\ \A k \in Clients : Out(k) \in Seq(Seq(Said))
         /\ \A k \in Clients : k # sv.client => Out(k) = <<>>
         /\ sv.pc # "write" => \A k \in Clients : Out(k) = <<>>
BY DEF Out, ServerOK, ServerRec

LEMMA TurnsServerStep ==
  ASSUME TurnsTaken, NEW k \in Clients, k = sv.client, UNCHANGED cl,
         sv'.client \in {k, Nobody},
         \A j \in Clients : j # k => c2s'[j] = c2s[j] /\ s2c'[j] = s2c[j],
         cuts' = 0 => cuts = 0,
         InStep(k)' /\ cl[k].pc \notin {"off", "gone"} =>
           Turn(cl[k], c2s'[k], s2c'[k], Out(k)')
  PROVE  TurnsTaken'
<1>1. \A j \in Clients \ {k} : Out(j)' = Out(j)
  BY ClientAssumption DEF Out
<1>2. cuts' = 0 /\ ~cl'[k].odd => Turn(cl'[k], c2s'[k], s2c'[k], Out(k)')
  BY DEF Turn, InStep
<1> QED BY <1>1, <1>2, TurnsStep

(* The server reads what a client sent and does not answer.                *)
LEMMA TurnsUnanswered ==
  ASSUME IInv, ConnectionsOK, TurnsTaken, NEW k \in Clients, k = sv.client,
         NEW n, ServerReads(n), sv.pc # "write", sv'.client = k, Out(k)' = <<>>
  PROVE  TurnsTaken'
<1>1. c2s[k] \in Seq(Unit) /\ c2s' = [c2s EXCEPT ![k] = Rest(c2s[k], n)] /\ UNCHANGED <<s2c, cl>>
  BY DEF IInv, Types, StreamsOK, ServerReads
<1>2. (cuts' = 0 => cuts = 0 /\ n = Avail(c2s[k])) /\ c2s[k] # <<>>
  BY <1>1, ReadAll DEF ServerReads, ConnectionsOK
<1>3. /\ c2s'[k] = Rest(c2s[k], n)
      /\ \A j \in Clients : j # k => c2s'[j] = c2s[j]
  BY <1>1 DEF IInv, Types, StreamsOK
<1>4. Out(k) = <<>>
  BY OutType DEF IInv, Types
<1>5. InStep(k)' => Turn(cl[k], c2s'[k], s2c'[k], Out(k)')
  BY <1>1, <1>2, <1>3, <1>4, TurnRead DEF TurnsTaken, InStep
<1> QED BY <1>1, <1>2, <1>3, <1>5, TurnsServerStep

(* What the server reads for a line of a client in step is a command.      *)
LEMMA CommandFirst ==
  ASSUME IInv, HistoryOK, NoneLost, NEW k \in Clients, k = sv.client, sv.pc = "read",
         cl[k].pc # "gone", InStep(k), c2s[k] # <<>>
  PROVE  IsCmd(Head(c2s[k])) /\ Avail(c2s[k]) = MAX
<1>1. Lossless(k, cl[k].out, c2s[k], asked[k], done[k], sv)
  BY DEF NoneLost, Regular, InStep
<1>2. Kept(c2s[k], cl[k].out, asked[k], done[k], 0)
  BY <1>1 DEF Lossless, Expects
<1> QED BY <1>2, HistoryTypes, KeptLine

LEMMA TurnsLine ==
  ASSUME IInv, HistoryOK, NoneLost, ConnectionsOK, TurnsTaken,
         NEW k \in Clients, k = sv.client, ServerReadsLine
  PROVE  TurnsTaken'
<1> USE DEF IInv, Types
<1> DEFINE c == cl[k]
           in == c2s[k]
<1>1. sv \in ServerRec /\ sv.pc = "read" /\ in \in Seq(Unit) /\ c \in ClientRec
  BY DEF ServerReadsLine, ServerOK, StreamsOK, ClientsOK, ClientOK
<1>2. PICK n \in 1..MAX : ServerReads(n) /\ \E line \in Lines(Head(in), n) : Execute(line)
  BY DEF ServerReadsLine
<1>3. PICK line \in Lines(Head(in), n) : Execute(line)
  BY <1>2
<1>4. line \in Unit
  BY <1>1, <1>2, <1>3, ServerReadsType, LinesUnit DEF StreamsOK
<1>5. /\ ~Asks(line) => Out(k)' = <<>>
      /\ Asks(line) => \A x \in ClientRec :
           x.pc = Waits[line[2][1]] => Answered(x, <<>>, Out(k)')
  BY <1>1, <1>3, <1>4, ExecuteAnswers
<1>6. sv'.client = k
  BY <1>1, <1>3, ExecuteClient
<1>7. /\ c2s'[k] = Rest(in, n) /\ UNCHANGED <<s2c, cl>>
      /\ \A j \in Clients : j # k => c2s'[j] = c2s[j]
  BY <1>1, <1>2 DEF ServerReads, StreamsOK
<1>8. (cuts' = 0 => cuts = 0 /\ n = Avail(in)) /\ in # <<>>
  BY <1>1, <1>2, ReadAll DEF ServerReads, ConnectionsOK
<1>9. Out(k) = <<>>
  BY <1>1, OutType
<1>10. ASSUME InStep(k)', c.pc \notin {"off", "gone"}
       PROVE  Turn(c, c2s'[k], s2c'[k], Out(k)')
  <2>1. InStep(k) /\ n = Avail(in)
    BY <1>7, <1>8, <1>10 DEF InStep
  <2>2. Turn(c, in, s2c[k], <<>>)
    BY <1>9, <2>1 DEF TurnsTaken
  <2>3. IsCmd(Head(in)) /\ n = MAX
    BY <1>1, <1>8, <1>10, <2>1, CommandFirst
  <2>4. line = Head(in)
    BY <1>3, <2>3, CommandRead
  <2> HIDE DEF c, in
  <2>5. CASE ~Asks(line)
    BY <1>1, <1>5, <1>7, <1>8, <2>1, <2>2, <2>5, TurnRead
  <2>6. CASE Asks(line)
    <3>1. c.pc = Waits[line[2][1]] /\ s2c[k] = <<>> /\ Rest(in, n) = <<>>
      BY <1>1, <1>8, <1>10, <2>1, <2>2, <2>4, <2>6, TurnAsks
    <3>2. Answered(c, <<>>, Out(k)')
      BY <1>1, <1>5, <2>6, <3>1
    <3>3. c.pc # "write"
      BY <1>4, <2>6, <3>1, AsksWaits
    <3>4. Turn(c, <<>>, <<>>, Out(k)')
      BY <3>2, <3>3 DEF Turn, Asking
    <3> QED BY <1>7, <3>1, <3>4
  <2> QED BY <2>5, <2>6
<1> QED BY <1>6, <1>7, <1>8, <1>10, TurnsServerStep

LEMMA ServerTakesTurns ==
  IInv /\ HistoryOK /\ NoneLost /\ ConnectionsOK /\ TurnsTaken /\ Server => TurnsTaken'
<1> SUFFICES ASSUME IInv, HistoryOK, NoneLost, ConnectionsOK, TurnsTaken, Server
             PROVE  TurnsTaken'
  OBVIOUS
<1> USE DEF IInv, Types
<1>1. sv \in ServerRec
  BY DEF ServerOK
<1>2. ASSUME ServerEnd, NEW k \in Clients, k = sv.client, sv'.client \in {k, Nobody}
      PROVE  TurnsTaken'
  <2>1. cl[k].pc = "gone" /\ UNCHANGED <<c2s, s2c, cl, cuts>>
    BY <1>1, <1>2 DEF ServerEnd, EndsBy, ServerRec
  <2> QED BY <1>2, <2>1, TurnsServerStep
<1>3. CASE Accept
  <2>1. sv.pc = "accept" /\ sv'.pc = "read" /\ UNCHANGED <<c2s, s2c, cl, cuts>>
    BY <1>1, <1>3 DEF Accept, history, ServerRec
  <2>2. \A j \in Clients : Out(j)' = Out(j)
    BY <2>1 DEF Out
  <2> QED BY <2>1, <2>2 DEF TurnsTaken, InStep
<1>4. CASE ServerWrite
  <2> PICK k \in Clients : k = sv.client
    BY <1>1, <1>4 DEF ServerWrite, ServerOK
  <2>1. /\ sv.out \in Seq(Seq(Said)) /\ sv.out # <<>>
        /\ sv.then # "write" /\ Out(k) = sv.out
    BY <1>1, <1>4 DEF ServerWrite, ServerOK, ServerRec, Out
  <2>2. UNCHANGED <<c2s, cl, cuts>> /\ sv'.client = k
    BY <1>1, <1>4 DEF ServerWrite, history, ServerRec
  <2>3. /\ \A j \in Clients : j # k => s2c'[j] = s2c[j]
        /\ link[k].s = "up" => s2c'[k] = s2c[k] \o Head(sv.out)
    BY <1>4, <2>1 DEF ServerWrite, StreamsOK
  <2>4. Out(k)' = Tail(sv.out)
    <3>1. sv'.out = Tail(sv.out) /\ sv'.pc = IF Len(sv.out) = 1 THEN sv.then ELSE "write"
      BY <1>1, <1>4 DEF ServerWrite, ServerRec
    <3>2. Len(Tail(sv.out)) = Len(sv.out) - 1 /\ Tail(sv.out) \in Seq(Seq(Said))
      BY <2>1, HeadTailProperties
    <3>4. Len(sv.out) = 1 => Len(Tail(sv.out)) = 0
      BY <3>2
    <3>3. Len(sv.out) = 1 => Tail(sv.out) = <<>>
      BY <3>2, <3>4, EmptySeq
    <3> QED BY <2>1, <2>2, <3>1, <3>3 DEF Out
  <2>5. ASSUME InStep(k)', cl[k].pc \notin {"off", "gone"}
        PROVE  Turn(cl[k], c2s'[k], s2c'[k], Out(k)')
    <3>1. link[k].s = "up"
      BY <2>1, <2>5 DEF EndsBy
    <3>2. Turn(cl[k], c2s[k], s2c[k], sv.out)
      BY <2>1, <2>2, <2>5 DEF TurnsTaken, InStep
    <3>3. cl[k] \in ClientRec /\ c2s[k] \in Seq(Unit) /\ s2c[k] \in Seq(Said)
      BY <2>1 DEF ClientsOK, ClientOK, StreamsOK
    <3>4. Turn(cl[k], c2s[k], s2c[k] \o Head(sv.out), Tail(sv.out))
      BY <2>1, <3>2, <3>3, TurnServes
    <3> QED BY <2>2, <2>3, <2>4, <3>1, <3>4
  <2> QED BY <2>1, <2>2, <2>3, <2>5, TurnsServerStep
<1>5. CASE ServerFails
  <2>1. sv'.pc = "dead" /\ UNCHANGED <<s2c, cl, cuts>> /\ c2s' = [j \in Clients |-> <<>>]
    BY <1>1, <1>5 DEF ServerFails, ServerDies, history, ServerRec
  <2>2. \A j \in Clients : Out(j)' = <<>>
    BY <2>1 DEF Out
  <2>3. ASSUME NEW j \in Clients, InStep(j) PROVE Turn(cl[j], <<>>, s2c[j], <<>>)
    <3>1. /\ cl[j] \in ClientRec /\ s2c[j] \in Seq(Said) /\ Out(j) \in Seq(Seq(Said))
          /\ Turn(cl[j], c2s[j], s2c[j], Out(j))
      BY <2>3, OutType DEF ClientsOK, ClientOK, StreamsOK, TurnsTaken
    <3> QED BY <3>1, TurnDies
  <2> QED BY <2>1, <2>2, <2>3 DEF TurnsTaken, InStep
<1>6. CASE ServerReadsLine
  <2> PICK k \in Clients : k = sv.client
    BY <1>6 DEF ServerReadsLine, ServerOK
  <2> QED BY <1>6, TurnsLine
<1>7. CASE ServerLosesClient
  <2> PICK k \in Clients : k = sv.client
    BY <1>7 DEF ServerLosesClient, ServerOK
  <2>1. ServerEnd /\ sv'.client \in {k, Nobody}
    BY <1>1, <1>7, ExecuteClient DEF ServerLosesClient, ServerRec
  <2> QED BY <1>2, <2>1
<1>8. CASE ServerReadsSize \/ ServerReadsData
  <2> PICK k \in Clients : k = sv.client
    BY <1>8 DEF ServerReadsSize, ServerReadsData, ServerOK
  <2>1. /\ sv.pc # "write" /\ sv'.client = k
        /\ (\E sizes : PutSize(sizes)) \/ (\E n : PutCount(n))
    BY <1>1, <1>8, PutClient DEF ServerReadsSize, ServerReadsData, ServerOK
  <2>2. Out(k)' = <<>>
    <3>1. sv.pc \in {"put_size", "put_data"}
      BY <1>8 DEF ServerReadsSize, ServerReadsData
    <3>2. sv'.pc # "write"
      <4>1. CASE \E sizes : PutSize(sizes)
        BY <1>1, <4>1 DEF PutSize, ServerRec
      <4>2. CASE \E n : PutCount(n)
        BY <1>1, <3>1, <4>2 DEF PutCount, ServerRec
      <4> QED BY <2>1, <4>1, <4>2
    <3> QED BY <3>2 DEF Out
  <2>3. CASE ServerEnd
    BY <1>2, <2>1, <2>3
  <2>4. CASE \E n \in 1..MAX : ServerReads(n)
    BY <2>1, <2>2, <2>4, TurnsUnanswered
  <2> QED BY <1>8, <2>3, <2>4 DEF ServerReadsSize, ServerReadsData
<1> QED BY <1>3, <1>4, <1>5, <1>6, <1>7, <1>8 DEF Server

(* A client does nothing that the server sees but change its state.        *)
LEMMA TurnsClientStep ==
  ASSUME IInv, TurnsTaken, NEW k \in Clients, NEW c, cl' = [cl EXCEPT ![k] = c], UNCHANGED sv,
         \A j \in Clients \ {k} : c2s'[j] = c2s[j] /\ s2c'[j] = s2c[j],
         cuts' = 0 => cuts = 0,
         cuts' = 0 /\ ~c.odd => Turn(c, c2s'[k], s2c'[k], Out(k))
  PROVE  TurnsTaken'
<1>1. cl'[k] = c /\ \A j \in Clients \ {k} : cl'[j] = cl[j]
  BY ClientsOther
<1>2. \A j \in Clients : Out(j)' = Out(j)
  BY DEF Out
<1> QED BY <1>1, <1>2, TurnsStep

LEMMA EndsTurns ==
  ASSUME IInv, TurnsTaken, NEW k \in Clients, ClientEnds(k), cuts' = cuts
  PROVE  TurnsTaken'
<1> DEFINE gone == [Idle EXCEPT !.pc = "gone"]
<1>1. cl' = [cl EXCEPT ![k] = gone] /\ gone.pc = "gone"
  BY IdleType DEF ClientEnds
<1> HIDE DEF gone
<1>2. UNCHANGED <<sv, c2s>> /\ \A j \in Clients \ {k} : s2c'[j] = s2c[j]
  BY DEF ClientEnds, IInv, Types, StreamsOK
<1>3. Turn(gone, c2s'[k], s2c'[k], Out(k))
  BY <1>1 DEF Turn
<1> QED BY <1>1, <1>2, <1>3, TurnsClientStep

(* The end of the stream of a client: nothing is left of its turn.         *)
LEMMA EndTurns ==
  ASSUME IInv, ConnectionsOK, TurnsTaken, NEW k \in Clients, ClientEnd(k),
         NEW c \in ClientRec, cl' = [cl EXCEPT ![k] = c],
         c.pc # "write", c.pc = "get_data" => c.left >= 0
  PROVE  TurnsTaken'
<1>1. UNCHANGED <<sv, c2s, s2c, cuts>> /\ s2c[k] = <<>> /\ c2s[k] = <<>> /\ sv.pc = "dead"
  BY DEF ClientEnd, history, ConnectionsOK
<1>2. Out(k) = <<>>
  BY <1>1 DEF Out
<1>3. Turn(c, <<>>, <<>>, <<>>)
  BY TurnNothing
<1> QED BY <1>1, <1>2, <1>3, TurnsClientStep

(* A read of a client that takes all there is.                             *)
LEMMA ReadTurns ==
  ASSUME IInv, ConnectionsOK, TurnsTaken, NEW k \in Clients, NEW n, ClientReads(k, n),
         ReadAnswer(k) \/ ReadSize(k) \/ ReadData(k), NEW c, cl' = [cl EXCEPT ![k] = c],
         cuts = 0 /\ n = Avail(s2c[k]) /\ s2c[k] # <<>> /\ Turn(cl[k], c2s[k], s2c[k], Out(k))
           => Turn(c, c2s[k], Rest(s2c[k], n), Out(k))
  PROVE  TurnsTaken'
<1>1. s2c[k] \in Seq(Said)
  BY DEF IInv, Types, StreamsOK
<1>2. /\ UNCHANGED <<sv, c2s>> /\ s2c'[k] = Rest(s2c[k], n)
      /\ \A j \in Clients \ {k} : s2c'[j] = s2c[j]
  BY DEF ClientReads, IInv, Types, StreamsOK
<1>3. (cuts' = 0 => cuts = 0 /\ n = Avail(s2c[k])) /\ s2c[k] # <<>>
  BY <1>1, ReadAll DEF ClientReads, ConnectionsOK
<1>5. c.odd = cl[k].odd
  BY ReadsForm, ClientsOther
<1>4. cuts' = 0 /\ ~c.odd => Turn(c, c2s'[k], s2c'[k], Out(k))
  BY <1>2, <1>3, <1>5 DEF TurnsTaken, InStep
<1> QED BY <1>2, <1>3, <1>4, TurnsClientStep

LEMMA AskTurns ==
  ASSUME IInv, TurnsTaken, NEW k \in Clients, NEW cmd \in Commands[k], Ask(k, cmd)
  PROVE  TurnsTaken'
<1>1. cmd \in Cmd
  BY CommandAssumption DEF Cmd, Name
<1>2. Content(cfile[k], cmd[2]) \in Seq(Said)
  BY <1>1 DEF IInv, Types, ClientsOK, ClientFilesOK, Cmd
<1>3. /\ cl'[k].pc = "write" /\ cl'[k].odd = (cl[k].odd \/ IsOdd(k, cmd))
      /\ \A j \in Clients \ {k} : cl'[j] = cl[j]
      /\ ~cl'[k].odd =>
           /\ cl'[k].then = Waits[cmd[1]]
           /\ cl'[k].out = <<Msg(Text(cmd))>> \o
                           (IF cmd[1] = "put" THEN Sized(Content(cfile[k], cmd[2])) ELSE <<>>)
  BY AskClient, RegularPut
<1>4. cl[k].pc = "prompt" /\ cmd[1] \in DOMAIN Waits /\ UNCHANGED <<c2s, s2c, sv, cuts>>
  BY DEF Ask
<1>5. ~cl'[k].odd => Questions(cl'[k])
  BY <1>1, <1>2, <1>3, <1>4, AskQuestions
<1>6. ASSUME cuts = 0, ~cl'[k].odd PROVE Turn(cl'[k], c2s[k], s2c[k], Out(k))
  <2>1. Asking(cl[k], c2s[k], s2c[k], Out(k)) /\ s2c[k] = <<>> /\ Out(k) = <<>>
    BY <1>3, <1>4, <1>6 DEF TurnsTaken, InStep, Turn, Answered
  <2>2. \A i \in DOMAIN c2s[k] : ~Asks(c2s[k][i])
    <3>1. \A i \in DOMAIN c2s[k] : c2s[k][i] \in Unit
      BY DEF IInv, Types, StreamsOK
    <3> QED BY <1>4, <2>1, <3>1, AsksWaits DEF Asking
  <2> QED BY <1>3, <1>5, <1>6, <2>1, <2>2 DEF Turn, Asking, Answered
<1>7. \A j \in Clients : Out(j)' = Out(j)
  BY <1>4 DEF Out
<1> QED BY <1>3, <1>4, <1>6, <1>7, TurnsStep

LEMMA ClientTakesTurns ==
  \A k \in Clients :
    IInv /\ ConnectionsOK /\ TurnsTaken /\ (User(k) \/ Client(k)) => TurnsTaken'
<1> SUFFICES ASSUME NEW k \in Clients, IInv, ConnectionsOK, TurnsTaken, User(k) \/ Client(k)
             PROVE  TurnsTaken'
  OBVIOUS
<1>1. /\ cl[k] \in ClientRec /\ c2s[k] \in Seq(Unit) /\ s2c[k] \in Seq(Said)
      /\ Out(k) \in Seq(Seq(Said))
  BY OutType DEF IInv, Types, ClientsOK, ClientOK, StreamsOK
<1>2. CASE Connect(k)
  <2> DEFINE c == [cl[k] EXCEPT !.pc = "prompt"]
  <2>1. cl' = [cl EXCEPT ![k] = c] /\ c.pc = "prompt"
    BY <1>1, <1>2 DEF Connect, ClientRec
  <2> HIDE DEF c
  <2>2. /\ UNCHANGED <<c2s, s2c, sv, cuts>> /\ c2s[k] = <<>> /\ s2c[k] = <<>>
        /\ Out(k) = <<>>
    BY <1>2 DEF Connect, history, ConnectionsOK, Out
  <2>3. Turn(c, <<>>, <<>>, <<>>)
    BY <2>1, TurnPrompt
  <2> QED BY <2>1, <2>2, <2>3, TurnsClientStep
<1>3. CASE Exit(k) \/ KillClient(k) \/ ClientPipe(k)
  BY <1>3, EndsTurns DEF Exit, KillClient, ClientPipe, ClientEnds
<1>4. CASE \E cmd \in Commands[k] : Ask(k, cmd)
  BY <1>4, AskTurns
<1>5. CASE ClientWrite(k)
  <2>1. /\ cl[k].pc = "write" /\ cl[k].out # <<>> /\ cl' = [cl EXCEPT ![k] = Sent(cl[k])]
        /\ UNCHANGED <<s2c, sv, cuts>>
    BY <1>5 DEF ClientWrite, history, IInv, Types, ClientsOK, ClientOK
  <2>2. /\ c2s'[k] = c2s[k] \/ c2s'[k] = c2s[k] \o Head(cl[k].out)
        /\ \A j \in Clients \ {k} : c2s'[j] = c2s[j]
    BY <1>5 DEF ClientWrite, IInv, Types, StreamsOK
  <2>3. ASSUME cuts = 0, ~Sent(cl[k]).odd PROVE Turn(Sent(cl[k]), c2s'[k], s2c'[k], Out(k))
    <3>1. Turn(cl[k], c2s[k], s2c[k], Out(k))
      BY <1>1, <2>1, <2>3, SentOut DEF TurnsTaken, InStep
    <3> QED BY <1>1, <2>1, <2>2, <3>1, TurnWrites
  <2> QED BY <2>1, <2>2, <2>3, TurnsClientStep
<1>6. CASE ReadAnswer(k)
  <2>1. cl[k].pc \in {"ls", "pwd"}
    BY <1>6 DEF ReadAnswer
  <2>2. CASE ClientEnd(k) /\ cl' = [cl EXCEPT ![k] = Prompt(@)]
    BY <1>1, <2>2, IdleType, EndTurns
  <2>3. CASE /\ \E n \in 1..MAX : ClientReads(k, n)
             /\ IF cl[k].pc = "pwd" \/ Head(s2c[k]) = <<"$">>
                THEN cl' = [cl EXCEPT ![k] = Prompt(@)] ELSE UNCHANGED cl
    <3>1. PICK n \in 1..MAX : ClientReads(k, n)
      BY <2>3
    <3> DEFINE ends == cl[k].pc = "pwd" \/ Head(s2c[k]) = <<"$">>
    <3>2. CASE ends
      <4>1. cl' = [cl EXCEPT ![k] = Prompt(cl[k])]
        BY <2>3, <3>2
      <4>2. n = Avail(s2c[k]) /\ s2c[k] # <<>> /\ Turn(cl[k], c2s[k], s2c[k], Out(k))
              => Turn(Prompt(cl[k]), c2s[k], Rest(s2c[k], n), Out(k))
        BY <1>1, <2>1, <3>2, TurnReadsAnswer
      <4> QED BY <1>6, <3>1, <4>1, <4>2, ReadTurns
    <3>3. CASE ~ends
      <4>1. cl' = [cl EXCEPT ![k] = cl[k]]
        BY <2>3, <3>3 DEF IInv, Types, ClientsOK
      <4>2. n = Avail(s2c[k]) /\ s2c[k] # <<>> /\ Turn(cl[k], c2s[k], s2c[k], Out(k))
              => Turn(cl[k], c2s[k], Rest(s2c[k], n), Out(k))
        BY <1>1, <2>1, <3>3, TurnReadsAnswer
      <4> QED BY <1>6, <3>1, <4>1, <4>2, ReadTurns
    <3> QED BY <3>2, <3>3
  <2> QED BY <1>6, <2>2, <2>3 DEF ReadAnswer
<1>7. CASE ReadSize(k)
  <2> DEFINE sized(size) == [cl[k] EXCEPT !.left = size]
             next(size) == Goes(sized(size), IF size <= 0 THEN "prompt" ELSE "get_data")
  <2>1. cl[k].pc = "get_size"
    BY <1>7 DEF ReadSize
  <2>2. CASE \E n \in 1..MAX : ClientReads(k, n) /\ GetSize(k, SizesIn(Head(s2c[k])))
    <3>1. PICK n \in 1..MAX : ClientReads(k, n) /\ GetSize(k, SizesIn(Head(s2c[k])))
      BY <2>2
    <3>2. PICK size \in SizesIn(Head(s2c[k])) : cl' = [cl EXCEPT ![k] = next(size)]
      BY <3>1 DEF GetSize
    <3>3. n = Avail(s2c[k]) /\ s2c[k] # <<>> /\ Turn(cl[k], c2s[k], s2c[k], Out(k))
            => Turn(next(size), c2s[k], Rest(s2c[k], n), Out(k))
      BY <1>1, <2>1, TurnReadsSize
    <3> HIDE DEF next
    <3> QED BY <1>7, <3>1, <3>2, <3>3, ReadTurns
  <2>3. CASE ClientEnd(k) /\ GetSize(k, JunkSizes)
    <3>1. PICK size \in JunkSizes : cl' = [cl EXCEPT ![k] = next(size)]
      BY <2>3 DEF GetSize
    <3>2. size \in Int /\ sized(size) \in ClientRec /\ sized(size).left = size
      BY <1>1, JunkAssumption DEF ClientRec
    <3> HIDE DEF sized
    <3>3. /\ next(size) \in ClientRec /\ next(size).pc # "write"
          /\ next(size).pc = "get_data" => next(size).left >= 0
      <4>1. CASE size <= 0
        <5>1. next(size) = Goes(sized(size), "prompt")
          BY <4>1
        <5> QED BY <3>2, <5>1, GoesType
      <4>2. CASE ~(size <= 0)
        <5>1. next(size) = Goes(sized(size), "get_data")
          BY <4>2
        <5>2. /\ next(size) \in ClientRec /\ next(size).pc = "get_data"
              /\ next(size) = [sized(size) EXCEPT !.pc = "get_data"]
          BY <3>2, <5>1, GoesType
        <5>3. next(size).left = size
          BY <3>2, <5>2 DEF ClientRec
        <5> HIDE DEF next
        <5> QED BY <3>2, <4>2, <5>2, <5>3
      <4> QED BY <4>1, <4>2
    <3> HIDE DEF next
    <3> QED BY <2>3, <3>1, <3>3, EndTurns
  <2> QED BY <1>7, <2>2, <2>3 DEF ReadSize
<1>8. CASE ReadData(k)
  <2>1. cl[k].pc = "get_data"
    BY <1>8 DEF ReadData
  <2>2. CASE \E n \in 1..MAX : ClientReads(k, n) /\ cl' = [cl EXCEPT ![k] = Received(@, n)]
    <3>1. PICK n \in 1..MAX : ClientReads(k, n) /\ cl' = [cl EXCEPT ![k] = Received(cl[k], n)]
      BY <2>2
    <3>2. n = Avail(s2c[k]) /\ s2c[k] # <<>> /\ Turn(cl[k], c2s[k], s2c[k], Out(k))
            => Turn(Received(cl[k], n), c2s[k], Rest(s2c[k], n), Out(k))
      BY <1>1, <2>1, TurnReadsData
    <3> QED BY <1>8, <3>1, <3>2, ReadTurns
  <2>3. CASE ClientEnd(k) /\ cl' = [cl EXCEPT ![k].left = @ + 1]
    <3> DEFINE left == cl[k].left + 1
               c == [cl[k] EXCEPT !.left = left]
    <3>1. cl' = [cl EXCEPT ![k] = c]
      BY <2>3
    <3>2. left \in Int /\ left >= 0
      <4>1. cl[k].left \in Int /\ cl[k].left > 0
        BY <1>1, <2>1 DEF ClientRec, IInv, Types, ClientsOK, ClientOK
      <4> QED BY <4>1
    <3> HIDE DEF left
    <3>3. c \in ClientRec /\ c.left = left /\ c.pc = "get_data"
      BY <1>1, <2>1, <3>2 DEF ClientRec
    <3> HIDE DEF c
    <3> QED BY <2>3, <3>1, <3>2, <3>3, EndTurns
  <2> QED BY <1>8, <2>2, <2>3 DEF ReadData
<1> QED BY <1>2, <1>3, <1>4, <1>5, <1>6, <1>7, <1>8 DEF User, Client

LEMMA InitTurns == Init => TurnsTaken
<1> SUFFICES ASSUME Init, NEW k \in Clients PROVE cl[k].pc = "off"
  BY DEF TurnsTaken, Turn
<1> QED BY DEF Init, Idle

LEMMA NextTurns ==
  IInv /\ HistoryOK /\ NoneLost /\ ConnectionsOK /\ TurnsTaken /\ [Next]_vars => TurnsTaken'
<1> SUFFICES ASSUME IInv, HistoryOK, NoneLost, ConnectionsOK, TurnsTaken, [Next]_vars
             PROVE  TurnsTaken'
  OBVIOUS
<1>1. CASE UNCHANGED vars
  BY <1>1 DEF vars, TurnsTaken, InStep, Out
<1> QED BY <1>1, ServerTakesTurns, ClientTakesTurns DEF Next

LEMMA TurnsAnswersRead == IInv /\ TurnsTaken => AnswersRead
<1> SUFFICES ASSUME IInv, TurnsTaken, NEW k \in Clients, InStep(k), cl[k].pc = "prompt"
             PROVE  s2c[k] = <<>> /\ (sv.client = k => sv.pc # "write")
  BY DEF AnswersRead, InStep
<1>1. s2c[k] = <<>> /\ Out(k) = <<>>
  BY DEF TurnsTaken, Turn, Answered
<1> QED BY <1>1 DEF Out, IInv, Types, ServerOK

(* As long as no read is short, a client that put only files that fill     *)
(* whole buffers and asks for its next command has read the whole answer   *)
(* to the one before, for any number of clients, any files, and whatever   *)
(* the other clients put: client and server take turns, the server takes   *)
(* for a line what the client wrote for one, and what the client stops     *)
(* reading at is where the answer ends.                                    *)
THEOREM AnswersAlwaysRead == Spec => []AnswersRead
<1> DEFINE Taken == HistoryOK /\ ConnectionsOK /\ NoneLost /\ TurnsTaken
<1>1. Init => Taken
  BY InitHistory, InitConnections, InitLost, InitTurns
<1>2. IInv /\ Taken /\ [Next]_vars => Taken'
  BY NextHistory, NextConnections, NextLost, NextTurns
<1>3. IInv /\ Taken => AnswersRead
  BY TurnsAnswersRead
<1> HIDE DEF Taken
<1> QED BY <1>1, <1>2, <1>3, Invariance, PTL DEF Spec

-----------------------------------------------------------------------------
(* What a get brings.  What a client in step has of a file, what is in its *)
(* stream and what the server still has to write are the file as it is in  *)
(* the server's working directory: from the question to the last unit      *)
(* nothing changes there, because a client that waits has sent no other    *)
(* command, the server reads for a line only what was written for one, and *)
(* it serves no other client.                                              *)

NoCommand(in) == \A i \in DOMAIN in : ~IsCmd(in[i])

Question(c) == Text(<<"get", c.path>>)

\* The last command in the stream of a client that waits for a size, if there is one,
\* is its question.
Inquires(c, in) ==
  \/ NoCommand(in)
  \/ /\ Len(in) >= MAX /\ in[Len(in) - MAX + 1] = Question(c)
     /\ \A i \in DOMAIN in : i > Len(in) - MAX + 1 => ~IsCmd(in[i])

\* The units of s are those of data behind the first m ones.
Copies(data, s, m) ==
  /\ m + Len(s) <= Len(data)
  /\ \A i \in 1..Len(s) : s[i] = data[m + i]

\* The writes of out are what follows the first m units of data.
Parts(data, out, m) ==
  \E at \in [0..Len(out) -> 0..Len(data)] :
    /\ at[0] = m /\ at[Len(out)] = Len(data)
    /\ \A i \in 1..Len(out) : /\ Copies(data, out[i], at[i - 1])
                              /\ at[i] = at[i - 1] + Len(out[i])

\* After the first m units of data come those of s and the writes of out.
Remains(data, s, out, m) == Copies(data, s, m) /\ Parts(data, out, m + Len(s))

\* The size of data, and data.
Sends(data, s, out) ==
  \/ /\ s = <<>> /\ out # <<>>
     /\ Head(out) = Msg(<<"size", Len(data)>>) /\ Parts(data, Tail(out), 0)
  \/ /\ Len(s) >= MAX /\ s[1] = <<"size", Len(data)>>
     /\ Remains(data, Rest(s, MAX), out, 0)

Served(k, x) == x.client = k /\ x.pc # "accept"

\* A client in state c that gets data into file, with what it sent, what is sent to it,
\* what the server x is about to send.
Gets(k, c, in, s, out, x, data, file) ==
  /\ c.pc = "write" /\ c.then = "get_size" => c.out = <<Msg(Question(c))>>
  /\ c.pc = "get_size" =>
       /\ Inquires(c, in)
       /\ \/ s = <<>> /\ out = <<>>
          \/ Served(k, x) /\ (data = <<>> \/ Sends(data, s, out))
  /\ c.pc = "get_data" /\ c.path \notin ClientDirs =>
       \/ s = <<>> /\ x.pc = "dead"
       \/ /\ Served(k, x) /\ NoCommand(in)
          /\ \/ data = <<>>
             \/ /\ c.off + c.left = Len(data)
                /\ \A i \in 1..c.off : file[i] = data[i]
                /\ Remains(data, s, out, c.off)

Wanted(k) == Content(sfile[cwd], cl[k].path)
Gotten(k) == Content(cfile[k], cl[k].path)

GetsServed ==
  \A k \in Clients :
    InStep(k) => Gets(k, cl[k], c2s[k], s2c[k], Out(k), sv, Wanted(k), Gotten(k))

(* Parts of a file. *)
LEMMA PartsTail ==
  ASSUME NEW data \in Seq(Said), NEW out \in Seq(Seq(Said)), out # <<>>, NEW m, Parts(data, out, m)
  PROVE  /\ m \in Nat /\ Copies(data, Head(out), m)
         /\ Parts(data, Tail(out), m + Len(Head(out)))
<1>1. PICK at \in [0..Len(out) -> 0..Len(data)] :
        /\ at[0] = m /\ at[Len(out)] = Len(data)
        /\ \A i \in 1..Len(out) : /\ Copies(data, out[i], at[i - 1])
                                  /\ at[i] = at[i - 1] + Len(out[i])
  BY DEF Parts
<1>2. /\ Len(out) \in Nat \ {0} /\ Len(Tail(out)) = Len(out) - 1 /\ Head(out) = out[1]
      /\ \A i \in 1..Len(out) - 1 : Tail(out)[i] = out[i + 1]
  BY EmptySeq, HeadTailProperties
<1> DEFINE t == [i \in 0..Len(out) - 1 |-> at[i + 1]]
<1>3. 1 \in 1..Len(out) /\ 0 \in 0..Len(out) /\ 1 - 1 = 0
  BY <1>2
<1>4. m \in Nat /\ Copies(data, out[1], m) /\ at[1] = m + Len(out[1])
  BY <1>1, <1>3
<1>5. /\ t \in [0..Len(Tail(out)) -> 0..Len(data)]
      /\ t[0] = m + Len(Head(out)) /\ t[Len(Tail(out))] = Len(data)
  BY <1>1, <1>2, <1>4
<1>6. ASSUME NEW i \in 1..Len(Tail(out))
      PROVE  /\ Copies(data, Tail(out)[i], t[i - 1])
             /\ t[i] = t[i - 1] + Len(Tail(out)[i])
  <2>1. i + 1 \in 1..Len(out) /\ (i + 1) - 1 = i /\ Tail(out)[i] = out[i + 1]
    BY <1>2
  <2>2. Copies(data, out[i + 1], at[i]) /\ at[i + 1] = at[i] + Len(out[i + 1])
    BY <1>1, <2>1
  <2>3. i \in 0..Len(out) - 1 /\ i - 1 \in 0..Len(out) - 1 /\ (i - 1) + 1 = i
    BY <1>2
  <2>4. t[i - 1] = at[i] /\ t[i] = at[i + 1]
    BY <2>3
  <2> QED BY <2>1, <2>2, <2>4
<1> HIDE DEF t
<1>7. Parts(data, Tail(out), m + Len(Head(out)))
  BY <1>5, <1>6 DEF Parts
<1> QED BY <1>2, <1>4, <1>7

LEMMA PartsChunks ==
  ASSUME NEW data \in Seq(Said)
  PROVE  Parts(data, Chunks(data), 0)
<1> DEFINE q == (Len(data) + MAX - 1) \div MAX
           last(i) == IF i * MAX < Len(data) THEN i * MAX ELSE Len(data)
           at == [i \in 0..q |-> last(i)]
           out == Chunks(data)
<1>1. Len(data) \in Nat
  OBVIOUS
<1>2. q \in Nat /\ q * MAX >= Len(data) /\ (q # 0 => (q - 1) * MAX < Len(data))
  BY <1>1, Quotient
<1> HIDE DEF q
<1>3. /\ out = [i \in 1..q |-> SubSeq(data, (i - 1) * MAX + 1, last(i))]
      /\ Len(out) = q
  <2>1. out = [i \in 1..q |-> SubSeq(data, (i - 1) * MAX + 1, last(i))]
    BY DEF Chunks, q
  <2> HIDE DEF last, out
  <2> QED BY <1>2, <2>1
<1>4. \A i \in 0..q : i * MAX \in Nat /\ last(i) \in 0..Len(data)
  <2> SUFFICES ASSUME NEW i \in 0..q PROVE i * MAX \in Nat /\ last(i) \in 0..Len(data)
    OBVIOUS
  <2> DEFINE b == i * MAX
  <2>1. b \in Nat
    <3>1. i \in Nat
      BY <1>2
    <3> QED BY <3>1, Times
  <2>2. last(i) = IF b < Len(data) THEN b ELSE Len(data)
    OBVIOUS
  <2> HIDE DEF last, b
  <2>3. last(i) \in 0..Len(data)
    BY <1>1, <2>1, <2>2
  <2> QED BY <2>1, <2>3 DEF b
<1>5. at \in [0..q -> 0..Len(data)] /\ at[0] = 0 /\ at[q] = Len(data)
  <2>1. 0 * MAX = 0
    BY BufferAssumption
  <2>2. 0 \in 0..q /\ q \in 0..q /\ q * MAX \in Nat
    BY <1>2, Times
  <2>3. last(0) = 0
    BY <1>1, <2>1
  <2>4. last(q) = Len(data)
    BY <1>1, <1>2, <2>2
  <2> HIDE DEF last
  <2> QED BY <1>4, <2>2, <2>3, <2>4
<1>6. ASSUME NEW i \in 1..q
      PROVE  Copies(data, out[i], at[i - 1]) /\ at[i] = at[i - 1] + Len(out[i])
  <2>1. i \in Nat /\ i - 1 \in Nat /\ q - 1 \in Nat /\ i - 1 <= q - 1 /\ q # 0
    BY <1>2
  <2>2. (i - 1) * MAX <= (q - 1) * MAX /\ (i - 1) * MAX \in Nat /\ i * MAX \in Nat
        /\ (q - 1) * MAX \in Nat
    BY <2>1, Times, TimesMore
  <2>3. i * MAX = (i - 1) * MAX + MAX
    <3>1. (i - 1) + 1 = i
      BY <2>1
    <3> QED BY <2>1, <3>1, TimesNext
  <2>4. (i - 1) * MAX < Len(data)
    BY <1>1, <1>2, <2>1, <2>2
  <2> DEFINE a == (i - 1) * MAX
             b == i * MAX
             e == last(i)
  <2>5. out[i] = SubSeq(data, a + 1, e)
    BY <1>3
  <2>6. last(i - 1) = a /\ e = IF b < Len(data) THEN b ELSE Len(data)
    BY <2>4
  <2>7. a \in Nat /\ b = a + MAX /\ a < Len(data)
    BY <2>2, <2>3, <2>4
  <2>8. at[i - 1] = last(i - 1) /\ at[i] = e
    <3>1. i \in 0..q /\ i - 1 \in 0..q
      BY <1>2
    <3> QED BY <3>1
  <2> HIDE DEF a, b, e, out, at, last
  <2>9. e \in Nat /\ a + 1 <= e /\ e <= Len(data)
    BY <1>1, <2>6, <2>7, BufferAssumption
  <2>10. Len(out[i]) = e - a /\ \A x \in 1..e - a : out[i][x] = data[a + x]
    <3>1. \A j \in a + 1..e : data[j] \in Said
      BY <2>7, <2>9
    <3>2. /\ Len(out[i]) = e - (a + 1) + 1
          /\ \A x \in 1..e - (a + 1) + 1 : out[i][x] = data[a + 1 + x - 1]
      BY <2>5, <2>7, <2>9, <3>1, SubSeqProperties
    <3>3. e - (a + 1) + 1 = e - a /\ \A x \in 1..e - a : a + 1 + x - 1 = a + x
      BY <2>7, <2>9
    <3> QED BY <3>2, <3>3
  <2>11. at[i - 1] = a
    BY <2>6, <2>8
  <2>12. a + Len(out[i]) = e /\ 1..Len(out[i]) = 1..e - a
    BY <2>7, <2>9, <2>10
  <2> QED BY <2>8, <2>9, <2>10, <2>11, <2>12 DEF Copies
<1> HIDE DEF out, at
<1>7. Parts(data, out, 0)
  BY <1>3, <1>5, <1>6 DEF Parts
<1> QED BY <1>7 DEF out

LEMMA CopiesMore ==
  ASSUME NEW data \in Seq(Said), NEW m \in Nat, NEW s \in Seq(Said), NEW t \in Seq(Said),
         Copies(data, s, m), Copies(data, t, m + Len(s))
  PROVE  Copies(data, s \o t, m) /\ Len(s \o t) = Len(s) + Len(t)
<1>1. /\ Len(s \o t) = Len(s) + Len(t) /\ Len(s) \in Nat /\ Len(t) \in Nat
      /\ \A i \in 1..Len(s) + Len(t) : (s \o t)[i] = IF i <= Len(s) THEN s[i] ELSE t[i - Len(s)]
  BY ConcatProperties
<1>2. ASSUME NEW i \in 1..Len(s) + Len(t) PROVE (s \o t)[i] = data[m + i]
  <2>1. CASE i <= Len(s)
    BY <1>1, <2>1 DEF Copies
  <2>2. CASE ~(i <= Len(s))
    <3>1. i - Len(s) \in 1..Len(t) /\ m + Len(s) + (i - Len(s)) = m + i
      BY <1>1, <2>2
    <3>2. t[i - Len(s)] = data[m + Len(s) + (i - Len(s))]
      BY <3>1 DEF Copies
    <3> QED BY <1>1, <2>2, <3>1, <3>2
  <2> QED BY <2>1, <2>2
<1>3. m + (Len(s) + Len(t)) <= Len(data)
  BY <1>1 DEF Copies
<1> QED BY <1>1, <1>2, <1>3 DEF Copies

LEMMA CopiesRest ==
  ASSUME NEW data \in Seq(Said), NEW m \in Nat, NEW s \in Seq(Said), Copies(data, s, m),
         NEW n \in 1..Len(s)
  PROVE  Copies(data, Rest(s, n), m + n) /\ m + n + Len(Rest(s, n)) = m + Len(s)
<1>1. /\ Len(Rest(s, n)) = Len(s) - n /\ Len(s) \in Nat /\ n \in Nat
      /\ \A i \in 1..Len(s) - n : Rest(s, n)[i] = s[n + i]
  <2>1. Len(s) \in Nat /\ n \in Nat
    OBVIOUS
  <2> QED BY <2>1, RestType
<1>2. m + n + Len(Rest(s, n)) = m + Len(s)
  BY <1>1
<1>3. ASSUME NEW i \in 1..Len(Rest(s, n)) PROVE Rest(s, n)[i] = data[m + n + i]
  <2>1. n + i \in 1..Len(s) /\ m + (n + i) = m + n + i
    BY <1>1
  <2> QED BY <1>1, <2>1 DEF Copies
<1> QED BY <1>2, <1>3 DEF Copies

(* The server writes the next part of an answer. *)
LEMMA RemainsWritten ==
  ASSUME NEW data \in Seq(Said), NEW m \in Nat, NEW s \in Seq(Said),
         NEW out \in Seq(Seq(Said)), out # <<>>, Remains(data, s, out, m)
  PROVE  Remains(data, s \o Head(out), Tail(out), m)
<1>1. Head(out) \in Seq(Said)
  BY HeadType
<1>2. Copies(data, Head(out), m + Len(s)) /\ Parts(data, Tail(out), m + Len(s) + Len(Head(out)))
  BY PartsTail DEF Remains
<1>3. Copies(data, s \o Head(out), m) /\ Len(s \o Head(out)) = Len(s) + Len(Head(out))
  BY <1>1, <1>2, CopiesMore DEF Remains
<1>4. m + Len(s \o Head(out)) = m + Len(s) + Len(Head(out))
  <2> DEFINE a == Len(s)
             b == Len(Head(out))
             x == Len(s \o Head(out))
  <2>1. a \in Nat /\ b \in Nat
    BY <1>1
  <2>2. x = a + b
    BY <1>3
  <2> HIDE DEF a, b, x
  <2>3. m + x = m + a + b
    BY <2>1, <2>2
  <2> QED BY <2>3 DEF a, b, x
<1> QED BY <1>2, <1>3, <1>4 DEF Remains

LEMMA RemainsRead ==
  ASSUME NEW data \in Seq(Said), NEW m \in Nat, NEW s \in Seq(Said), NEW out,
         Remains(data, s, out, m), NEW n \in 1..Len(s)
  PROVE  Remains(data, Rest(s, n), out, m + n)
BY CopiesRest DEF Remains

(* What is behind the first n units of two streams. *)
LEMMA RestConcat ==
  ASSUME NEW s \in Seq(Said), NEW t \in Seq(Said), Len(s) >= MAX
  PROVE  Rest(s \o t, MAX) = Rest(s, MAX) \o t /\ Len(s \o t) >= MAX /\ (s \o t)[1] = s[1]
<1>1. /\ s \o t \in Seq(Said) /\ Len(s \o t) = Len(s) + Len(t) /\ Len(s) \in Nat /\ Len(t) \in Nat
      /\ \A i \in 1..Len(s) + Len(t) : (s \o t)[i] = IF i <= Len(s) THEN s[i] ELSE t[i - Len(s)]
      /\ MAX \in 1..Len(s) /\ MAX \in 1..Len(s \o t)
  BY ConcatProperties, BufferAssumption
<1> DEFINE a == Rest(s \o t, MAX)
           r == Rest(s, MAX)
           b == r \o t
<1>2. /\ r \in Seq(Said) /\ Len(r) = Len(s) - MAX
      /\ \A i \in 1..Len(s) - MAX : r[i] = s[MAX + i]
  BY <1>1, RestType
<1>3. /\ a \in Seq(Said) /\ Len(a) = Len(s \o t) - MAX
      /\ \A i \in 1..Len(s \o t) - MAX : a[i] = (s \o t)[MAX + i]
  <2> DEFINE u == s \o t
  <2>1. u \in Seq(Said) /\ MAX \in 1..Len(u)
    BY <1>1
  <2> HIDE DEF u
  <2>2. /\ Rest(u, MAX) \in Seq(Said) /\ Len(Rest(u, MAX)) = Len(u) - MAX
        /\ \A i \in 1..Len(u) - MAX : Rest(u, MAX)[i] = u[MAX + i]
    BY <2>1, RestType
  <2> QED BY <2>2 DEF u
<1> HIDE DEF a, r
<1>4. /\ b \in Seq(Said) /\ Len(b) = Len(r) + Len(t)
      /\ \A i \in 1..Len(r) + Len(t) : b[i] = IF i <= Len(r) THEN r[i] ELSE t[i - Len(r)]
  BY <1>2, ConcatProperties
<1> HIDE DEF b
<1>5. Len(a) = Len(b) /\ Len(a) \in Nat
  BY <1>1, <1>2, <1>3, <1>4
<1>6. ASSUME NEW i \in 1..Len(a) PROVE a[i] = b[i]
  <2>1. a[i] = IF MAX + i <= Len(s) THEN s[MAX + i] ELSE t[MAX + i - Len(s)]
    BY <1>1, <1>3
  <2>2. b[i] = IF i <= Len(r) THEN r[i] ELSE t[i - Len(r)]
    BY <1>4, <1>5
  <2>3. i \in Nat /\ (MAX + i <= Len(s) <=> i <= Len(r)) /\ MAX + i - Len(s) = i - Len(r)
    BY <1>1, <1>2
  <2>4. i <= Len(r) => i \in 1..Len(s) - MAX
    BY <1>1, <1>2
  <2> QED BY <1>2, <2>1, <2>2, <2>3, <2>4
<1>7. a = b
  BY <1>3, <1>4, <1>5, <1>6, SeqEqual
<1>8. 1 \in 1..Len(s) + Len(t) /\ 1 <= Len(s)
  BY <1>1
<1> QED BY <1>1, <1>7, <1>8 DEF a, b, r

LEMMA SendsWritten ==
  ASSUME NEW data \in Seq(Said), NEW s \in Seq(Said), NEW out \in Seq(Seq(Said)), out # <<>>,
         Sends(data, s, out)
  PROVE  Sends(data, s \o Head(out), Tail(out))
<1> DEFINE u == <<"size", Len(data)>>
<1>1. Head(out) \in Seq(Said) /\ Tail(out) \in Seq(Seq(Said))
  BY HeadType
<1>2. CASE s = <<>> /\ Head(out) = Msg(u) /\ Parts(data, Tail(out), 0)
  <2>1. u \in Unit
    BY DEF Unit, Said
  <2>2. Len(Head(out)) = MAX /\ Head(out)[1] = u
    <3> HIDE DEF u
    <3> QED BY <1>2, <2>1, MsgLength
  <2>3. s \o Head(out) = Head(out)
    BY <1>1, <1>2, ConcatEmptySeq
  <2>4. MAX \in 1..Len(Head(out))
    BY <2>2, BufferAssumption
  <2>5. Len(Rest(Head(out), MAX)) = 0
    BY <1>1, <2>2, <2>4, RestType
  <2>6. Copies(data, Rest(Head(out), MAX), 0) /\ 0 + Len(Rest(Head(out), MAX)) = 0
    BY <2>5 DEF Copies
  <2> QED BY <1>2, <2>2, <2>3, <2>6, BufferAssumption DEF Sends, Remains
<1>3. CASE Len(s) >= MAX /\ s[1] = u /\ Remains(data, Rest(s, MAX), out, 0)
  <2>1. MAX \in 1..Len(s)
    BY <1>3, BufferAssumption
  <2>2. Rest(s, MAX) \in Seq(Said)
    BY <2>1, RestType
  <2>3. Remains(data, Rest(s, MAX) \o Head(out), Tail(out), 0)
    BY <1>3, <2>2, RemainsWritten
  <2> QED BY <1>1, <1>3, <2>3, RestConcat DEF Sends
<1> QED BY <1>2, <1>3 DEF Sends

LEMMA SendsSized ==
  ASSUME NEW data \in Seq(Said), data # <<>>
  PROVE  Sends(data, <<>>, Sized(data))
<1> DEFINE u == <<"size", Len(data)>>
           out == Sized(data)
           ch == Chunks(data)
           m == Msg(u)
<1>1. u \in Unit
  BY DEF Unit, Said
<1>2. m \in Seq(Unit)
  <2> HIDE DEF u
  <2> QED BY <1>1, MsgLength
<1>3. ch \in Seq(Seq(Unit)) /\ Parts(data, ch, 0)
  BY ChunksType, SaidUnit, PartsChunks
<1>4. out = <<m>> \o ch
  BY DEF Sized
<1> HIDE DEF m, ch, out
<1>5. out # <<>> /\ Head(out) = m /\ Tail(out) = ch
  <2>1. <<m>> \in Seq(Seq(Unit)) /\ Len(<<m>>) = 1 /\ <<m>>[1] = m
    BY <1>2
  <2>2. /\ out \in Seq(Seq(Unit)) /\ Len(out) = 1 + Len(ch) /\ Len(ch) \in Nat
        /\ \A i \in 1..1 + Len(ch) : out[i] = IF i <= 1 THEN m ELSE ch[i - 1]
    BY <1>3, <1>4, <2>1, ConcatProperties
  <2>3. out # <<>> /\ out[1] = m
    BY <2>2, EmptySeq
  <2>4. /\ Tail(out) \in Seq(Seq(Unit)) /\ Len(Tail(out)) = Len(ch) /\ Head(out) = out[1]
        /\ \A i \in 1..Len(ch) : Tail(out)[i] = out[i + 1]
    BY <2>2, <2>3, HeadTailProperties
  <2>5. \A i \in 1..Len(ch) : Tail(out)[i] = ch[i]
    <3> SUFFICES ASSUME NEW i \in 1..Len(ch) PROVE Tail(out)[i] = ch[i]
      OBVIOUS
    <3>1. i + 1 \in 1..1 + Len(ch) /\ ~(i + 1 <= 1) /\ i + 1 - 1 = i
      BY <2>2
    <3> QED BY <2>2, <2>4, <3>1
  <2>6. Tail(out) = ch
    BY <1>3, <2>4, <2>5, SeqEqual
  <2> QED BY <2>3, <2>4, <2>6
<1>6. Sends(data, <<>>, out)
  BY <1>3, <1>5 DEF Sends, m
<1> QED BY <1>6 DEF out

(* The server reads what is there and does not answer. *)
LEMMA InquiresRead ==
  ASSUME NEW c, NEW in \in Seq(Unit), NEW n \in 1..Len(in)
  PROVE  /\ NoCommand(in) => NoCommand(Rest(in, n))
         /\ Inquires(c, in) => Inquires(c, Rest(in, n))
<1> DEFINE r == Rest(in, n)
<1>1. /\ r \in Seq(Unit) /\ Len(r) = Len(in) - n /\ Len(in) \in Nat /\ n \in Nat
      /\ \A i \in 1..Len(in) - n : r[i] = in[n + i]
      /\ MAX \in Nat \ {0}
  BY RestType, BufferAssumption
<1> HIDE DEF r
<1>2. \A i \in DOMAIN r : i \in Nat /\ n + i \in DOMAIN in /\ r[i] = in[n + i]
  <2>1. DOMAIN r = 1..Len(in) - n /\ DOMAIN in = 1..Len(in)
    BY <1>1
  <2> QED BY <1>1, <2>1
<1>3. NoCommand(in) => NoCommand(r)
  BY <1>2 DEF NoCommand
<1>4. ASSUME Len(in) >= MAX, in[Len(in) - MAX + 1] = Question(c),
             \A i \in DOMAIN in : i > Len(in) - MAX + 1 => ~IsCmd(in[i])
      PROVE  Inquires(c, r)
  <2>1. CASE Len(r) >= MAX
    <3>1. Len(r) - MAX + 1 \in 1..Len(in) - n
      BY <1>1, <2>1
    <3>2. n + (Len(r) - MAX + 1) = Len(in) - MAX + 1
      BY <1>1
    <3>3. r[Len(r) - MAX + 1] = Question(c)
      BY <1>1, <1>4, <3>1, <3>2
    <3>4. ASSUME NEW i \in DOMAIN r, i > Len(r) - MAX + 1 PROVE ~IsCmd(r[i])
      <4>1. n + i > Len(in) - MAX + 1
        BY <1>1, <1>2, <3>4
      <4> QED BY <1>2, <1>4, <4>1
    <3> QED BY <2>1, <3>3, <3>4 DEF Inquires
  <2>2. CASE ~(Len(r) >= MAX)
    <3>1. \A i \in DOMAIN r : n + i > Len(in) - MAX + 1
      BY <1>1, <1>2, <2>2
    <3> QED BY <1>2, <1>4, <3>1 DEF Inquires, NoCommand
  <2> QED BY <2>1, <2>2
<1> QED BY <1>3, <1>4 DEF Inquires, r

LEMMA GetsNot ==
  ASSUME NEW k, NEW c, NEW in, NEW s, NEW out, NEW x, NEW data, NEW file,
         c.pc \notin {"write", "get_size", "get_data"}
  PROVE  Gets(k, c, in, s, out, x, data, file)
BY DEF Gets

(* A client that the server does not serve has nothing of a file. *)
LEMMA GetsUnserved ==
  ASSUME NEW k, NEW c, NEW in, NEW s, NEW x, NEW y, NEW data, NEW file, NEW data2, NEW file2,
         ~Served(k, x), x.pc # "dead", Gets(k, c, in, s, <<>>, x, data, file)
  PROVE  Gets(k, c, in, s, <<>>, y, data2, file2)
BY DEF Gets

LEMMA GetsWritten ==
  ASSUME NEW k, NEW c \in ClientRec, NEW in, NEW s \in Seq(Said), NEW out \in Seq(Seq(Said)),
         out # <<>>, NEW x, NEW y, x.pc # "dead", Served(k, y),
         NEW data \in Seq(Said), NEW file, Gets(k, c, in, s, out, x, data, file)
  PROVE  Gets(k, c, in, s \o Head(out), Tail(out), y, data, file)
<1>1. c.off \in Nat
  BY DEF ClientRec
<1>2. c.pc = "get_size" => data = <<>> \/ Sends(data, s \o Head(out), Tail(out))
  BY SendsWritten DEF Gets
<1>3. Remains(data, s, out, c.off) => Remains(data, s \o Head(out), Tail(out), c.off)
  BY <1>1, RemainsWritten
<1> QED BY <1>2, <1>3 DEF Gets

LEMMA GetsRead ==
  ASSUME NEW k, NEW c, NEW in \in Seq(Unit), NEW s, NEW out, NEW x, NEW y, x.pc # "dead",
         Served(k, y), NEW data, NEW file, NEW n \in 1..Len(in),
         Gets(k, c, in, s, out, x, data, file)
  PROVE  Gets(k, c, Rest(in, n), s, out, y, data, file)
BY InquiresRead DEF Gets

LEMMA GetsDies ==
  ASSUME NEW k, NEW c, NEW in, NEW s, NEW x, NEW y, y.client = x.client, y.pc = "dead",
         NEW data, NEW file, Gets(k, c, in, s, <<>>, x, data, file)
  PROVE  Gets(k, c, <<>>, s, <<>>, y, data, file)
<1>1. NoCommand(<<>>) /\ Inquires(c, <<>>)
  BY DEF NoCommand, Inquires
<1>2. Served(k, x) => Served(k, y)
  BY DEF Served
<1> QED BY <1>1, <1>2 DEF Gets

(* What the server executes. *)
LEMMA ExecuteServes ==
  ASSUME sv \in ServerRec, NEW unit, Execute(unit)
  PROVE  sv'.client = sv.client /\ sv'.pc # "accept"
<1>1. \A line, writes : \A then \in {"read", "put_size", "spin", "fail"} :
        Answer(line, writes, then) => sv'.client = sv.client /\ sv'.pc # "accept"
  BY DEF Answer, ServerRec
<1>2. \A line, f : server_get(line, f) => sv'.client = sv.client /\ sv'.pc # "accept"
  BY <1>1 DEF server_get
<1>3. \A line, arg : ls_dir(line, arg) => sv'.client = sv.client /\ sv'.pc # "accept"
  BY <1>1 DEF ls_dir
<1>4. \A line, op, arg : Silent(line, op, arg) => sv'.client = sv.client /\ sv'.pc # "accept"
  BY <1>1 DEF Silent
<1> QED BY <1>1, <1>2, <1>3, <1>4 DEF Execute

LEMMA ExecuteGets ==
  ASSUME sv \in ServerRec, NEW k \in Clients, k = sv.client, NEW c \in ClientRec,
         Execute(Question(c))
  PROVE  LET data == Content(sfile[cwd], c.path)
         IN  /\ UNCHANGED <<sfile, cwd>>
             /\ data = <<>> \/ Out(k)' = Sized(data)
<1> DEFINE unit == Question(c)
           data == Content(sfile[cwd], c.path)
<1>1. unit[1] = "cmd" /\ unit[2][1] = "get" /\ unit[2][2] = c.path
  BY DEF Question, Text
<1>2. server_get(unit, c.path) /\ UNCHANGED <<sfile, cwd>>
  <2> HIDE DEF unit
  <2>1. Execute(unit)
    BY DEF unit
  <2> QED BY <1>1, <2>1 DEF Execute
<1>3. c.path \notin DOMAIN sfile[cwd] => data = <<>>
  BY DEF Content
<1>4. data = <<>> \/ Answer(unit, Sized(data), "read")
  BY <1>2, <1>3 DEF server_get
<1> HIDE DEF data
<1> QED BY <1>2, <1>4, AnswerOut DEF data

(* Steps of the server. *)
LEMMA GetsServerStep ==
  ASSUME IInv, GetsServed, NEW k \in Clients, k = sv.client, sv.pc # "dead",
         UNCHANGED <<cl, cfile>>, sv'.client \in {k, Nobody},
         \A j \in Clients : j # k => c2s'[j] = c2s[j] /\ s2c'[j] = s2c[j],
         cuts' = 0 => cuts = 0,
         InStep(k)' /\ cl[k].pc \notin {"off", "gone"} =>
           Gets(k, cl[k], c2s'[k], s2c'[k], Out(k)', sv', Wanted(k)', Gotten(k))
  PROVE  GetsServed'
<1>1. \A j \in Clients : Gotten(j)' = Gotten(j) /\ cl'[j] = cl[j]
  BY DEF Gotten
<1>2. ASSUME NEW j \in Clients, j # k, InStep(j)'
      PROVE  Gets(j, cl[j], c2s'[j], s2c'[j], Out(j)', sv', Wanted(j)', Gotten(j))
  <2>1. Out(j) = <<>> /\ Out(j)' = <<>> /\ ~Served(j, sv)
    BY <1>2, ClientAssumption DEF Out, Served
  <2>2. Gets(j, cl[j], c2s[j], s2c[j], Out(j), sv, Wanted(j), Gotten(j))
    BY <1>1, <1>2 DEF GetsServed, InStep
  <2> QED BY <1>2, <2>1, <2>2, GetsUnserved
<1>3. InStep(k)' /\ cl[k].pc \in {"off", "gone"} =>
        Gets(k, cl[k], c2s'[k], s2c'[k], Out(k)', sv', Wanted(k)', Gotten(k))
  BY GetsNot
<1> QED BY <1>1, <1>2, <1>3 DEF GetsServed

LEMMA WantedType ==
  ASSUME IInv, NEW k \in Clients
  PROVE  /\ Wanted(k) \in Seq(Said) /\ Gotten(k) \in Seq(Said)
         /\ cl[k] \in ClientRec /\ c2s[k] \in Seq(Unit) /\ s2c[k] \in Seq(Said)
         /\ Out(k) \in Seq(Seq(Said))
<1> USE DEF IInv, Types
<1>1. cl[k] \in ClientRec /\ cl[k].path \in Name
  BY DEF ClientsOK, ClientOK, ClientRec
<1>2. Wanted(k) \in Seq(Said) /\ Gotten(k) \in Seq(Said)
  BY <1>1 DEF Wanted, Gotten, ServerFilesOK, ClientsOK, ClientFilesOK
<1> QED BY <1>1, <1>2, OutType DEF StreamsOK

LEMMA WantedSame ==
  ASSUME UNCHANGED <<sfile, cwd, cl>>, NEW k
  PROVE  Wanted(k)' = Wanted(k)
BY DEF Wanted

LEMMA GetsLine ==
  ASSUME IInv, HistoryOK, NoneLost, ConnectionsOK, TurnsTaken, GetsServed,
         NEW k \in Clients, k = sv.client, ServerReadsLine
  PROVE  GetsServed'
<1> USE DEF IInv, Types
<1>1. sv \in ServerRec /\ sv.pc = "read" /\ Out(k) = <<>>
  BY DEF ServerReadsLine, ServerOK, Out
<1> DEFINE c == cl[k]
           in == c2s[k]
           s == s2c[k]
           h == Head(in)
<1>2. PICK n \in 1..MAX : ServerReads(n) /\ \E line \in Lines(h, n) : Execute(line)
  BY DEF ServerReadsLine
<1>3. PICK line \in Lines(h, n) : Execute(line)
  BY <1>2
<1>4. line \in Unit /\ in \in Seq(Unit) /\ n \in 1..Len(in)
  BY <1>1, <1>2, <1>3, ServerReadsType, LinesUnit DEF StreamsOK
<1>5. in # <<>> /\ h = in[1] /\ 1 \in DOMAIN in
  BY <1>4, EmptySeq
<1>6. sv'.client = k /\ Served(k, sv')
  BY <1>1, <1>3, ExecuteServes DEF Served
<1>7. UNCHANGED <<s2c, cl, cfile>>
  BY <1>2, <1>3, <1>4, ExecuteType DEF ServerReads
<1>8. c2s'[k] = Rest(in, n) /\ \A j \in Clients : j # k => c2s'[j] = c2s[j]
  BY <1>2 DEF ServerReads, StreamsOK
<1>9. cuts' = 0 => cuts = 0 /\ n = Avail(in)
  BY <1>2, <1>4, ReadAll DEF ServerReads, ConnectionsOK
<1>10. c \in ClientRec /\ Wanted(k) \in Seq(Said)
  BY WantedType
<1>11. ASSUME InStep(k)', c.pc \notin {"off", "gone"}
       PROVE  Gets(k, c, Rest(in, n), s, Out(k)', sv', Wanted(k)', Gotten(k))
  <2>1. InStep(k) /\ n = Avail(in)
    BY <1>7, <1>9, <1>11 DEF InStep
  <2>2. Gets(k, c, in, s, <<>>, sv, Wanted(k), Gotten(k)) /\ Turn(c, in, s, <<>>)
    BY <1>1, <2>1 DEF GetsServed, TurnsTaken
  <2>3. IsCmd(h) /\ n = MAX
    BY <1>1, <1>5, <1>11, <2>1, CommandFirst
  <2>4. line = h
    BY <1>3, <2>3, CommandRead
  <2> HIDE DEF c, in, s, h
  <2>5. ~NoCommand(in)
    BY <1>5, <2>3 DEF NoCommand
  <2>6. c.pc = "get_data" => c.path \in ClientDirs
    BY <1>1, <2>2, <2>5 DEF Gets
  <2>7. CASE c.pc = "get_size"
    <3>1. /\ Len(in) >= MAX /\ in[Len(in) - MAX + 1] = Question(c)
          /\ Inquires(c, in)
      BY <2>2, <2>5, <2>7 DEF Gets, Inquires
    <3>2. Len(in) - MAX + 1 \in DOMAIN in /\ Asks(Question(c)) /\ Asking(c, in, s, <<>>)
      <4>1. Len(in) - MAX + 1 \in 1..Len(in)
        BY <1>4, <3>1, BufferAssumption
      <4> QED BY <1>4, <2>2, <2>7, <4>1 DEF Question, Text, Asks, IsCmd, Turn
    <3>3. s = <<>>
      BY <3>1, <3>2 DEF Asking
    <3>4. Inquires(c, Rest(in, n))
      BY <1>4, <3>1, InquiresRead
    <3>5. CASE ~Asks(line)
      <4>1. Out(k)' = <<>>
        BY <1>1, <1>3, <1>4, <3>5, ExecuteAnswers
      <4> QED BY <2>7, <3>3, <3>4, <4>1 DEF Gets
    <3>6. CASE Asks(line)
      <4>1. 1 + MAX - 1 = Len(in)
        BY <1>5, <2>4, <3>2, <3>6 DEF Asking
      <4>2. Len(in) - MAX + 1 = 1
        BY <4>1, BufferAssumption
      <4>3. line = Question(c)
        BY <1>5, <2>4, <3>1, <4>2
      <4>4. /\ UNCHANGED <<sfile, cwd>>
            /\ Wanted(k) = <<>> \/ Out(k)' = Sized(Wanted(k))
        BY <1>1, <1>3, <1>10, <4>3, ExecuteGets DEF Wanted, c
      <4>5. Wanted(k)' = Wanted(k)
        BY <1>7, <4>4, WantedSame
      <4>6. Wanted(k) = <<>> \/ Sends(Wanted(k), s, Out(k)')
        BY <1>10, <3>3, <4>4, SendsSized
      <4> QED BY <1>6, <2>7, <3>4, <4>5, <4>6 DEF Gets
    <3> QED BY <3>5, <3>6
  <2>8. CASE c.pc # "get_size"
    BY <2>2, <2>6, <2>8 DEF Gets
  <2> QED BY <2>7, <2>8
<1>12. s2c'[k] = s /\ \A j \in Clients : j # k => c2s'[j] = c2s[j] /\ s2c'[j] = s2c[j]
  BY <1>7, <1>8
<1> QED BY <1>1, <1>6, <1>7, <1>8, <1>9, <1>11, <1>12, GetsServerStep

LEMMA ServerGets ==
  IInv /\ HistoryOK /\ NoneLost /\ ConnectionsOK /\ TurnsTaken /\ GetsServed /\ Server
    => GetsServed'
<1> SUFFICES ASSUME IInv, HistoryOK, NoneLost, ConnectionsOK, TurnsTaken, GetsServed, Server
             PROVE  GetsServed'
  OBVIOUS
<1> USE DEF IInv, Types
<1>1. sv \in ServerRec
  BY DEF ServerOK
<1>2. ASSUME ServerEnd, NEW k \in Clients, k = sv.client, sv.pc # "dead", UNCHANGED cfile,
             sv'.client \in {k, Nobody}
      PROVE  GetsServed'
  <2>1. cl[k].pc = "gone" /\ UNCHANGED <<c2s, s2c, cl, cuts>>
    BY <1>1, <1>2 DEF ServerEnd, EndsBy, ServerRec
  <2> QED BY <1>2, <2>1, GetsServerStep
<1>3. CASE Accept
  <2>1. sv.pc = "accept" /\ sv'.pc = "read" /\ UNCHANGED <<c2s, s2c, cl, cuts, files>>
    BY <1>1, <1>3 DEF Accept, history, ServerRec
  <2>2. \A j \in Clients : Out(j) = <<>> /\ Out(j)' = <<>> /\ ~Served(j, sv) /\ sv.pc # "dead"
    BY <2>1 DEF Out, Served
  <2>3. ASSUME NEW j \in Clients, InStep(j)
        PROVE  Gets(j, cl[j], c2s[j], s2c[j], <<>>, sv', Wanted(j), Gotten(j))
    <3>1. Gets(j, cl[j], c2s[j], s2c[j], <<>>, sv, Wanted(j), Gotten(j))
      BY <2>2, <2>3 DEF GetsServed
    <3> QED BY <2>2, <3>1, GetsUnserved
  <2>4. \A j \in Clients : Wanted(j)' = Wanted(j) /\ Gotten(j)' = Gotten(j)
    BY <2>1 DEF Wanted, Gotten, files
  <2> QED BY <2>1, <2>2, <2>3, <2>4 DEF GetsServed, InStep
<1>4. CASE ServerWrite
  <2> PICK k \in Clients : k = sv.client
    BY <1>1, <1>4 DEF ServerWrite, ServerOK
  <2>1. /\ sv.pc = "write" /\ sv.out \in Seq(Seq(Said)) /\ sv.out # <<>>
        /\ sv.then # "write" /\ Out(k) = sv.out
    BY <1>1, <1>4 DEF ServerWrite, ServerOK, ServerRec, Out
  <2>2. UNCHANGED <<c2s, cl, cuts, sfile, cwd, cfile>> /\ sv'.client = k
    BY <1>1, <1>4 DEF ServerWrite, history, files, ServerRec
  <2>3. /\ \A j \in Clients : j # k => s2c'[j] = s2c[j]
        /\ link[k].s = "up" => s2c'[k] = s2c[k] \o Head(sv.out)
    BY <1>4, <2>1 DEF ServerWrite, StreamsOK
  <2>4. Out(k)' = Tail(sv.out) /\ Served(k, sv')
    <3>1. sv'.out = Tail(sv.out) /\ sv'.pc = IF Len(sv.out) = 1 THEN sv.then ELSE "write"
      BY <1>1, <1>4 DEF ServerWrite, ServerRec
    <3>2. Len(Tail(sv.out)) = Len(sv.out) - 1 /\ Tail(sv.out) \in Seq(Seq(Said))
      BY <2>1, HeadTailProperties
    <3>3. Len(sv.out) = 1 => Len(Tail(sv.out)) = 0
      BY <3>2
    <3>4. Len(sv.out) = 1 => Tail(sv.out) = <<>>
      BY <3>2, <3>3, EmptySeq
    <3>5. sv'.pc # "accept"
      BY <1>1, <3>1 DEF ServerRec
    <3> QED BY <2>1, <2>2, <3>1, <3>4, <3>5 DEF Out, Served
  <2>5. ASSUME InStep(k)', cl[k].pc \notin {"off", "gone"}
        PROVE  Gets(k, cl[k], c2s'[k], s2c'[k], Out(k)', sv', Wanted(k)', Gotten(k))
    <3>1. link[k].s = "up"
      BY <2>1, <2>5 DEF EndsBy
    <3>2. Gets(k, cl[k], c2s[k], s2c[k], sv.out, sv, Wanted(k), Gotten(k))
      BY <2>1, <2>2, <2>5 DEF GetsServed, InStep
    <3>3. cl[k] \in ClientRec /\ s2c[k] \in Seq(Said) /\ Wanted(k) \in Seq(Said)
      BY WantedType
    <3>4. Wanted(k)' = Wanted(k)
      BY <2>2, WantedSame
    <3>5. Gets(k, cl[k], c2s[k], s2c[k] \o Head(sv.out), Tail(sv.out), sv', Wanted(k), Gotten(k))
      BY <2>1, <2>4, <3>2, <3>3, GetsWritten
    <3> QED BY <2>2, <2>3, <2>4, <3>1, <3>4, <3>5
  <2> QED BY <2>1, <2>2, <2>3, <2>5, GetsServerStep
<1>5. CASE ServerFails
  <2>1. /\ sv'.pc = "dead" /\ sv'.client = sv.client /\ UNCHANGED <<s2c, cl, cuts, files>>
        /\ c2s' = [j \in Clients |-> <<>>]
    BY <1>1, <1>5 DEF ServerFails, ServerDies, history, ServerRec
  <2>2. \A j \in Clients : Out(j)' = <<>>
    BY <2>1 DEF Out
  <2>3. \A j \in Clients : Wanted(j)' = Wanted(j) /\ Gotten(j)' = Gotten(j)
    BY <2>1 DEF Wanted, Gotten, files
  <2>4. ASSUME NEW j \in Clients, InStep(j)
        PROVE  Gets(j, cl[j], <<>>, s2c[j], <<>>, sv', Wanted(j), Gotten(j))
    <3>1. Gets(j, cl[j], c2s[j], s2c[j], Out(j), sv, Wanted(j), Gotten(j))
      BY <2>4 DEF GetsServed
    <3>2. CASE Out(j) = <<>>
      BY <2>1, <3>1, <3>2, GetsDies
    <3>3. CASE Out(j) # <<>>
      <4>1. sv.pc = "write" /\ sv.client = j
        BY <3>3 DEF Out
      <4>2. link[j].s = "pipe"
        BY <1>5, <4>1 DEF ServerFails
      <4>3. cl[j].pc = "gone"
        BY <4>2 DEF EndsBy
      <4> QED BY <4>3, GetsNot
    <3> QED BY <3>2, <3>3
  <2> QED BY <2>1, <2>2, <2>3, <2>4 DEF GetsServed, InStep
<1>6. CASE ServerReadsLine
  <2> PICK k \in Clients : k = sv.client
    BY <1>6 DEF ServerReadsLine, ServerOK
  <2> QED BY <1>6, GetsLine
<1>7. CASE ServerLosesClient
  <2> PICK k \in Clients : k = sv.client
    BY <1>7 DEF ServerLosesClient, ServerOK
  <2>1. ServerEnd /\ sv'.client \in {k, Nobody} /\ sv.pc # "dead"
    BY <1>1, <1>7, ExecuteClient DEF ServerLosesClient, ServerRec
  <2>2. UNCHANGED cfile
    <3>1. Stale(sv.line) \in Unit
      BY <1>1, StaleUnit DEF ServerRec
    <3> QED BY <1>7, <3>1, ExecuteType DEF ServerLosesClient, files
  <2> QED BY <1>2, <2>1, <2>2
<1>8. CASE ServerReadsSize \/ ServerReadsData
  <2> PICK k \in Clients : k = sv.client
    BY <1>8 DEF ServerReadsSize, ServerReadsData, ServerOK
  <2>1. /\ sv.pc \in {"put_size", "put_data"} /\ sv'.client = k
        /\ (\E sizes : PutSize(sizes)) \/ (\E n : PutCount(n))
    BY <1>1, <1>8, PutClient DEF ServerReadsSize, ServerReadsData, ServerOK
  <2>2. sv'.pc \in {"read", "put_data"} /\ UNCHANGED <<sfile, cwd, cfile>>
    <3>1. CASE \E sizes : PutSize(sizes)
      BY <1>1, <3>1 DEF PutSize, ServerRec, files
    <3>2. CASE sv.pc = "put_data" /\ \E n : PutCount(n)
      BY <1>1, <3>2 DEF PutCount, ServerRec, files
    <3> QED BY <1>8, <3>1, <3>2 DEF ServerReadsSize, ServerReadsData
  <2>3. Out(k) = <<>> /\ Out(k)' = <<>> /\ Served(k, sv') /\ sv.pc # "dead"
    BY <2>1, <2>2 DEF Out, Served
  <2>4. CASE ServerEnd
    BY <1>2, <2>1, <2>2, <2>3, <2>4
  <2>5. CASE \E n \in 1..MAX : ServerReads(n)
    <3> PICK n \in 1..MAX : ServerReads(n)
      BY <2>5
    <3>1. n \in 1..Len(c2s[k])
      BY ServerReadsType
    <3>2. /\ c2s'[k] = Rest(c2s[k], n) /\ UNCHANGED <<s2c, cl>>
          /\ \A j \in Clients : j # k => c2s'[j] = c2s[j]
      BY DEF ServerReads, StreamsOK
    <3>3. c2s[k] \in Seq(Unit)
      BY DEF StreamsOK
    <3>4. cuts' = 0 => cuts = 0
      BY <3>3, ReadAll DEF ServerReads, ConnectionsOK
    <3>5. Wanted(k)' = Wanted(k)
      BY <2>2, <3>2, WantedSame
    <3>6. ASSUME InStep(k)
          PROVE  Gets(k, cl[k], Rest(c2s[k], n), s2c[k], <<>>, sv', Wanted(k), Gotten(k))
      <4>1. Gets(k, cl[k], c2s[k], s2c[k], <<>>, sv, Wanted(k), Gotten(k))
        BY <2>3, <3>6 DEF GetsServed
      <4> QED BY <2>3, <3>1, <3>3, <4>1, GetsRead
    <3>7. InStep(k)' => InStep(k)
      BY <3>2, <3>4 DEF InStep
    <3> QED BY <2>1, <2>2, <2>3, <3>2, <3>4, <3>5, <3>6, <3>7, GetsServerStep
  <2> QED BY <1>8, <2>4, <2>5 DEF ServerReadsSize, ServerReadsData
<1> QED BY <1>3, <1>4, <1>5, <1>6, <1>7, <1>8 DEF Server

(* Steps of a client. *)
LEMMA GetsClientStep ==
  ASSUME IInv, GetsServed, NEW k \in Clients, NEW c, cl' = [cl EXCEPT ![k] = c],
         UNCHANGED <<sv, sfile, cwd>>,
         \A j \in Clients \ {k} : c2s'[j] = c2s[j] /\ s2c'[j] = s2c[j] /\ cfile'[j] = cfile[j],
         cuts' = 0 => cuts = 0,
         cuts' = 0 /\ ~c.odd => Gets(k, c, c2s'[k], s2c'[k], Out(k), sv,
                                     Content(sfile[cwd], c.path), Content(cfile'[k], c.path))
  PROVE  GetsServed'
<1>1. cl'[k] = c /\ \A j \in Clients \ {k} : cl'[j] = cl[j]
  BY ClientsOther
<1>2. \A j \in Clients : Out(j)' = Out(j)
  BY DEF Out
<1>3. ASSUME NEW j \in Clients \ {k}, InStep(j)'
      PROVE  Gets(j, cl[j], c2s[j], s2c[j], Out(j), sv, Wanted(j), Gotten(j))
             /\ Wanted(j)' = Wanted(j) /\ Gotten(j)' = Gotten(j)
  BY <1>1, <1>3 DEF GetsServed, InStep, Wanted, Gotten
<1>4. Wanted(k)' = Content(sfile[cwd], c.path) /\ Gotten(k)' = Content(cfile'[k], c.path)
  BY <1>1 DEF Wanted, Gotten
<1> QED BY <1>1, <1>2, <1>3, <1>4 DEF GetsServed, InStep

LEMMA EndsGets ==
  ASSUME IInv, GetsServed, NEW k \in Clients, ClientEnds(k), cuts' = cuts
  PROVE  GetsServed'
<1> DEFINE gone == [Idle EXCEPT !.pc = "gone"]
<1>1. cl' = [cl EXCEPT ![k] = gone] /\ gone.pc = "gone"
  BY IdleType DEF ClientEnds
<1> HIDE DEF gone
<1>2. /\ UNCHANGED <<sv, c2s, sfile, cwd, cfile>>
      /\ \A j \in Clients \ {k} : s2c'[j] = s2c[j]
  BY DEF ClientEnds, files, IInv, Types, StreamsOK
<1>3. Gets(k, gone, c2s'[k], s2c'[k], Out(k), sv,
           Content(sfile[cwd], gone.path), Content(cfile'[k], gone.path))
  BY <1>1, GetsNot
<1> QED BY <1>1, <1>2, <1>3, GetsClientStep

LEMMA GoesRest ==
  ASSUME NEW c \in ClientRec, NEW pc \in {"write", "get_size", "get_data"}
  PROVE  LET t == Goes(c, pc) IN
         /\ t.pc = pc /\ t.then = c.then /\ t.path = c.path /\ t.off = c.off /\ t.left = c.left
         /\ t.out = c.out
<1> DEFINE t == Goes(c, pc)
<1>1. t.pc = pc /\ t = [c EXCEPT !.pc = pc]
  BY GoesType
<1> HIDE DEF t
<1>2. t.then = c.then /\ t.path = c.path /\ t.off = c.off /\ t.left = c.left /\ t.out = c.out
  BY <1>1 DEF ClientRec
<1> QED BY <1>1, <1>2 DEF t

LEMMA AskGets ==
  ASSUME IInv, GetsServed, NEW k \in Clients, NEW cmd \in Commands[k], Ask(k, cmd)
  PROVE  GetsServed'
<1> DEFINE c == cl'[k]
           m == Msg(Text(cmd))
           rest == IF cmd[1] = "put" THEN client_put(k, cmd[2]) ELSE <<>>
<1>1. /\ \E x : cl' = [cl EXCEPT ![k] = x] /\ x = c
      /\ cmd[1] \in DOMAIN Waits /\ UNCHANGED <<c2s, s2c, sv, cuts, sfile, cwd, cfile>>
  BY ClientsOther DEF Ask, files
<1>2. c.pc = "write" /\ c.then = Afterwards(cmd) /\ c.path = cmd[2] /\ c.out = <<m>> \o rest
  BY AskClient
<1>3. cmd \in Cmd /\ cmd = <<cmd[1], cmd[2]>>
  <2>1. cmd \in Cmd
    BY CommandAssumption DEF Cmd, Name
  <2> QED BY <2>1 DEF Cmd
<1>4. ASSUME c.then = "get_size" PROVE c.out = <<Msg(Question(c))>>
  <2>1. cmd[1] = "get"
    BY <1>1, <1>2, <1>4 DEF Afterwards, Waits
  <2>2. m = Msg(Question(c)) /\ rest = <<>>
    BY <1>2, <1>3, <2>1 DEF Question
  <2>3. m \in Seq(Unit)
    BY <1>3, Texts, MsgLength
  <2> HIDE DEF m, rest, c
  <2>4. <<m>> \in Seq(Seq(Unit))
    BY <2>3
  <2> QED BY <1>2, <2>2, <2>4, ConcatEmptySeq
<1> HIDE DEF m, rest
<1>5. Gets(k, c, c2s'[k], s2c'[k], Out(k), sv,
           Content(sfile[cwd], c.path), Content(cfile'[k], c.path))
  BY <1>2, <1>4 DEF Gets
<1> HIDE DEF c
<1> QED BY <1>1, <1>5, GetsClientStep

LEMMA WriteGets ==
  ASSUME IInv, ConnectionsOK, TurnsTaken, GetsServed, NEW k \in Clients, ClientWrite(k)
  PROVE  GetsServed'
<1> DEFINE c == cl[k]
           t == Sent(c)
           in == c2s[k]
           rest == [c EXCEPT !.out = Tail(@)]
<1>1. c \in ClientRec /\ in \in Seq(Unit)
  BY WantedType
<1>2. /\ c.pc = "write" /\ c.out # <<>> /\ cl' = [cl EXCEPT ![k] = t]
      /\ UNCHANGED <<s2c, sv, cuts, sfile, cwd, cfile>>
  BY DEF ClientWrite, history, files, IInv, Types, ClientsOK, ClientOK
<1>3. /\ \/ link[k].c # "up" /\ c2s'[k] = in
         \/ c2s'[k] = in \o Head(c.out)
      /\ \A j \in Clients \ {k} : c2s'[j] = c2s[j]
  BY DEF ClientWrite, IInv, Types, StreamsOK
<1>4. t.pc = IF Len(c.out) = 1 THEN c.then ELSE "write"
  BY <1>1, <1>2, SentType
<1>5. t.pc \in {"write", "get_size"} => t.then = c.then /\ t.path = c.path
  <2>1. rest \in ClientRec /\ rest.then = c.then /\ rest.path = c.path
    <3>1. c.out \in Seq(Seq(Unit))
      BY <1>1 DEF ClientRec
    <3>2. Tail(c.out) \in Seq(Seq(Unit))
      BY <1>2, <3>1, HeadType
    <3> HIDE DEF c
    <3> QED BY <1>1, <3>2 DEF ClientRec
  <2> DEFINE pc == IF Len(c.out) = 1 THEN c.then ELSE "write"
  <2>2. t = Goes(rest, pc) /\ t.pc = pc
    BY <1>4 DEF Sent
  <2> HIDE DEF rest, t, pc, c
  <2> QED BY <2>1, <2>2, GoesRest
<1>6. c.then # "get_data"
  BY <1>1 DEF ClientRec
<1>7. ASSUME cuts = 0, ~t.odd
      PROVE  Gets(k, t, c2s'[k], s2c[k], Out(k), sv,
                  Content(sfile[cwd], t.path), Content(cfile'[k], t.path))
  <2>1. InStep(k)
    BY <1>1, <1>2, <1>7, SentOut DEF InStep
  <2> HIDE DEF c, t, in, rest
  <2>2. c.then = "get_size" => c.out = <<Msg(Question(c))>>
    BY <1>2, <2>1 DEF GetsServed, Gets, c
  <2>3. s2c[k] = <<>> /\ Out(k) = <<>>
    BY <1>2, <2>1 DEF TurnsTaken, Turn, Answered, c
  <2>4. CASE t.pc = "write"
    <3>1. c.then # "get_size"
      <4> SUFFICES ASSUME c.then = "get_size" PROVE FALSE
        OBVIOUS
      <4>1. Len(c.out) = 1
        BY <2>2
      <4> QED BY <1>4, <2>4, <4>1
    <3> QED BY <1>5, <2>4, <3>1 DEF Gets
  <2>5. CASE t.pc = "get_size"
    <3> DEFINE q == Question(c)
               m == Msg(q)
    <3>1. c.out = <<m>> /\ Question(t) = q
      BY <1>4, <1>5, <2>2, <2>5 DEF Question
    <3>2. q \in Unit
      <4>1. m \in Seq({Pad, q}) /\ m # <<>> /\ m[1] = q
        <5> HIDE DEF q
        <5> QED BY MsgType
      <4>2. m \in Seq(Unit)
        <5>1. c.out \in Seq(Seq(Unit))
          BY <1>1 DEF ClientRec
        <5> HIDE DEF m
        <5> QED BY <3>1, <5>1
      <4> HIDE DEF m, q
      <4> QED BY <4>1, <4>2, EmptySeq
    <3>3. m \in Seq(Unit) /\ Len(m) = MAX /\ m[1] = q /\ \A i \in 1..MAX : i # 1 => m[i] = Pad
      BY <3>2, MsgLength
    <3>4. Inquires(t, c2s'[k])
      <4>1. CASE link[k].c # "up" /\ c2s'[k] = in
        <5>1. c2s'[k] = <<>>
          BY <4>1 DEF ConnectionsOK, in
        <5> QED BY <5>1 DEF Inquires, NoCommand
      <4>2. CASE c2s'[k] = in \o Head(c.out)
        <5> DEFINE u == in \o m
        <5>1. c2s'[k] = u
          BY <3>1, <4>2
        <5> HIDE DEF m, q
        <5>7. /\ u \in Seq(Unit) /\ Len(u) = Len(in) + Len(m) /\ Len(in) \in Nat
              /\ \A i \in 1..Len(in) + Len(m) :
                   u[i] = IF i <= Len(in) THEN in[i] ELSE m[i - Len(in)]
          <6>1. in \in Seq(Unit) /\ m \in Seq(Unit)
            BY <1>1, <3>3
          <6>2. Len(in) \in Nat
            BY <6>1
          <6> QED BY <6>1, <6>2, ConcatProperties
        <5>2. /\ u \in Seq(Unit) /\ Len(u) = Len(in) + MAX /\ Len(in) \in Nat
              /\ \A i \in 1..Len(in) + MAX : u[i] = IF i <= Len(in) THEN in[i] ELSE m[i - Len(in)]
          BY <3>3, <5>7
        <5> HIDE DEF u
        <5>3. MAX \in Nat \ {0}
          BY BufferAssumption
        <5>4. Len(u) >= MAX /\ Len(u) - MAX + 1 = Len(in) + 1
          BY <5>2, <5>3
        <5>5. u[Len(in) + 1] = q
          <6>1. Len(in) + 1 \in 1..Len(in) + MAX /\ ~(Len(in) + 1 <= Len(in))
                /\ Len(in) + 1 - Len(in) = 1
            BY <5>2, <5>3
          <6> QED BY <3>3, <5>2, <6>1
        <5>6. ASSUME NEW i \in DOMAIN u, i > Len(in) + 1 PROVE ~IsCmd(u[i])
          <6>1. i \in 1..Len(in) + MAX /\ ~(i <= Len(in)) /\ i - Len(in) \in 1..MAX
                /\ i - Len(in) # 1
            BY <5>2, <5>3, <5>6
          <6>2. u[i] = Pad
            BY <3>3, <5>2, <6>1
          <6> QED BY <6>2 DEF Pad, IsCmd
        <5> QED BY <3>1, <5>1, <5>4, <5>5, <5>6 DEF Inquires
      <4> QED BY <1>3, <4>1, <4>2
    <3> QED BY <2>3, <2>5, <3>4 DEF Gets
  <2>6. CASE t.pc \notin {"write", "get_size"}
    BY <1>4, <1>6, <2>6, GetsNot
  <2> QED BY <2>4, <2>5, <2>6
<1> QED BY <1>2, <1>3, <1>7, GetsClientStep

(* A client reads. *)
LEMMA GetsSize ==
  ASSUME NEW k, NEW c \in ClientRec, c.pc = "get_size", c.off = 0, NEW in \in Seq(Unit),
         NEW s \in Seq(Said), s # <<>>, NEW out \in Seq(Seq(Said)), NEW x,
         NEW data \in Seq(Said), NEW file, NEW file2,
         Gets(k, c, in, s, out, x, data, file), Turn(c, in, s, out),
         NEW size \in SizesIn(Head(s))
  PROVE  LET t == Goes([c EXCEPT !.left = size], IF size <= 0 THEN "prompt" ELSE "get_data")
         IN  \/ t.pc = "prompt"
             \/ t.path = c.path /\ Gets(k, t, in, Rest(s, Avail(s)), out, x, data, file2)
<1> DEFINE sized == [c EXCEPT !.left = size]
           r == Rest(s, Avail(s))
           t == Goes(sized, "get_data")
<1>1. Asking(c, in, s, out) /\ Inquires(c, in)
      /\ Served(k, x) /\ (data = <<>> \/ Sends(data, s, out))
  BY DEF Turn, Gets
<1>2. NoCommand(in)
  <2> SUFFICES ASSUME ~NoCommand(in) PROVE FALSE
    OBVIOUS
  <2>1. Len(in) >= MAX /\ in[Len(in) - MAX + 1] = Question(c)
    BY <1>1 DEF Inquires
  <2>2. Len(in) - MAX + 1 \in 1..Len(in)
    BY <2>1, BufferAssumption
  <2>3. Asks(Question(c))
    BY DEF Asks, IsCmd, Question, Text
  <2> QED BY <1>1, <2>1, <2>2, <2>3 DEF Asking
<1>3. Head(s) = s[1] /\ s[1] \in Unit
  BY EmptySeq, SaidUnit
<1>4. size \in Int
  BY <1>3, Sizes
<1>5. CASE size <= 0
  <2>1. sized \in ClientRec
    BY <1>4 DEF ClientRec
  <2> HIDE DEF sized
  <2>2. Goes(sized, "prompt").pc = "prompt"
    BY <2>1, GoesType
  <2> QED BY <1>5, <2>2 DEF sized
<1>6. CASE ~(size <= 0)
  <2>1. sized \in ClientRec /\ sized.left = size /\ sized.off = 0 /\ sized.path = c.path
    BY <1>4 DEF ClientRec
  <2> HIDE DEF sized, r
  <2>2. t.pc = "get_data" /\ t.left = size /\ t.off = 0 /\ t.path = c.path
    BY <2>1, GoesRest
  <2> HIDE DEF t
  <2>3. ASSUME Sends(data, s, out)
        PROVE  /\ t.off + t.left = Len(data)
               /\ \A i \in 1..t.off : file2[i] = data[i]
               /\ Remains(data, r, out, t.off)
    <3>1. /\ Len(s) >= MAX /\ s[1] = <<"size", Len(data)>>
          /\ Remains(data, Rest(s, MAX), out, 0)
      BY <2>3 DEF Sends
    <3>2. Avail(s) = MAX
      BY <3>1, AvailFacts
    <3>3. size = Len(data)
      BY <1>3, <3>1 DEF SizesIn
    <3> QED BY <2>2, <3>1, <3>2, <3>3 DEF r
  <2>4. Gets(k, t, in, r, out, x, data, file2)
    BY <1>1, <1>2, <2>2, <2>3 DEF Gets
  <2>5. t = Goes([c EXCEPT !.left = size], IF size <= 0 THEN "prompt" ELSE "get_data")
    BY <1>6 DEF t, sized
  <2> QED BY <2>2, <2>4, <2>5 DEF r
<1> QED BY <1>5, <1>6

(* What write(fd, buf, n) leaves before its offset, and what it puts there. *)
LEMMA OverwrittenAt ==
  ASSUME NEW old \in Seq(Said), NEW new \in Seq(Said), NEW off \in 0..Len(old)
  PROVE  LET w == Overwritten(old, off, new) IN
         /\ w \in Seq(Said) /\ Len(w) >= off + Len(new)
         /\ \A i \in 1..off : w[i] = old[i]
         /\ \A i \in 1..Len(new) : w[off + i] = new[i]
<1> DEFINE a == SubSeq(old, 1, off)
           b == SubSeq(old, off + Len(new) + 1, Len(old))
           w == Overwritten(old, off, new)
<1>1. a \in Seq(Said) /\ Len(a) = off /\ \A i \in 1..off : a[i] = old[i]
  <2>1. off \in Nat /\ off <= Len(old) /\ \A i \in 1..off : old[i] \in Said
    OBVIOUS
  <2>2. /\ a \in Seq(Said)
        /\ Len(a) = IF 1 <= off THEN off - 1 + 1 ELSE 0
        /\ \A i \in 1..off - 1 + 1 : a[i] = old[1 + i - 1]
    BY <2>1, SubSeqProperties
  <2> HIDE DEF a
  <2> QED BY <2>1, <2>2
<1>2. b \in Seq(Said)
  BY SubSeqProperties
<1>3. w = (a \o new) \o b /\ Len(new) \in Nat /\ off \in Nat
  BY DEF Overwritten
<1> HIDE DEF a, b, w
<1>4. /\ a \o new \in Seq(Said) /\ Len(a \o new) = off + Len(new)
      /\ \A i \in 1..off + Len(new) : (a \o new)[i] = IF i <= off THEN a[i] ELSE new[i - off]
  BY <1>1, ConcatProperties
<1> DEFINE v == a \o new
<1>5. /\ v \in Seq(Said) /\ Len(v) = off + Len(new)
      /\ \A i \in 1..off + Len(new) : v[i] = IF i <= off THEN a[i] ELSE new[i - off]
      /\ w = v \o b
  BY <1>3, <1>4
<1> HIDE DEF v
<1>6. /\ w \in Seq(Said) /\ Len(w) = Len(v) + Len(b) /\ Len(b) \in Nat /\ Len(v) \in Nat
      /\ \A i \in 1..Len(v) + Len(b) : w[i] = IF i <= Len(v) THEN v[i] ELSE b[i - Len(v)]
  <2>1. v \in Seq(Said) /\ w = v \o b /\ Len(b) \in Nat /\ Len(v) \in Nat
    BY <1>2, <1>5
  <2> QED BY <1>2, <2>1, ConcatProperties
<1>7. \A i \in 1..off + Len(new) : w[i] = v[i]
  BY <1>3, <1>5, <1>6
<1>8. \A i \in 1..off : w[i] = old[i]
  BY <1>1, <1>3, <1>5, <1>7
<1>9. ASSUME NEW i \in 1..Len(new) PROVE w[off + i] = new[i]
  <2>1. off + i \in 1..off + Len(new) /\ ~(off + i <= off) /\ off + i - off = i
    BY <1>3
  <2> QED BY <1>5, <1>7, <2>1
<1>10. Len(w) >= off + Len(new)
  BY <1>3, <1>5, <1>6
<1> QED BY <1>6, <1>8, <1>9, <1>10 DEF w

\* The file after the client wrote the first n units of s to it.
Saved(c, file, s, n) == Overwritten(file, c.off, SubSeq(s, 1, n))

LEMMA SavedData ==
  ASSUME NEW c \in ClientRec, NEW s \in Seq(Said), NEW n \in 1..Len(s), NEW data \in Seq(Said),
         NEW file \in Seq(Said), c.off <= Len(file), \A i \in 1..c.off : file[i] = data[i],
         Copies(data, s, c.off)
  PROVE  /\ Saved(c, file, s, n) \in Seq(Said) /\ Len(Saved(c, file, s, n)) >= c.off + n
         /\ \A i \in 1..c.off + n : Saved(c, file, s, n)[i] = data[i]
<1> DEFINE new == SubSeq(s, 1, n)
           off == c.off
           w == Overwritten(file, off, new)
<1>1. off \in 0..Len(file) /\ off \in Nat /\ n \in Nat /\ n <= Len(s)
  BY DEF ClientRec
<1>2. new \in Seq(Said) /\ Len(new) = n /\ \A i \in 1..n : new[i] = s[i]
  <2>1. \A i \in 1..n : s[i] \in Said
    OBVIOUS
  <2>2. /\ new \in Seq(Said)
        /\ Len(new) = IF 1 <= n THEN n - 1 + 1 ELSE 0
        /\ \A i \in 1..n - 1 + 1 : new[i] = s[1 + i - 1]
    BY <1>1, <2>1, SubSeqProperties
  <2> HIDE DEF new
  <2> QED BY <1>1, <2>2
<1>3. w = Saved(c, file, s, n)
  BY DEF Saved
<1> HIDE DEF new, off, w
<1>4. /\ w \in Seq(Said) /\ Len(w) >= off + Len(new)
      /\ \A i \in 1..off : w[i] = file[i]
      /\ \A i \in 1..Len(new) : w[off + i] = new[i]
  BY <1>1, <1>2, OverwrittenAt DEF w
<1>5. ASSUME NEW i \in 1..off + n PROVE w[i] = data[i]
  <2>1. CASE i <= off
    <3>1. i \in 1..off
      BY <2>1
    <3> QED BY <1>4, <3>1 DEF off
  <2>2. CASE ~(i <= off)
    <3>1. i - off \in 1..n /\ off + (i - off) = i /\ i - off \in 1..Len(s)
      BY <1>1, <2>2
    <3>2. s[i - off] = data[off + (i - off)]
      BY <3>1 DEF Copies, off
    <3>3. w[off + (i - off)] = new[i - off]
      BY <1>2, <1>4, <3>1
    <3> QED BY <1>2, <3>1, <3>2, <3>3
  <2> QED BY <2>1, <2>2
<1> QED BY <1>2, <1>3, <1>4, <1>5 DEF off

LEMMA GetsData ==
  ASSUME NEW k, NEW c \in ClientRec, c.pc = "get_data", c.path \notin ClientDirs,
         NEW in, NEW s \in Seq(Said),
         NEW n \in 1..Len(s), NEW out \in Seq(Seq(Said)), NEW x, NEW data \in Seq(Said),
         NEW file \in Seq(Said), c.off <= Len(file), Gets(k, c, in, s, out, x, data, file)
  PROVE  /\ \/ Received(c, n).pc = "prompt"
            \/ /\ Received(c, n).path = c.path
               /\ Gets(k, Received(c, n), in, Rest(s, n), out, x, data, Saved(c, file, s, n))
         /\ c.left <= n /\ Saved(c, file, s, n) \in Seq(Said) =>
              IsPrefix(data, Saved(c, file, s, n))
<1> DEFINE left == c.left - n
           off == c.off + n
           got == [c EXCEPT !.left = left, !.off = off]
           t == Goes(got, "get_data")
           w == Saved(c, file, s, n)
<1>1. c.left \in Int /\ c.off \in Nat /\ n \in Nat /\ Len(s) \in Nat /\ s # <<>> /\ n <= Len(s)
  BY DEF ClientRec
<1>2. Served(k, x) /\ NoCommand(in)
  BY <1>1 DEF Gets
<1>3. \/ data = <<>>
      \/ /\ c.off + c.left = Len(data)
         /\ \A i \in 1..c.off : file[i] = data[i]
         /\ Remains(data, s, out, c.off)
  BY <1>1 DEF Gets
<1>4. Received(c, n) = Goes(got, IF c.left <= n THEN "prompt" ELSE "get_data")
  BY DEF Received
<1>5. left \in Int /\ off \in Nat
  BY <1>1
<1> HIDE DEF left, off
<1>6. got \in ClientRec /\ got.left = left /\ got.off = off /\ got.path = c.path
  BY <1>5 DEF ClientRec
<1> HIDE DEF got, w
<1>7. ASSUME data # <<>>
      PROVE  /\ w \in Seq(Said) /\ Len(w) >= off
             /\ \A i \in 1..off : w[i] = data[i]
  BY <1>1, <1>3, <1>7, SavedData DEF Remains, w, off
<1>8. CASE c.left <= n
  <2>1. Received(c, n).pc = "prompt"
    BY <1>4, <1>6, <1>8, GoesType
  <2>2. ASSUME w \in Seq(Said) PROVE IsPrefix(data, w)
    <3>1. CASE data = <<>>
      <4>1. Begins(data, w)
        BY <2>2, <3>1 DEF Begins
      <4> QED BY <2>2, <4>1, BeginsPrefix
    <3>2. CASE data # <<>>
      <4>1. c.off + Len(s) <= Len(data) /\ c.off + c.left = Len(data)
        BY <1>3, <3>2 DEF Remains, Copies
      <4>2. off = Len(data)
        BY <1>1, <1>8, <4>1 DEF off
      <4>3. Begins(data, w)
        BY <1>7, <2>2, <3>2, <4>2 DEF Begins
      <4> QED BY <2>2, <4>3, BeginsPrefix
    <3> QED BY <3>1, <3>2
  <2> QED BY <2>1, <2>2 DEF w
<1>9. CASE ~(c.left <= n)
  <2>1. t.pc = "get_data" /\ t.left = left /\ t.off = off /\ t.path = c.path
    BY <1>6, GoesRest
  <2> HIDE DEF t
  <2>2. data # <<>> => off + left = Len(data)
    BY <1>1, <1>3 DEF off, left
  <2>3. data # <<>> => Remains(data, Rest(s, n), out, off)
    BY <1>1, <1>3, RemainsRead DEF off
  <2>4. Gets(k, t, in, Rest(s, n), out, x, data, w)
    BY <1>2, <1>7, <2>1, <2>2, <2>3 DEF Gets
  <2>5. t = Received(c, n)
    BY <1>4, <1>9 DEF t
  <2> QED BY <1>9, <2>1, <2>4, <2>5 DEF w
<1> QED BY <1>8, <1>9

(* A read of a client that takes all there is, and the end of its stream. *)
GetsKept(k, c, n) ==
  /\ cuts = 0 /\ n = Avail(s2c[k]) /\ s2c[k] # <<>>
  /\ Turn(cl[k], c2s[k], s2c[k], Out(k))
  /\ Gets(k, cl[k], c2s[k], s2c[k], Out(k), sv, Wanted(k), Gotten(k))
  => \/ c.pc = "prompt"
     \/ /\ c.path = cl[k].path
        /\ Gets(k, c, c2s[k], Rest(s2c[k], n), Out(k), sv, Wanted(k),
                Content(cfile'[k], c.path))

LEMMA ReadGets ==
  ASSUME IInv, ConnectionsOK, TurnsTaken, GetsServed, NEW k \in Clients, NEW n,
         ClientReads(k, n), ReadAnswer(k) \/ ReadSize(k) \/ ReadData(k),
         NEW c, cl' = [cl EXCEPT ![k] = c],
         \A j \in Clients \ {k} : cfile'[j] = cfile[j],
         GetsKept(k, c, n)
  PROVE  GetsServed'
<1>1. s2c[k] \in Seq(Said)
  BY WantedType
<1>2. /\ UNCHANGED <<sv, c2s, sfile, cwd>> /\ s2c'[k] = Rest(s2c[k], n)
      /\ \A j \in Clients \ {k} : s2c'[j] = s2c[j]
  BY DEF ClientReads, IInv, Types, StreamsOK
<1>3. (cuts' = 0 => cuts = 0 /\ n = Avail(s2c[k])) /\ s2c[k] # <<>>
  BY <1>1, ReadAll DEF ClientReads, ConnectionsOK
<1>4. c.odd = cl[k].odd
  BY ReadsForm, ClientsOther
<1>5. ASSUME cuts' = 0, ~c.odd
      PROVE  Gets(k, c, c2s'[k], s2c'[k], Out(k), sv,
                  Content(sfile[cwd], c.path), Content(cfile'[k], c.path))
  <2>1. /\ Turn(cl[k], c2s[k], s2c[k], Out(k))
        /\ Gets(k, cl[k], c2s[k], s2c[k], Out(k), sv, Wanted(k), Gotten(k))
    BY <1>3, <1>4, <1>5 DEF TurnsTaken, GetsServed, InStep
  <2>2. CASE c.pc = "prompt"
    BY <2>2, GetsNot
  <2>3. CASE c.pc # "prompt"
    BY <1>2, <1>3, <1>5, <2>1, <2>3 DEF GetsKept, Wanted
  <2> QED BY <2>2, <2>3
<1> QED BY <1>2, <1>3, <1>5, GetsClientStep

LEMMA EndGets ==
  ASSUME IInv, ConnectionsOK, GetsServed, NEW k \in Clients, ClientEnd(k),
         NEW c, c.pc # "write", cl' = [cl EXCEPT ![k] = c],
         \A j \in Clients \ {k} : cfile'[j] = cfile[j]
  PROVE  GetsServed'
<1>1. /\ UNCHANGED <<sv, c2s, s2c, cuts, sfile, cwd>>
      /\ s2c[k] = <<>> /\ c2s[k] = <<>> /\ sv.pc = "dead"
  BY DEF ClientEnd, history, ConnectionsOK
<1>2. Out(k) = <<>>
  BY <1>1 DEF Out
<1>3. Gets(k, c, <<>>, <<>>, <<>>, sv, Content(sfile[cwd], c.path), Content(cfile'[k], c.path))
  BY <1>1 DEF Gets, Inquires, NoCommand
<1> QED BY <1>1, <1>2, <1>3, GetsClientStep

LEMMA DataRead ==
  ASSUME IInv, NEW k \in Clients, cl[k].pc = "get_data", cl[k].path \notin ClientDirs,
         NEW n \in 1..MAX, ClientReads(k, n),
         cfile' = [cfile EXCEPT ![k][cl[k].path] =
                     Overwritten(@, cl[k].off, SubSeq(s2c[k], 1, n))]
  PROVE  /\ cl[k].off <= Len(Gotten(k)) /\ n \in 1..Len(s2c[k])
         /\ Content(cfile'[k], cl[k].path) = Saved(cl[k], Gotten(k), s2c[k], n)
         /\ Content(cfile'[k], cl[k].path) \in Seq(Said)
         /\ \A j \in Clients \ {k} : cfile'[j] = cfile[j]
<1> USE DEF IInv, Types
<1> DEFINE f == cl[k].path
           w == Saved(cl[k], Gotten(k), s2c[k], n)
           dir == [cfile[k] EXCEPT ![f] = w]
<1>1. f \in DOMAIN cfile[k] /\ cl[k].off <= Len(cfile[k][f]) /\ cl[k].off \in Nat
  BY DEF ClientsOK, ClientOK, ClientRec
<1>2. Gotten(k) = cfile[k][f]
  BY <1>1 DEF Gotten, Content
<1>3. n \in 1..Len(s2c[k])
  BY ClientReadsType
<1>4. Gotten(k) \in Seq(Said) /\ s2c[k] \in Seq(Said)
  BY WantedType
<1>5. w \in Seq(Said)
  <2>1. SubSeq(s2c[k], 1, n) \in Seq(Said)
    BY <1>3, <1>4, SubSeqProperties
  <2>2. cl[k].off \in 0..Len(Gotten(k))
    BY <1>1, <1>2, <1>4
  <2> QED BY <1>4, <2>1, <2>2, OverwrittenType DEF Saved
<1>6. w = Overwritten(cfile[k][f], cl[k].off, SubSeq(s2c[k], 1, n))
  BY <1>2 DEF Saved
<1>7. cfile' = [cfile EXCEPT ![k] = dir]
  BY <1>6
<1> HIDE DEF w
<1>8. f \in DOMAIN dir /\ dir[f] = w
  BY <1>1
<1> HIDE DEF dir, f
<1>9. cfile'[k] = dir /\ \A j \in Clients \ {k} : cfile'[j] = cfile[j]
  BY <1>7 DEF ClientsOK
<1>10. Content(cfile'[k], f) = w
  BY <1>8, <1>9 DEF Content
<1> QED BY <1>1, <1>2, <1>3, <1>5, <1>9, <1>10 DEF f, w

\* A read of getClient that gets n units.
Fetched(k, n) ==
  /\ ClientReads(k, n)
  /\ LET f == cl[k].path
     IN  cfile' = IF f \in ClientDirs THEN cfile
                  ELSE [cfile EXCEPT ![k][f] =
                          Overwritten(@, cl[k].off, SubSeq(s2c[k], 1, n))]
  /\ cl' = [cl EXCEPT ![k] = Received(@, n)]

LEMMA ReceivedRest ==
  ASSUME NEW c \in ClientRec, NEW n \in Nat
  PROVE  Received(c, n).pc = "prompt"
         \/ (Received(c, n).pc = "get_data" /\ Received(c, n).path = c.path)
<1> DEFINE left == c.left - n
           off == c.off + n
           got == [c EXCEPT !.left = left, !.off = off]
<1>1. left \in Int /\ off \in Nat
  BY DEF ClientRec
<1> HIDE DEF left, off
<1>2. got \in ClientRec /\ got.path = c.path
  BY <1>1 DEF ClientRec
<1>3. Received(c, n) = Goes(got, IF c.left <= n THEN "prompt" ELSE "get_data")
  BY DEF Received, left, off
<1> HIDE DEF got
<1>4. Goes(got, "prompt").pc = "prompt"
  BY <1>2, GoesType
<1>5. Goes(got, "get_data").pc = "get_data" /\ Goes(got, "get_data").path = c.path
  BY <1>2, GoesRest
<1> QED BY <1>3, <1>4, <1>5

LEMMA ClientGets ==
  \A k \in Clients :
    IInv /\ ConnectionsOK /\ TurnsTaken /\ GetsServed /\ (User(k) \/ Client(k)) => GetsServed'
<1> SUFFICES ASSUME NEW k \in Clients, IInv, ConnectionsOK, TurnsTaken, GetsServed,
                    User(k) \/ Client(k)
             PROVE  GetsServed'
  OBVIOUS
<1>1. /\ cl[k] \in ClientRec /\ c2s[k] \in Seq(Unit) /\ s2c[k] \in Seq(Said)
      /\ Out(k) \in Seq(Seq(Said)) /\ Wanted(k) \in Seq(Said) /\ Gotten(k) \in Seq(Said)
  BY WantedType
<1>2. CASE Connect(k)
  <2> DEFINE c == [cl[k] EXCEPT !.pc = "prompt"]
  <2>1. cl' = [cl EXCEPT ![k] = c] /\ c.pc = "prompt"
    BY <1>1, <1>2 DEF Connect, ClientRec
  <2> HIDE DEF c
  <2>2. UNCHANGED <<c2s, s2c, sv, cuts, sfile, cwd, cfile>>
    BY <1>2 DEF Connect, history, files
  <2>3. Gets(k, c, c2s'[k], s2c'[k], Out(k), sv,
             Content(sfile[cwd], c.path), Content(cfile'[k], c.path))
    BY <2>1, GetsNot
  <2> QED BY <2>1, <2>2, <2>3, GetsClientStep
<1>3. CASE Exit(k) \/ KillClient(k) \/ ClientPipe(k)
  BY <1>3, EndsGets DEF Exit, KillClient, ClientPipe, ClientEnds
<1>4. CASE \E cmd \in Commands[k] : Ask(k, cmd)
  BY <1>4, AskGets
<1>5. CASE ClientWrite(k)
  BY <1>5, WriteGets
<1>6. CASE ReadAnswer(k)
  <2>1. cl[k].pc \in {"ls", "pwd"} /\ UNCHANGED cfile /\ Prompt(cl[k]).pc = "prompt"
    BY <1>1, <1>6, IdleType DEF ReadAnswer
  <2>2. PICK c \in {cl[k], Prompt(cl[k])} : cl' = [cl EXCEPT ![k] = c]
    <3>1. UNCHANGED cl \/ cl' = [cl EXCEPT ![k] = Prompt(cl[k])]
      BY <1>6 DEF ReadAnswer
    <3>2. cl = [cl EXCEPT ![k] = cl[k]]
      BY DEF IInv, Types, ClientsOK
    <3> QED BY <3>1, <3>2
  <2>3. c.pc \notin {"write", "get_size", "get_data"}
    BY <2>1, <2>2
  <2>4. CASE ClientEnd(k)
    BY <2>1, <2>2, <2>3, <2>4, EndGets
  <2>5. CASE \E n \in 1..MAX : ClientReads(k, n)
    <3> PICK n \in 1..MAX : ClientReads(k, n)
      BY <2>5
    <3>1. UNCHANGED <<sv, sfile, cwd>> /\ \A j \in Clients \ {k} : c2s'[j] = c2s[j] /\ s2c'[j] = s2c[j]
      BY DEF ClientReads, IInv, Types, StreamsOK
    <3>2. cuts' = 0 => cuts = 0
      BY <1>1, ReadAll DEF ClientReads, ConnectionsOK
    <3>3. Gets(k, c, c2s'[k], s2c'[k], Out(k), sv,
               Content(sfile[cwd], c.path), Content(cfile'[k], c.path))
      BY <2>3, GetsNot
    <3> QED BY <2>1, <2>2, <3>1, <3>2, <3>3, GetsClientStep
  <2> QED BY <1>6, <2>4, <2>5 DEF ReadAnswer
<1>7. CASE ReadSize(k)
  <2> DEFINE next(size) == Goes([cl[k] EXCEPT !.left = size],
                                IF size <= 0 THEN "prompt" ELSE "get_data")
  <2>1. cl[k].pc = "get_size" /\ cl[k].off = 0
    BY <1>7 DEF ReadSize, IInv, Types, ClientsOK, ClientOK
  <2>2. ASSUME NEW sizes, GetSize(k, sizes)
        PROVE  /\ \E size \in sizes : cl' = [cl EXCEPT ![k] = next(size)]
               /\ \A j \in Clients \ {k} : cfile'[j] = cfile[j]
    BY <2>2 DEF GetSize, IInv, Types, ClientsOK
  <2>3. CASE \E n \in 1..MAX : ClientReads(k, n) /\ GetSize(k, SizesIn(Head(s2c[k])))
    <3>1. PICK n \in 1..MAX : ClientReads(k, n) /\ GetSize(k, SizesIn(Head(s2c[k])))
      BY <2>3
    <3>2. PICK size \in SizesIn(Head(s2c[k])) : cl' = [cl EXCEPT ![k] = next(size)]
      BY <2>2, <3>1
    <3>3. \A j \in Clients \ {k} : cfile'[j] = cfile[j]
      BY <2>2, <3>1
    <3>4. ASSUME n = Avail(s2c[k]), s2c[k] # <<>>, Turn(cl[k], c2s[k], s2c[k], Out(k)),
                 Gets(k, cl[k], c2s[k], s2c[k], Out(k), sv, Wanted(k), Gotten(k))
          PROVE  \/ next(size).pc = "prompt"
                 \/ /\ next(size).path = cl[k].path
                    /\ Gets(k, next(size), c2s[k], Rest(s2c[k], n), Out(k), sv, Wanted(k),
                            Content(cfile'[k], next(size).path))
      <4> DEFINE file == Content(cfile'[k], next(size).path)
                 t == Goes([cl[k] EXCEPT !.left = size],
                           IF size <= 0 THEN "prompt" ELSE "get_data")
      <4>1. t = next(size)
        OBVIOUS
      <4> HIDE DEF file
      <4>2. \/ t.pc = "prompt"
            \/ /\ t.path = cl[k].path
               /\ Gets(k, t, c2s[k], Rest(s2c[k], Avail(s2c[k])), Out(k), sv, Wanted(k), file)
        BY <1>1, <2>1, <3>2, <3>4, GetsSize
      <4> HIDE DEF t, next
      <4>3. \/ next(size).pc = "prompt"
            \/ /\ next(size).path = cl[k].path
               /\ Gets(k, next(size), c2s[k], Rest(s2c[k], n), Out(k), sv, Wanted(k), file)
        BY <3>4, <4>1, <4>2
      <4> QED BY <4>3 DEF file
    <3> DEFINE c == next(size)
    <3>5. GetsKept(k, c, n)
      <4> HIDE DEF next
      <4> QED BY <3>4 DEF GetsKept
    <3>6. cl' = [cl EXCEPT ![k] = c]
      BY <3>2
    <3> HIDE DEF c
    <3> QED BY <1>7, <3>1, <3>3, <3>5, <3>6, ReadGets
  <2>4. CASE ClientEnd(k) /\ GetSize(k, JunkSizes)
    <3>1. PICK size \in JunkSizes : cl' = [cl EXCEPT ![k] = next(size)]
      BY <2>2, <2>4
    <3>2. next(size).pc # "write"
      <4> DEFINE sized == [cl[k] EXCEPT !.left = size]
                 pc == IF size <= 0 THEN "prompt" ELSE "get_data"
      <4>1. sized \in ClientRec /\ pc \in {"prompt", "get_data"}
        BY <1>1, JunkAssumption DEF ClientRec
      <4>2. next(size) = Goes(sized, pc)
        OBVIOUS
      <4> HIDE DEF sized, pc, next
      <4> QED BY <4>1, <4>2, GoesType
    <3> HIDE DEF next
    <3> QED BY <2>2, <2>4, <3>1, <3>2, EndGets
  <2> QED BY <1>7, <2>3, <2>4 DEF ReadSize
<1>8. CASE ReadData(k)
  <2>1. cl[k].pc = "get_data"
    BY <1>8 DEF ReadData
  <2>2. CASE \E n \in 1..MAX : Fetched(k, n) /\ cl[k].path \notin ClientDirs
    <3>1. PICK n \in 1..MAX :
            /\ ClientReads(k, n)
            /\ cfile' = [cfile EXCEPT ![k][cl[k].path] =
                           Overwritten(@, cl[k].off, SubSeq(s2c[k], 1, n))]
            /\ cl' = [cl EXCEPT ![k] = Received(cl[k], n)]
            /\ cl[k].path \notin ClientDirs
      BY <2>2 DEF Fetched
    <3>2. /\ cl[k].off <= Len(Gotten(k)) /\ n \in 1..Len(s2c[k])
          /\ Content(cfile'[k], cl[k].path) = Saved(cl[k], Gotten(k), s2c[k], n)
          /\ \A j \in Clients \ {k} : cfile'[j] = cfile[j]
      BY <2>1, <3>1, DataRead
    <3>3. ASSUME Gets(k, cl[k], c2s[k], s2c[k], Out(k), sv, Wanted(k), Gotten(k))
          PROVE  \/ Received(cl[k], n).pc = "prompt"
                 \/ /\ Received(cl[k], n).path = cl[k].path
                    /\ Gets(k, Received(cl[k], n), c2s[k], Rest(s2c[k], n), Out(k), sv, Wanted(k),
                            Content(cfile'[k], Received(cl[k], n).path))
      <4>1. \/ Received(cl[k], n).pc = "prompt"
            \/ /\ Received(cl[k], n).path = cl[k].path
               /\ Gets(k, Received(cl[k], n), c2s[k], Rest(s2c[k], n), Out(k), sv, Wanted(k),
                       Saved(cl[k], Gotten(k), s2c[k], n))
        BY <1>1, <2>1, <3>1, <3>2, <3>3, GetsData
      <4> QED BY <3>2, <4>1
    <3> DEFINE c == Received(cl[k], n)
    <3>4. GetsKept(k, c, n)
      BY <3>3 DEF GetsKept
    <3>5. ClientReads(k, n) /\ cl' = [cl EXCEPT ![k] = c]
      BY <3>1
    <3> HIDE DEF c
    <3> QED BY <1>8, <3>2, <3>4, <3>5, ReadGets
  <2>3. CASE \E n \in 1..MAX : Fetched(k, n) /\ cl[k].path \in ClientDirs
    <3>1. PICK n \in 1..MAX : /\ ClientReads(k, n) /\ cl[k].path \in ClientDirs
                             /\ UNCHANGED cfile /\ cl' = [cl EXCEPT ![k] = Received(cl[k], n)]
      BY <2>3 DEF Fetched
    <3> DEFINE c == Received(cl[k], n)
    <3>2. c.pc = "prompt" \/ (c.pc = "get_data" /\ c.path = cl[k].path)
      BY <1>1, ReceivedRest
    <3> HIDE DEF c
    <3>3. GetsKept(k, c, n)
      BY <3>1, <3>2 DEF GetsKept, Gets
    <3>4. cl' = [cl EXCEPT ![k] = c] /\ \A j \in Clients \ {k} : cfile'[j] = cfile[j]
      BY <3>1 DEF c
    <3> QED BY <1>8, <3>1, <3>3, <3>4, ReadGets
  <2>4. CASE ClientEnd(k) /\ cl' = [cl EXCEPT ![k].left = @ + 1] /\ UNCHANGED cfile
    <3> DEFINE c == [cl[k] EXCEPT !.left = @ + 1]
    <3>1. cl' = [cl EXCEPT ![k] = c]
      BY <2>4
    <3>2. c.pc = "get_data"
      BY <1>1, <2>1 DEF ClientRec
    <3> HIDE DEF c
    <3> QED BY <2>4, <3>1, <3>2, EndGets
  <2> QED BY <1>8, <2>2, <2>3, <2>4 DEF ReadData, Fetched
<1> QED BY <1>2, <1>3, <1>4, <1>5, <1>6, <1>7, <1>8 DEF User, Client

LEMMA InitGets == Init => GetsServed
<1> SUFFICES ASSUME Init, NEW k \in Clients PROVE cl[k].pc = "off"
  BY DEF GetsServed, Gets
<1> QED BY DEF Init, Idle

LEMMA NextGets ==
  IInv /\ HistoryOK /\ NoneLost /\ ConnectionsOK /\ TurnsTaken /\ GetsServed /\ [Next]_vars
    => GetsServed'
<1> SUFFICES ASSUME IInv, HistoryOK, NoneLost, ConnectionsOK, TurnsTaken, GetsServed, [Next]_vars
             PROVE  GetsServed'
  OBVIOUS
<1>1. CASE UNCHANGED vars
  BY <1>1 DEF vars, GetsServed, InStep, Out, Wanted, Gotten
<1> QED BY <1>1, ServerGets, ClientGets DEF Next

\* What a step that ends a get of client k leaves in its file.
GetCopied(k) ==
  cl[k].pc = "get_data" /\ cl'[k].pc = "prompt"
    /\ cuts = 0 /\ ~cl[k].odd /\ cl[k].path \notin ClientDirs
    => IsPrefix(Content(sfile[cwd], cl[k].path), Content(cfile'[k], cl[k].path))

LEMMA StepCopies ==
  IInv /\ GetsServed /\ [Next]_vars => \A k \in Clients : GetCopied(k)
<1> SUFFICES ASSUME IInv, GetsServed, [Next]_vars, NEW k \in Clients,
                    cl[k].pc = "get_data", cl'[k].pc = "prompt",
                    InStep(k), cl[k].path \notin ClientDirs
             PROVE  IsPrefix(Wanted(k), Content(cfile'[k], cl[k].path))
  BY DEF GetCopied, InStep, Wanted
<1>1. cl'[k] # cl[k]
  OBVIOUS
<1>2. cl[k] \in ClientRec
  BY WantedType
<1>3. ~Server /\ ~UNCHANGED vars
  <2>1. Server => UNCHANGED cl
    BY DEF Server, Accept, ServerWrite, ServerFails, ServerReadsLine, ServerLosesClient,
           ServerReadsSize, ServerReadsData, ServerReads, ServerEnd
  <2> QED BY <1>1, <2>1 DEF vars
<1>4. \A j \in Clients : j # k => ~(User(j) \/ Client(j))
  <2> SUFFICES ASSUME NEW j \in Clients, j # k, User(j) \/ Client(j)
               PROVE  cl'[k] = cl[k]
    BY <1>1
  <2> QED BY DEF User, Client, Connect, Exit, KillClient, ClientPipe, ClientEnds, Ask,
             ClientWrite, ReadAnswer, ReadSize, GetSize, ReadData, IInv, Types, ClientsOK
<1>5. ~ClientEnds(k)
  BY IdleType DEF ClientEnds, IInv, Types, ClientsOK
<1>6. ReadData(k)
  BY <1>3, <1>4, <1>5 DEF Next, User, Client, Connect, Exit, KillClient, ClientPipe, Ask,
                          ClientWrite, ReadAnswer, ReadSize
<1>7. PICK n \in 1..MAX :
        /\ ClientReads(k, n)
        /\ cfile' = [cfile EXCEPT ![k][cl[k].path] =
                       Overwritten(@, cl[k].off, SubSeq(s2c[k], 1, n))]
        /\ cl' = [cl EXCEPT ![k] = Received(cl[k], n)]
  <2>1. ~(cl' = [cl EXCEPT ![k].left = @ + 1])
    BY <1>2 DEF IInv, Types, ClientsOK, ClientRec
  <2> QED BY <1>6, <2>1 DEF ReadData
<1>8. /\ cl[k].off <= Len(Gotten(k)) /\ n \in 1..Len(s2c[k])
      /\ Content(cfile'[k], cl[k].path) = Saved(cl[k], Gotten(k), s2c[k], n)
      /\ Content(cfile'[k], cl[k].path) \in Seq(Said)
  BY <1>6, <1>7, DataRead
<1>9. cl[k].left <= n
  <2> DEFINE got == [cl[k] EXCEPT !.left = @ - n, !.off = @ + n]
  <2>1. cl'[k] = Received(cl[k], n)
    BY <1>7, ClientsOther
  <2>2. cl[k].left > n => Received(cl[k], n) = [got EXCEPT !.pc = "get_data"]
    <3> SUFFICES ASSUME cl[k].left > n
                 PROVE  Received(cl[k], n) = [got EXCEPT !.pc = "get_data"]
      OBVIOUS
    <3>1. cl[k].left \in Int /\ n \in Int
      BY <1>2 DEF ClientRec
    <3>2. ~(cl[k].left - n <= 0) /\ ~(cl[k].left <= n) /\ cl[k].left - n > 0
      BY <3>1
    <3>3. got.left = cl[k].left - n
      BY <1>2 DEF ClientRec
    <3> HIDE DEF got
    <3> QED BY <3>2, <3>3 DEF Received, Goes, got
  <2>3. got.pc = cl[k].pc /\ [got EXCEPT !.pc = "get_data"].pc = "get_data"
    BY <1>2 DEF ClientRec
  <2> HIDE DEF got
  <2>4. ~(cl[k].left > n)
    BY <2>1, <2>2, <2>3
  <2>5. cl[k].left \in Int /\ n \in Int
    BY <1>2 DEF ClientRec
  <2> QED BY <2>4, <2>5
<1>10. /\ Gets(k, cl[k], c2s[k], s2c[k], Out(k), sv, Wanted(k), Gotten(k))
       /\ c2s[k] \in Seq(Unit) /\ s2c[k] \in Seq(Said) /\ Out(k) \in Seq(Seq(Said))
       /\ Wanted(k) \in Seq(Said) /\ Gotten(k) \in Seq(Said)
  BY WantedType DEF GetsServed
<1> DEFINE saved == Saved(cl[k], Gotten(k), s2c[k], n)
<1>11. saved \in Seq(Said)
  BY <1>8
<1>12. IsPrefix(Wanted(k), saved)
  BY <1>2, <1>8, <1>9, <1>10, <1>11, GetsData
<1> HIDE DEF saved
<1> QED BY <1>8, <1>12 DEF saved

(* As long as no read is short, a finished get of a client that put only   *)
(* files that fill whole buffers leaves in its file the whole of the       *)
(* server's file, for any number of clients, any files and commands, any   *)
(* buffer size, and whatever the other clients put (client.c:126,          *)
(* server.c:171).                                                          *)
THEOREM GetsCopy == Spec => GetCopies
<1> DEFINE GetsKnown == HistoryOK /\ NoneLost /\ ConnectionsOK /\ TurnsTaken /\ GetsServed
<1>1. Init => GetsKnown
  BY InitHistory, InitLost, InitConnections, InitTurns, InitGets
<1>2. IInv /\ GetsKnown /\ [Next]_vars => GetsKnown'
  BY NextHistory, NextLost, NextConnections, NextTurns, NextGets
<1>3. IInv /\ GetsKnown /\ [Next]_vars => [\A k \in Clients : GetCopied(k)]_vars
  BY StepCopies
<1> HIDE DEF GetsKnown
<1>4. Spec => [][\A k \in Clients : GetCopied(k)]_vars
  BY <1>1, <1>2, <1>3, Invariance, PTL DEF Spec
<1> QED BY <1>4 DEF GetCopies, GetCopied
=============================================================================

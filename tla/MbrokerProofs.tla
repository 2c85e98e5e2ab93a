--------------------------- MODULE MbrokerProofs ---------------------------
(* The broker of one thread, for any clients, boxes and messages and for file
   system tables of any size. *)
EXTENDS Mbroker, ClientsProofs, TfsOpsProofs

Managing == {"answer open", "answer write", "list open", "list write"}
Spreading == {"spread open", "spread write"}
Publishing == {"publisher open", "listening"} \cup Spreading
Replaying == {"replay open", "replay write"}
Subscribing == {"watch open", "watching"} \cup Replaying

BoxRecords == [box_name : Boxes, publisher_named_pipe : Publishers \cup {NoClient},
               subscribers : Seq(Subscribers), messages_size : Seq(Nat), freed : BOOLEAN]

\* Names in the list are unique, those of freed boxes included, and what was
\* published is recorded for each of them.
BoxesFit ==
  /\ box_list \in Seq(BoxRecords)
  /\ \A i, j \in DOMAIN box_list : Boxed(i) = Boxed(j) => i = j
  /\ DOMAIN published \subseteq Boxes
  /\ published = [n \in DOMAIN published |-> published[n]]
  /\ \A n \in DOMAIN published : published[n] \in Seq(Messages)
  /\ \A i \in DOMAIN box_list : Boxed(i) \in DOMAIN published

JobTyped(j) == j \in [client : Clients \cup {NoClient}, life : Nat, box : {j.box},
                      todo : {j.todo}, data : {j.data}, handle : {j.handle}, reader : Nat]

\* A handler serves a client of the kind its request is for, and a session is
\* about a box in the list.
JobFits ==
  /\ JobTyped(job)
  /\ pc \in Managing => job.client \in Managers
  /\ pc \in {"list open", "list write"} => IsSeq(job.todo)
  /\ pc \in Publishing => /\ job.client \in Publishers
                          /\ \E i \in DOMAIN box_list : Boxed(i) = job.box
  /\ pc \in Spreading => job.todo \in Seq(Subscribers) /\ job.todo # <<>>
  /\ pc \in Subscribing => job.client \in Subscribers
  /\ pc \in Replaying => job.todo \in Seq(Nat)

\* The mutexes are held in known places only.
LocksFit ==
  /\ pc \in Labels /\ box_list_mutex \in BOOLEAN /\ kept \in Nat
  /\ box_list_mutex => pc \in {"list write"} \cup Subscribing \cup Ended
  /\ fs.locked => pc \in Ended

Sane == ClientsInv /\ FsInv(fs) /\ BoxesFit /\ JobFits /\ LocksFit

-----------------------------------------------------------------------------
(* The broker's use of a client's pipe *)

\* An open leads on, or ends the broker, and writes nothing.
LEMMA OpenKeeps ==
  ASSUME ClientsInv, NEW c \in Clients, NEW next, OpenToWrite(c, next)
  PROVE  /\ ClientsInv' /\ pipe' = pipe
         /\ \/ pc' = next /\ job' = [job EXCEPT !.reader = lives[c]] /\ lives[c] \in Nat
            \/ pc' \in {"blocked", "exited"} /\ job' = job
<1>1. FifosFit /\ FifoFits(c, stage[c], lives[c], pipe[c], taken[c])
  BY DEF ClientsInv, FifosFit
<1>2. register_pipe' = register_pipe /\ lives' = lives /\ pipe' = pipe /\ taken' = taken
  BY DEF OpenToWrite
<1>3. RequestsFit'
  BY <1>2 DEF ClientsInv, RequestsFit
<1>4. CASE /\ stage[c] \in {"signed"} \cup Reading
           /\ stage' = [stage EXCEPT ![c] = IF stage[c] = "signed" THEN "reading" ELSE stage[c]]
           /\ job' = [job EXCEPT !.reader = lives[c]]
           /\ Goto(next)
  <2> DEFINE s == IF stage[c] = "signed" THEN "reading" ELSE stage[c]
  <2>1. stage[c] # "nofifo"
    BY <1>4 DEF Reading
  <2>2. FifoFits(c, s, lives[c], pipe[c], taken[c])
    BY <1>1, <2>1 DEF FifoFits, Stages
  <2>3. /\ stage' = [stage EXCEPT ![c] = s] /\ lives' = [lives EXCEPT ![c] = lives[c]]
        /\ pipe' = [pipe EXCEPT ![c] = pipe[c]] /\ taken' = [taken EXCEPT ![c] = taken[c]]
    BY <1>1, <1>2, <1>4, Unchanged
  <2> HIDE DEF s
  <2>4. FifosFit'
    BY <1>1, <2>2, <2>3, OneFifoChanges
  <2>5. lives[c] \in Nat
    BY <1>1 DEF FifoFits
  <2> QED BY <1>2, <1>3, <1>4, <2>4, <2>5 DEF ClientsInv, Goto
<1>5. CASE UNCHANGED <<stage, job>> /\ pc' \in {"blocked", "exited"}
  <2>1. FifosFit'
    BY <1>1, <1>2, <1>5 DEF FifosFit
  <2> QED BY <1>2, <1>3, <1>5, <2>1 DEF ClientsInv
<1> QED BY <1>4, <1>5 DEF OpenToWrite, Goto, Exit

\* A write leads on, or ends the broker.
LEMMA WriteKeeps ==
  ASSUME ClientsInv, NEW c \in Clients \ Publishers, NEW data, NEW next, WriteTo(c, data, next)
  PROVE  ClientsInv' /\ pc' \in {next, "killed"}
<1>1. FifosFit /\ FifoFits(c, stage[c], lives[c], pipe[c], taken[c])
  BY DEF ClientsInv, FifosFit
<1>2. register_pipe' = register_pipe /\ lives' = lives /\ stage' = stage /\ taken' = taken
  BY DEF WriteTo
<1>3. RequestsFit'
  BY <1>2 DEF ClientsInv, RequestsFit
<1>4. CASE HasReader(c)
  <2> DEFINE p == Append(pipe[c], data)
  <2>1. stage[c] # "nofifo"
    BY <1>4 DEF HasReader, Reading
  <2>2. IsSeq(p) /\ Len(p) = Len(pipe[c]) + 1 /\ Len(pipe[c]) \in Nat
    BY <1>1, AppendIsSeq DEF FifoFits
  <2> HIDE DEF p
  <2>3. FifoFits(c, stage[c], lives[c], p, taken[c])
    BY <1>1, <2>1, <2>2 DEF FifoFits
  <2>4. /\ stage' = [stage EXCEPT ![c] = stage[c]] /\ lives' = [lives EXCEPT ![c] = lives[c]]
        /\ taken' = [taken EXCEPT ![c] = taken[c]]
    BY <1>1, <1>2, Unchanged
  <2>5. pipe' = [pipe EXCEPT ![c] = p]
    BY <1>4 DEF WriteTo, p
  <2>6. FifosFit'
    BY <1>1, <2>3, <2>4, <2>5, OneFifoChanges
  <2> QED BY <1>3, <2>6 DEF ClientsInv, WriteTo, Goto
<1>5. CASE ~HasReader(c)
  <2>1. pipe' = pipe
    BY <1>5 DEF WriteTo
  <2>2. FifosFit'
    BY <1>1, <1>2, <2>1 DEF FifosFit
  <2> QED BY <1>3, <2>2 DEF ClientsInv, WriteTo, Goto
<1> QED BY <1>4, <1>5

\* The kinds of clients.
LEMMA Kinds == /\ Managers \subseteq Clients \ Publishers
               /\ Subscribers \subseteq Clients \ Publishers
               /\ Publishers \subseteq Clients
BY ClientsAssumption DEF Clients

\* One request less.
LEMMA RequestTaken ==
  ASSUME ClientsInv, register_pipe # <<>>
  PROVE  /\ Head(register_pipe) \in Requests
         /\ FromItsKind(Head(register_pipe).code, Head(register_pipe).client)
         /\ Tail(register_pipe) \in Seq(Requests)
         /\ \A i \in DOMAIN Tail(register_pipe) :
              FromItsKind(Tail(register_pipe)[i].code, Tail(register_pipe)[i].client)
<1>1. register_pipe \in Seq(Requests)
  BY DEF ClientsInv, RequestsFit
<1>2. \A i \in DOMAIN register_pipe :
        FromItsKind(register_pipe[i].code, register_pipe[i].client)
  BY DEF ClientsInv, RequestsFit
<1>3. /\ Head(register_pipe) \in Requests /\ Head(register_pipe) = register_pipe[1]
      /\ 1 \in DOMAIN register_pipe
      /\ Tail(register_pipe) \in Seq(Requests)
      /\ \A i \in DOMAIN Tail(register_pipe) :
           i + 1 \in DOMAIN register_pipe /\ Tail(register_pipe)[i] = register_pipe[i + 1]
  BY <1>1
<1> QED BY <1>2, <1>3

\* A request that is served comes from a client of the kind that makes it.
LEMMA Served ==
  ASSUME Sane, NEW code, Serve(code)
  PROVE  /\ pc = "serving" /\ ~box_list_mutex /\ ~fs.locked
         /\ Head(register_pipe) \in Requests /\ Head(register_pipe).code = code
         /\ FromItsKind(code, Head(register_pipe).client)
         /\ Head(register_pipe).client \in Clients /\ Head(register_pipe).box \in Boxes
         /\ FifosFit' /\ UNCHANGED clientVars
         /\ (register_pipe' = <<>> \/ register_pipe' = Tail(register_pipe)) => ClientsInv'
<1>1. register_pipe # <<>> /\ ClientsInv
  BY DEF Serve, Sane
<1>2. /\ Head(register_pipe) \in Requests
      /\ FromItsKind(Head(register_pipe).code, Head(register_pipe).client)
  BY <1>1, RequestTaken
<1>3. FifosFit'
  BY <1>1 DEF Serve, clientVars, ClientsInv, FifosFit
<1>4. ASSUME register_pipe' = <<>> \/ register_pipe' = Tail(register_pipe)
      PROVE  RequestsFit'
  <2>1. CASE register_pipe' = <<>>
    BY <2>1, EmptyIsSeq, NoHandles DEF RequestsFit
  <2>2. CASE register_pipe' = Tail(register_pipe)
    <3> DEFINE rest == Tail(register_pipe)
    <3>1. /\ rest \in Seq(Requests)
          /\ \A i \in DOMAIN rest : FromItsKind(rest[i].code, rest[i].client)
      BY <1>1, RequestTaken
    <3> HIDE DEF rest
    <3> QED BY <2>2, <3>1 DEF RequestsFit, rest
  <2> QED BY <1>4, <2>1, <2>2
<1>5. Head(register_pipe).code = code
  BY DEF Serve
<1> QED BY <1>2, <1>3, <1>4, <1>5 DEF Serve, ClientsInv, Requests

-----------------------------------------------------------------------------
(* The locals of a handler *)

\* No request is served at first.
LEMMA NoJobTyped == JobTyped(NoJob) /\ NoJob.todo = <<>>
<1>1. NoJob.todo = <<>>
  BY DEF NoJob
<1> QED BY <1>1 DEF JobTyped, NoJob

\* The locals with which a handler begins.
LEMMA JobOf ==
  ASSUME NEW request \in Requests, NEW j, j = Job(request)
  PROVE  /\ JobTyped(j) /\ j.client = request.client /\ j.life = request.life
         /\ j.box = request.box /\ j.todo = <<>> /\ j.reader = 0
<1>1. j = [client |-> request.client, life |-> request.life, box |-> request.box,
           todo |-> <<>>, data |-> <<>>, handle |-> -1, reader |-> 0]
  BY DEF Job, NoJob
<1>2. request.client \in Clients /\ request.life \in Nat
  BY DEF Requests
<1> HIDE DEF Job
<1> QED BY <1>1, <1>2 DEF JobTyped

\* The broker has opened the pipe to a client.
LEMMA JobReads ==
  ASSUME NEW j, JobTyped(j), NEW n \in Nat
  PROVE  LET k == [j EXCEPT !.reader = n]
         IN  /\ JobTyped(k) /\ k.client = j.client /\ k.box = j.box /\ k.todo = j.todo
             /\ k.data = j.data /\ k.life = j.life /\ k.handle = j.handle /\ k.reader = n
BY DEF JobTyped

\* One more step of a loop.
LEMMA JobTodo ==
  ASSUME NEW j, JobTyped(j), NEW x, NEW k, k = [j EXCEPT !.todo = x]
  PROVE  /\ JobTyped(k) /\ k.client = j.client /\ k.box = j.box /\ k.todo = x
         /\ k.data = j.data
BY DEF JobTyped

-----------------------------------------------------------------------------
(* The list of boxes *)

\* find_box_by_name returns where the box is, or 0 if there is none.
LEMMA FindBox ==
  ASSUME box_list \in Seq(BoxRecords), NEW n
  PROVE  \/ find_box_by_name(n) = 0 /\ \A k \in DOMAIN box_list : Boxed(k) # n
         \/ find_box_by_name(n) \in DOMAIN box_list /\ Boxed(find_box_by_name(n)) = n
              /\ find_box_by_name(n) \in Nat \ {0}
<1> DEFINE found == {i \in DOMAIN box_list : box_list[i].box_name = n}
<1>1. DOMAIN box_list = 1 .. Len(box_list) /\ Len(box_list) \in Nat
  BY LenProperties
<1>2. find_box_by_name(n) = IF found = {} THEN 0 ELSE FirstOf(found)
  BY DEF find_box_by_name
<1>3. CASE found = {}
  BY <1>2, <1>3 DEF Boxed
<1>4. CASE found # {}
  <2>1. found \in SUBSET Nat
    BY <1>1
  <2>2. FirstOf(found) \in found
    <3> HIDE DEF found
    <3> QED BY <1>4, <2>1, FirstOfIsLeast
  <2>3. find_box_by_name(n) \in found
    BY <1>2, <1>4, <2>2
  <2> QED BY <1>1, <2>3 DEF Boxed
<1> QED BY <1>3, <1>4

\* A list with the same boxes.
NamesKept == /\ box_list' \in Seq(BoxRecords) /\ DOMAIN box_list' = DOMAIN box_list
             /\ \A k \in DOMAIN box_list : box_list'[k].box_name = box_list[k].box_name

\* One box is changed, not its name.
LEMMA BoxChanged ==
  ASSUME box_list \in Seq(BoxRecords), NEW i \in DOMAIN box_list, NEW b \in BoxRecords,
         b.box_name = box_list[i].box_name, box_list' = [box_list EXCEPT ![i] = b]
  PROVE  /\ NamesKept /\ box_list'[i] = b
         /\ \A k \in DOMAIN box_list \ {i} : box_list'[k] = box_list[k]
<1>1. /\ DOMAIN box_list = 1 .. Len(box_list) /\ Len(box_list) \in Nat
      /\ i \in 1 .. Len(box_list)
  BY LenProperties
<1>2. box_list' \in Seq(BoxRecords)
  BY <1>1, ExceptSeq
<1>3. DOMAIN box_list' = DOMAIN box_list /\ box_list'[i] = b
  OBVIOUS
<1>4. \A k \in DOMAIN box_list \ {i} : box_list'[k] = box_list[k]
  OBVIOUS
<1>5. \A k \in DOMAIN box_list : box_list'[k].box_name = box_list[k].box_name
  BY <1>3, <1>4
<1> QED BY <1>2, <1>3, <1>4, <1>5 DEF NamesKept

\* A list with the same boxes fits if what was published does.
LEMMA NamesKeptFit ==
  ASSUME BoxesFit, NamesKept,
         DOMAIN published' = DOMAIN published,
         published' = [n \in DOMAIN published' |-> published'[n]],
         \A n \in DOMAIN published : published'[n] \in Seq(Messages)
  PROVE  BoxesFit'
BY DEF BoxesFit, NamesKept, Boxed

\* A record of the list and its fields.
LEMMA BoxIs ==
  ASSUME box_list \in Seq(BoxRecords), NEW i \in DOMAIN box_list
  PROVE  box_list[i] \in BoxRecords
BY LenProperties, ElementOfSeq

-----------------------------------------------------------------------------
(* The broker's use of TecnicoFS *)

\* The names in the directory.
Names(f) == {f.dir[i].d_name : i \in Live(f)}
Opened(f) == DOMAIN f.open_file_table

\* A name in the directory is found.
LEMMA NamesFound ==
  ASSUME NEW f, FsInv(f), NEW n \in Names(f)
  PROVE  find_in_dir(f.dir, n) # -1
<1>1. PICK i \in Live(f) : n = f.dir[i].d_name
  BY DEF Names
<1> QED BY <1>1, FoundIs DEF Live

\* A handle is given out, or none.
LEMMA HandleGiven ==
  ASSUME NEW f, NEW g, NEW ret, NEW file, GivesHandle(f, g, ret, file)
  PROVE  \/ ret = -1 /\ Opened(g) = Opened(f)
         \/ ret \in Handles \ Opened(f) /\ Opened(g) = Opened(f) \cup {ret}
BY DEF GivesHandle, WithHandle, Opened

\* An open leaves every name in the directory, and one that succeeds finds its own
\* there or puts it there.
OpenKeeping(f, n, mode, r) ==
  /\ FsInv(r.fs) /\ r.fs.locked = f.locked
  /\ Names(f) \subseteq Names(r.fs)
  /\ "CREAT" \notin mode /\ "TRUNC" \notin mode => SameFiles(f, r.fs)
  /\ \/ r.ret = -1 /\ Opened(r.fs) = Opened(f)
     \/ /\ r.ret \in Handles \ Opened(f) /\ Opened(r.fs) = Opened(f) \cup {r.ret}
        /\ n \in Names(r.fs)

\* tfs_open, seen by its names and handles.
LEMMA OpenKeepsNames ==
  ASSUME NEW f, FsInv(f), NEW n, NEW mode
  PROVE  OpenKeeping(f, n, mode, tfs_open(f, n, mode))
<1> DEFINE r == tfs_open(f, n, mode)
<1>1. FsInv(r.fs) /\ r.fs.locked = f.locked
  BY OpenKeepsInv DEF SameFlags
<1>2. \/ r.fs = f /\ r.ret = -1
      \/ \E e \in Live(f) : /\ n \in Paths /\ f.dir[e].d_name = n
                            /\ f.dir[e].d_inumber \in Files(f)
                            /\ OpensFile(f, r.fs, r.ret, mode, f.dir[e].d_inumber)
      \/ "CREAT" \in mode /\ r.ret = -1 /\ NothingSeen(f, r.fs)
      \/ /\ n \in Paths /\ "CREAT" \in mode
         /\ \E e \in Slots \ Live(f), i \in Inumbers \ f.inodes :
              /\ SameFiles(Entered(f, n, e, i), r.fs)
              /\ GivesHandle(f, r.fs, r.ret, [of_inumber |-> i, of_offset |-> 0])
  <2>1. \/ /\ r.fs = f /\ r.ret = -1 /\ (n \notin Paths \/ "CREAT" \notin mode)
           /\ \A k \in Live(f) : f.dir[k].d_name # n
        \/ \E e \in Live(f) : /\ n \in Paths /\ f.dir[e].d_name = n
                              /\ f.dir[e].d_inumber \in Files(f)
                              /\ OpensFile(f, r.fs, r.ret, mode, f.dir[e].d_inumber)
        \/ /\ n \in Paths /\ "CREAT" \in mode /\ \A k \in Live(f) : f.dir[k].d_name # n
           /\ r.ret = -1 /\ NoRoomFor(f, n) /\ NothingSeen(f, r.fs)
        \/ /\ n \in Paths \ LongPaths /\ "CREAT" \in mode
           /\ \A k \in Live(f) : f.dir[k].d_name # n
           /\ \E e \in Slots \ Live(f), i \in Inumbers \ f.inodes :
                /\ SameFiles(Entered(f, n, e, i), r.fs)
                /\ GivesHandle(f, r.fs, r.ret, [of_inumber |-> i, of_offset |-> 0])
    BY OpenEnds
  <2> HIDE DEF r
  <2> QED BY <2>1
<1> SUFFICES OpenKeeping(f, n, mode, r)
  OBVIOUS
<1> HIDE DEF r
<1>3. CASE r.fs = f /\ r.ret = -1
  BY <1>1, <1>3 DEF OpenKeeping, SameFiles
<1>4. CASE \E e \in Live(f) : /\ n \in Paths /\ f.dir[e].d_name = n
                              /\ f.dir[e].d_inumber \in Files(f)
                              /\ OpensFile(f, r.fs, r.ret, mode, f.dir[e].d_inumber)
  <2>1. PICK e \in Live(f) : /\ n \in Paths /\ f.dir[e].d_name = n
                             /\ f.dir[e].d_inumber \in Files(f)
                             /\ OpensFile(f, r.fs, r.ret, mode, f.dir[e].d_inumber)
    BY <1>4
  <2> DEFINE i == f.dir[e].d_inumber
             t == truncate(f, i)
  <2>2. SameFiles(f, r.fs) \/ ("TRUNC" \in mode /\ SameFiles(t, r.fs))
    BY <2>1 DEF OpensFile
  <2>3. \/ r.ret = -1 /\ Opened(r.fs) = Opened(f)
        \/ r.ret \in Handles \ Opened(f) /\ Opened(r.fs) = Opened(f) \cup {r.ret}
    BY <2>1, HandleGiven DEF OpensFile
  <2>4. i \in Files(f)
    BY <2>1
  <2> HIDE DEF i
  <2>5. \/ t = f
        \/ t = [f EXCEPT !.blocks = f.blocks \ BlockOf(f, i),
                         !.inode_table = [f.inode_table EXCEPT ![i] =
                            [f.inode_table[i] EXCEPT !.i_size = 0]]]
    BY <2>4, Truncated
  <2> HIDE DEF t
  <2>6. t.dir = f.dir
    BY <2>5 DEF FsInv, FsType
  <2>7. r.fs.dir = f.dir
    BY <2>2, <2>6 DEF SameFiles
  <2>8. Names(r.fs) = Names(f) /\ n \in Names(f)
    BY <2>1, <2>7 DEF Names, Live
  <2> QED BY <1>1, <2>2, <2>3, <2>8 DEF OpenKeeping
<1>5. CASE "CREAT" \in mode /\ r.ret = -1 /\ NothingSeen(f, r.fs)
  <2>1. Opened(r.fs) = Opened(f) /\ Names(f) \subseteq Names(r.fs)
    BY <1>5 DEF NothingSeen, Opened, Names, Live
  <2> QED BY <1>1, <1>5, <2>1 DEF OpenKeeping
<1>6. CASE /\ n \in Paths /\ "CREAT" \in mode
           /\ \E e \in Slots \ Live(f), i \in Inumbers \ f.inodes :
                /\ SameFiles(Entered(f, n, e, i), r.fs)
                /\ GivesHandle(f, r.fs, r.ret, [of_inumber |-> i, of_offset |-> 0])
  <2>1. PICK e \in Slots \ Live(f), i \in Inumbers \ f.inodes :
                /\ SameFiles(Entered(f, n, e, i), r.fs)
                /\ GivesHandle(f, r.fs, r.ret, [of_inumber |-> i, of_offset |-> 0])
    BY <1>6
  <2>2. \/ r.ret = -1 /\ Opened(r.fs) = Opened(f)
        \/ r.ret \in Handles \ Opened(f) /\ Opened(r.fs) = Opened(f) \cup {r.ret}
    BY <2>1, HandleGiven
  <2> DEFINE g == r.fs
  <2>3. SameFiles(Entered(f, n, e, i), g) /\ n \in Paths
    BY <1>6, <2>1
  <2> HIDE DEF g
  <2>4. /\ Live(g) = Live(f) \cup {e} /\ g.dir[e].d_name = n
        /\ \A k \in Live(f) : g.dir[k] = f.dir[k]
    BY <2>3, FileAdded
  <2>5. Names(f) \subseteq Names(g) /\ n \in Names(g)
    BY <2>4 DEF Names
  <2> QED BY <1>1, <1>6, <2>2, <2>5 DEF g, OpenKeeping
<1> QED BY <1>2, <1>3, <1>4, <1>5, <1>6

\* A handle has the number of a table entry.
LEMMA HandlesAreNumbers == Handles \subseteq Nat /\ -1 \notin Handles
BY TfsAssumption DEF Handles

\* The file table with one handle fewer.
LEMMA HandleClosed ==
  ASSUME NEW f, FsInv(f), NEW h
  PROVE  LET r == tfs_close(f, h)
         IN  /\ FsInv(r.fs) /\ r.fs.locked = f.locked /\ r.fs.dir = f.dir
             /\ Opened(r.fs) = Opened(f) \ {h}
             /\ r.ret = IF h \in Opened(f) THEN 0 ELSE -1
<1> DEFINE r == tfs_close(f, h)
<1>1. /\ FsInv(r.fs) /\ SameFlags(f, r.fs) /\ SameFiles(f, r.fs)
      /\ r.ret = IF IsOpen(f, h) THEN 0 ELSE -1
      /\ r.fs.open_file_table = [k \in DOMAIN f.open_file_table \ {h} |-> f.open_file_table[k]]
  BY CloseKeepsInv
<1> HIDE DEF r
<1> SUFFICES /\ FsInv(r.fs) /\ r.fs.locked = f.locked /\ r.fs.dir = f.dir
             /\ Opened(r.fs) = Opened(f) \ {h}
             /\ r.ret = IF h \in Opened(f) THEN 0 ELSE -1
  BY DEF r
<1> QED BY <1>1 DEF SameFlags, SameFiles, Opened, IsOpen

\* A publication keeps the directory, and no handle if it succeeds.
LEMMA PublicationKeeps ==
  ASSUME NEW f, FsInv(f), NEW n, NEW C, NEW message \in Seq(C)
  PROVE  LET r == write_to_box(f, n, message)
         IN  /\ FsInv(r.fs) /\ r.fs.locked = f.locked /\ r.ret \in Int
             /\ r.ret >= 0 => Names(r.fs) = Names(f) /\ Opened(r.fs) = Opened(f)
<1> DEFINE opened == tfs_open(f, n, {"APPEND"})
           written == tfs_write(opened.fs, opened.ret, message)
           closed == tfs_close(written.fs, opened.ret)
           r == write_to_box(f, n, message)
<1>1. r = IF opened.ret < 0 THEN opened ELSE IF written.ret < 0 THEN written ELSE closed
  BY DEF write_to_box
<1>2. /\ FsInv(opened.fs) /\ opened.fs.locked = f.locked /\ SameFiles(f, opened.fs)
      /\ \/ opened.ret = -1
         \/ /\ opened.ret \in Handles \ Opened(f)
            /\ Opened(opened.fs) = Opened(f) \cup {opened.ret}
  BY OpenKeepsNames DEF OpenKeeping
<1>3. /\ FsInv(written.fs) /\ written.fs.locked = opened.fs.locked
      /\ written.fs.dir = opened.fs.dir /\ Opened(written.fs) = Opened(opened.fs)
      /\ written.ret \in Int
  <2> DEFINE g == opened.fs
             h == opened.ret
             w == tfs_write(g, h, message)
  <2>1. FsInv(g)
    BY <1>2
  <2> HIDE DEF g, h
  <2>2. /\ FsInv(w.fs) /\ SameFlags(g, w.fs)
        /\ \/ w.fs = g /\ w.ret = -1
           \/ w.fs = g /\ w.ret = 0
           \/ /\ w.ret = Len(message)
              /\ \E block \in Blocks : Wrote(g, w.fs, h, message, block)
    BY <2>1, WriteKeepsInv
  <2> HIDE DEF w
  <2>3. Len(message) \in Int
    BY LenProperties
  <2>4. w.ret \in Int
    BY <2>2, <2>3
  <2>5. w.fs.dir = g.dir /\ Opened(w.fs) = Opened(g)
    BY <2>2 DEF Wrote, Opened
  <2> QED BY <2>2, <2>4, <2>5 DEF SameFlags, w, g, h
<1> HIDE DEF opened
<1>4. /\ FsInv(closed.fs) /\ closed.fs.locked = written.fs.locked
      /\ closed.fs.dir = written.fs.dir /\ Opened(closed.fs) = Opened(written.fs) \ {opened.ret}
      /\ closed.ret \in Int
  <2> DEFINE g == written.fs
             h == opened.ret
             w == tfs_close(g, h)
  <2>1. FsInv(g)
    BY <1>3
  <2> HIDE DEF g, h
  <2>2. /\ FsInv(w.fs) /\ w.fs.locked = g.locked /\ w.fs.dir = g.dir
        /\ Opened(w.fs) = Opened(g) \ {h} /\ w.ret = IF h \in Opened(g) THEN 0 ELSE -1
    BY <2>1, HandleClosed
  <2> HIDE DEF w
  <2>3. w.ret \in Int
    BY <2>2
  <2> QED BY <2>2, <2>3 DEF w, g, h
<1> HIDE DEF written, closed, r
<1>5. opened.ret \in Int /\ (opened.ret < 0 => opened.ret = -1)
  <2>1. opened.ret = -1 \/ opened.ret \in Nat
    BY <1>2, HandlesAreNumbers
  <2> QED BY <2>1
<1>6. FsInv(r.fs) /\ r.fs.locked = f.locked /\ r.ret \in Int
  BY <1>1, <1>2, <1>3, <1>4, <1>5
<1>7. ASSUME r.ret >= 0 PROVE Names(r.fs) = Names(f) /\ Opened(r.fs) = Opened(f)
  <2>1. r = closed /\ ~(opened.ret < 0)
    BY <1>1, <1>2, <1>3, <1>5, <1>7
  <2>2. opened.ret \notin Opened(f) /\ Opened(opened.fs) = Opened(f) \cup {opened.ret}
    BY <1>2, <2>1
  <2>3. r.fs.dir = f.dir
    BY <1>2, <1>3, <1>4, <2>1 DEF SameFiles
  <2> QED BY <1>3, <1>4, <2>1, <2>2, <2>3 DEF Names, Live
<1> QED BY <1>6, <1>7 DEF r

\* A read keeps the directory and the handles.
LEMMA ReadingKeeps ==
  ASSUME NEW f, FsInv(f), NEW h, NEW len \in Nat
  PROVE  LET r == tfs_read(f, h, len)
         IN  /\ FsInv(r.fs) /\ r.fs.locked = f.locked /\ Names(r.fs) = Names(f)
             /\ Opened(r.fs) = Opened(f)
<1> DEFINE r == tfs_read(f, h, len)
<1>1. /\ FsInv(r.fs) /\ SameFiles(f, r.fs) /\ r.fs.locked = f.locked
      /\ r.fs = f \/ r.fs = Panic(f) \/ ReadFrom(f, r.fs, h, len, r.data)
  BY ReadKeepsInv
<1> HIDE DEF r
<1>2. Names(r.fs) = Names(f)
  BY <1>1 DEF SameFiles, Names, Live
<1>3. Panic(f).open_file_table = f.open_file_table
  BY DEF Panic, FsInv, FsType
<1>4. Opened(r.fs) = Opened(f)
  BY <1>1, <1>3 DEF Opened, ReadFrom
<1> QED BY <1>1, <1>2, <1>4 DEF r

\* A rewind keeps the directory and the handles, and the mutex perhaps.
LEMMA RewindingKeeps ==
  ASSUME NEW f, FsInv(f), NEW h
  PROVE  LET r == tfs_rewind_offset(f, h)
         IN  /\ FsInv(r.fs) /\ Names(r.fs) = Names(f) /\ Opened(r.fs) = Opened(f)
             /\ r = [fs |-> r.fs, ret |-> r.ret, data |-> <<>>]
<1> DEFINE r == tfs_rewind_offset(f, h)
<1>1. /\ FsInv(r.fs) /\ SameFiles(f, r.fs)
      /\ \/ r.fs = f
         \/ r.fs = [f EXCEPT !.locked = TRUE]
         \/ r.fs.open_file_table = [f.open_file_table EXCEPT ![h] =
                [of_inumber |-> f.open_file_table[h].of_inumber, of_offset |-> 0]]
  BY RewindKeepsInv
<1>2. r = [fs |-> r.fs, ret |-> r.ret, data |-> <<>>]
  <2>1. \A g, x : Result(g, x) = [fs |-> g, ret |-> x, data |-> <<>>]
    BY DEF Result
  <2>2. \E g, x : r = Result(g, x)
    BY DEF tfs_rewind_offset
  <2> HIDE DEF r
  <2>3. PICK g, x : r = Result(g, x)
    BY <2>2
  <2>4. r = [fs |-> g, ret |-> x, data |-> <<>>]
    BY <2>1, <2>3
  <2> QED BY <2>4
<1> HIDE DEF r
<1>3. Names(r.fs) = Names(f)
  BY <1>1 DEF SameFiles, Names, Live
<1>4. [f EXCEPT !.locked = TRUE].open_file_table = f.open_file_table
  BY DEF FsInv, FsType
<1>5. Opened(r.fs) = Opened(f)
  BY <1>1, <1>4 DEF Opened
<1> QED BY <1>1, <1>2, <1>3, <1>5 DEF r

\* The file of a box is opened and rewound: a handle more, or a failure.
LEMMA RewoundKeeps ==
  ASSUME NEW f, FsInv(f), NEW n
  PROVE  LET r == rewound_box(f, n)
         IN  /\ FsInv(r.fs) /\ Names(r.fs) = Names(f)
             /\ \/ r.ret = -1 /\ Opened(r.fs) = Opened(f)
                \/ /\ r.ret \in Nat /\ r.ret \notin Opened(f)
                   /\ Opened(r.fs) = Opened(f) \cup {r.ret}
<1> DEFINE opened == tfs_open(f, n, {"APPEND"})
           rewound == tfs_rewind_offset(opened.fs, opened.ret)
           r == rewound_box(f, n)
<1>1. r = IF opened.ret < 0 THEN opened ELSE [rewound EXCEPT !.ret = opened.ret]
  BY DEF rewound_box
<1>2. /\ FsInv(opened.fs) /\ SameFiles(f, opened.fs)
      /\ \/ opened.ret = -1 /\ Opened(opened.fs) = Opened(f)
         \/ /\ opened.ret \in Handles \ Opened(f)
            /\ Opened(opened.fs) = Opened(f) \cup {opened.ret}
  BY OpenKeepsNames DEF OpenKeeping
<1>3. /\ FsInv(rewound.fs) /\ Names(rewound.fs) = Names(opened.fs)
      /\ Opened(rewound.fs) = Opened(opened.fs)
      /\ rewound = [fs |-> rewound.fs, ret |-> rewound.ret, data |-> <<>>]
  <2> DEFINE g == opened.fs
             h == opened.ret
             w == tfs_rewind_offset(g, h)
  <2>1. FsInv(g)
    BY <1>2
  <2> HIDE DEF g, h
  <2>2. /\ FsInv(w.fs) /\ Names(w.fs) = Names(g) /\ Opened(w.fs) = Opened(g)
        /\ w = [fs |-> w.fs, ret |-> w.ret, data |-> <<>>]
    BY <2>1, RewindingKeeps
  <2> HIDE DEF w
  <2> QED BY <2>2 DEF w, g, h
<1> SUFFICES /\ FsInv(r.fs) /\ Names(r.fs) = Names(f)
             /\ \/ r.ret = -1 /\ Opened(r.fs) = Opened(f)
                \/ /\ r.ret \in Nat /\ r.ret \notin Opened(f)
                   /\ Opened(r.fs) = Opened(f) \cup {r.ret}
  OBVIOUS
<1> HIDE DEF opened
<1> HIDE DEF rewound, r
<1>4. Names(opened.fs) = Names(f)
  BY <1>2 DEF SameFiles, Names, Live
<1>5. CASE opened.ret = -1
  <2>1. r = opened
    BY <1>1, <1>5
  <2>2. r.fs = opened.fs /\ r.ret = -1
    BY <1>5, <2>1
  <2>3. FsInv(opened.fs) /\ Opened(opened.fs) = Opened(f)
    BY <1>2, <1>5, HandlesAreNumbers
  <2> QED BY <1>4, <2>2, <2>3
<1>6. CASE opened.ret # -1
  <2>1. opened.ret \in Nat /\ opened.ret \notin Opened(f)
    BY <1>2, <1>6, HandlesAreNumbers
  <2>2. r = [rewound EXCEPT !.ret = opened.ret]
    BY <1>1, <2>1
  <2>3. r.fs = rewound.fs /\ r.ret = opened.ret
    BY <1>3, <2>2
  <2> QED BY <1>2, <1>3, <1>4, <1>6, <2>1, <2>3
<1> QED BY <1>5, <1>6

-----------------------------------------------------------------------------
(* What every step keeps: first the steps that leave the list of boxes, what was
   published and the file system alone. *)

\* They keep the invariant if they keep the part about the handler.
LEMMA QuietKeeps ==
  ASSUME Sane, ClientsInv', UNCHANGED <<box_list, fs, published, kept>>, JobFits',
         pc' \in Labels, ~fs.locked, box_list_mutex' \in BOOLEAN,
         box_list_mutex' => pc' \in {"list write"} \cup Subscribing \cup Ended
  PROVE  Sane'
BY DEF Sane, BoxesFit, Boxed, LocksFit

\* An open changes the pipe, the reader and where the broker is.
LEMMA PipeOpened ==
  ASSUME Sane, NEW c \in Clients, NEW next, OpenToWrite(c, next)
  PROVE  /\ ClientsInv' /\ UNCHANGED <<box_list, fs, published, kept, pipe>>
         /\ JobTyped(job') /\ job'.client = job.client /\ job'.box = job.box
         /\ job'.todo = job.todo /\ job'.data = job.data /\ pc' \in {next, "blocked", "exited"}
<1>1. /\ ClientsInv' /\ pipe' = pipe
      /\ \/ pc' = next /\ job' = [job EXCEPT !.reader = lives[c]] /\ lives[c] \in Nat
         \/ pc' \in {"blocked", "exited"} /\ job' = job
  BY OpenKeeps DEF Sane
<1>2. UNCHANGED <<box_list, fs, published, kept>>
  BY DEF OpenToWrite
<1>3. JobTyped(job)
  BY DEF Sane, JobFits
<1>4. CASE pc' = next /\ job' = [job EXCEPT !.reader = lives[c]] /\ lives[c] \in Nat
  BY <1>1, <1>2, <1>3, <1>4, JobReads
<1>5. CASE pc' \in {"blocked", "exited"} /\ job' = job
  BY <1>1, <1>2, <1>3, <1>5
<1> QED BY <1>1, <1>4, <1>5

\* AnswerOpen keeps the invariant.
LEMMA AnswerOpenKeeps == ASSUME Sane, AnswerOpen PROVE Sane'
<1>1. pc = "answer open" /\ OpenToWrite(job.client, "answer write") /\ UNCHANGED box_list_mutex
  BY DEF AnswerOpen
<1>2. job.client \in Managers /\ ~fs.locked /\ ~box_list_mutex
  BY <1>1 DEF Sane, JobFits, LocksFit, Managing, Ended, Down, Subscribing, Replaying
<1>3. job.client \in Clients
  BY <1>2, Kinds
<1>4. /\ ClientsInv' /\ UNCHANGED <<box_list, fs, published, kept>>
      /\ JobTyped(job') /\ job'.client = job.client
      /\ pc' \in {"answer write", "blocked", "exited"}
  BY <1>1, <1>3, PipeOpened
<1>5. JobFits'
  BY <1>2, <1>4 DEF JobFits, Managing, Publishing, Spreading, Subscribing, Replaying
<1>6. pc' \in Labels
  BY <1>4 DEF Labels, Ended, Down
<1>7. box_list_mutex' \in BOOLEAN /\ ~box_list_mutex'
  BY <1>1, <1>2 DEF Sane, LocksFit
<1> QED BY <1>1, <1>2, <1>4, <1>5, <1>6, <1>7, QuietKeeps

\* SpreadOpen keeps the invariant.
LEMMA SpreadOpenKeeps == ASSUME Sane, SpreadOpen PROVE Sane'
<1>1. pc = "spread open" /\ OpenToWrite(Head(job.todo), "spread write") /\ UNCHANGED box_list_mutex
  BY DEF SpreadOpen
<1>2. /\ job.client \in Publishers /\ ~fs.locked /\ ~box_list_mutex
      /\ job.todo \in Seq(Subscribers) /\ job.todo # <<>>
      /\ \E i \in DOMAIN box_list : Boxed(i) = job.box
  BY <1>1 DEF Sane, JobFits, LocksFit, Publishing, Spreading, Ended, Down, Subscribing, Replaying
<1>3. Head(job.todo) \in Clients
  BY <1>2, Kinds
<1>4. /\ ClientsInv' /\ UNCHANGED <<box_list, fs, published, kept>>
      /\ JobTyped(job') /\ job'.client = job.client /\ job'.box = job.box /\ job'.todo = job.todo
      /\ pc' \in {"spread write", "blocked", "exited"}
  BY <1>1, <1>3, PipeOpened
<1>5. JobFits'
  BY <1>2, <1>4 DEF JobFits, Managing, Publishing, Spreading, Subscribing, Replaying, Boxed
<1>6. pc' \in Labels
  BY <1>4 DEF Labels, Ended, Down
<1>7. box_list_mutex' \in BOOLEAN /\ ~box_list_mutex'
  BY <1>1, <1>2 DEF Sane, LocksFit
<1> QED BY <1>1, <1>2, <1>4, <1>5, <1>6, <1>7, QuietKeeps

\* ReplayOpen or WatchOpen keeps the invariant.
LEMMA SubscriberOpenKeeps == ASSUME Sane, ReplayOpen \/ WatchOpen PROVE Sane'
<1>1. /\ pc \in {"replay open", "watch open"}
      /\ OpenToWrite(job.client, IF pc = "replay open" THEN "replay write" ELSE "watching")
      /\ UNCHANGED box_list_mutex
  BY DEF ReplayOpen, WatchOpen
<1> DEFINE next == IF pc = "replay open" THEN "replay write" ELSE "watching"
<1>2. /\ job.client \in Subscribers /\ ~fs.locked /\ box_list_mutex \in BOOLEAN
      /\ pc = "replay open" => job.todo \in Seq(Nat)
  BY <1>1 DEF Sane, JobFits, LocksFit, Ended, Down, Subscribing, Replaying
<1>3. job.client \in Clients
  BY <1>2, Kinds
<1>4. /\ ClientsInv' /\ UNCHANGED <<box_list, fs, published, kept>>
      /\ JobTyped(job') /\ job'.client = job.client /\ job'.todo = job.todo
      /\ pc' \in {next, "blocked", "exited"}
  <2> HIDE DEF next
  <2>1. OpenToWrite(job.client, next)
    BY <1>1 DEF next
  <2> QED BY <1>3, <2>1, PipeOpened
<1>5. JobFits'
  BY <1>1, <1>2, <1>4 DEF JobFits, Managing, Publishing, Spreading, Subscribing, Replaying
<1>6. pc' \in Labels /\ pc' \in Subscribing \cup Ended
  BY <1>1, <1>4 DEF Labels, Ended, Down, Subscribing, Replaying
<1> QED BY <1>1, <1>2, <1>4, <1>5, <1>6, QuietKeeps

\* ListOpen keeps the invariant.
LEMMA ListOpenKeeps == ASSUME Sane, ListOpen PROVE Sane'
<1> DEFINE next == IF HeadIsFreed THEN "undefined" ELSE "list write"
<1>1. /\ pc = "list open" /\ OpenToWrite(job.client, next)
      /\ box_list_mutex' = (pc' = "list write")
  BY DEF ListOpen
<1>2. job.client \in Managers /\ ~fs.locked /\ IsSeq(job.todo)
  BY <1>1 DEF Sane, JobFits, LocksFit, Managing, Ended, Down
<1>3. job.client \in Clients
  BY <1>2, Kinds
<1>4. next \in {"undefined", "list write"}
  OBVIOUS
<1> HIDE DEF next
<1>5. /\ ClientsInv' /\ UNCHANGED <<box_list, fs, published, kept>>
      /\ JobTyped(job') /\ job'.client = job.client /\ job'.todo = job.todo
      /\ pc' \in {next, "blocked", "exited"}
  BY <1>1, <1>3, PipeOpened
<1>6. JobFits'
  BY <1>2, <1>4, <1>5 DEF JobFits, Managing, Publishing, Spreading, Subscribing, Replaying
<1>7. pc' \in Labels
  BY <1>4, <1>5 DEF Labels, Ended, Down
<1> QED BY <1>1, <1>2, <1>5, <1>6, <1>7, QuietKeeps

\* AnswerWrite keeps the invariant.
LEMMA AnswerWriteKeeps == ASSUME Sane, AnswerWrite PROVE Sane'
<1>1. /\ pc = "answer write" /\ WriteTo(job.client, job.data, "serving") /\ job' = NoJob
      /\ UNCHANGED <<box_list_mutex, fs>>
  BY DEF AnswerWrite
<1>2. job.client \in Clients \ Publishers /\ ~fs.locked /\ ~box_list_mutex
  BY <1>1, Kinds DEF Sane, JobFits, LocksFit, Managing, Ended, Down, Subscribing, Replaying
<1>3. ClientsInv' /\ pc' \in {"serving", "killed"} /\ UNCHANGED <<box_list, published, kept>>
  BY <1>1, <1>2, WriteKeeps DEF Sane, WriteTo
<1>4. JobFits'
  BY <1>1, <1>3, NoJobTyped DEF JobFits, Managing, Publishing, Spreading, Subscribing, Replaying
<1>5. pc' \in Labels
  BY <1>3 DEF Labels, Ended, Down
<1>6. box_list_mutex' \in BOOLEAN /\ ~box_list_mutex'
  BY <1>1, <1>2 DEF Sane, LocksFit
<1> QED BY <1>1, <1>2, <1>3, <1>4, <1>5, <1>6, QuietKeeps

\* ListWrite keeps the invariant.
LEMMA ListWriteKeeps == ASSUME Sane, ListWrite PROVE Sane'
<1> DEFINE i == Len(job.todo) + 1
           last == i >= Len(box_list)
           message == IF box_list = <<>> THEN create_listing_error_message
                                         ELSE create_listing_message(i)
           next == IF last THEN "serving" ELSE "list write"
<1>1. /\ pc = "list write" /\ WriteTo(job.client, message, next)
      /\ job' = (IF last THEN NoJob ELSE [job EXCEPT !.todo = Append(job.todo, i)])
      /\ box_list_mutex' = ~last /\ UNCHANGED fs
  BY DEF ListWrite
<1>2. job.client \in Managers /\ job.client \in Clients \ Publishers /\ ~fs.locked
      /\ IsSeq(job.todo) /\ JobTyped(job)
  BY <1>1, Kinds DEF Sane, JobFits, LocksFit, Managing, Ended, Down
<1> HIDE DEF message
<1>3. ClientsInv' /\ pc' \in {next, "killed"} /\ UNCHANGED <<box_list, published, kept>>
  <2> HIDE DEF next
  <2> QED BY <1>1, <1>2, WriteKeeps DEF Sane, WriteTo
<1> HIDE DEF i, last
<1>4. \/ job' = NoJob /\ last
      \/ /\ ~last /\ JobTyped(job') /\ job'.client = job.client /\ IsSeq(job'.todo)
  <2>1. CASE last
    BY <1>1, <2>1
  <2>2. CASE ~last
    <3> DEFINE longer == Append(job.todo, i)
    <3>1. IsSeq(longer)
      BY <1>2, AppendIsSeq
    <3>2. job' = [job EXCEPT !.todo = longer]
      BY <1>1, <2>2
    <3> HIDE DEF longer
    <3>3. JobTyped(job') /\ job'.client = job.client /\ job'.todo = longer
      BY <1>2, <3>2, JobTodo
    <3> QED BY <2>2, <3>1, <3>3
  <2> QED BY <2>1, <2>2
<1>5. JobFits'
  <2>1. CASE job' = NoJob /\ last
    BY <1>3, <2>1, NoJobTyped DEF JobFits, Managing, Publishing, Spreading, Subscribing, Replaying
  <2>2. CASE ~last /\ JobTyped(job') /\ job'.client = job.client /\ IsSeq(job'.todo)
    BY <1>2, <1>3, <2>2 DEF JobFits, Managing, Publishing, Spreading, Subscribing, Replaying
  <2> QED BY <1>4, <2>1, <2>2
<1>6. pc' \in Labels /\ box_list_mutex' \in BOOLEAN
      /\ (box_list_mutex' => pc' \in {"list write"} \cup Ended)
  BY <1>1, <1>3 DEF Labels, Ended, Down
<1> QED BY <1>1, <1>2, <1>3, <1>5, <1>6, QuietKeeps

\* SpreadWrite keeps the invariant.
LEMMA SpreadWriteKeeps == ASSUME Sane, SpreadWrite PROVE Sane'
<1> DEFINE next == IF Len(job.todo) = 1 THEN "listening" ELSE "spread open"
<1>1. /\ pc = "spread write" /\ WriteTo(Head(job.todo), job.data, next)
      /\ job' = [job EXCEPT !.todo = Tail(job.todo)] /\ UNCHANGED <<box_list_mutex, fs>>
  BY DEF SpreadWrite
<1>2. /\ job.client \in Publishers /\ ~fs.locked /\ ~box_list_mutex /\ JobTyped(job)
      /\ job.todo \in Seq(Subscribers) /\ job.todo # <<>>
      /\ \E k \in DOMAIN box_list : Boxed(k) = job.box
  BY <1>1 DEF Sane, JobFits, LocksFit, Publishing, Spreading, Ended, Down, Subscribing, Replaying
<1>3. Head(job.todo) \in Clients \ Publishers
  BY <1>2, Kinds
<1>4. ClientsInv' /\ pc' \in {next, "killed"} /\ UNCHANGED <<box_list, published, kept>>
  <2> HIDE DEF next
  <2> QED BY <1>1, <1>3, WriteKeeps DEF Sane, WriteTo
<1>5. Tail(job.todo) \in Seq(Subscribers) /\ (Len(job.todo) # 1 => Tail(job.todo) # <<>>)
  <2>1. /\ Tail(job.todo) \in Seq(Subscribers) /\ Len(Tail(job.todo)) = Len(job.todo) - 1
        /\ Len(job.todo) \in Nat
    BY <1>2, HeadTailProperties, LenProperties
  <2>2. ASSUME Tail(job.todo) = <<>> PROVE Len(job.todo) = 1
    <3>1. Len(Tail(job.todo)) = 0
      BY <2>2, EmptyIsSeq
    <3> HIDE <2>2
    <3> QED BY <2>1, <3>1
  <2> QED BY <2>1, <2>2
<1>6. JobTyped(job') /\ job'.client = job.client /\ job'.box = job.box /\ job'.todo = Tail(job.todo)
  <2> DEFINE rest == Tail(job.todo)
  <2>1. job' = [job EXCEPT !.todo = rest] /\ JobTyped(job)
    BY <1>1, <1>2
  <2> HIDE DEF rest
  <2>2. JobTyped(job') /\ job'.client = job.client /\ job'.box = job.box /\ job'.todo = rest
    BY <2>1, JobTodo
  <2> QED BY <2>2 DEF rest
<1>7. JobFits'
  BY <1>2, <1>4, <1>5, <1>6 DEF JobFits, Managing, Publishing, Spreading, Subscribing, Replaying, Boxed
<1>8. pc' \in Labels
  BY <1>4 DEF Labels, Ended, Down
<1>9. box_list_mutex' \in BOOLEAN /\ ~box_list_mutex'
  BY <1>1, <1>2 DEF Sane, LocksFit
<1> QED BY <1>1, <1>2, <1>4, <1>7, <1>8, <1>9, QuietKeeps

\* WatchEnd keeps the invariant.
LEMMA WatchEndKeeps == ASSUME Sane, WatchEnd PROVE Sane'
<1>1. /\ pc = "watching" /\ ~box_list_mutex' /\ box_list_mutex' \in BOOLEAN
      /\ pc' = "serving" /\ job' = NoJob
      /\ UNCHANGED <<box_list, fs, published, kept, register_pipe, stage, lives, pipe, taken>>
  BY DEF WatchEnd, Done, Goto, clientVars
<1>2. ClientsInv'
  BY <1>1 DEF Sane, ClientsInv, RequestsFit, FifosFit
<1>3. JobFits'
  BY <1>1, NoJobTyped DEF JobFits, Managing, Publishing, Spreading, Subscribing, Replaying
<1>4. pc' \in Labels /\ ~fs.locked
  BY <1>1 DEF Labels, Ended, Down, Sane, LocksFit
<1> QED BY <1>1, <1>2, <1>3, <1>4, QuietKeeps

\* PublisherOpen keeps the invariant.
LEMMA PublisherOpenKeeps == ASSUME Sane, PublisherOpen PROVE Sane'
<1>1. /\ pc = "publisher open" /\ pc' \in {"listening", "blocked"}
      /\ stage[job.client] # "nofifo"
      /\ stage' = stage \/ stage' = [stage EXCEPT ![job.client] = "writing"]
      /\ UNCHANGED <<job, box_list, box_list_mutex, fs, published, kept, register_pipe,
                     lives, pipe, taken>>
  BY DEF PublisherOpen, Goto
<1>2. /\ job.client \in Publishers /\ ~fs.locked /\ ~box_list_mutex /\ JobTyped(job)
      /\ \E k \in DOMAIN box_list : Boxed(k) = job.box
  BY <1>1 DEF Sane, JobFits, LocksFit, Publishing, Spreading, Ended, Down, Subscribing, Replaying
<1>3. ClientsInv'
  <2>1. job.client \in Clients /\ FifosFit /\ "writing" \in Stages
    BY <1>2, Kinds DEF Sane, ClientsInv, Stages
  <2>2. FifosFit'
    <3>1. CASE stage' = stage
      BY <1>1, <2>1, <3>1 DEF FifosFit
    <3>2. CASE stage' = [stage EXCEPT ![job.client] = "writing"]
      <4> DEFINE c == job.client
      <4>1. FifoFits(c, stage[c], lives[c], pipe[c], taken[c])
        BY <2>1, Unchanged
      <4>2. FifoFits(c, "writing", lives[c], pipe[c], taken[c])
        BY <1>1, <2>1, <4>1 DEF FifoFits
      <4>3. /\ lives' = [lives EXCEPT ![c] = lives[c]] /\ pipe' = [pipe EXCEPT ![c] = pipe[c]]
            /\ taken' = [taken EXCEPT ![c] = taken[c]]
        BY <1>1, <2>1, Unchanged
      <4> QED BY <2>1, <3>2, <4>2, <4>3, OneFifoChanges
    <3> QED BY <1>1, <3>1, <3>2
  <2> QED BY <1>1, <2>2 DEF Sane, ClientsInv, RequestsFit
<1>4. JobFits'
  BY <1>1, <1>2 DEF JobFits, Managing, Publishing, Spreading, Subscribing, Replaying, Boxed
<1>5. pc' \in Labels
  BY <1>1 DEF Labels, Ended, Down
<1>6. box_list_mutex' \in BOOLEAN /\ ~box_list_mutex'
  BY <1>1, <1>2 DEF Sane, LocksFit
<1> QED BY <1>1, <1>2, <1>3, <1>4, <1>5, <1>6, QuietKeeps

\* list_boxes keeps the invariant.
LEMMA ListBoxesKeeps == ASSUME Sane, list_boxes PROVE Sane'
<1> DEFINE request == Head(register_pipe)
<1>1. /\ Serve("list") /\ register_pipe' = Tail(register_pipe) /\ job' = Job(request)
      /\ pc' = "list open" /\ UNCHANGED <<box_list, box_list_mutex, fs, published, kept>>
  BY DEF list_boxes, ServeNext, Goto
<1>2. /\ pc = "serving" /\ ~box_list_mutex /\ ~fs.locked /\ request \in Requests
      /\ request.code = "list" /\ FromItsKind("list", request.client) /\ ClientsInv'
  BY <1>1, Served
<1>3. request.client \in Managers
  BY <1>2, ClientsAssumption DEF Requests, FromItsKind
<1> HIDE DEF request
<1>4. JobTyped(job') /\ job'.client = request.client /\ job'.todo = <<>>
  BY <1>1, <1>2, JobOf
<1>5. JobFits'
  BY <1>1, <1>3, <1>4, EmptyIsSeq DEF JobFits, Managing, Publishing, Spreading, Subscribing, Replaying
<1>6. pc' \in Labels /\ box_list_mutex' \in BOOLEAN /\ ~box_list_mutex'
  BY <1>1, <1>2 DEF Labels, Sane, LocksFit
<1> QED BY <1>1, <1>2, <1>5, <1>6, QuietKeeps

\* ServeUndefined keeps the invariant.
LEMMA ServeUndefinedKeeps == ASSUME Sane, ServeUndefined PROVE Sane'
<1>1. /\ pc = "serving" /\ pc' = "undefined"
      /\ UNCHANGED <<job, box_list, box_list_mutex, fs, published, kept, register_pipe, stage,
                     lives, pipe, taken>>
  BY DEF ServeUndefined, Goto, clientVars
<1>2. ClientsInv'
  BY <1>1 DEF Sane, ClientsInv, RequestsFit, FifosFit
<1>3. JobFits'
  BY <1>1 DEF Sane, JobFits, Managing, Publishing, Spreading, Subscribing, Replaying
<1>4. /\ pc' \in Labels /\ ~fs.locked /\ box_list_mutex' \in BOOLEAN /\ pc' \in Ended
  BY <1>1 DEF Labels, Ended, Down, Sane, LocksFit
<1> QED BY <1>1, <1>2, <1>3, <1>4, QuietKeeps

\* A step of a client keeps the invariant.
LEMMA BesideKeeps == ASSUME Sane, BesideBroker /\ ClientStep PROVE Sane'
<1>1. UNCHANGED <<pc, job, box_list, box_list_mutex, fs, published, kept>>
  BY DEF BesideBroker, brokerVars
<1>2. ClientsInv'
  BY ClientStepKeeps DEF Sane
<1>3. JobFits' /\ LocksFit' /\ BoxesFit'
  BY <1>1 DEF Sane, JobFits, LocksFit, BoxesFit, Boxed
<1> QED BY <1>1, <1>2, <1>3 DEF Sane

-----------------------------------------------------------------------------
(* The steps that change the list of boxes *)

\* A box gets a publisher, or loses it.
LEMMA PublisherSet ==
  ASSUME BoxesFit, NEW i \in DOMAIN box_list, NEW p \in Publishers \cup {NoClient},
         box_list' = [box_list EXCEPT ![i].publisher_named_pipe = p]
  PROVE  /\ NamesKept /\ \A k \in DOMAIN box_list : /\ box_list'[k].freed = box_list[k].freed
                                                    /\ box_list'[k].messages_size = box_list[k].messages_size
         /\ box_list'[i].publisher_named_pipe = p
         /\ \A k \in DOMAIN box_list \ {i} :
              box_list'[k].publisher_named_pipe = box_list[k].publisher_named_pipe
<1> DEFINE b == box_list[i]
           c == [b EXCEPT !.publisher_named_pipe = p]
<1>1. box_list \in Seq(BoxRecords) /\ b \in BoxRecords
  BY BoxIs DEF BoxesFit
<1>2. /\ c \in BoxRecords /\ c.box_name = b.box_name /\ c.publisher_named_pipe = p
      /\ c.freed = b.freed /\ c.messages_size = b.messages_size
  <2> HIDE DEF b
  <2> QED BY <1>1 DEF BoxRecords
<1>3. box_list' = [box_list EXCEPT ![i] = c]
  OBVIOUS
<1> HIDE DEF c
<1>4. /\ NamesKept /\ box_list'[i] = c
      /\ \A k \in DOMAIN box_list \ {i} : box_list'[k] = box_list[k]
  BY <1>1, <1>2, <1>3, BoxChanged
<1> QED BY <1>2, <1>4

\* A box gets a subscriber.
LEMMA SubscribersSet ==
  ASSUME BoxesFit, NEW i \in DOMAIN box_list, NEW t \in Seq(Subscribers),
         box_list' = [box_list EXCEPT ![i].subscribers = t]
  PROVE  /\ NamesKept
         /\ \A k \in DOMAIN box_list :
              /\ box_list'[k].freed = box_list[k].freed
              /\ box_list'[k].publisher_named_pipe = box_list[k].publisher_named_pipe
              /\ box_list'[k].messages_size = box_list[k].messages_size
<1> DEFINE b == box_list[i]
           c == [b EXCEPT !.subscribers = t]
<1>1. box_list \in Seq(BoxRecords) /\ b \in BoxRecords
  BY BoxIs DEF BoxesFit
<1>2. /\ c \in BoxRecords /\ c.box_name = b.box_name /\ c.freed = b.freed
      /\ c.publisher_named_pipe = b.publisher_named_pipe /\ c.messages_size = b.messages_size
  <2> HIDE DEF b
  <2> QED BY <1>1 DEF BoxRecords
<1>3. box_list' = [box_list EXCEPT ![i] = c]
  OBVIOUS
<1> HIDE DEF c
<1>4. /\ NamesKept /\ box_list'[i] = c
      /\ \A k \in DOMAIN box_list \ {i} : box_list'[k] = box_list[k]
  BY <1>1, <1>2, <1>3, BoxChanged
<1> QED BY <1>2, <1>4

\* A box gets a message more.
LEMMA SizeAdded ==
  ASSUME BoxesFit, NEW i \in DOMAIN box_list, NEW n \in Nat,
         box_list' = [box_list EXCEPT ![i].messages_size = Append(@, n)]
  PROVE  /\ NamesKept
         /\ \A k \in DOMAIN box_list :
              /\ box_list'[k].freed = box_list[k].freed
              /\ box_list'[k].publisher_named_pipe = box_list[k].publisher_named_pipe
         /\ box_list'[i].messages_size = Append(box_list[i].messages_size, n)
         /\ \A k \in DOMAIN box_list \ {i} : box_list'[k].messages_size = box_list[k].messages_size
<1> DEFINE b == box_list[i]
           t == Append(b.messages_size, n)
           c == [b EXCEPT !.messages_size = t]
<1>1. box_list \in Seq(BoxRecords) /\ b \in BoxRecords
  BY BoxIs DEF BoxesFit
<1>2. t \in Seq(Nat)
  <2> HIDE DEF b
  <2> QED BY <1>1, AppendProperties DEF BoxRecords
<1>3. box_list' = [box_list EXCEPT ![i] = c]
  OBVIOUS
<1> HIDE DEF t
<1>4. /\ c \in BoxRecords /\ c.box_name = b.box_name /\ c.freed = b.freed
      /\ c.publisher_named_pipe = b.publisher_named_pipe /\ c.messages_size = t
  <2> HIDE DEF b
  <2> QED BY <1>1, <1>2 DEF BoxRecords
<1> HIDE DEF c
<1>5. /\ NamesKept /\ box_list'[i] = c
      /\ \A k \in DOMAIN box_list \ {i} : box_list'[k] = box_list[k]
  BY <1>1, <1>3, <1>4, BoxChanged
<1> QED BY <1>4, <1>5 DEF t

\* register_publisher: a session begins, or the broker exits.
LEMMA RegisterPublisherCases ==
  ASSUME Sane, register_publisher
  PROVE  /\ pc = "serving" /\ UNCHANGED <<box_list_mutex, fs, published, kept>> /\ ClientsInv'
         /\ pipe' = pipe /\ ~box_list_mutex /\ ~fs.locked
         /\ \/ pc' = "exited" /\ UNCHANGED <<job, box_list>>
            \/ /\ pc' = "publisher open" /\ JobTyped(job') /\ job'.client \in Publishers
               /\ \E i \in DOMAIN box_list :
                    /\ Boxed(i) = job'.box
                    /\ box_list' = [box_list EXCEPT ![i].publisher_named_pipe = job'.client]
<1> DEFINE request == Head(register_pipe)
           i == find_box_by_name(request.box)
<1>1. /\ Serve("publish") /\ register_pipe' = Tail(register_pipe)
      /\ UNCHANGED <<box_list_mutex, fs, published, kept>>
      /\ \/ pc' = "exited" /\ UNCHANGED <<job, box_list>>
         \/ /\ i # 0 /\ job' = Job(request) /\ pc' = "publisher open"
            /\ box_list' = [box_list EXCEPT ![i].publisher_named_pipe = request.client]
  <2> HIDE DEF i
  <2> QED BY DEF register_publisher, ServeNext, Goto, Exit, i
<1>2. /\ pc = "serving" /\ ~box_list_mutex /\ ~fs.locked /\ request \in Requests
      /\ request.code = "publish" /\ FromItsKind("publish", request.client) /\ ClientsInv'
      /\ UNCHANGED clientVars
  BY <1>1, Served
<1>3. pipe' = pipe
  BY <1>2 DEF clientVars
<1>4. CASE pc' = "exited" /\ UNCHANGED <<job, box_list>>
  BY <1>1, <1>2, <1>3, <1>4
<1>5. CASE /\ i # 0 /\ job' = Job(request) /\ pc' = "publisher open"
           /\ box_list' = [box_list EXCEPT ![i].publisher_named_pipe = request.client]
  <2>1. request.client \in Publishers
    BY <1>2 DEF FromItsKind
  <2>2. i \in DOMAIN box_list /\ Boxed(i) = request.box
    <3> DEFINE n == request.box
    <3>1. box_list \in Seq(BoxRecords) /\ find_box_by_name(n) # 0
      BY <1>5 DEF Sane, BoxesFit
    <3> HIDE DEF n
    <3>2. find_box_by_name(n) \in DOMAIN box_list /\ Boxed(find_box_by_name(n)) = n
      BY <3>1, FindBox
    <3> QED BY <3>2 DEF n
  <2> HIDE DEF i, request
  <2>3. JobTyped(job') /\ job'.client = request.client /\ job'.box = request.box
    BY <1>2, <1>5, JobOf
  <2> QED BY <1>1, <1>2, <1>3, <1>5, <2>1, <2>2, <2>3
<1> QED BY <1>1, <1>4, <1>5

\* register_publisher keeps the invariant.
LEMMA RegisterPublisherKeeps == ASSUME Sane, register_publisher PROVE Sane'
<1>1. /\ pc = "serving" /\ UNCHANGED <<box_list_mutex, fs, published, kept>> /\ ClientsInv'
      /\ ~box_list_mutex /\ ~fs.locked
      /\ \/ pc' = "exited" /\ UNCHANGED <<job, box_list>>
         \/ /\ pc' = "publisher open" /\ JobTyped(job') /\ job'.client \in Publishers
            /\ \E i \in DOMAIN box_list :
                 /\ Boxed(i) = job'.box
                 /\ box_list' = [box_list EXCEPT ![i].publisher_named_pipe = job'.client]
  BY RegisterPublisherCases
<1>2. box_list_mutex' \in BOOLEAN /\ ~box_list_mutex' /\ ~fs.locked' /\ kept' \in Nat
  BY <1>1 DEF Sane, LocksFit
<1>3. CASE pc' = "exited" /\ UNCHANGED <<job, box_list>>
  <2>1. JobFits'
    BY <1>3 DEF Sane, JobFits, Managing, Publishing, Spreading, Subscribing, Replaying
  <2>2. pc' \in Labels
    BY <1>3 DEF Labels, Ended, Down
  <2> QED BY <1>1, <1>2, <1>3, <2>1, <2>2, QuietKeeps
<1>4. CASE /\ pc' = "publisher open" /\ JobTyped(job') /\ job'.client \in Publishers
           /\ \E i \in DOMAIN box_list :
                /\ Boxed(i) = job'.box
                /\ box_list' = [box_list EXCEPT ![i].publisher_named_pipe = job'.client]
  <2>1. PICK i \in DOMAIN box_list :
                /\ Boxed(i) = job'.box
                /\ box_list' = [box_list EXCEPT ![i].publisher_named_pipe = job'.client]
    BY <1>4
  <2>2. NamesKept
    <3> DEFINE p == job'.client
    <3>1. p \in Publishers \cup {NoClient} /\ BoxesFit
      BY <1>4 DEF Sane
    <3>2. box_list' = [box_list EXCEPT ![i].publisher_named_pipe = p]
      BY <2>1
    <3> HIDE DEF p
    <3> QED BY <3>1, <3>2, PublisherSet
  <2>3. BoxesFit'
    BY <1>1, <2>2, NamesKeptFit DEF Sane, BoxesFit
  <2>4. \E k \in DOMAIN box_list' : Boxed(k)' = job'.box
    BY <2>1, <2>2 DEF NamesKept, Boxed
  <2>5. JobFits'
    BY <1>4, <2>4 DEF JobFits, Managing, Publishing, Spreading, Subscribing, Replaying
  <2>6. LocksFit' /\ FsInv(fs)'
    BY <1>1, <1>2, <1>4 DEF Sane, LocksFit, Labels
  <2> QED BY <1>1, <2>3, <2>5, <2>6 DEF Sane
<1> QED BY <1>1, <1>3, <1>4

\* ListenEnd: the session of a publisher ends.
LEMMA ListenEndCases ==
  ASSUME Sane, ListenEnd
  PROVE  /\ pc = "listening" /\ pc' = "serving" /\ job' = NoJob /\ ~box_list_mutex /\ ~fs.locked
         /\ UNCHANGED <<box_list_mutex, fs, published, kept, register_pipe, stage, lives, pipe, taken>>
         /\ \E i \in DOMAIN box_list :
              /\ Boxed(i) = job.box
              /\ box_list' = [box_list EXCEPT ![i].publisher_named_pipe = NoClient]
<1> DEFINE i == find_box_by_name(job.box)
<1>1. /\ pc = "listening" /\ pc' = "serving" /\ job' = NoJob /\ ~box_list_mutex
      /\ UNCHANGED <<box_list_mutex, fs, published, kept, register_pipe, stage, lives, pipe, taken>>
      /\ box_list' = [box_list EXCEPT ![i].publisher_named_pipe = NoClient]
  BY DEF ListenEnd, Done, Goto, clientVars
<1>2. ~fs.locked /\ \E k \in DOMAIN box_list : Boxed(k) = job.box
  BY <1>1 DEF Sane, LocksFit, JobFits, Publishing, Ended, Down
<1>3. i \in DOMAIN box_list /\ Boxed(i) = job.box
  BY <1>2, FindBox DEF Sane, BoxesFit
<1> HIDE DEF i
<1> QED BY <1>1, <1>2, <1>3

\* ListenEnd keeps the invariant.
LEMMA ListenEndKeeps == ASSUME Sane, ListenEnd PROVE Sane'
<1>1. /\ pc = "listening" /\ pc' = "serving" /\ job' = NoJob /\ ~box_list_mutex /\ ~fs.locked
      /\ UNCHANGED <<box_list_mutex, fs, published, kept, register_pipe, stage, lives, pipe, taken>>
      /\ \E i \in DOMAIN box_list :
           /\ Boxed(i) = job.box
           /\ box_list' = [box_list EXCEPT ![i].publisher_named_pipe = NoClient]
  BY ListenEndCases
<1>2. ClientsInv'
  BY <1>1 DEF Sane, ClientsInv, RequestsFit, FifosFit
<1>3. JobFits'
  BY <1>1, NoJobTyped DEF JobFits, Managing, Publishing, Spreading, Subscribing, Replaying
<1>4. NamesKept
  BY <1>1, PublisherSet DEF Sane
<1>5. BoxesFit'
  BY <1>1, <1>4, NamesKeptFit DEF Sane, BoxesFit
<1>6. LocksFit' /\ FsInv(fs)'
  BY <1>1 DEF Sane, LocksFit, Labels
<1> QED BY <1>2, <1>3, <1>5, <1>6 DEF Sane

\* Message m is in the file of box n.
Stores(n, m) == fs' = write_to_box(fs, n, m).fs /\ write_to_box(fs, n, m).ret >= 0

\* Box i has message m more.
Accepts(i, m) ==
  /\ i \in DOMAIN box_list /\ Boxed(i) = job.box /\ m \in Messages /\ Len(m) \in Nat
  /\ box_list' = [box_list EXCEPT ![i].messages_size = Append(@, Len(m))]
  /\ published' = [published EXCEPT ![job.box] = Append(@, m)]
  /\ job' = [job EXCEPT !.data = m, !.todo = box_list[i].subscribers]
  /\ pc' \in {"crashed", "listening", "spread open"}
  /\ pc' = "spread open" => box_list[i].subscribers # <<>>
  /\ Names(fs') = Names(fs) /\ Opened(fs') = Opened(fs) /\ Stores(job.box, m)

\* ListenMessage: a message is accepted, or the broker exits.
LEMMA ListenMessageCases ==
  ASSUME Sane, ListenMessage
  PROVE  /\ pc = "listening" /\ ~box_list_mutex /\ ~fs.locked
         /\ UNCHANGED <<box_list_mutex, kept, pipe>> /\ ClientsInv'
         /\ FsInv(fs') /\ fs'.locked = fs.locked
         /\ \/ pc' = "exited" /\ UNCHANGED <<job, box_list, published>>
            \/ \E i, m : Accepts(i, m)
<1> DEFINE c == job.client
           m == pipe[c][taken[c] + 1]
           i == find_box_by_name(job.box)
           stored == write_to_box(fs, job.box, m)
<1>1. /\ pc = "listening" /\ Unread(c) > 0 /\ ~fs.locked /\ ~box_list_mutex
      /\ fs' = stored.fs
      /\ taken' = [taken EXCEPT ![c] = taken[c] + 1]
      /\ UNCHANGED <<box_list_mutex, kept, register_pipe, stage, lives, pipe>>
  BY DEF ListenMessage
<1>2. \/ stored.ret < 0 /\ pc' = "exited" /\ UNCHANGED <<job, box_list, published>>
      \/ /\ ~(stored.ret < 0)
         /\ box_list' = [box_list EXCEPT ![i].messages_size = Append(@, Len(m))]
         /\ published' = [published EXCEPT ![job.box] = Append(@, m)]
         /\ job' = [job EXCEPT !.data = m, !.todo = box_list[i].subscribers]
         /\ pc' \in {"crashed", "listening", "spread open"}
         /\ pc' = "spread open" => box_list[i].subscribers # <<>>
  BY DEF ListenMessage, Goto, Exit
<1>3. /\ c \in Publishers /\ c \in Clients /\ ClientsInv /\ FifosFit
      /\ \E k \in DOMAIN box_list : Boxed(k) = job.box
  BY <1>1, Kinds DEF Sane, JobFits, Publishing, ClientsInv
<1>4. /\ taken[c] \in Nat /\ Len(pipe[c]) \in Nat /\ taken[c] + 1 <= Len(pipe[c])
  BY <1>1, <1>3, UnreadIs
<1>5. FifoFits(c, stage[c], lives[c], pipe[c], taken[c])
  BY <1>3, Unchanged
<1>6. m \in Messages
  BY <1>3, <1>4, <1>5, ElementOfSeq DEF FifoFits
<1>7. ClientsInv'
  <2> DEFINE t == taken[c] + 1
  <2>1. FifoFits(c, stage[c], lives[c], pipe[c], t)
    BY <1>4, <1>5 DEF FifoFits
  <2>2. /\ lives' = [lives EXCEPT ![c] = lives[c]] /\ pipe' = [pipe EXCEPT ![c] = pipe[c]]
        /\ stage' = [stage EXCEPT ![c] = stage[c]] /\ taken' = [taken EXCEPT ![c] = t]
    BY <1>1, <1>3, Unchanged
  <2> HIDE DEF t, c
  <2>3. FifosFit'
    BY <1>3, <2>1, <2>2, OneFifoChanges
  <2> QED BY <1>1, <1>3, <2>3 DEF ClientsInv, RequestsFit
<1>8. i \in DOMAIN box_list /\ Boxed(i) = job.box
  BY <1>3, FindBox DEF Sane, BoxesFit
<1> HIDE DEF i, c, m
<1>9. PICK S : m \in Seq(S)
  BY <1>6, ClientsAssumption
<1>10. Len(m) \in Nat
  BY <1>9, LenProperties
<1>11. /\ FsInv(stored.fs) /\ stored.fs.locked = fs.locked /\ stored.ret \in Int
       /\ stored.ret >= 0 => Names(stored.fs) = Names(fs) /\ Opened(stored.fs) = Opened(fs)
  BY <1>9, PublicationKeeps DEF Sane
<1> HIDE DEF stored
<1>12. FsInv(fs') /\ fs'.locked = fs.locked
  BY <1>1, <1>11
<1>13. ASSUME ~(stored.ret < 0),
              box_list' = [box_list EXCEPT ![i].messages_size = Append(@, Len(m))],
              published' = [published EXCEPT ![job.box] = Append(@, m)],
              job' = [job EXCEPT !.data = m, !.todo = box_list[i].subscribers],
              pc' \in {"crashed", "listening", "spread open"},
              pc' = "spread open" => box_list[i].subscribers # <<>>
       PROVE  Accepts(i, m)
  <2>1. /\ Names(fs') = Names(fs) /\ Opened(fs') = Opened(fs)
        /\ fs' = stored.fs /\ stored.ret >= 0
    <3>1. stored.ret >= 0
      <4>1. stored.ret \in Int /\ ~(stored.ret < 0)
        BY <1>11, <1>13
      <4> QED BY <4>1
    <3>2. Names(stored.fs) = Names(fs) /\ Opened(stored.fs) = Opened(fs)
      BY <1>11, <3>1
    <3> QED BY <1>1, <3>1, <3>2
  <2>2. Stores(job.box, m)
    BY <2>1 DEF Stores, stored
  <2> QED BY <1>6, <1>8, <1>10, <1>13, <2>1, <2>2 DEF Accepts
<1> QED BY <1>1, <1>2, <1>7, <1>12, <1>13

\* A box that accepts a message.
LEMMA AcceptKeeps ==
  ASSUME Sane, NEW i, NEW m, Accepts(i, m), pc = "listening"
  PROVE  /\ NamesKept /\ BoxesFit' /\ JobFits'
         /\ job'.client = job.client /\ job'.box = job.box
         /\ \A k \in DOMAIN box_list :
              /\ box_list'[k].freed = box_list[k].freed
              /\ box_list'[k].publisher_named_pipe = box_list[k].publisher_named_pipe
<1>1. /\ i \in DOMAIN box_list /\ Boxed(i) = job.box /\ m \in Messages /\ Len(m) \in Nat
      /\ box_list' = [box_list EXCEPT ![i].messages_size = Append(@, Len(m))]
      /\ published' = [published EXCEPT ![job.box] = Append(@, m)]
      /\ job' = [job EXCEPT !.data = m, !.todo = box_list[i].subscribers]
      /\ pc' \in {"crashed", "listening", "spread open"}
      /\ pc' = "spread open" => box_list[i].subscribers # <<>>
  BY DEF Accepts
<1>2. BoxesFit /\ JobTyped(job) /\ job.client \in Publishers
  BY DEF Sane, JobFits, Publishing
<1>3. /\ NamesKept
      /\ \A k \in DOMAIN box_list :
              /\ box_list'[k].freed = box_list[k].freed
              /\ box_list'[k].publisher_named_pipe = box_list[k].publisher_named_pipe
  <2> DEFINE n == Len(m)
  <2>1. n \in Nat /\ box_list' = [box_list EXCEPT ![i].messages_size = Append(@, n)]
    BY <1>1
  <2> HIDE DEF n
  <2> QED BY <1>1, <1>2, <2>1, SizeAdded
<1>4. BoxesFit'
  <2>1. job.box \in DOMAIN published
    BY <1>1, <1>2 DEF BoxesFit
  <2>2. Append(published[job.box], m) \in Seq(Messages)
    BY <1>1, <1>2, <2>1, AppendProperties DEF BoxesFit
  <2>3. /\ DOMAIN published' = DOMAIN published
        /\ published' = [n \in DOMAIN published' |-> published'[n]]
    BY <1>1, <1>2 DEF BoxesFit
  <2>4. \A n \in DOMAIN published : published'[n] \in Seq(Messages)
    BY <1>1, <1>2, <2>1, <2>2 DEF BoxesFit
  <2> QED BY <1>2, <1>3, <2>3, <2>4, NamesKeptFit
<1>5. box_list[i].subscribers \in Seq(Subscribers)
  BY <1>1, <1>2, BoxIs DEF BoxesFit, BoxRecords
<1>6. /\ JobTyped(job') /\ job'.client = job.client /\ job'.box = job.box
      /\ job'.todo = box_list[i].subscribers
  <2> DEFINE x == box_list[i].subscribers
  <2>1. job' = [job EXCEPT !.data = m, !.todo = x] /\ JobTyped(job)
    BY <1>1, <1>2
  <2> HIDE DEF x
  <2>2. JobTyped(job') /\ job'.client = job.client /\ job'.box = job.box /\ job'.todo = x
    BY <2>1 DEF JobTyped
  <2> QED BY <2>2 DEF x
<1>7. \E k \in DOMAIN box_list' : Boxed(k)' = job'.box
  BY <1>1, <1>3, <1>6 DEF NamesKept, Boxed
<1>8. JobFits'
  BY <1>1, <1>2, <1>5, <1>6, <1>7
     DEF JobFits, Managing, Publishing, Spreading, Subscribing, Replaying
<1> QED BY <1>3, <1>4, <1>6, <1>8

\* ListenMessage keeps the invariant.
LEMMA ListenMessageKeeps == ASSUME Sane, ListenMessage PROVE Sane'
<1>1. /\ pc = "listening" /\ ~box_list_mutex /\ ~fs.locked
      /\ UNCHANGED <<box_list_mutex, kept>> /\ ClientsInv'
      /\ FsInv(fs') /\ fs'.locked = fs.locked
      /\ \/ pc' = "exited" /\ UNCHANGED <<job, box_list, published>>
         \/ \E i, m : Accepts(i, m)
  BY ListenMessageCases
<1>2. pc' \in {"crashed", "listening", "spread open", "exited"}
  BY <1>1 DEF Accepts
<1>3. LocksFit'
  BY <1>1, <1>2 DEF Sane, LocksFit, Labels, Ended, Down
<1>4. BoxesFit' /\ JobFits'
  <2>1. CASE pc' = "exited" /\ UNCHANGED <<job, box_list, published>>
    BY <2>1 DEF Sane, BoxesFit, Boxed, JobFits, Managing, Publishing, Spreading, Subscribing,
                Replaying
  <2>2. CASE \E i, m : Accepts(i, m)
    BY <1>1, <2>2, AcceptKeeps
  <2> QED BY <1>1, <2>1, <2>2
<1> QED BY <1>1, <1>3, <1>4 DEF Sane

\* ReplayWrite: the next message is read, if there is one.
LEMMA ReplayWriteCases ==
  ASSUME Sane, ReplayWrite
  PROVE  /\ pc = "replay write" /\ ~fs.locked /\ ClientsInv'
         /\ UNCHANGED <<box_list, box_list_mutex, published, kept>>
         /\ pc' \in {"watch open", "replay open", "killed"}
         /\ \A m \in Managers : pipe'[m] = pipe[m]
         /\ JobTyped(job') /\ job'.client = job.client /\ job'.todo \in Seq(Nat)
         /\ FsInv(fs') /\ fs'.locked = fs.locked /\ Names(fs') = Names(fs)
         /\ Opened(fs') = Opened(fs)
<1> DEFINE next == IF job.todo = <<>> THEN "watch open" ELSE "replay open"
           read == tfs_read(fs, job.handle, Head(job.todo))
<1>1. /\ pc = "replay write" /\ ~fs.locked /\ WriteTo(job.client, job.data, next)
      /\ UNCHANGED box_list_mutex
      /\ \/ job.todo = <<>> /\ UNCHANGED <<job, fs>>
         \/ /\ job.todo # <<>> /\ fs' = read.fs
            /\ job' = [job EXCEPT !.todo = Tail(job.todo), !.data = read.data]
  BY DEF ReplayWrite
<1>2. /\ job.client \in Subscribers /\ JobTyped(job) /\ job.todo \in Seq(Nat)
      /\ FsInv(fs) /\ ClientsInv /\ FifosFit
  BY <1>1 DEF Sane, JobFits, Subscribing, Replaying, ClientsInv
<1>3. job.client \in Clients \ Publishers /\ job.client \notin Managers
  BY <1>2, Kinds, ClientsAssumption
<1>4. ClientsInv' /\ pc' \in {next, "killed"} /\ UNCHANGED <<box_list, published, kept>>
  <2> HIDE DEF next
  <2> QED BY <1>1, <1>2, <1>3, WriteKeeps DEF WriteTo
<1>5. \A m \in Managers : pipe'[m] = pipe[m]
  BY <1>1, <1>2, <1>3, Kinds DEF WriteTo, FifosFit
<1>6. CASE job.todo = <<>> /\ UNCHANGED <<job, fs>>
  BY <1>1, <1>2, <1>4, <1>5, <1>6
<1>7. CASE /\ job.todo # <<>> /\ fs' = read.fs
           /\ job' = [job EXCEPT !.todo = Tail(job.todo), !.data = read.data]
  <2>1. Head(job.todo) \in Nat /\ Tail(job.todo) \in Seq(Nat)
    BY <1>2, <1>7, HeadTailProperties
  <2>2. /\ FsInv(read.fs) /\ read.fs.locked = fs.locked /\ Names(read.fs) = Names(fs)
        /\ Opened(read.fs) = Opened(fs)
    BY <1>2, <2>1, ReadingKeeps
  <2> HIDE DEF read
  <2>3. JobTyped(job') /\ job'.client = job.client /\ job'.todo = Tail(job.todo)
    <3> DEFINE x == Tail(job.todo)
               y == read.data
    <3>1. job' = [job EXCEPT !.todo = x, !.data = y] /\ JobTyped(job)
      BY <1>2, <1>7
    <3> HIDE DEF x, y
    <3>2. JobTyped(job') /\ job'.client = job.client /\ job'.todo = x
      BY <3>1 DEF JobTyped
    <3> QED BY <3>2 DEF x
  <2>4. /\ FsInv(fs') /\ fs'.locked = fs.locked /\ Names(fs') = Names(fs)
        /\ Opened(fs') = Opened(fs)
    BY <1>7, <2>2
  <2> QED BY <1>1, <1>4, <1>5, <2>1, <2>3, <2>4
<1> QED BY <1>1, <1>6, <1>7

\* ReplayWrite keeps the invariant.
LEMMA ReplayWriteKeeps == ASSUME Sane, ReplayWrite PROVE Sane'
<1>1. /\ pc = "replay write" /\ ~fs.locked /\ ClientsInv'
      /\ UNCHANGED <<box_list, box_list_mutex, published, kept>>
      /\ pc' \in {"watch open", "replay open", "killed"}
      /\ JobTyped(job') /\ job'.client = job.client /\ job'.todo \in Seq(Nat)
      /\ FsInv(fs') /\ fs'.locked = fs.locked
  BY ReplayWriteCases
<1>2. job.client \in Subscribers
  BY <1>1 DEF Sane, JobFits, Subscribing, Replaying
<1>3. JobFits'
  BY <1>1, <1>2 DEF JobFits, Managing, Publishing, Spreading, Subscribing, Replaying
<1>4. LocksFit'
  BY <1>1 DEF Sane, LocksFit, Labels, Ended, Down, Subscribing, Replaying
<1>5. BoxesFit'
  BY <1>1 DEF Sane, BoxesFit, Boxed
<1> QED BY <1>1, <1>3, <1>4, <1>5 DEF Sane

\* A subscriber is linked to some box, if it is not linked already.
Links == \E i \in DOMAIN box_list, t \in Seq(Subscribers) :
           box_list' = [box_list EXCEPT ![i].subscribers = t]

\* A box gets a subscriber, and nothing else of it changes.
LEMMA LinksKeeps ==
  ASSUME BoxesFit, Links
  PROVE  NamesKept /\ \A k \in DOMAIN box_list :
                        /\ box_list'[k].freed = box_list[k].freed
                        /\ box_list'[k].publisher_named_pipe = box_list[k].publisher_named_pipe
<1>1. PICK i \in DOMAIN box_list, t \in Seq(Subscribers) :
        box_list' = [box_list EXCEPT ![i].subscribers = t]
  BY DEF Links
<1> QED BY <1>1, SubscribersSet

\* One handle more.
OneMoreOpen == \E h : h \notin Opened(fs) /\ Opened(fs') = Opened(fs) \cup {h}

\* The file of the box of the first request is open at its beginning and its first
\* message is read, or the mutex is kept.
ReadsFirst ==
  LET request == Head(register_pipe)
      rewound == rewound_box(fs, request.box)
  IN  \E i \in DOMAIN box_list :
        LET sizes == box_list[i].messages_size
            read == tfs_read(rewound.fs, rewound.ret, Head(sizes))
        IN  /\ Boxed(i) = request.box /\ sizes # <<>> /\ ~(rewound.ret < 0)
            /\ job' = [Job(request) EXCEPT !.handle = rewound.ret, !.todo = Tail(sizes),
                                           !.data = read.data]
            /\ fs' = IF rewound.fs.locked THEN rewound.fs ELSE read.fs
            /\ pc' = IF rewound.fs.locked THEN "blocked" ELSE "replay open"

\* A replay begins, or waits for ever for the mutex that its rewind kept.
BeginsReplay ==
  /\ box_list_mutex' = TRUE /\ kept' = kept + 1
  /\ JobTyped(job') /\ job'.client \in Subscribers /\ job'.todo \in Seq(Nat)
  /\ FsInv(fs') /\ Names(fs') = Names(fs) /\ OneMoreOpen
  /\ pc' = "blocked" \/ (pc' = "replay open" /\ ~fs'.locked)
  /\ register_pipe # <<>> /\ Head(register_pipe).code = "subscribe" /\ ReadsFirst

\* register_subscriber: a replay begins, or the broker ends.
LEMMA RegisterSubscriberCases ==
  ASSUME Sane, register_subscriber
  PROVE  /\ pc = "serving" /\ ~fs.locked /\ ~box_list_mutex
         /\ UNCHANGED <<published, pipe>> /\ ClientsInv'
         /\ \/ /\ pc' \in {"exited", "crashed"} /\ UNCHANGED <<job, box_list_mutex, fs, kept>>
               /\ box_list' = box_list \/ Links
            \/ Links /\ BeginsReplay
<1> DEFINE request == Head(register_pipe)
           n == request.box
           i == find_box_by_name(n)
           box == box_list[i]
           rewound == rewound_box(fs, n)
           read == tfs_read(rewound.fs, rewound.ret, Head(box.messages_size))
<1>1. /\ Serve("subscribe") /\ register_pipe' = Tail(register_pipe) /\ published' = published
  BY DEF register_subscriber, ServeNext
<1>2. /\ pc = "serving" /\ ~box_list_mutex /\ ~fs.locked /\ request \in Requests
      /\ request.code = "subscribe" /\ FromItsKind("subscribe", request.client) /\ ClientsInv'
      /\ UNCHANGED clientVars
  BY <1>1, Served
<1>3. pipe' = pipe /\ request.client \in Subscribers
  BY <1>2 DEF clientVars, FromItsKind
<1>4. \/ pc' = "exited" /\ UNCHANGED <<job, box_list, box_list_mutex, fs, kept>>
      \/ /\ i # 0 /\ box_list' = [box_list EXCEPT ![i].subscribers = link(@, request.client)]
         /\ \/ pc' \in {"exited", "crashed"} /\ UNCHANGED <<job, box_list_mutex, fs, kept>>
            \/ /\ ~(rewound.ret < 0) /\ box.messages_size # <<>>
               /\ box_list_mutex' = TRUE /\ kept' = kept + 1
               /\ job' = [Job(request) EXCEPT !.handle = rewound.ret,
                            !.todo = Tail(box.messages_size), !.data = read.data]
               /\ fs' = IF rewound.fs.locked THEN rewound.fs ELSE read.fs
               /\ pc' = IF rewound.fs.locked THEN "blocked" ELSE "replay open"
  <2> HIDE DEF i, rewound, read
  <2> QED BY DEF register_subscriber, Goto, Exit, i, rewound, read
<1>5. ASSUME i # 0, box_list' = [box_list EXCEPT ![i].subscribers = link(@, request.client)]
      PROVE  Links /\ box \in BoxRecords
  <2>1. i \in DOMAIN box_list /\ box_list \in Seq(BoxRecords)
    <3> HIDE DEF n
    <3> QED BY <1>5, FindBox DEF Sane, BoxesFit
  <2>2. box \in BoxRecords
    <3> HIDE DEF i
    <3> QED BY <2>1, BoxIs
  <2>3. link(box.subscribers, request.client) \in Seq(Subscribers)
    <3> HIDE DEF box, request
    <3>1. box.subscribers \in Seq(Subscribers) /\ <<request.client>> \in Seq(Subscribers)
      BY <1>3, <2>2 DEF BoxRecords
    <3> QED BY <3>1 DEF link
  <2> DEFINE t == link(box.subscribers, request.client)
  <2>4. box_list' = [box_list EXCEPT ![i].subscribers = t]
    BY <1>5
  <2>5. t \in Seq(Subscribers)
    BY <2>3
  <2> HIDE DEF t, i
  <2>6. Links
    BY <2>1, <2>4, <2>5 DEF Links
  <2> QED BY <2>2, <2>6
<1>6. /\ FsInv(rewound.fs) /\ Names(rewound.fs) = Names(fs)
      /\ \/ rewound.ret = -1 /\ Opened(rewound.fs) = Opened(fs)
         \/ /\ rewound.ret \in Nat /\ rewound.ret \notin Opened(fs)
            /\ Opened(rewound.fs) = Opened(fs) \cup {rewound.ret}
  <2> HIDE DEF n
  <2> QED BY RewoundKeeps DEF Sane
<1>7. ASSUME box \in BoxRecords, box.messages_size # <<>>
      PROVE  /\ Tail(box.messages_size) \in Seq(Nat)
             /\ FsInv(read.fs) /\ read.fs.locked = rewound.fs.locked
             /\ Names(read.fs) = Names(rewound.fs) /\ Opened(read.fs) = Opened(rewound.fs)
  <2> DEFINE g == rewound.fs
             h == rewound.ret
             sizes == box.messages_size
             len == Head(sizes)
  <2> HIDE DEF box
  <2>1. sizes \in Seq(Nat) /\ sizes # <<>>
    BY <1>7 DEF BoxRecords
  <2> HIDE DEF sizes
  <2>2. len \in Nat /\ Tail(sizes) \in Seq(Nat)
    BY <2>1, HeadTailProperties
  <2>3. FsInv(g)
    BY <1>6
  <2> HIDE DEF g, h, len
  <2>4. LET r == tfs_read(g, h, len)
        IN  /\ FsInv(r.fs) /\ r.fs.locked = g.locked /\ Names(r.fs) = Names(g)
            /\ Opened(r.fs) = Opened(g)
    BY <2>2, <2>3, ReadingKeeps
  <2> QED BY <2>2, <2>4 DEF g, h, len, sizes
<1>8. ASSUME box \in BoxRecords, ~(rewound.ret < 0), box.messages_size # <<>>,
             box_list_mutex' = TRUE, kept' = kept + 1,
             job' = [Job(request) EXCEPT !.handle = rewound.ret,
                       !.todo = Tail(box.messages_size), !.data = read.data],
             fs' = IF rewound.fs.locked THEN rewound.fs ELSE read.fs,
             pc' = IF rewound.fs.locked THEN "blocked" ELSE "replay open", i # 0
      PROVE  BeginsReplay
  <2>0. ReadsFirst
    <3>1. i \in DOMAIN box_list /\ Boxed(i) = n
      <4> HIDE DEF n
      <4> QED BY <1>8, FindBox DEF Sane, BoxesFit
    <3> DEFINE k == find_box_by_name(n)
    <3>2. /\ k \in DOMAIN box_list /\ Boxed(k) = n /\ box_list[k].messages_size # <<>>
          /\ ~(rewound.ret < 0)
          /\ job' = [Job(request) EXCEPT !.handle = rewound.ret,
                       !.todo = Tail(box_list[k].messages_size),
                       !.data = tfs_read(rewound.fs, rewound.ret, Head(box_list[k].messages_size)).data]
          /\ fs' = IF rewound.fs.locked THEN rewound.fs
                   ELSE tfs_read(rewound.fs, rewound.ret, Head(box_list[k].messages_size)).fs
          /\ pc' = IF rewound.fs.locked THEN "blocked" ELSE "replay open"
      <4> HIDE DEF rewound
      <4> QED BY <1>8, <3>1
    <3> HIDE DEF k
    <3> QED BY <3>2 DEF ReadsFirst
  <2>1. /\ Tail(box.messages_size) \in Seq(Nat)
        /\ FsInv(read.fs) /\ read.fs.locked = rewound.fs.locked
        /\ Names(read.fs) = Names(rewound.fs) /\ Opened(read.fs) = Opened(rewound.fs)
    BY <1>7, <1>8
  <2> HIDE DEF read, rewound, box
  <2>2. JobTyped(job') /\ job'.client = request.client /\ job'.todo = Tail(box.messages_size)
    <3> DEFINE j == Job(request)
               x == Tail(box.messages_size)
               y == read.data
               z == rewound.ret
    <3> HIDE DEF request
    <3>1. JobTyped(j) /\ j.client = request.client
      BY <1>2, JobOf
    <3>2. job' = [j EXCEPT !.handle = z, !.todo = x, !.data = y]
      BY <1>8
    <3> HIDE DEF j, x, y, z
    <3>3. JobTyped(job') /\ job'.client = j.client /\ job'.todo = x
      BY <3>1, <3>2 DEF JobTyped
    <3> QED BY <3>1, <3>3 DEF x
  <2>3. /\ FsInv(fs') /\ Names(fs') = Names(fs) /\ Opened(fs') = Opened(rewound.fs)
        /\ pc' = "blocked" \/ (pc' = "replay open" /\ ~fs'.locked)
    <3>1. CASE rewound.fs.locked
      BY <1>6, <1>8, <3>1
    <3>2. CASE ~rewound.fs.locked
      BY <1>6, <1>8, <2>1, <3>2
    <3> QED BY <3>1, <3>2
  <2>4. OneMoreOpen
    <3>1. rewound.ret # -1
      <4>1. ~(rewound.ret < 0)
        BY <1>8
      <4> QED BY <4>1
    <3>2. rewound.ret \notin Opened(fs) /\ Opened(rewound.fs) = Opened(fs) \cup {rewound.ret}
      BY <1>6, <3>1
    <3> QED BY <2>3, <3>2 DEF OneMoreOpen
  <2>5. register_pipe # <<>> /\ Head(register_pipe).code = "subscribe"
    BY <1>1, <1>2 DEF Serve
  <2> QED BY <1>3, <1>8, <2>0, <2>1, <2>2, <2>3, <2>4, <2>5 DEF BeginsReplay
<1> HIDE DEF i, rewound, read, box
<1>9. CASE pc' = "exited" /\ UNCHANGED <<job, box_list, box_list_mutex, fs, kept>>
  BY <1>1, <1>2, <1>3, <1>9
<1>10. CASE /\ i # 0 /\ box_list' = [box_list EXCEPT ![i].subscribers = link(@, request.client)]
            /\ pc' \in {"exited", "crashed"} /\ UNCHANGED <<job, box_list_mutex, fs, kept>>
  BY <1>1, <1>2, <1>3, <1>5, <1>10
<1>11. CASE /\ i # 0 /\ box_list' = [box_list EXCEPT ![i].subscribers = link(@, request.client)]
            /\ ~(rewound.ret < 0) /\ box.messages_size # <<>>
            /\ box_list_mutex' = TRUE /\ kept' = kept + 1
            /\ job' = [Job(request) EXCEPT !.handle = rewound.ret,
                         !.todo = Tail(box.messages_size), !.data = read.data]
            /\ fs' = IF rewound.fs.locked THEN rewound.fs ELSE read.fs
            /\ pc' = IF rewound.fs.locked THEN "blocked" ELSE "replay open"
  <2>1. Links /\ box \in BoxRecords
    BY <1>5, <1>11
  <2>2. BeginsReplay
    BY <1>8, <1>11, <2>1
  <2> QED BY <1>1, <1>2, <1>3, <2>1, <2>2
<1> QED BY <1>4, <1>9, <1>10, <1>11

\* register_subscriber keeps the invariant.
LEMMA RegisterSubscriberKeeps == ASSUME Sane, register_subscriber PROVE Sane'
<1>1. /\ pc = "serving" /\ ~fs.locked /\ ~box_list_mutex
      /\ UNCHANGED <<published, pipe>> /\ ClientsInv'
      /\ \/ /\ pc' \in {"exited", "crashed"} /\ UNCHANGED <<job, box_list_mutex, fs, kept>>
            /\ box_list' = box_list \/ Links
         \/ Links /\ BeginsReplay
  BY RegisterSubscriberCases
<1>2. BoxesFit'
  <2>1. CASE box_list' = box_list
    BY <1>1, <2>1 DEF Sane, BoxesFit, Boxed
  <2>2. CASE Links
    <3>1. NamesKept /\ BoxesFit
      BY <2>2, LinksKeeps DEF Sane
    <3> QED BY <1>1, <3>1, NamesKeptFit DEF BoxesFit
  <2> QED BY <1>1, <2>1, <2>2
<1>3. CASE pc' \in {"exited", "crashed"} /\ UNCHANGED <<job, box_list_mutex, fs, kept>>
  <2>1. JobFits'
    BY <1>3 DEF Sane, JobFits, Managing, Publishing, Spreading, Subscribing, Replaying
  <2>2. LocksFit'
    BY <1>1, <1>3 DEF Sane, LocksFit, Labels, Ended, Down
  <2> QED BY <1>1, <1>2, <1>3, <2>1, <2>2 DEF Sane
<1>4. CASE BeginsReplay
  <2>1. JobFits'
    BY <1>4 DEF BeginsReplay, JobFits, Managing, Publishing, Spreading, Subscribing, Replaying,
                Ended
  <2>2. LocksFit'
    <3>1. kept' \in Nat
      <4>1. kept' = kept + 1 /\ kept \in Nat
        BY <1>4 DEF BeginsReplay, Sane, LocksFit
      <4> QED BY <4>1
    <3>2. pc' \in {"blocked", "replay open"} /\ (fs'.locked => pc' = "blocked") /\ box_list_mutex' = TRUE
      BY <1>4 DEF BeginsReplay
    <3> QED BY <3>1, <3>2 DEF LocksFit, Labels, Ended, Subscribing, Replaying
  <2> QED BY <1>1, <1>2, <1>4, <2>1, <2>2 DEF Sane, BeginsReplay
<1> QED BY <1>1, <1>3, <1>4

\* An answer to a manager is on its way.
Answering(code, n, ret) ==
  /\ pc' = "answer open" /\ JobTyped(job') /\ job'.client \in Managers
  /\ job'.data = create_answer(code, n, ret)

\* An answer has the locals of a handler.
LEMMA AnswerGiven ==
  ASSUME NEW request \in Requests, request.client \in Managers, NEW n, NEW ret,
         Answer(request, n, ret)
  PROVE  Answering(request.code, n, ret)
<1> DEFINE j == Job(request)
           x == create_answer(request.code, n, ret)
<1>1. JobTyped(j) /\ j.client = request.client
  BY JobOf
<1>2. job' = [j EXCEPT !.data = x] /\ pc' = "answer open"
  BY DEF Answer, Goto
<1> HIDE DEF j, x
<1>3. JobTyped(job') /\ job'.client = j.client /\ job'.data = x
  BY <1>1, <1>2 DEF JobTyped
<1> QED BY <1>1, <1>2, <1>3 DEF Answering, x

\* The file of name n is opened, and made if there is none.
Makes(n) == fs' = tfs_open(fs, n, {"CREAT"}).fs /\ n \in Boxes
MakesAndOpens(n) == Makes(n) /\ tfs_open(fs, n, {"CREAT"}).ret # -1

\* Box n is put at the end of the list; its file has been opened.
Creates(n) ==
  /\ \A k \in DOMAIN box_list : Boxed(k) # n
  /\ box_list' = Append(box_list, NewBox(n))
  /\ published' = [b \in DOMAIN published \cup {n} |-> IF b = n THEN <<>> ELSE published[b]]
  /\ kept' = kept + 1 /\ OneMoreOpen /\ n \in Names(fs') /\ MakesAndOpens(n)
  /\ Answering("create", n, 0)

\* register_box: a box is created, or the request is refused.
LEMMA RegisterBoxCases ==
  ASSUME Sane, register_box
  PROVE  /\ pc = "serving" /\ ~fs.locked /\ ~box_list_mutex /\ ~HeadIsFreed
         /\ UNCHANGED <<box_list_mutex, pipe>> /\ ClientsInv'
         /\ FsInv(fs') /\ fs'.locked = fs.locked /\ Names(fs) \subseteq Names(fs')
         /\ \/ /\ UNCHANGED <<box_list, published, kept>> /\ Opened(fs') = Opened(fs)
               /\ \E n \in Boxes : Answering("create", n, -1) /\ (fs' = fs \/ Makes(n))
            \/ \E n \in Boxes : Creates(n)
<1> DEFINE request == Head(register_pipe)
           n == request.box
           opened == tfs_open(fs, n, {"CREAT"})
           exists == find_box_by_name(n) # 0
<1>1. /\ Serve("create") /\ register_pipe' = Tail(register_pipe) /\ box_list_mutex' = box_list_mutex
      /\ fs' = IF exists THEN fs ELSE opened.fs
      /\ \/ /\ exists \/ opened.ret < 0
            /\ Answer(request, n, -1) /\ UNCHANGED <<box_list, published, kept>>
         \/ /\ ~exists /\ ~(opened.ret < 0)
            /\ box_list' = Append(box_list, NewBox(n))
            /\ published' = [b \in DOMAIN published \cup {n} |->
                               IF b = n THEN <<>> ELSE published[b]]
            /\ kept' = kept + 1
            /\ Answer(request, n, 0)
  <2> HIDE DEF opened, exists
  <2> QED BY DEF register_box, ServeNext, opened, exists
<1>2. /\ pc = "serving" /\ ~box_list_mutex /\ ~fs.locked /\ request \in Requests
      /\ request.code = "create" /\ FromItsKind("create", request.client) /\ ClientsInv'
      /\ UNCHANGED clientVars /\ n \in Boxes
  BY <1>1, Served
<1>3. pipe' = pipe /\ request.client \in Managers /\ ~HeadIsFreed
  BY <1>1, <1>2, ClientsAssumption DEF clientVars, Requests, FromItsKind, Serve
<1>4. OpenKeeping(fs, n, {"CREAT"}, opened)
  <2> HIDE DEF n
  <2> QED BY OpenKeepsNames DEF Sane
<1> HIDE DEF opened
<1>5. /\ FsInv(opened.fs) /\ opened.fs.locked = fs.locked /\ Names(fs) \subseteq Names(opened.fs)
      /\ \/ opened.ret = -1 /\ Opened(opened.fs) = Opened(fs)
         \/ /\ opened.ret \in Handles \ Opened(fs) /\ n \in Names(opened.fs)
            /\ Opened(opened.fs) = Opened(fs) \cup {opened.ret}
  BY <1>4 DEF OpenKeeping
<1>6. opened.ret = -1 \/ opened.ret \in Nat
  BY <1>5, HandlesAreNumbers
<1>7. FsInv(fs') /\ fs'.locked = fs.locked /\ Names(fs) \subseteq Names(fs')
  <2> HIDE DEF exists
  <2> QED BY <1>1, <1>5 DEF Sane
<1>8. CASE /\ exists \/ opened.ret < 0
           /\ Answer(request, n, -1) /\ UNCHANGED <<box_list, published, kept>>
  <2> HIDE DEF exists
  <2>1. Opened(fs') = Opened(fs)
    <3>1. CASE exists
      BY <1>1, <3>1
    <3>2. CASE ~exists
      <4>1. opened.ret = -1
        BY <1>6, <1>8, <3>2
      <4>2. Opened(opened.fs) = Opened(fs)
        BY <1>5, <4>1, HandlesAreNumbers
      <4> QED BY <1>1, <3>2, <4>2
    <3> QED BY <3>1, <3>2
  <2> HIDE DEF request
  <2>2. Answering("create", n, -1)
    BY <1>2, <1>3, <1>8, AnswerGiven
  <2>3. fs' = fs \/ Makes(n)
    BY <1>1, <1>2 DEF Makes, opened
  <2> HIDE DEF n
  <2> QED BY <1>1, <1>2, <1>3, <1>7, <1>8, <2>1, <2>2, <2>3
<1>9. CASE /\ ~exists /\ ~(opened.ret < 0)
           /\ box_list' = Append(box_list, NewBox(n))
           /\ published' = [b \in DOMAIN published \cup {n} |->
                              IF b = n THEN <<>> ELSE published[b]]
           /\ kept' = kept + 1
           /\ Answer(request, n, 0)
  <2>1. \A k \in DOMAIN box_list : Boxed(k) # n
    <3> HIDE DEF n
    <3> QED BY <1>9, FindBox DEF Sane, BoxesFit
  <2>2. opened.ret # -1
    <3>1. ~(opened.ret < 0)
      BY <1>9
    <3> QED BY <3>1
  <2> HIDE DEF exists
  <2>3. OneMoreOpen /\ n \in Names(fs')
    <3>1. fs' = opened.fs
      BY <1>1, <1>9
    <3>2. opened.ret \notin Opened(fs) /\ Opened(opened.fs) = Opened(fs) \cup {opened.ret}
      BY <1>5, <2>2
    <3>3. n \in Names(opened.fs)
      BY <1>5, <2>2
    <3> QED BY <3>1, <3>2, <3>3 DEF OneMoreOpen
  <2> HIDE DEF request
  <2>4. Answering("create", n, 0)
    BY <1>2, <1>3, <1>9, AnswerGiven
  <2>5. MakesAndOpens(n)
    BY <1>1, <1>2, <1>9, <2>2 DEF MakesAndOpens, Makes, opened
  <2>6. Creates(n)
    BY <1>9, <2>1, <2>3, <2>4, <2>5 DEF Creates
  <2> HIDE DEF n
  <2> QED BY <1>1, <1>2, <1>3, <1>7, <2>6
<1> QED BY <1>1, <1>8, <1>9

\* The list with a box more.
LEMMA CreatesKeeps ==
  ASSUME BoxesFit, NEW n \in Boxes, Creates(n)
  PROVE  /\ BoxesFit' /\ DOMAIN box_list' = 1 .. Len(box_list) + 1 /\ Len(box_list) \in Nat
         /\ DOMAIN box_list = 1 .. Len(box_list)
         /\ \A k \in DOMAIN box_list : box_list'[k] = box_list[k]
         /\ box_list'[Len(box_list) + 1] = NewBox(n)
<1>1. NewBox(n) \in BoxRecords /\ NewBox(n).box_name = n
  BY EmptyIsSeq DEF NewBox, BoxRecords
<1> DEFINE b == NewBox(n)
<1>2. box_list' = Append(box_list, b) /\ b \in BoxRecords /\ box_list \in Seq(BoxRecords)
  BY <1>1 DEF Creates, BoxesFit
<1> HIDE DEF b
<1>3. /\ box_list' \in Seq(BoxRecords) /\ Len(box_list') = Len(box_list) + 1
      /\ \A k \in 1 .. Len(box_list) : box_list'[k] = box_list[k]
      /\ box_list'[Len(box_list) + 1] = b
  BY <1>2, AppendProperties
<1>4. /\ DOMAIN box_list' = 1 .. Len(box_list) + 1 /\ Len(box_list) \in Nat
      /\ DOMAIN box_list = 1 .. Len(box_list)
  BY <1>2, <1>3, LenProperties
<1>5. \A k \in DOMAIN box_list : Boxed(k) # n /\ Boxed(k) \in DOMAIN published
  BY DEF Creates, BoxesFit
<1>6. \A i, j \in DOMAIN box_list' : box_list'[i].box_name = box_list'[j].box_name => i = j
  <2>1. b.box_name = n
    BY <1>1 DEF b
  <2>2. \A k \in DOMAIN box_list' : k \in DOMAIN box_list \/ k = Len(box_list) + 1
    BY <1>4
  <2> TAKE i, j \in DOMAIN box_list'
  <2>3. CASE i \in DOMAIN box_list /\ j \in DOMAIN box_list
    BY <1>3, <1>4, <2>3 DEF BoxesFit, Boxed
  <2>4. CASE i \in DOMAIN box_list /\ j \notin DOMAIN box_list
    BY <1>3, <1>4, <1>5, <2>1, <2>2, <2>4 DEF Boxed
  <2>5. CASE i \notin DOMAIN box_list /\ j \in DOMAIN box_list
    BY <1>3, <1>4, <1>5, <2>1, <2>2, <2>5 DEF Boxed
  <2>6. CASE i \notin DOMAIN box_list /\ j \notin DOMAIN box_list
    BY <2>2, <2>6
  <2> QED BY <2>3, <2>4, <2>5, <2>6
<1>7. /\ published' = [c \in DOMAIN published \cup {n} |-> IF c = n THEN <<>> ELSE published[c]]
      /\ DOMAIN published \subseteq Boxes
      /\ \A c \in DOMAIN published : published[c] \in Seq(Messages)
  BY DEF Creates, BoxesFit
<1>8. /\ DOMAIN published' \subseteq Boxes
      /\ published' = [c \in DOMAIN published' |-> published'[c]]
      /\ \A c \in DOMAIN published' : published'[c] \in Seq(Messages)
  BY <1>7, EmptyIsSeq
<1>9. \A k \in DOMAIN box_list' : box_list'[k].box_name \in DOMAIN published'
  <2>1. b.box_name = n
    BY <1>1 DEF b
  <2> QED BY <1>3, <1>4, <1>5, <1>7, <2>1 DEF Boxed
<1>10. BoxesFit'
  BY <1>3, <1>6, <1>8, <1>9 DEF BoxesFit, Boxed
<1> QED BY <1>3, <1>4, <1>10 DEF b

\* register_box keeps the invariant.
LEMMA RegisterBoxKeeps == ASSUME Sane, register_box PROVE Sane'
<1>1. /\ pc = "serving" /\ ~fs.locked /\ ~box_list_mutex
      /\ UNCHANGED box_list_mutex /\ ClientsInv'
      /\ FsInv(fs') /\ fs'.locked = fs.locked
      /\ \/ /\ UNCHANGED <<box_list, published, kept>>
            /\ \E n \in Boxes : Answering("create", n, -1)
         \/ \E n \in Boxes : Creates(n)
  BY RegisterBoxCases
<1>2. pc' = "answer open" /\ JobTyped(job') /\ job'.client \in Managers
  BY <1>1 DEF Answering, Creates
<1>3. kept' \in Nat
  <2>1. kept \in Nat /\ (kept' = kept \/ kept' = kept + 1)
    BY <1>1 DEF Creates, Sane, LocksFit
  <2> QED BY <2>1
<1>4. LocksFit'
  BY <1>1, <1>2, <1>3 DEF Sane, LocksFit, Labels
<1>5. JobFits'
  BY <1>2 DEF JobFits, Managing, Publishing, Spreading, Subscribing, Replaying
<1>6. BoxesFit'
  <2>1. CASE UNCHANGED <<box_list, published, kept>>
    BY <2>1 DEF Sane, BoxesFit, Boxed
  <2>2. CASE \E n \in Boxes : Creates(n)
    BY <2>2, CreatesKeeps DEF Sane
  <2> QED BY <1>1, <2>1, <2>2
<1> QED BY <1>1, <1>4, <1>5, <1>6 DEF Sane

SameBox(b, c) == /\ b.box_name = c.box_name
                 /\ b.publisher_named_pipe = c.publisher_named_pipe
                 /\ b.messages_size = c.messages_size

\* Box i is taken out of the list.
TakesOut(i) ==
  /\ i \in DOMAIN box_list
  /\ box_list' \in Seq(BoxRecords) /\ Len(box_list') = Len(box_list) - 1
  /\ \A k \in 1 .. Len(box_list) - 1 :
       /\ k < i => SameBox(box_list'[k], box_list[k])
       /\ k >= i => SameBox(box_list'[k], box_list[k + 1])

\* The file of name n is gone.
Unlinks(n) == fs' = tfs_unlink(fs, n).fs

\* The first box is removed and keeps its file, or the second, and the first is freed.
Removes(i, n) ==
  /\ TakesOut(i) /\ Boxed(i) = n
  /\ (i = 1 /\ fs' = fs) \/ (i = 2 /\ HeadIsFreed' /\ Unlinks(n))
  /\ FsInv(fs') /\ fs'.locked = fs.locked /\ Opened(fs') = Opened(fs)
  /\ Answering("remove", n, 0)

\* The tail of the list is the list without its first box.
LEMMA FirstTakenOut ==
  ASSUME box_list \in Seq(BoxRecords), box_list # <<>>, box_list' = Tail(box_list)
  PROVE  TakesOut(1)
<1>1. /\ box_list' \in Seq(BoxRecords) /\ Len(box_list') = Len(box_list) - 1
      /\ \A k \in 1 .. Len(box_list') : box_list'[k] = box_list[k + 1]
  BY HeadTailProperties
<1>2. Len(box_list) \in Nat /\ Len(box_list') \in Nat /\ DOMAIN box_list = 1 .. Len(box_list)
  BY <1>1, LenProperties
<1>3. 1 \in DOMAIN box_list
  BY <1>1, <1>2
<1>4. \A k \in 1 .. Len(box_list) - 1 : box_list'[k] = box_list[k + 1] /\ ~(k < 1)
  BY <1>1, <1>2
<1> QED BY <1>1, <1>3, <1>4 DEF TakesOut, SameBox

\* The second box is removed and the first is freed.
LEMMA SecondTakenOut ==
  ASSUME box_list \in Seq(BoxRecords), 2 \in DOMAIN box_list,
         box_list' = [RemoveAt(box_list, 2) EXCEPT ![1].freed = TRUE]
  PROVE  TakesOut(2) /\ HeadIsFreed'
<1> DEFINE first == SubSeq(box_list, 1, 1)
           rest == SubSeq(box_list, 3, Len(box_list))
           shorter == first \o rest
           b == [box_list[1] EXCEPT !.freed = TRUE]
<1>1. Len(box_list) \in Nat /\ DOMAIN box_list = 1 .. Len(box_list) /\ Len(box_list) >= 2
  BY LenProperties
<1>2. RemoveAt(box_list, 2) = shorter
  BY DEF RemoveAt
<1>3. /\ first \in Seq(BoxRecords) /\ Len(first) = 1 /\ first[1] = box_list[1]
  BY <1>1, SubSeqProperties
<1>4. /\ rest \in Seq(BoxRecords) /\ Len(rest) = Len(box_list) - 2
      /\ \A k \in 1 .. Len(box_list) - 2 : rest[k] = box_list[k + 2]
  <2>1. \A k \in 3 .. Len(box_list) : box_list[k] \in BoxRecords
    BY <1>1, BoxIs
  <2>2. 3 \in Int /\ Len(box_list) \in Int
    BY <1>1
  <2>3. /\ rest \in Seq(BoxRecords)
        /\ Len(rest) = IF 3 <= Len(box_list) THEN Len(box_list) - 3 + 1 ELSE 0
        /\ \A k \in 1 .. Len(box_list) - 3 + 1 : rest[k] = box_list[3 + k - 1]
    BY <2>1, <2>2, SubSeqProperties
  <2> HIDE DEF rest
  <2>4. Len(rest) = Len(box_list) - 2
    <3>1. CASE Len(box_list) = 2
      BY <2>3, <3>1
    <3>2. CASE Len(box_list) # 2
      <4>1. 3 <= Len(box_list) /\ Len(box_list) - 3 + 1 = Len(box_list) - 2
        BY <1>1, <3>2
      <4> QED BY <2>3, <4>1
    <3> QED BY <3>1, <3>2
  <2>5. ASSUME NEW k \in 1 .. Len(box_list) - 2
        PROVE  rest[k] = box_list[k + 2]
    <3>1. k \in 1 .. Len(box_list) - 3 + 1 /\ 3 + k - 1 = k + 2
      BY <1>1
    <3> QED BY <2>3, <3>1
  <2> QED BY <2>3, <2>4, <2>5
<1> HIDE DEF first, rest
<1>5. /\ shorter \in Seq(BoxRecords) /\ Len(shorter) = Len(box_list) - 1
      /\ shorter[1] = box_list[1]
      /\ \A k \in 2 .. Len(box_list) - 1 : shorter[k] = box_list[k + 1]
  <2>1. /\ shorter \in Seq(BoxRecords) /\ Len(shorter) = Len(first) + Len(rest)
        /\ \A k \in 1 .. Len(first) + Len(rest) :
             shorter[k] = IF k <= Len(first) THEN first[k] ELSE rest[k - Len(first)]
    BY <1>3, <1>4, ConcatProperties
  <2> HIDE DEF shorter
  <2>2. Len(shorter) = Len(box_list) - 1 /\ shorter[1] = box_list[1]
    <3>1. Len(first) + Len(rest) = Len(box_list) - 1
      BY <1>1, <1>3, <1>4
    <3>2. 1 \in 1 .. Len(first) + Len(rest) /\ 1 <= Len(first)
      BY <1>1, <1>3, <3>1
    <3>3. shorter[1] = first[1]
      BY <2>1, <3>2
    <3> QED BY <1>3, <2>1, <3>1, <3>3
  <2>3. \A k \in 2 .. Len(box_list) - 1 : shorter[k] = box_list[k + 1]
    <3> TAKE k \in 2 .. Len(box_list) - 1
    <3>1. k \in Nat /\ k - 1 \in 1 .. Len(box_list) - 2 /\ k \in 1 .. Len(first) + Len(rest)
      BY <1>1, <1>3, <1>4
    <3>2. shorter[k] = rest[k - 1]
      BY <1>3, <2>1, <3>1
    <3>3. rest[k - 1] = box_list[k - 1 + 2]
      BY <1>4, <3>1
    <3> QED BY <3>1, <3>2, <3>3
  <2> QED BY <2>1, <2>2, <2>3
<1> HIDE DEF shorter
<1>6. box_list[1] \in BoxRecords
  BY <1>1, BoxIs
<1>7. /\ b \in BoxRecords /\ b.freed /\ b.box_name = box_list[1].box_name
      /\ b.publisher_named_pipe = box_list[1].publisher_named_pipe
      /\ b.messages_size = box_list[1].messages_size
  BY <1>6 DEF BoxRecords
<1>8. box_list' = [shorter EXCEPT ![1] = b]
  BY <1>2, <1>5
<1> HIDE DEF b
<1>9. /\ DOMAIN shorter = 1 .. Len(shorter) /\ 1 \in 1 .. Len(shorter)
  BY <1>1, <1>5, LenProperties
<1>10. /\ box_list' \in Seq(BoxRecords) /\ Len(box_list') = Len(box_list) - 1
       /\ \A k \in 1 .. Len(shorter) : box_list'[k] = IF k = 1 THEN b ELSE shorter[k]
  <2>1. shorter \in Seq(BoxRecords) /\ b \in BoxRecords /\ 1 \in 1 .. Len(shorter)
    BY <1>5, <1>7, <1>9
  <2>2. /\ [shorter EXCEPT ![1] = b] \in Seq(BoxRecords)
        /\ Len([shorter EXCEPT ![1] = b]) = Len(shorter)
        /\ \A k \in 1 .. Len(shorter) :
             [shorter EXCEPT ![1] = b][k] = IF k = 1 THEN b ELSE shorter[k]
    BY <2>1, ExceptSeq
  <2> QED BY <1>5, <1>8, <2>2
<1>11. box_list'[1] = b /\ \A k \in 2 .. Len(box_list) - 1 : box_list'[k] = box_list[k + 1]
  <2>1. box_list'[1] = b
    BY <1>9, <1>10
  <2>2. \A k \in 2 .. Len(box_list) - 1 : box_list'[k] = shorter[k]
    BY <1>1, <1>5, <1>10
  <2> QED BY <1>5, <2>1, <2>2
<1>12. TakesOut(2)
  <2>1. \A k \in 1 .. Len(box_list) - 1 : k < 2 => SameBox(box_list'[k], box_list[k])
    <3>1. SameBox(box_list'[1], box_list[1])
      BY <1>7, <1>11 DEF SameBox
    <3>2. \A k \in 1 .. Len(box_list) - 1 : k < 2 => k = 1
      OBVIOUS
    <3> QED BY <3>1, <3>2
  <2>2. \A k \in 1 .. Len(box_list) - 1 : k >= 2 => SameBox(box_list'[k], box_list[k + 1])
    <3> TAKE k \in 1 .. Len(box_list) - 1
    <3> HAVE k >= 2
    <3>1. k \in 2 .. Len(box_list) - 1
      BY <1>1
    <3> QED BY <1>11, <3>1 DEF SameBox
  <2> QED BY <1>10, <2>1, <2>2 DEF TakesOut
<1>13. HeadIsFreed'
  <2>1. box_list' # <<>>
    BY <1>1, <1>10, EmptyIsSeq
  <2>2. Head(box_list') = box_list'[1]
    BY <1>10, <2>1
  <2> QED BY <1>7, <1>11, <2>1, <2>2 DEF HeadIsFreed
<1> QED BY <1>12, <1>13

\* An answer goes to a manager.
LEMMA AnswerPathsAreManagers == ASSUME NEW m \in Managers PROVE AnswerPaths(m) \subseteq Managers
BY DEF AnswerPaths

\* remove_box_command: box 1 or 2 is taken out, or the broker exits.
LEMMA CommandCases ==
  ASSUME Sane, NEW request \in Requests, request.code = "remove", request.client \in Managers,
         NEW n \in Boxes, remove_box_command(request, n)
  PROVE  \/ pc' = "exited" /\ UNCHANGED <<job, box_list, fs>>
         \/ \E i \in Nat : Removes(i, n)
<1> DEFINE i == find_box_by_name(n)
           unlinked == tfs_unlink(fs, n)
<1>1. \/ i = 1 /\ box_list' = Tail(box_list) /\ Answer(request, n, 0) /\ fs' = fs
      \/ /\ i = 2 /\ box_list' = [RemoveAt(box_list, 2) EXCEPT ![1].freed = TRUE]
         /\ fs' = unlinked.fs /\ Answer(request, n, 0)
      \/ Exit /\ UNCHANGED <<job, box_list, fs>>
  <2> HIDE DEF i, unlinked
  <2> QED BY DEF remove_box_command, i, unlinked
<1>2. /\ FsInv(unlinked.fs) /\ unlinked.fs.locked = fs.locked
      /\ Opened(unlinked.fs) = Opened(fs)
  BY UnlinkKeepsInv DEF Sane, SameFlags, Opened
<1>3. box_list \in Seq(BoxRecords) /\ FsInv(fs)
  BY DEF Sane, BoxesFit
<1>4. i = 0 \/ (i \in DOMAIN box_list /\ Boxed(i) = n)
  BY <1>3, FindBox
<1>5. ASSUME Answer(request, n, 0) PROVE Answering("remove", n, 0)
  BY <1>5, AnswerGiven
<1> HIDE DEF i, unlinked
<1>6. CASE i = 1 /\ box_list' = Tail(box_list) /\ Answer(request, n, 0) /\ fs' = fs
  <2>1. 1 \in DOMAIN box_list /\ Boxed(1) = n
    BY <1>4, <1>6
  <2>2. box_list # <<>>
    BY <2>1
  <2>3. TakesOut(1)
    BY <1>3, <1>6, <2>2, FirstTakenOut
  <2>4. Removes(1, n)
    BY <1>3, <1>5, <1>6, <2>1, <2>3 DEF Removes
  <2> QED BY <2>4
<1>7. CASE /\ i = 2 /\ box_list' = [RemoveAt(box_list, 2) EXCEPT ![1].freed = TRUE]
           /\ fs' = unlinked.fs /\ Answer(request, n, 0)
  <2>1. 2 \in DOMAIN box_list /\ Boxed(2) = n
    BY <1>4, <1>7
  <2>2. TakesOut(2) /\ HeadIsFreed'
    BY <1>3, <1>7, <2>1, SecondTakenOut
  <2>3. Unlinks(n)
    BY <1>7 DEF Unlinks, unlinked
  <2>4. Removes(2, n)
    BY <1>2, <1>5, <1>7, <2>1, <2>2, <2>3 DEF Removes
  <2> QED BY <2>4
<1> QED BY <1>1, <1>6, <1>7 DEF Exit, Goto

\* remove_box: the same, for a name that the stack may have held.
LEMMA RemoveBoxCases ==
  ASSUME Sane, remove_box
  PROVE  /\ pc = "serving" /\ ~fs.locked /\ ~box_list_mutex /\ ~HeadIsFreed
         /\ UNCHANGED <<box_list_mutex, published, kept, pipe>> /\ ClientsInv'
         /\ \/ pc' = "exited" /\ UNCHANGED <<job, box_list, fs>>
            \/ \E i \in Nat, n \in Boxes : Removes(i, n)
<1> DEFINE request == Head(register_pipe)
           command(n, client) == remove_box_command([request EXCEPT !.client = client], n)
<1>1. /\ Serve("remove") /\ UNCHANGED <<box_list_mutex, published, kept>>
      /\ register_pipe' = <<>> \/ register_pipe' = Tail(register_pipe)
      /\ \/ \E n \in Boxes, client \in AnswerPaths(request.client) : command(n, client)
         \/ Exit /\ UNCHANGED <<job, box_list, fs>>
  <2> HIDE DEF command
  <2> QED BY DEF remove_box, command
<1>2. /\ pc = "serving" /\ ~box_list_mutex /\ ~fs.locked /\ request \in Requests
      /\ request.code = "remove" /\ FromItsKind("remove", request.client) /\ ClientsInv'
      /\ UNCHANGED clientVars
  BY <1>1, Served
<1>3. pipe' = pipe /\ request.client \in Managers /\ ~HeadIsFreed
  <2>1. ~HeadIsFreed
    BY <1>1 DEF Serve
  <2>2. request.client \in Managers
    <3> HIDE DEF request
    <3> QED BY <1>2 DEF FromItsKind, Requests
  <2> QED BY <1>2, <2>1, <2>2 DEF clientVars
<1>4. ASSUME NEW n \in Boxes, NEW client \in AnswerPaths(request.client), command(n, client)
      PROVE  \/ pc' = "exited" /\ UNCHANGED <<job, box_list, fs>>
             \/ \E i \in Nat : Removes(i, n)
  <2> HIDE DEF request
  <2> DEFINE r == [request EXCEPT !.client = client]
  <2>1. client \in Managers /\ client \in Clients
    BY <1>3, AnswerPathsAreManagers, Kinds
  <2>2. r \in Requests /\ r.code = "remove" /\ r.client \in Managers
    BY <1>2, <2>1 DEF Requests
  <2>3. remove_box_command(r, n)
    BY <1>4
  <2> HIDE DEF r
  <2> QED BY <2>2, <2>3, CommandCases
<1> HIDE DEF request, command
<1> QED BY <1>1, <1>2, <1>3, <1>4 DEF Exit, Goto

\* Where in the old list a box of the new one was.
LEMMA WasAt ==
  ASSUME BoxesFit, NEW i \in Nat, TakesOut(i)
  PROVE  /\ DOMAIN box_list' = 1 .. Len(box_list) - 1 /\ Len(box_list) \in Nat
         /\ \A k \in DOMAIN box_list' :
              /\ k \in DOMAIN box_list /\ k + 1 \in DOMAIN box_list
              /\ k < i => SameBox(box_list'[k], box_list[k])
              /\ k >= i => SameBox(box_list'[k], box_list[k + 1])
<1>1. /\ box_list' \in Seq(BoxRecords) /\ Len(box_list') = Len(box_list) - 1
      /\ box_list \in Seq(BoxRecords)
  BY DEF TakesOut, BoxesFit
<1>2. /\ DOMAIN box_list' = 1 .. Len(box_list) - 1 /\ Len(box_list) \in Nat
      /\ DOMAIN box_list = 1 .. Len(box_list)
  BY <1>1, LenProperties
<1>3. \A k \in 1 .. Len(box_list) - 1 : k \in 1 .. Len(box_list) /\ k + 1 \in 1 .. Len(box_list)
  BY <1>2
<1> QED BY <1>2, <1>3 DEF TakesOut

\* The list with a box less.
LEMMA TakesOutKeeps ==
  ASSUME BoxesFit, NEW i \in Nat, TakesOut(i), published' = published
  PROVE  BoxesFit'
<1> DEFINE old(k) == IF k < i THEN k ELSE k + 1
<1>1. \A k \in DOMAIN box_list' :
        k \in Nat /\ old(k) \in DOMAIN box_list /\ SameBox(box_list'[k], box_list[old(k)])
  <2> TAKE k \in DOMAIN box_list'
  <2>1. k \in Nat /\ (k < i \/ (k >= i /\ ~(k < i)))
    BY WasAt
  <2>2. /\ k \in DOMAIN box_list /\ k + 1 \in DOMAIN box_list
        /\ k < i => SameBox(box_list'[k], box_list[k])
        /\ k >= i => SameBox(box_list'[k], box_list[k + 1])
    BY WasAt
  <2>3. CASE k < i
    BY <2>1, <2>2, <2>3
  <2>4. CASE k >= i /\ ~(k < i)
    BY <2>1, <2>2, <2>4
  <2> QED BY <2>1, <2>3, <2>4
<1>2. \A k, l \in Nat : old(k) = old(l) => k = l
  OBVIOUS
<1> HIDE DEF old
<1>3. \A k \in DOMAIN box_list' : box_list'[k].box_name = Boxed(old(k))
  BY <1>1 DEF SameBox, Boxed
<1>4. \A k, l \in DOMAIN box_list' : box_list'[k].box_name = box_list'[l].box_name => k = l
  BY <1>1, <1>2, <1>3 DEF BoxesFit
<1>5. \A k \in DOMAIN box_list' : box_list'[k].box_name \in DOMAIN published
  BY <1>1, <1>3 DEF BoxesFit
<1>6. box_list' \in Seq(BoxRecords)
  BY DEF TakesOut
<1> QED BY <1>4, <1>5, <1>6 DEF BoxesFit, Boxed

\* remove_box keeps the invariant.
LEMMA RemoveBoxKeeps == ASSUME Sane, remove_box PROVE Sane'
<1>1. /\ pc = "serving" /\ ~fs.locked /\ ~box_list_mutex /\ ClientsInv'
      /\ UNCHANGED <<box_list_mutex, published, kept>>
      /\ \/ pc' = "exited" /\ UNCHANGED <<job, box_list, fs>>
         \/ \E i \in Nat, n \in Boxes : Removes(i, n)
  BY RemoveBoxCases
<1>2. CASE pc' = "exited" /\ UNCHANGED <<job, box_list, fs>>
  <2>1. FsInv(fs') /\ BoxesFit'
    BY <1>1, <1>2 DEF Sane, BoxesFit, Boxed
  <2>2. JobFits'
    BY <1>2 DEF Sane, JobFits, Managing, Publishing, Spreading, Subscribing, Replaying
  <2>3. LocksFit'
    BY <1>1, <1>2 DEF Sane, LocksFit, Labels, Ended, Down
  <2> QED BY <1>1, <2>1, <2>2, <2>3 DEF Sane
<1>3. CASE \E i \in Nat, n \in Boxes : Removes(i, n)
  <2>1. PICK i \in Nat, n \in Boxes : Removes(i, n)
    BY <1>3
  <2>2. /\ pc' = "answer open" /\ JobTyped(job') /\ job'.client \in Managers
        /\ TakesOut(i) /\ FsInv(fs') /\ fs'.locked = fs.locked
    BY <2>1 DEF Removes, Answering
  <2>3. BoxesFit'
    BY <1>1, <2>2, TakesOutKeeps DEF Sane
  <2>4. JobFits'
    BY <2>2 DEF JobFits, Managing, Publishing, Spreading, Subscribing, Replaying
  <2>5. LocksFit'
    BY <1>1, <2>2 DEF Sane, LocksFit, Labels
  <2> QED BY <1>1, <2>2, <2>3, <2>4, <2>5 DEF Sane
<1> QED BY <1>1, <1>2, <1>3

-----------------------------------------------------------------------------
(* Always *)

\* The broker starts in the invariant.
LEMMA StartIsSane == Init => Sane
<1> SUFFICES ASSUME Init PROVE Sane
  OBVIOUS
<1>1. ClientsInv
  BY ClientsStart DEF Init
<1>2. FsInv(fs) /\ ~fs.locked
  BY StartsEmpty DEF Init
<1>3. BoxesFit
  <2>1. box_list = <<>> /\ published = <<>>
    BY DEF Init
  <2>2. DOMAIN published = {} /\ DOMAIN box_list = {}
    BY <2>1, NoHandles
  <2>3. published = [n \in DOMAIN published |-> published[n]]
    BY <2>1, NoHandles
  <2>4. box_list \in Seq(BoxRecords)
    BY <2>1, EmptyIsSeq
  <2> QED BY <2>2, <2>3, <2>4 DEF BoxesFit
<1>4. JobFits
  BY NoJobTyped DEF Init, JobFits, Managing, Publishing, Spreading, Subscribing, Replaying
<1>5. LocksFit
  BY <1>2 DEF Init, LocksFit, Labels
<1> QED BY <1>1, <1>2, <1>3, <1>4, <1>5 DEF Sane

\* Every step keeps the invariant.
LEMMA StepIsSane == Sane /\ [Next]_vars => Sane'
<1> SUFFICES ASSUME Sane, [Next]_vars PROVE Sane'
  OBVIOUS
<1>1. CASE register_box
  BY <1>1, RegisterBoxKeeps
<1>2. CASE remove_box
  BY <1>2, RemoveBoxKeeps
<1>3. CASE list_boxes
  BY <1>3, ListBoxesKeeps
<1>4. CASE register_publisher
  BY <1>4, RegisterPublisherKeeps
<1>5. CASE register_subscriber
  BY <1>5, RegisterSubscriberKeeps
<1>6. CASE ServeUndefined
  BY <1>6, ServeUndefinedKeeps
<1>7. CASE AnswerOpen
  BY <1>7, AnswerOpenKeeps
<1>8. CASE AnswerWrite
  BY <1>8, AnswerWriteKeeps
<1>9. CASE ListOpen
  BY <1>9, ListOpenKeeps
<1>10. CASE ListWrite
  BY <1>10, ListWriteKeeps
<1>11. CASE PublisherOpen
  BY <1>11, PublisherOpenKeeps
<1>12. CASE ListenMessage
  BY <1>12, ListenMessageKeeps
<1>13. CASE ListenEnd
  BY <1>13, ListenEndKeeps
<1>14. CASE SpreadOpen
  BY <1>14, SpreadOpenKeeps
<1>15. CASE SpreadWrite
  BY <1>15, SpreadWriteKeeps
<1>16. CASE ReplayOpen \/ WatchOpen
  BY <1>16, SubscriberOpenKeeps
<1>17. CASE ReplayWrite
  BY <1>17, ReplayWriteKeeps
<1>18. CASE WatchEnd
  BY <1>18, WatchEndKeeps
<1>19. CASE BesideBroker /\ ClientStep
  BY <1>19, BesideKeeps
<1>20. CASE UNCHANGED vars
  BY <1>20 DEF vars, brokerVars, clientVars, Sane, ClientsInv, RequestsFit, FifosFit,
               BoxesFit, Boxed, JobFits, LocksFit
<1> QED BY <1>1, <1>2, <1>3, <1>4, <1>5, <1>6, <1>7, <1>8, <1>9, <1>10, <1>11, <1>12, <1>13,
           <1>14, <1>15, <1>16, <1>17, <1>18, <1>19, <1>20 DEF Next, Broker

\* The invariant holds in every behaviour, whatever the fairness.
LEMMA AlwaysSane == Behaviour => []Sane
BY StartIsSane, StepIsSane, PTL DEF Behaviour

\* TypeOK: what the broker and its clients keep is of the types of mbroker.c, its
\* locals are those of a client, and every request in the register pipe is whole.
THEOREM TypeCorrect == Behaviour => []TypeOK
<1>1. Sane => TypeOK
  <2> SUFFICES ASSUME Sane PROVE TypeOK
    OBVIOUS
  <2>1. ClientsTypeOK
    BY ClientsTyped DEF Sane
  <2>2. /\ job.client \in Clients \cup {NoClient} /\ job.life \in Nat /\ job.reader \in Nat
    BY DEF Sane, JobFits, JobTyped
  <2>3. \A i \in DOMAIN box_list : box_list[i] \in BoxRecords
    BY BoxIs DEF Sane, BoxesFit
  <2> QED BY <2>1, <2>2, <2>3 DEF TypeOK, Sane, BoxesFit, LocksFit, BoxRecords
<1> QED BY <1>1, AlwaysSane, PTL

\* MutexesFree: whatever way a handler took, a broker that is ready for a request or
\* for a message of its publisher holds neither box_list_mutex nor g_library_mutex.
THEOREM MutexesAreFree == Behaviour => []MutexesFree
<1>1. Sane => MutexesFree
  BY DEF Sane, LocksFit, MutexesFree, Subscribing, Replaying, Ended, Down
<1> QED BY <1>1, AlwaysSane, PTL

-----------------------------------------------------------------------------
(* What a step does to the list of boxes, their publishers and the handles *)

\* Neither boxes, publishers nor handles come or go.
Calm ==
  /\ NamesKept
  /\ \A k \in DOMAIN box_list :
       /\ box_list'[k].freed = box_list[k].freed
       /\ box_list'[k].publisher_named_pipe = box_list[k].publisher_named_pipe
  /\ kept' = kept /\ Opened(fs') = Opened(fs) /\ Names(fs) \subseteq Names(fs')
  /\ pc' \in Publishing <=> pc \in Publishing
  /\ pc \in Publishing => job'.client = job.client /\ job'.box = job.box
  /\ pc \notin Ended

\* Publisher p begins its session, or ends it.
Begins(i) ==
  /\ pc = "serving" /\ pc' = "publisher open" /\ UNCHANGED <<fs, kept>>
  /\ Boxed(i) = job'.box /\ job'.client \in Publishers
  /\ box_list' = [box_list EXCEPT ![i].publisher_named_pipe = job'.client]

Ends(i) ==
  /\ pc = "listening" /\ pc' = "serving" /\ UNCHANGED <<fs, kept>>
  /\ Boxed(i) = job.box
  /\ box_list' = [box_list EXCEPT ![i].publisher_named_pipe = NoClient]

Creation == /\ pc = "serving" /\ ~HeadIsFreed /\ Names(fs) \subseteq Names(fs') /\ pipe' = pipe
            /\ \E n \in Boxes : Creates(n)
Removal == /\ pc = "serving" /\ ~HeadIsFreed /\ kept' = kept /\ pipe' = pipe
           /\ \E i \in Nat, n \in Boxes : Removes(i, n)

StepKind ==
  \/ Calm
  \/ \E i \in DOMAIN box_list : Begins(i) \/ Ends(i)
  \/ Creation \/ Removal
  \/ pc = "serving" /\ Links /\ BeginsReplay

\* A step that leaves the list alone.
LEMMA QuietIsCalm ==
  ASSUME Sane, UNCHANGED <<box_list, kept>>, Opened(fs') = Opened(fs),
         Names(fs) \subseteq Names(fs'), pc \notin Ended,
         pc' \in Publishing <=> pc \in Publishing,
         pc \in Publishing => job'.client = job.client /\ job'.box = job.box
  PROVE  Calm
BY DEF Calm, NamesKept, Sane, BoxesFit

\* An open of a pipe, wherever the broker is.
LEMMA AnOpenIsCalm ==
  ASSUME Sane, NEW c \in Clients, NEW next, OpenToWrite(c, next),
         next \in Publishing <=> pc \in Publishing, pc \notin Ended, pc' \notin Ended
  PROVE  Calm
<1>1. /\ UNCHANGED <<box_list, fs, kept>> /\ job'.client = job.client /\ job'.box = job.box
      /\ pc' \in {next, "blocked", "exited"}
  BY PipeOpened
<1>2. pc' \in Publishing <=> pc \in Publishing
  BY <1>1 DEF Ended, Down
<1> QED BY <1>1, <1>2, QuietIsCalm

\* Every open of a pipe to write is calm.
LEMMA OpenIsCalm ==
  ASSUME Sane, AnswerOpen \/ ListOpen \/ SpreadOpen \/ ReplayOpen \/ WatchOpen, pc' \notin Ended
  PROVE  Calm
<1>1. CASE AnswerOpen
  <2>1. pc = "answer open" /\ OpenToWrite(job.client, "answer write")
    BY <1>1 DEF AnswerOpen
  <2>2. job.client \in Clients
    BY <2>1, Kinds DEF Sane, JobFits, Managing
  <2>3. pc \notin Publishing \cup Ended /\ "answer write" \notin Publishing
    BY <2>1 DEF Publishing, Spreading, Ended, Down
  <2> QED BY <2>1, <2>2, <2>3, AnOpenIsCalm
<1>2. CASE ListOpen
  <2> DEFINE next == IF HeadIsFreed THEN "undefined" ELSE "list write"
  <2>1. pc = "list open" /\ OpenToWrite(job.client, next)
    BY <1>2 DEF ListOpen
  <2>2. job.client \in Clients
    BY <2>1, Kinds DEF Sane, JobFits, Managing
  <2>3. pc \notin Publishing \cup Ended /\ next \notin Publishing
    BY <2>1 DEF Publishing, Spreading, Ended, Down
  <2> HIDE DEF next
  <2> QED BY <2>1, <2>2, <2>3, AnOpenIsCalm
<1>3. CASE SpreadOpen
  <2>1. pc = "spread open" /\ OpenToWrite(Head(job.todo), "spread write")
    BY <1>3 DEF SpreadOpen
  <2>2. job.todo \in Seq(Subscribers) /\ job.todo # <<>>
    BY <2>1 DEF Sane, JobFits, Spreading
  <2>3. Head(job.todo) \in Clients
    BY <2>2, Kinds
  <2>4. pc \in Publishing /\ pc \notin Ended /\ "spread write" \in Publishing
    BY <2>1 DEF Publishing, Spreading, Ended, Down
  <2> QED BY <2>1, <2>3, <2>4, AnOpenIsCalm
<1>4. CASE ReplayOpen \/ WatchOpen
  <2> DEFINE next == IF pc = "replay open" THEN "replay write" ELSE "watching"
  <2>1. pc \in {"replay open", "watch open"} /\ OpenToWrite(job.client, next)
    BY <1>4 DEF ReplayOpen, WatchOpen
  <2>2. job.client \in Clients
    BY <2>1, Kinds DEF Sane, JobFits, Subscribing, Replaying
  <2>3. pc \notin Publishing \cup Ended /\ next \notin Publishing
    BY <2>1 DEF Publishing, Spreading, Ended, Down
  <2> HIDE DEF next
  <2> QED BY <2>1, <2>2, <2>3, AnOpenIsCalm
<1> QED BY <1>1, <1>2, <1>3, <1>4

\* Every write to a pipe is calm.
LEMMA WriteIsCalm ==
  ASSUME Sane, AnswerWrite \/ ListWrite \/ SpreadWrite \/ ReplayWrite, pc' \notin Ended
  PROVE  Calm
<1>1. CASE AnswerWrite
  <2>1. /\ pc = "answer write" /\ UNCHANGED <<box_list, fs, kept>> /\ pc' \in {"serving", "killed"}
    BY <1>1 DEF AnswerWrite, WriteTo, Goto
  <2> QED BY <2>1, QuietIsCalm DEF Publishing, Spreading, Ended, Down
<1>2. CASE ListWrite
  <2>1. /\ pc = "list write" /\ UNCHANGED <<box_list, fs, kept>>
        /\ pc' \in {"serving", "list write", "killed"}
    BY <1>2 DEF ListWrite, WriteTo, Goto
  <2> QED BY <2>1, QuietIsCalm DEF Publishing, Spreading, Ended, Down
<1>3. CASE SpreadWrite
  <2>1. /\ pc = "spread write" /\ UNCHANGED <<box_list, fs, kept>>
        /\ pc' \in {"listening", "spread open", "killed"}
        /\ job' = [job EXCEPT !.todo = Tail(job.todo)]
    BY <1>3 DEF SpreadWrite, WriteTo, Goto
  <2>2. JobTyped(job)
    BY DEF Sane, JobFits
  <2>3. job'.client = job.client /\ job'.box = job.box
    <3> DEFINE rest == Tail(job.todo)
    <3>1. job' = [job EXCEPT !.todo = rest]
      BY <2>1
    <3> HIDE DEF rest
    <3> QED BY <2>2, <3>1, JobTodo
  <2> QED BY <2>1, <2>3, QuietIsCalm DEF Publishing, Spreading, Ended, Down
<1>4. CASE ReplayWrite
  <2>1. /\ pc = "replay write" /\ UNCHANGED <<box_list, kept>>
        /\ pc' \in {"watch open", "replay open", "killed"}
        /\ Names(fs') = Names(fs) /\ Opened(fs') = Opened(fs)
    BY <1>4, ReplayWriteCases
  <2> QED BY <2>1, QuietIsCalm DEF Publishing, Spreading, Ended, Down
<1> QED BY <1>1, <1>2, <1>3, <1>4

\* Every step after which the broker goes on is of one of the kinds.
LEMMA StepKinds == ASSUME Sane, [Next]_vars, pc' \notin Ended PROVE StepKind
<1>1. CASE register_box
  <2>1. /\ pc = "serving" /\ ~HeadIsFreed /\ Names(fs) \subseteq Names(fs') /\ pipe' = pipe
        /\ \/ /\ UNCHANGED <<box_list, kept>> /\ Opened(fs') = Opened(fs)
              /\ pc' = "answer open"
           \/ \E n \in Boxes : Creates(n)
    BY <1>1, RegisterBoxCases DEF Answering
  <2> QED BY <2>1, QuietIsCalm DEF StepKind, Creation, Publishing, Spreading, Ended, Down
<1>2. CASE remove_box
  <2>1. /\ pc = "serving" /\ ~HeadIsFreed /\ kept' = kept /\ pipe' = pipe
        /\ pc' = "exited" \/ \E i \in Nat, n \in Boxes : Removes(i, n)
    BY <1>2, RemoveBoxCases
  <2> QED BY <2>1 DEF StepKind, Removal, Ended, Down
<1>3. CASE list_boxes
  <2>1. pc = "serving" /\ pc' = "list open" /\ UNCHANGED <<box_list, fs, kept>>
    BY <1>3 DEF list_boxes, ServeNext, Serve, Goto
  <2> QED BY <2>1, QuietIsCalm DEF StepKind, Publishing, Spreading, Ended, Down
<1>4. CASE register_publisher
  <2>1. /\ pc = "serving" /\ UNCHANGED <<fs, kept>>
        /\ \/ pc' = "exited"
           \/ /\ pc' = "publisher open" /\ job'.client \in Publishers
              /\ \E i \in DOMAIN box_list :
                   /\ Boxed(i) = job'.box
                   /\ box_list' = [box_list EXCEPT ![i].publisher_named_pipe = job'.client]
    BY <1>4, RegisterPublisherCases
  <2>2. \E i \in DOMAIN box_list : Begins(i)
    BY <2>1 DEF Begins, Ended, Down
  <2> QED BY <2>2 DEF StepKind
<1>5. CASE register_subscriber
  <2>1. /\ pc = "serving"
        /\ pc' \in {"exited", "crashed"} \/ (Links /\ BeginsReplay)
    BY <1>5, RegisterSubscriberCases
  <2> QED BY <2>1 DEF StepKind, Ended, Down
<1>6. CASE ServeUndefined
  BY <1>6 DEF ServeUndefined, Goto, Ended, Down
<1>7. CASE AnswerOpen \/ ListOpen \/ SpreadOpen \/ ReplayOpen \/ WatchOpen
  BY <1>7, OpenIsCalm DEF StepKind
<1>8. CASE AnswerWrite \/ ListWrite \/ SpreadWrite \/ ReplayWrite
  BY <1>8, WriteIsCalm DEF StepKind
<1>9. CASE PublisherOpen
  <2>1. pc = "publisher open" /\ pc' \in {"listening", "blocked"} /\ UNCHANGED <<job, box_list, fs, kept>>
    BY <1>9 DEF PublisherOpen, Goto
  <2> QED BY <2>1, QuietIsCalm DEF StepKind, Publishing, Spreading, Ended, Down
<1>10. CASE ListenMessage
  <2>1. /\ pc = "listening" /\ kept' = kept
        /\ pc' = "exited" \/ \E i, m : Accepts(i, m)
    BY <1>10, ListenMessageCases
  <2>2. PICK i, m : Accepts(i, m)
    BY <2>1 DEF Ended, Down
  <2>3. /\ NamesKept /\ job'.client = job.client /\ job'.box = job.box
        /\ \A k \in DOMAIN box_list :
             /\ box_list'[k].freed = box_list[k].freed
             /\ box_list'[k].publisher_named_pipe = box_list[k].publisher_named_pipe
    BY <2>1, <2>2, AcceptKeeps
  <2>4. /\ pc' \in {"crashed", "listening", "spread open"}
        /\ Names(fs') = Names(fs) /\ Opened(fs') = Opened(fs)
    BY <2>2 DEF Accepts
  <2>5. Calm
    BY <2>1, <2>3, <2>4 DEF Calm, Publishing, Spreading, Ended, Down
  <2> QED BY <2>5 DEF StepKind
<1>11. CASE ListenEnd
  <2>1. /\ pc = "listening" /\ pc' = "serving" /\ UNCHANGED <<fs, kept>>
        /\ \E i \in DOMAIN box_list :
              /\ Boxed(i) = job.box
              /\ box_list' = [box_list EXCEPT ![i].publisher_named_pipe = NoClient]
    BY <1>11, ListenEndCases
  <2>2. \E i \in DOMAIN box_list : Ends(i)
    BY <2>1 DEF Ends
  <2> QED BY <2>2 DEF StepKind
<1>12. CASE WatchEnd
  <2>1. pc = "watching" /\ pc' = "serving" /\ UNCHANGED <<box_list, fs, kept>>
    BY <1>12 DEF WatchEnd, Done, Goto
  <2> QED BY <2>1, QuietIsCalm DEF StepKind, Publishing, Spreading, Ended, Down
<1>13. CASE (BesideBroker /\ ClientStep) \/ UNCHANGED vars
  <2>1. UNCHANGED <<pc, job, box_list, fs, kept>>
    BY <1>13 DEF BesideBroker, vars, brokerVars
  <2> QED BY <2>1, QuietIsCalm DEF StepKind
<1> QED BY <1>1, <1>2, <1>3, <1>4, <1>5, <1>6, <1>7, <1>8, <1>9, <1>10, <1>11, <1>12, <1>13
     DEF Next, Broker

-----------------------------------------------------------------------------
(* Publishers and handles *)

\* Each kind of step keeps publishers in their sessions.
LEMMA PublishersKept ==
  ASSUME Sane, Sane', PublisherInSession, StepKind, pc' \notin Ended
  PROVE  PublisherInSession'
<1> DEFINE InSession(k) == pc \in Publishing /\ job.box = Boxed(k)
           publisher(k) == box_list[k].publisher_named_pipe
<1> SUFFICES ASSUME NEW k \in DOMAIN box_list'
             PROVE  publisher(k)' = IF InSession(k)' THEN job'.client ELSE NoClient
  BY DEF PublisherInSession, Publishing, Spreading
<1>1. pc \notin Ended => \A l \in DOMAIN box_list :
        publisher(l) = IF InSession(l) THEN job.client ELSE NoClient
  BY DEF PublisherInSession, Publishing, Spreading
<1>2. pc = "serving" => \A l \in DOMAIN box_list : publisher(l) = NoClient
  BY <1>1 DEF Publishing, Spreading, Ended, Down
<1>3. BoxesFit
  BY DEF Sane
<1>4. CASE Calm
  <2>1. k \in DOMAIN box_list /\ publisher(k)' = publisher(k) /\ Boxed(k)' = Boxed(k)
    BY <1>4 DEF Calm, NamesKept, Boxed
  <2>2. pc' \in Publishing <=> pc \in Publishing
    BY <1>4 DEF Calm
  <2>3. pc \in Publishing => job'.client = job.client /\ job'.box = job.box
    BY <1>4 DEF Calm
  <2>4. publisher(k) = IF InSession(k) THEN job.client ELSE NoClient
    BY <1>1, <1>4, <2>1 DEF Calm
  <2>5. InSession(k)' <=> InSession(k)
    BY <2>1, <2>2, <2>3
  <2> QED BY <2>1, <2>3, <2>4, <2>5
<1>5. CASE \E i \in DOMAIN box_list : Begins(i)
  <2>1. PICK i \in DOMAIN box_list : Begins(i)
    BY <1>5
  <2> DEFINE p == job'.client
  <2>2. /\ NamesKept /\ publisher(i)' = p
        /\ \A l \in DOMAIN box_list \ {i} : publisher(l)' = publisher(l)
    <3>1. p \in Publishers \cup {NoClient} /\ box_list' = [box_list EXCEPT ![i].publisher_named_pipe = p]
      BY <2>1 DEF Begins
    <3> HIDE DEF p
    <3> QED BY <1>3, <3>1, PublisherSet
  <2>3. k \in DOMAIN box_list /\ Boxed(k)' = Boxed(k)
    BY <2>2 DEF NamesKept, Boxed
  <2>4. pc = "serving" /\ pc' \in Publishing /\ Boxed(i) = job'.box
    BY <2>1 DEF Begins, Publishing
  <2>5. CASE k = i
    BY <2>2, <2>3, <2>4, <2>5
  <2>6. CASE k # i
    <3>1. publisher(k)' = NoClient
      BY <1>2, <2>2, <2>3, <2>4, <2>6
    <3>2. Boxed(k) # Boxed(i)
      BY <1>3, <2>3, <2>6 DEF BoxesFit
    <3> QED BY <2>3, <2>4, <3>1, <3>2
  <2> QED BY <2>5, <2>6
<1>6. CASE \E i \in DOMAIN box_list : Ends(i)
  <2>1. PICK i \in DOMAIN box_list : Ends(i)
    BY <1>6
  <2>2. /\ NamesKept /\ publisher(i)' = NoClient
        /\ \A l \in DOMAIN box_list \ {i} : publisher(l)' = publisher(l)
    BY <1>3, <2>1, PublisherSet DEF Ends
  <2>3. k \in DOMAIN box_list
    BY <2>2 DEF NamesKept
  <2>4. pc = "listening" /\ pc' \notin Publishing /\ Boxed(i) = job.box
    BY <2>1 DEF Ends, Publishing, Spreading
  <2>5. k # i => publisher(k) = NoClient
    BY <1>1, <1>3, <2>3, <2>4 DEF BoxesFit, Ended, Down
  <2>6. publisher(k)' = NoClient
    BY <2>2, <2>3, <2>5
  <2> QED BY <2>4, <2>6
<1>7. CASE Removal
  <2>1. pc = "serving" /\ \E i \in Nat, n \in Boxes : Removes(i, n)
    BY <1>7 DEF Removal
  <2> PICK i \in Nat, n \in Boxes : Removes(i, n)
    BY <2>1
  <2>2. TakesOut(i) /\ pc' = "answer open"
    BY DEF Removes, Answering
  <2>3. \E l \in DOMAIN box_list : publisher(k)' = publisher(l)
    <3>1. /\ DOMAIN box_list' = 1 .. Len(box_list) - 1 /\ Len(box_list) \in Nat
          /\ k \in DOMAIN box_list /\ k + 1 \in DOMAIN box_list
          /\ k < i => SameBox(box_list'[k], box_list[k])
          /\ k >= i => SameBox(box_list'[k], box_list[k + 1])
      BY <1>3, <2>2, WasAt
    <3>2. k < i \/ k >= i
      BY <3>1
    <3> QED BY <3>1, <3>2 DEF SameBox
  <2> QED BY <1>2, <2>1, <2>2, <2>3 DEF Publishing, Spreading
<1>8. CASE Creation
  <2>1. pc = "serving" /\ \E n \in Boxes : Creates(n)
    BY <1>8 DEF Creation
  <2> PICK n \in Boxes : Creates(n)
    BY <2>1
  <2>2. /\ DOMAIN box_list' = 1 .. Len(box_list) + 1 /\ Len(box_list) \in Nat
        /\ DOMAIN box_list = 1 .. Len(box_list)
        /\ \A l \in DOMAIN box_list : box_list'[l] = box_list[l]
        /\ box_list'[Len(box_list) + 1] = NewBox(n)
    BY <1>3, CreatesKeeps
  <2>3. k \in DOMAIN box_list \/ k = Len(box_list) + 1
    BY <2>2
  <2>4. NewBox(n).publisher_named_pipe = NoClient
    BY DEF NewBox
  <2>5. publisher(k)' = NoClient
    BY <1>2, <2>1, <2>2, <2>3, <2>4
  <2>6. pc' = "answer open"
    BY DEF Creates, Answering
  <2> QED BY <2>5, <2>6 DEF Publishing, Spreading
<1>9. CASE pc = "serving" /\ Links /\ BeginsReplay
  <2>1. k \in DOMAIN box_list /\ publisher(k)' = publisher(k)
    BY <1>3, <1>9, LinksKeeps DEF NamesKept
  <2>2. publisher(k) = NoClient
    BY <1>2, <1>9, <2>1
  <2> QED BY <1>9, <2>1, <2>2 DEF BeginsReplay, Publishing, Spreading
<1> QED BY <1>4, <1>5, <1>6, <1>7, <1>8, <1>9 DEF StepKind

\* PublisherInSession: a box has a publisher exactly while the broker is in the
\* session of that publisher on that box, for every interleaving and every way a
\* session ends, so that no publisher is refused for one that has left.
THEOREM PublishersAreInSession == Behaviour => []PublisherInSession
<1>1. Init => PublisherInSession
  <2> SUFFICES ASSUME Init PROVE PublisherInSession
    OBVIOUS
  <2>1. DOMAIN box_list = {}
    BY NoHandles DEF Init
  <2> QED BY <2>1 DEF PublisherInSession
<1>2. Sane /\ Sane' /\ PublisherInSession /\ [Next]_vars => PublisherInSession'
  <2> SUFFICES ASSUME Sane, Sane', PublisherInSession, [Next]_vars PROVE PublisherInSession'
    OBVIOUS
  <2>1. CASE pc' \in Ended
    BY <2>1 DEF PublisherInSession
  <2>2. CASE pc' \notin Ended
    BY <2>2, StepKinds, PublishersKept
  <2> QED BY <2>1, <2>2
<1> QED BY <1>1, <1>2, AlwaysSane, PTL DEF Behaviour

\* Every handle in use was kept by a creation or a replay, also during them.
HandlesFit == pc \notin Ended => Cardinality(Opened(fs)) = kept

\* A creation or a replay opens one handle and nothing else opens or closes any.
LEMMA HandlesCounted ==
  ASSUME Sane, StepKind, pc \notin Ended
  PROVE  \/ Opened(fs') = Opened(fs) /\ kept' = kept
         \/ OneMoreOpen /\ kept' = kept + 1
BY DEF StepKind, Calm, Begins, Ends, Removal, Creation, Removes, Creates, BeginsReplay

\* There are finitely many handles.
LEMMA HandlesAreFinite == ASSUME NEW f, FsInv(f) PROVE IsFiniteSet(Opened(f))
<1>1. Opened(f) \subseteq Handles
  BY DEF FsInv, FsType, Opened
<1>2. IsFiniteSet(Handles)
  BY TfsAssumption, FS_Interval DEF Handles
<1> QED BY <1>1, <1>2, FS_Subset

\* Every step keeps the count of the handles.
LEMMA HandlesFitKept == Sane /\ HandlesFit /\ [Next]_vars => HandlesFit'
<1> SUFFICES ASSUME Sane, HandlesFit, [Next]_vars, pc' \notin Ended
             PROVE  Cardinality(Opened(fs')) = kept'
  BY DEF HandlesFit
<1>1. StepKind
  BY StepKinds
<1>2. pc \notin Ended
  BY <1>1 DEF StepKind, Calm, Begins, Ends, Creation, Removal, Ended, Down
<1>3. Cardinality(Opened(fs)) = kept /\ IsFiniteSet(Opened(fs))
  BY <1>2, HandlesAreFinite DEF HandlesFit, Sane
<1>4. CASE Opened(fs') = Opened(fs) /\ kept' = kept
  BY <1>3, <1>4
<1>5. CASE OneMoreOpen /\ kept' = kept + 1
  <2>1. PICK h : h \notin Opened(fs) /\ Opened(fs') = Opened(fs) \cup {h}
    BY <1>5 DEF OneMoreOpen
  <2> QED BY <1>3, <1>5, <2>1, FS_AddElement
<1> QED BY <1>1, <1>2, <1>4, <1>5, HandlesCounted

\* HandlesKept: publications give back the handle they open whatever happens in
\* them, and each creation and each replay keeps one for ever.
THEOREM HandlesAreKept == Behaviour => []HandlesKept
<1>1. Init => HandlesFit
  <2> SUFFICES ASSUME Init PROVE HandlesFit
    OBVIOUS
  <2>1. Opened(fs) = {} /\ kept = 0
    BY StartsEmpty, NoHandles DEF Init, Opened
  <2> QED BY <2>1, FS_EmptySet DEF HandlesFit
<1>2. HandlesFit => HandlesKept
  BY DEF HandlesFit, HandlesKept, Opened, Ended, Down
<1> QED BY <1>1, <1>2, AlwaysSane, HandlesFitKept, PTL DEF Behaviour

-----------------------------------------------------------------------------
(* Files *)

FilesFit == pc \notin Ended /\ ~HeadIsFreed => \A k \in DOMAIN box_list : Boxed(k) \in Names(fs)

\* A list with the same boxes has the same first.
LEMMA HeadKept ==
  ASSUME BoxesFit, NamesKept, \A k \in DOMAIN box_list : box_list'[k].freed = box_list[k].freed
  PROVE  HeadIsFreed' <=> HeadIsFreed
<1>1. box_list \in Seq(BoxRecords) /\ box_list' \in Seq(BoxRecords)
  BY DEF BoxesFit, NamesKept
<1>2. DOMAIN box_list' = DOMAIN box_list
  BY DEF NamesKept
<1>3. \A s \in Seq(BoxRecords) : /\ s # <<>> <=> 1 \in DOMAIN s
                                 /\ s # <<>> => Head(s) = s[1]
  <2> TAKE s \in Seq(BoxRecords)
  <2>1. s # <<>> <=> 1 \in DOMAIN s
    <3>1. DOMAIN s = 1 .. Len(s) /\ Len(s) \in Nat
      BY LenProperties
    <3>2. s = <<>> <=> Len(s) = 0
      BY EmptySeq
    <3> QED BY <3>1, <3>2
  <2>2. s # <<>> => Head(s) = s[1]
    OBVIOUS
  <2> QED BY <2>1, <2>2
<1> QED BY <1>1, <1>2, <1>3 DEF HeadIsFreed

\* Each kind of step keeps the files of the boxes.
LEMMA FilesKept ==
  ASSUME Sane, Sane', FilesFit, StepKind, pc' \notin Ended, ~HeadIsFreed'
  PROVE  \A k \in DOMAIN box_list' : Boxed(k)' \in Names(fs')
<1>1. BoxesFit /\ pc \notin Ended
  BY DEF Sane, StepKind, Calm, Begins, Ends, Creation, Removal, Ended, Down
<1>2. ASSUME NamesKept, Names(fs) \subseteq Names(fs'),
             \A k \in DOMAIN box_list : box_list'[k].freed = box_list[k].freed
      PROVE  \A k \in DOMAIN box_list' : Boxed(k)' \in Names(fs')
  <2>1. ~HeadIsFreed
    BY <1>1, <1>2, HeadKept
  <2> QED BY <1>1, <1>2, <2>1 DEF FilesFit, NamesKept, Boxed
<1>3. CASE Calm
  BY <1>2, <1>3 DEF Calm
<1>4. CASE \E i \in DOMAIN box_list : Begins(i) \/ Ends(i)
  <2>1. PICK i \in DOMAIN box_list, p \in Publishers \cup {NoClient} :
          fs' = fs /\ box_list' = [box_list EXCEPT ![i].publisher_named_pipe = p]
    BY <1>4 DEF Begins, Ends
  <2> QED BY <1>1, <1>2, <2>1, PublisherSet
<1>5. CASE Removal
  <2>1. PICK i \in Nat, n \in Boxes : Removes(i, n)
    BY <1>5 DEF Removal
  <2>2. TakesOut(i) /\ fs' = fs /\ ~HeadIsFreed
    BY <1>5, <2>1 DEF Removal, Removes
  <2>3. \A k \in DOMAIN box_list' : \E l \in DOMAIN box_list : Boxed(k)' = Boxed(l)
    <3> TAKE k \in DOMAIN box_list'
    <3>1. /\ DOMAIN box_list' = 1 .. Len(box_list) - 1 /\ Len(box_list) \in Nat
          /\ k \in DOMAIN box_list /\ k + 1 \in DOMAIN box_list
          /\ k < i => SameBox(box_list'[k], box_list[k])
          /\ k >= i => SameBox(box_list'[k], box_list[k + 1])
      BY <1>1, <2>2, WasAt
    <3>2. k < i \/ k >= i
      BY <3>1
    <3> QED BY <3>1, <3>2 DEF SameBox, Boxed
  <2> QED BY <1>1, <2>2, <2>3 DEF FilesFit
<1>6. CASE Creation
  <2>1. PICK n \in Boxes : Creates(n)
    BY <1>6 DEF Creation
  <2>2. /\ DOMAIN box_list' = 1 .. Len(box_list) + 1 /\ Len(box_list) \in Nat
        /\ DOMAIN box_list = 1 .. Len(box_list)
        /\ \A l \in DOMAIN box_list : box_list'[l] = box_list[l]
        /\ box_list'[Len(box_list) + 1] = NewBox(n)
    BY <1>1, <2>1, CreatesKeeps
  <2> TAKE k \in DOMAIN box_list'
  <2>3. k \in DOMAIN box_list \/ k = Len(box_list) + 1
    BY <2>2
  <2>4. NewBox(n).box_name = n /\ n \in Names(fs')
    BY <2>1 DEF NewBox, Creates
  <2>5. ~HeadIsFreed /\ Names(fs) \subseteq Names(fs')
    BY <1>6 DEF Creation
  <2> QED BY <1>1, <2>2, <2>3, <2>4, <2>5 DEF FilesFit, Boxed
<1>7. CASE Links /\ BeginsReplay
  BY <1>1, <1>2, <1>7, LinksKeeps DEF BeginsReplay
<1> QED BY <1>3, <1>4, <1>5, <1>6, <1>7 DEF StepKind

\* BoxesHaveFiles: while no freed box is in the list, the names in it are unique and
\* each names a file, although files of removed boxes stay behind and are found again.
THEOREM BoxesKeepFiles == Behaviour => []BoxesHaveFiles
<1>1. Init => FilesFit
  <2> SUFFICES ASSUME Init PROVE FilesFit
    OBVIOUS
  <2>1. DOMAIN box_list = {}
    BY NoHandles DEF Init
  <2> QED BY <2>1 DEF FilesFit
<1>2. Sane /\ Sane' /\ FilesFit /\ [Next]_vars => FilesFit'
  BY StepKinds, FilesKept DEF FilesFit
<1>3. Sane /\ FilesFit => BoxesHaveFiles
  BY NamesFound DEF Sane, BoxesFit, FilesFit, BoxesHaveFiles
<1> QED BY <1>1, <1>2, <1>3, AlwaysSane, PTL DEF Behaviour

-----------------------------------------------------------------------------
(* Answers *)

Replies(m, A) == {i \in DOMAIN pipe[m] : pipe[m][i] \in A}
Got(A) == UNION {{<<m, i>> : i \in Replies(m, A)} : m \in Managers}
Coming(A) == pc \in {"answer open", "answer write"} /\ job.data \in A

\* What is counted: the answers to the creations, to the removals, to those of a box.
Creations == Successes("create", Boxes)
Removals == Successes("remove", Boxes)
CreationsOf(n) == Successes("create", {n})
Tallies == {Creations, Removals} \cup {CreationsOf(n) : n \in Boxes}

\* They are answers to creations and removals, with success.
LEMMA TalliesCount ==
  ASSUME NEW A \in Tallies, NEW a \in A
  PROVE  a.op \in {"create", "remove"} /\ a.ret = 0
BY DEF Tallies, Creations, Removals, CreationsOf, Successes, create_answer

\* Which answers are counted where.
LEMMA Counted ==
  ASSUME NEW n \in Boxes
  PROVE  /\ create_answer("create", n, 0) \in Creations \cap CreationsOf(n)
         /\ create_answer("create", n, 0) \notin Removals
         /\ create_answer("remove", n, 0) \in Removals \ Creations
BY DEF Creations, Removals, CreationsOf, Successes, create_answer

\* What is told, in parts.
LEMMA ToldIs ==
  ASSUME NEW A
  PROVE  /\ Told(A) = Cardinality(Got(A)) + IF Coming(A) THEN 1 ELSE 0
         /\ Told(A)' = Cardinality(Got(A)') + IF Coming(A)' THEN 1 ELSE 0
BY DEF Told, Got, Replies, Coming

\* The answers a manager got, one by one.
LEMMA GotIs ==
  ASSUME NEW A, NEW x
  PROVE  x \in Got(A) <=> \E m \in Managers : \E i \in Replies(m, A) : x = <<m, i>>
BY DEF Got

\* Managers got no answer.
LEMMA NothingGot ==
  ASSUME \A m \in Managers : pipe'[m] = pipe[m], NEW A
  PROVE  Got(A)' = Got(A)
<1>1. \A m \in Managers : Replies(m, A)' = Replies(m, A)
  BY DEF Replies
<1> QED BY <1>1 DEF Got

\* A manager gets one thing more.
Gets(c, data) == pipe' = [pipe EXCEPT ![c] = Append(pipe[c], data)]
NextOf(c) == <<c, Len(pipe[c]) + 1>>

\* It is one more of the answers, or none.
LEMMA OneGot ==
  ASSUME ClientsInv, NEW c \in Managers, NEW data, Gets(c, data), NEW A
  PROVE  /\ NextOf(c) \notin Got(A)
         /\ Got(A)' = Got(A) \cup IF data \in A THEN {NextOf(c)} ELSE {}
<1> DEFINE last == NextOf(c)
           new == IF data \in A THEN {Len(pipe[c]) + 1} ELSE {}
           added == IF data \in A THEN {last} ELSE {}
<1>1. c \in Clients /\ FifosFit
  BY Kinds DEF ClientsInv
<1>2. IsSeq(pipe[c]) /\ pipe = [d \in Clients |-> pipe[d]]
  BY <1>1, Unchanged DEF FifosFit, FifoFits
<1>3. /\ pipe'[c] = Append(pipe[c], data)
      /\ \A m \in Managers \ {c} : pipe'[m] = pipe[m]
  BY <1>1, <1>2, Kinds DEF Gets
<1>4. /\ DOMAIN pipe[c] = 1 .. Len(pipe[c]) /\ Len(pipe[c]) \in Nat
      /\ DOMAIN pipe'[c] = 1 .. Len(pipe[c]) + 1
      /\ \A i \in 1 .. Len(pipe[c]) : pipe'[c][i] = pipe[c][i]
      /\ pipe'[c][Len(pipe[c]) + 1] = data
  BY <1>2, <1>3, AppendIsSeq DEF IsSeq
<1>5. \A m \in Managers \ {c} : Replies(m, A)' = Replies(m, A)
  BY <1>3 DEF Replies
<1>6. Replies(c, A)' = Replies(c, A) \cup new /\ Len(pipe[c]) + 1 \notin Replies(c, A)
  BY <1>4 DEF Replies
<1>7. last \notin Got(A)
  BY <1>6, GotIs DEF NextOf
<1> HIDE DEF new
<1>8. \A x : x \in Got(A)' <=> \E m \in Managers : \E i \in Replies(m, A)' : x = <<m, i>>
  BY DEF Got
<1>9. \A x : x \in Got(A)' <=> x \in Got(A) \/ \E i \in new : x = <<c, i>>
  BY <1>5, <1>6, <1>8, GotIs
<1>10. \A x : x \in added <=> \E i \in new : x = <<c, i>>
  BY DEF new, NextOf
<1>11. Got(A)' = Got(A) \cup added
  <2> HIDE DEF added
  <2> QED BY <1>9, <1>10
<1> QED BY <1>7, <1>11

\* Nothing new is told.
ToldKept(A) == Told(A)' = Told(A) /\ IsFiniteSet(Got(A)')

\* No manager gets anything, and the same answer is on its way.
LEMMA Silence ==
  ASSUME NEW A, IsFiniteSet(Got(A)),
         \A m \in Managers : pipe'[m] = pipe[m], Coming(A)' <=> Coming(A)
  PROVE  ToldKept(A)
BY ToldIs, NothingGot DEF ToldKept

\* A step far from any answer.
LEMMA NotAnswering ==
  ASSUME NEW A, IsFiniteSet(Got(A)), pipe' = pipe,
         pc \notin {"answer open", "answer write"}, pc' \notin {"answer open", "answer write"}
  PROVE  ToldKept(A)
BY Silence DEF Coming

\* An answer that was on its way arrives.
LEMMA AnswerArrives ==
  ASSUME Sane, AnswerWrite, pc' \notin Ended, NEW A, IsFiniteSet(Got(A))
  PROVE  ToldKept(A)
<1> DEFINE c == job.client
           data == job.data
           last == NextOf(c)
           told == data \in A
<1>1. pc = "answer write" /\ pc' = "serving" /\ Gets(c, data)
  BY DEF Gets, AnswerWrite, WriteTo, Goto, Ended, Down
<1>2. c \in Managers /\ ClientsInv
  BY <1>1 DEF Sane, JobFits, Managing
<1>3. last \notin Got(A) /\ Got(A)' = Got(A) \cup IF told THEN {last} ELSE {}
  <2> HIDE DEF c, data
  <2>1. ClientsInv /\ c \in Managers /\ Gets(c, data)
    BY <1>1, <1>2
  <2>2. NextOf(c) \notin Got(A)
    BY <2>1, OneGot
  <2>3. Got(A)' = Got(A) \cup IF data \in A THEN {NextOf(c)} ELSE {}
    BY <2>1, OneGot
  <2> QED BY <2>2, <2>3
<1>4. (Coming(A) <=> told) /\ ~Coming(A)'
  BY <1>1 DEF Coming
<1> HIDE DEF last, told
<1>5. CASE told
  <2>1. Got(A)' = Got(A) \cup {last}
    BY <1>3, <1>5
  <2>2. /\ IsFiniteSet(Got(A)') /\ Cardinality(Got(A)') = Cardinality(Got(A)) + 1
        /\ Cardinality(Got(A)) \in Nat
    BY <1>3, <2>1, FS_AddElement, FS_CardinalityType
  <2> QED BY <1>4, <1>5, <2>2, ToldIs DEF ToldKept
<1>6. CASE ~told
  <2>1. Got(A)' = Got(A)
    BY <1>3, <1>6
  <2> QED BY <1>4, <1>6, <2>1, ToldIs DEF ToldKept
<1> QED BY <1>5, <1>6

\* What is listed is not taken for an answer to a creation or a removal.
LEMMA ListingArrives ==
  ASSUME Sane, ListWrite, pc' \notin Ended, NEW A \in Tallies, IsFiniteSet(Got(A))
  PROVE  ToldKept(A)
<1> DEFINE c == job.client
           i == Len(job.todo) + 1
           data == IF box_list = <<>> THEN create_listing_error_message
                                      ELSE create_listing_message(i)
<1>1. /\ pc = "list write" /\ pc' \in {"serving", "list write"}
      /\ Gets(c, data)
  BY DEF Gets, ListWrite, WriteTo, Goto, Ended, Down
<1>2. c \in Managers /\ ClientsInv
  BY <1>1 DEF Sane, JobFits, Managing
<1>3. data.op = "list"
  BY DEF create_listing_error_message, create_listing_message
<1>4. data \notin A
  BY <1>3, TalliesCount
<1> HIDE DEF c, data
<1>5. Got(A)' = Got(A)
  <2>1. ClientsInv /\ c \in Managers /\ Gets(c, data)
    BY <1>1, <1>2
  <2>2. Got(A)' = Got(A) \cup IF data \in A THEN {NextOf(c)} ELSE {}
    BY <2>1, OneGot
  <2> QED BY <1>4, <2>2
<1> QED BY <1>1, <1>5, ToldIs DEF ToldKept, Coming

\* An open of a pipe tells nothing.
LEMMA OpenIsSilent ==
  ASSUME Sane, AnswerOpen \/ ListOpen \/ SpreadOpen \/ ReplayOpen \/ WatchOpen, pc' \notin Ended,
         NEW A, IsFiniteSet(Got(A))
  PROVE  ToldKept(A)
<1>1. CASE AnswerOpen
  <2>1. pc = "answer open" /\ OpenToWrite(job.client, "answer write")
    BY <1>1 DEF AnswerOpen
  <2>2. job.client \in Clients
    BY <2>1, Kinds DEF Sane, JobFits, Managing
  <2>3. pipe' = pipe /\ job'.data = job.data /\ pc' \in {"answer write", "blocked", "exited"}
    BY <2>1, <2>2, PipeOpened
  <2>4. pc' = "answer write"
    BY <2>3 DEF Ended, Down
  <2> QED BY <2>1, <2>3, <2>4, Silence DEF Coming
<1>2. CASE ListOpen \/ SpreadOpen \/ ReplayOpen \/ WatchOpen
  <2>1. /\ pipe' = pipe /\ pc \in {"list open", "spread open", "replay open", "watch open"}
        /\ pc' \in {"undefined", "list write", "spread write", "replay write", "watching",
                   "blocked", "exited"}
    BY <1>2 DEF ListOpen, SpreadOpen, ReplayOpen, WatchOpen, OpenToWrite, Goto, Exit
  <2> QED BY <2>1, NotAnswering
<1> QED BY <1>1, <1>2

\* Only creations and removals tell something new.
LEMMA OthersAreSilent ==
  ASSUME Sane, [Next]_vars, pc' \notin Ended, ~Creation, ~Removal,
         NEW A \in Tallies, IsFiniteSet(Got(A))
  PROVE  ToldKept(A)
<1>1. CASE register_box
  <2>1. /\ pc = "serving" /\ pipe' = pipe /\ \E b \in Boxes : Answering("create", b, -1)
    BY <1>1, RegisterBoxCases DEF Creation
  <2>2. PICK b \in Boxes : job'.data = create_answer("create", b, -1)
    BY <2>1 DEF Answering
  <2>3. job'.data.ret = -1
    BY <2>2 DEF create_answer
  <2>4. job'.data \notin A
    BY <2>3, TalliesCount
  <2> QED BY <2>1, <2>4, Silence DEF Coming
<1>2. CASE remove_box
  BY <1>2, RemoveBoxCases DEF Removal, Ended, Down
<1>3. CASE list_boxes
  <2>1. pc = "serving" /\ pc' = "list open" /\ pipe' = pipe
    BY <1>3 DEF list_boxes, ServeNext, Serve, Goto, clientVars
  <2> QED BY <2>1, NotAnswering
<1>4. CASE register_publisher
  <2>1. pc = "serving" /\ pipe' = pipe /\ pc' \in {"exited", "publisher open"}
    BY <1>4, RegisterPublisherCases
  <2> QED BY <2>1, NotAnswering
<1>5. CASE register_subscriber
  <2>1. pc = "serving" /\ pipe' = pipe /\ pc' \in {"exited", "crashed", "blocked", "replay open"}
    BY <1>5, RegisterSubscriberCases DEF BeginsReplay
  <2> QED BY <2>1, NotAnswering
<1>6. CASE ServeUndefined
  BY <1>6 DEF ServeUndefined, Goto, Ended, Down
<1>7. CASE AnswerOpen \/ ListOpen \/ SpreadOpen \/ ReplayOpen \/ WatchOpen
  BY <1>7, OpenIsSilent
<1>8. CASE AnswerWrite
  BY <1>8, AnswerArrives
<1>9. CASE ListWrite
  BY <1>9, ListingArrives
<1>10. CASE SpreadWrite
  <2>1. /\ pc = "spread write" /\ pc' \in {"listening", "spread open", "killed"}
        /\ \/ pipe' = pipe \/ pipe' = [pipe EXCEPT ![Head(job.todo)] = Append(@, job.data)]
    BY <1>10 DEF SpreadWrite, WriteTo, Goto
  <2>2. job.todo \in Seq(Subscribers) /\ job.todo # <<>>
    BY <2>1 DEF Sane, JobFits, Spreading
  <2>3. Head(job.todo) \notin Managers
    BY <2>2, ClientsAssumption
  <2>4. \A m \in Managers : pipe'[m] = pipe[m]
    <3>1. pipe = [c \in Clients |-> pipe[c]]
      BY DEF Sane, ClientsInv, FifosFit
    <3> QED BY <2>1, <2>3, <3>1, Kinds
  <2> QED BY <2>1, <2>4, Silence DEF Coming
<1>11. CASE ReplayWrite
  <2>1. /\ pc = "replay write" /\ pc' \in {"watch open", "replay open", "killed"}
        /\ \A m \in Managers : pipe'[m] = pipe[m]
    BY <1>11, ReplayWriteCases
  <2> QED BY <2>1, Silence DEF Coming
<1>12. CASE PublisherOpen
  <2>1. pc = "publisher open" /\ pc' \in {"listening", "blocked"} /\ pipe' = pipe
    BY <1>12 DEF PublisherOpen, Goto
  <2> QED BY <2>1, NotAnswering
<1>13. CASE ListenMessage
  <2>1. /\ pc = "listening" /\ pipe' = pipe /\ pc' \in {"exited", "crashed", "listening", "spread open"}
    BY <1>13, ListenMessageCases DEF Accepts
  <2> QED BY <2>1, NotAnswering
<1>14. CASE ListenEnd
  <2>1. pc = "listening" /\ pc' = "serving" /\ pipe' = pipe
    BY <1>14, ListenEndCases
  <2> QED BY <2>1, NotAnswering
<1>15. CASE WatchEnd
  <2>1. pc = "watching" /\ pc' = "serving" /\ pipe' = pipe
    BY <1>15 DEF WatchEnd, Done, Goto, clientVars
  <2> QED BY <2>1, NotAnswering
<1>16. CASE BesideBroker /\ ClientStep
  <2>1. pc' = pc /\ job' = job /\ \A m \in Managers : pipe'[m] = pipe[m]
    BY <1>16, ClientStepKeeps DEF BesideBroker, brokerVars, Sane
  <2> QED BY <2>1, Silence DEF Coming
<1>17. CASE UNCHANGED vars
  <2>1. pc' = pc /\ job' = job /\ pipe' = pipe
    BY <1>17 DEF vars, brokerVars, clientVars
  <2> QED BY <2>1, Silence DEF Coming
<1> QED BY <1>1, <1>2, <1>3, <1>4, <1>5, <1>6, <1>7, <1>8, <1>9, <1>10, <1>11, <1>12, <1>13,
           <1>14, <1>15, <1>16, <1>17 DEF Next, Broker

InList(n) == \E k \in DOMAIN box_list : Boxed(k) = n

\* The invariant: the list is as long as the answers say, and holds nothing that
\* was not answered.
LengthTold == Len(box_list) = Told(Creations) - Told(Removals)
AllTold == \A n \in Boxes : InList(n) => Told(CreationsOf(n)) > 0
AnswersFit ==
  pc \notin Ended =>
    /\ \A A \in Tallies : IsFiniteSet(Got(A))
    /\ ~HeadIsFreed => LengthTold /\ AllTold

\* Answers can be counted.
LEMMA ToldIsNumber ==
  ASSUME NEW A, IsFiniteSet(Got(A))
  PROVE  Told(A) \in Nat
BY ToldIs, FS_CardinalityType

\* The answer that is sent next is told, and no other.
LEMMA AnswerSent ==
  ASSUME pipe' = pipe, pc = "serving", NEW code, NEW n, Answering(code, n, 0), NEW A,
         IsFiniteSet(Got(A))
  PROVE  /\ IsFiniteSet(Got(A)')
         /\ Told(A)' = Told(A) + IF create_answer(code, n, 0) \in A THEN 1 ELSE 0
<1>1. Got(A)' = Got(A)
  BY NothingGot
<1>2. ~Coming(A)
  BY DEF Coming
<1>3. Coming(A)' <=> create_answer(code, n, 0) \in A
  BY DEF Answering, Coming
<1>4. Cardinality(Got(A)) \in Nat
  BY FS_CardinalityType
<1> QED BY <1>1, <1>2, <1>3, <1>4, ToldIs

\* A creation lists a box that was not in the list.
LEMMA CreationListed ==
  ASSUME BoxesFit, NEW n \in Boxes, Creates(n), NEW b
  PROVE  ~InList(n) /\ (InList(b)' <=> InList(b) \/ b = n)
<1>1. /\ DOMAIN box_list' = 1 .. Len(box_list) + 1 /\ Len(box_list) \in Nat
      /\ DOMAIN box_list = 1 .. Len(box_list)
      /\ \A k \in DOMAIN box_list : box_list'[k] = box_list[k]
      /\ box_list'[Len(box_list) + 1] = NewBox(n)
  BY CreatesKeeps
<1>2. NewBox(n).box_name = n
  BY DEF NewBox
<1>3. \A k \in DOMAIN box_list' : k \in DOMAIN box_list \/ k = Len(box_list) + 1
  BY <1>1
<1>4. \A k \in DOMAIN box_list : k \in DOMAIN box_list'
  BY <1>1
<1>5. Len(box_list) + 1 \in DOMAIN box_list'
  BY <1>1
<1>6. InList(b)' <=> InList(b) \/ b = n
  BY <1>1, <1>2, <1>3, <1>4, <1>5 DEF InList, Boxed
<1> QED BY <1>6 DEF Creates, InList

\* A removal of the first box lists no other name.
LEMMA RemovalListed ==
  ASSUME BoxesFit, TakesOut(1), NEW n, InList(n)'
  PROVE  InList(n)
<1>1. /\ DOMAIN box_list' = 1 .. Len(box_list) - 1 /\ Len(box_list) \in Nat
      /\ \A k \in DOMAIN box_list' : /\ k + 1 \in DOMAIN box_list
                                    /\ k >= 1 => SameBox(box_list'[k], box_list[k + 1])
  BY WasAt
<1>2. PICK k \in DOMAIN box_list' : Boxed(k)' = n
  BY DEF InList
<1>3. k + 1 \in DOMAIN box_list /\ Boxed(k + 1) = n
  BY <1>1, <1>2 DEF SameBox, Boxed
<1> QED BY <1>3 DEF InList

\* A list with the same boxes lists the same names.
LEMMA ListedKept ==
  ASSUME BoxesFit, NamesKept, NEW n
  PROVE  InList(n)' <=> InList(n)
BY DEF NamesKept, InList, Boxed

\* Only creations and removals change which names are listed.
LEMMA OthersKeepList ==
  ASSUME Sane, StepKind, ~Creation, ~Removal
  PROVE  /\ HeadIsFreed' <=> HeadIsFreed
         /\ Len(box_list') = Len(box_list)
         /\ \A n : InList(n)' <=> InList(n)
<1>1. /\ NamesKept
      /\ \A k \in DOMAIN box_list : box_list'[k].freed = box_list[k].freed
  <2>1. CASE Calm
    BY <2>1 DEF Calm
  <2>2. CASE \E i \in DOMAIN box_list : Begins(i) \/ Ends(i)
    <3>1. PICK i \in DOMAIN box_list, p \in Publishers \cup {NoClient} :
            box_list' = [box_list EXCEPT ![i].publisher_named_pipe = p]
      BY <2>2 DEF Begins, Ends
    <3> QED BY <3>1, PublisherSet DEF Sane
  <2>3. CASE Links
    BY <2>3, LinksKeeps DEF Sane
  <2> QED BY <2>1, <2>2, <2>3 DEF StepKind
<1>2. Len(box_list') = Len(box_list)
  BY <1>1, LenProperties DEF NamesKept, Sane, BoxesFit
<1> QED BY <1>1, <1>2, HeadKept, ListedKept DEF Sane

\* A creation is one box more and one answer more.
LEMMA CreationTold ==
  ASSUME Sane, Creation, \A A \in Tallies : IsFiniteSet(Got(A)), LengthTold, AllTold
  PROVE  LengthTold' /\ AllTold' /\ \A A \in Tallies : IsFiniteSet(Got(A)')
<1>1. PICK n \in Boxes : Creates(n)
  BY DEF Creation
<1>2. pipe' = pipe /\ pc = "serving" /\ Answering("create", n, 0)
  BY <1>1 DEF Creation, Creates
<1>3. \A A \in Tallies :
        /\ IsFiniteSet(Got(A)') /\ Told(A) \in Nat
        /\ Told(A)' = Told(A) + IF create_answer("create", n, 0) \in A THEN 1 ELSE 0
  BY <1>2, AnswerSent, ToldIsNumber
<1>4. /\ Creations \in Tallies /\ Removals \in Tallies
      /\ \A b \in Boxes : CreationsOf(b) \in Tallies
  BY DEF Tallies
<1>5. LengthTold'
  <2>1. Len(box_list') = Len(box_list) + 1
    <3>1. NewBox(n) \in BoxRecords
      BY EmptyIsSeq DEF NewBox, BoxRecords
    <3>2. box_list' = Append(box_list, NewBox(n)) /\ box_list \in Seq(BoxRecords)
      BY <1>1 DEF Creates, Sane, BoxesFit
    <3> QED BY <3>1, <3>2, AppendProperties
  <2>2. /\ Told(Creations)' = Told(Creations) + 1
        /\ Told(Removals)' = Told(Removals) + 0
    BY <1>3, <1>4, Counted
  <2>3. Told(Creations) \in Nat /\ Told(Removals) \in Nat
    BY <1>3, <1>4
  <2> QED BY <2>1, <2>2, <2>3 DEF LengthTold
<1>6. ASSUME NEW b \in Boxes, InList(b)' PROVE Told(CreationsOf(b))' > 0
  <2>1. InList(b) \/ b = n
    BY <1>1, <1>6, CreationListed DEF Sane
  <2>2. CASE b = n
    BY <1>3, <1>4, <2>2, Counted
  <2>3. CASE InList(b)
    <3>1. Told(CreationsOf(b)) > 0 /\ Told(CreationsOf(b)) \in Nat
      BY <1>3, <1>4, <2>3 DEF AllTold
    <3> QED BY <1>3, <1>4, <3>1
  <2> QED BY <2>1, <2>2, <2>3
<1> QED BY <1>3, <1>5, <1>6 DEF AllTold

\* A removal of the first box is one box less and one answer more.
LEMMA RemovalTold ==
  ASSUME Sane, Removal, \A A \in Tallies : IsFiniteSet(Got(A)), LengthTold, AllTold
  PROVE  /\ \A A \in Tallies : IsFiniteSet(Got(A)')
         /\ ~HeadIsFreed' => LengthTold' /\ AllTold'
<1>1. PICK i \in Nat, n \in Boxes : Removes(i, n)
  BY DEF Removal
<1>2. pipe' = pipe /\ pc = "serving" /\ Answering("remove", n, 0)
  BY <1>1 DEF Removal, Removes
<1>3. \A A \in Tallies :
        /\ IsFiniteSet(Got(A)') /\ Told(A) \in Nat
        /\ Told(A)' = Told(A) + IF create_answer("remove", n, 0) \in A THEN 1 ELSE 0
  BY <1>2, AnswerSent, ToldIsNumber
<1>4. /\ Creations \in Tallies /\ Removals \in Tallies
      /\ \A b \in Boxes : CreationsOf(b) \in Tallies
  BY DEF Tallies
<1>5. ASSUME ~HeadIsFreed' PROVE LengthTold' /\ AllTold'
  <2>1. TakesOut(1)
    BY <1>1, <1>5 DEF Removes
  <2>2. LengthTold'
    <3>1. Len(box_list') = Len(box_list) - 1 /\ Len(box_list) \in Nat
      BY <2>1, WasAt DEF TakesOut, Sane
    <3>2. /\ Told(Creations)' = Told(Creations) + 0
          /\ Told(Removals)' = Told(Removals) + 1
      BY <1>3, <1>4, Counted
    <3>3. Told(Creations) \in Nat /\ Told(Removals) \in Nat
      BY <1>3, <1>4
    <3> QED BY <3>1, <3>2, <3>3 DEF LengthTold
  <2>3. ASSUME NEW b \in Boxes, InList(b)' PROVE Told(CreationsOf(b))' > 0
    <3>1. InList(b)
      BY <2>1, <2>3, RemovalListed DEF Sane
    <3>2. Told(CreationsOf(b)) > 0 /\ Told(CreationsOf(b)) \in Nat
      BY <1>3, <1>4, <3>1 DEF AllTold
    <3> QED BY <1>3, <1>4, <3>2
  <2> QED BY <2>2, <2>3 DEF AllTold
<1> QED BY <1>3, <1>5

\* Every step keeps the count of the answers.
LEMMA AnswersFitKept == Sane /\ AnswersFit /\ [Next]_vars => AnswersFit'
<1> SUFFICES ASSUME Sane, AnswersFit, [Next]_vars, pc' \notin Ended
             PROVE  /\ \A A \in Tallies : IsFiniteSet(Got(A)')
                    /\ ~HeadIsFreed' => LengthTold' /\ AllTold'
  BY DEF AnswersFit
<1>1. StepKind
  BY StepKinds
<1>2. pc \notin Ended
  BY <1>1 DEF StepKind, Calm, Begins, Ends, Creation, Removal, Ended, Down
<1>3. (\A A \in Tallies : IsFiniteSet(Got(A))) /\ (~HeadIsFreed => LengthTold /\ AllTold)
  BY <1>2 DEF AnswersFit
<1>4. CASE Creation
  <2>1. LengthTold /\ AllTold
    BY <1>3, <1>4 DEF Creation
  <2> QED BY <1>3, <1>4, <2>1, CreationTold
<1>5. CASE Removal
  <2>1. LengthTold /\ AllTold
    BY <1>3, <1>5 DEF Removal
  <2> QED BY <1>3, <1>5, <2>1, RemovalTold
<1>6. CASE ~Creation /\ ~Removal
  <2>1. \A A \in Tallies : Told(A)' = Told(A) /\ IsFiniteSet(Got(A)')
    BY <1>3, <1>6, OthersAreSilent DEF ToldKept
  <2>2. /\ HeadIsFreed' <=> HeadIsFreed
        /\ Len(box_list') = Len(box_list)
        /\ \A n : InList(n)' <=> InList(n)
    BY <1>1, <1>6, OthersKeepList
  <2>3. LengthTold => LengthTold'
    BY <2>1, <2>2 DEF LengthTold, Tallies
  <2>4. AllTold => AllTold'
    BY <2>1, <2>2 DEF AllTold, Tallies
  <2> QED BY <1>3, <2>1, <2>2, <2>3, <2>4
<1> QED BY <1>4, <1>5, <1>6

\* AnswersAgree: while nothing has been freed, the list has as many boxes as managers
\* were told of creations more than of removals, and each was told to the manager that
\* asked for it, whatever was refused, swallowed with another request or sent to another
\* manager.
THEOREM AnswersAddUp == Behaviour => []AnswersAgree
<1>1. Init => AnswersFit
  <2> SUFFICES ASSUME Init PROVE AnswersFit
    OBVIOUS
  <2>1. /\ pc = "serving" /\ box_list = <<>> /\ DOMAIN box_list = {}
        /\ \A m \in Managers : pipe[m] = <<>>
    BY NoHandles, Kinds DEF Init, ClientsInit
  <2>2. \A A : Got(A) = {}
    BY <2>1, NoHandles DEF Got, Replies
  <2>3. \A A : ~Coming(A)
    BY <2>1 DEF Coming
  <2>4. \A A : Told(A) = 0
    BY <2>2, <2>3, ToldIs, FS_EmptySet
  <2>5. LengthTold
    <3>1. Len(box_list) = 0
      BY <2>1, EmptyIsSeq
    <3> QED BY <2>4, <3>1 DEF LengthTold
  <2>6. AllTold
    BY <2>1 DEF AllTold, InList
  <2>7. \A A : IsFiniteSet(Got(A))
    BY <2>2, FS_EmptySet
  <2> QED BY <2>5, <2>6, <2>7 DEF AnswersFit
<1>2. Sane /\ AnswersFit => AnswersAgree
  <2> SUFFICES ASSUME Sane, AnswersFit, pc \notin Ended, ~HeadIsFreed
               PROVE  /\ Len(box_list) = Told(Creations) - Told(Removals)
                      /\ \A i \in DOMAIN box_list : Told(CreationsOf(Boxed(i))) > 0
    BY DEF AnswersAgree, Creations, Removals, CreationsOf
  <2>1. LengthTold /\ AllTold
    BY DEF AnswersFit
  <2>2. \A i \in DOMAIN box_list : Boxed(i) \in Boxes /\ InList(Boxed(i))
    BY DEF Sane, BoxesFit, InList
  <2> QED BY <2>1, <2>2 DEF LengthTold, AllTold
<1> QED BY <1>1, <1>2, AlwaysSane, AnswersFitKept, PTL DEF Behaviour

-----------------------------------------------------------------------------
(* Messages one after the other *)

\* g has what is put together of the first messages of p, for each number of them.
Joins(p, g) ==
  /\ g = [k \in 0 .. Len(p) |-> g[k]] /\ g[0] = <<>>
  /\ \A k \in 1 .. Len(p) : g[k] = g[k - 1] \o p[k]

\* The first messages of a sequence of messages.
LEMMA FirstOnes ==
  ASSUME NEW S, NEW p \in Seq(S), NEW n \in 0 .. Len(p), NEW q, q = SubSeq(p, 1, n)
  PROVE  q \in Seq(S) /\ Len(q) = n /\ \A k \in 1 .. n : q[k] = p[k]
<1>1. Len(p) \in Nat /\ \A k \in 1 .. n : p[k] \in S
  BY LenProperties, ElementOfSeq
<1>2. /\ q \in Seq(S) /\ Len(q) = IF 1 <= n THEN n - 1 + 1 ELSE 0
      /\ \A k \in 1 .. n - 1 + 1 : q[k] = p[1 + k - 1]
  BY <1>1, SubSeqProperties
<1>3. n \in Nat /\ n - 1 + 1 = n /\ \A k \in 1 .. n : 1 + k - 1 = k
  BY <1>1
<1>4. Len(q) = n
  BY <1>2, <1>3
<1> QED BY <1>2, <1>3, <1>4

\* Whatever is put together is a sequence.
LEMMA JoinsAreSeqs ==
  ASSUME NEW C, NEW p \in Seq(Seq(C)), NEW g, Joins(p, g)
  PROVE  \A n \in 0 .. Len(p) : g[n] \in Seq(C)
<1> DEFINE S == {n \in Nat : n <= Len(p) => g[n] \in Seq(C)}
<1>1. Len(p) \in Nat
  BY LenProperties
<1>2. 0 \in S
  BY EmptySeq DEF Joins
<1>3. ASSUME NEW n \in Nat, n \in S
      PROVE  n + 1 \in S
  <2> SUFFICES ASSUME n + 1 <= Len(p) PROVE g[n + 1] \in Seq(C)
    OBVIOUS
  <2>1. n + 1 \in 1 .. Len(p) /\ n <= Len(p) /\ (n + 1) - 1 = n
    BY <1>1
  <2>2. g[n + 1] = g[n] \o p[n + 1]
    BY <2>1 DEF Joins
  <2>3. g[n] \in Seq(C) /\ p[n + 1] \in Seq(C)
    BY <1>3, <2>1, ElementOfSeq
  <2> QED BY <2>2, <2>3, ConcatProperties
<1> HIDE DEF S
<1>4. Nat \subseteq S
  BY <1>2, <1>3, CountingUp
<1> QED BY <1>1, <1>4 DEF S

\* Any messages can be put together.
LEMMA JoinExists ==
  ASSUME NEW C, NEW p \in Seq(Seq(C))
  PROVE  \E g : Joins(p, g)
<1> DEFINE S == {n \in Nat : n <= Len(p) => \E g : Joins(SubSeq(p, 1, n), g)}
<1>1. Len(p) \in Nat
  BY LenProperties
<1>2. 0 \in S
  <2> DEFINE g == [k \in 0 .. 0 |-> <<>>]
             q == SubSeq(p, 1, 0)
  <2>1. Len(q) = 0
    BY <1>1, FirstOnes
  <2> HIDE DEF q
  <2>2. Joins(q, g)
    BY <2>1 DEF Joins
  <2> QED BY <2>2 DEF q
<1>3. ASSUME NEW n \in Nat, n \in S
      PROVE  n + 1 \in S
  <2> SUFFICES ASSUME n + 1 <= Len(p) PROVE \E g : Joins(SubSeq(p, 1, n + 1), g)
    OBVIOUS
  <2> DEFINE q == SubSeq(p, 1, n)
             r == SubSeq(p, 1, n + 1)
  <2>1. n \in 0 .. Len(p) /\ n + 1 \in 0 .. Len(p)
    BY <1>1
  <2>2. Len(q) = n /\ \A k \in 1 .. n : q[k] = p[k]
    BY <2>1, FirstOnes
  <2>3. Len(r) = n + 1 /\ \A k \in 1 .. n + 1 : r[k] = p[k]
    BY <2>1, FirstOnes
  <2>4. PICK g : Joins(q, g)
    BY <1>3, <2>1
  <2> HIDE DEF q, r
  <2> DEFINE m == g[n] \o p[n + 1]
  <2> HIDE DEF m
  <2> DEFINE f == [k \in 0 .. n + 1 |-> IF k = n + 1 THEN m ELSE g[k]]
  <2>5. /\ f = [k \in 0 .. n + 1 |-> f[k]] /\ f[n + 1] = m
        /\ \A k \in 0 .. n : f[k] = g[k]
    OBVIOUS
  <2> HIDE DEF f
  <2>9. f[0] = <<>>
    <3>1. 0 \in 0 .. n /\ g[0] = <<>>
      BY <2>4 DEF Joins
    <3> QED BY <2>5, <3>1
  <2>6. ASSUME NEW k \in 1 .. n + 1
        PROVE  f[k] = f[k - 1] \o r[k]
    <3>1. CASE k = n + 1
      <4>1. k - 1 = n /\ n \in 0 .. n /\ r[k] = p[n + 1]
        BY <2>3, <3>1
      <4>2. f[n] = g[n] /\ f[n + 1] = g[n] \o p[n + 1]
        BY <2>5, <4>1 DEF m
      <4>3. f[k - 1] \o r[k] = f[n] \o p[n + 1]
        BY <4>1
      <4> QED BY <3>1, <4>2, <4>3
    <3>2. CASE k # n + 1
      <4>1. k \in 1 .. n /\ k - 1 \in 0 .. n /\ k \in 0 .. n
        BY <3>2
      <4> QED BY <2>2, <2>3, <2>4, <2>5, <4>1 DEF Joins
    <3> QED BY <3>1, <3>2
  <2>7. Joins(r, f)
    BY <2>3, <2>5, <2>6, <2>9 DEF Joins
  <2> QED BY <2>7 DEF r
<1> HIDE DEF S
<1>4. Nat \subseteq S
  BY <1>2, <1>3, CountingUp
<1>5. Len(p) \in S
  BY <1>1, <1>4
<1>6. \E g : Joins(SubSeq(p, 1, Len(p)), g)
  BY <1>1, <1>5 DEF S
<1> DEFINE q == SubSeq(p, 1, Len(p))
<1>7. /\ q \in Seq(Seq(C)) /\ Len(q) = Len(p) /\ \A k \in 1 .. Len(p) : q[k] = p[k]
  BY <1>1, FirstOnes
<1>8. PICK g : Joins(q, g)
  BY <1>6
<1> HIDE DEF q
<1> QED BY <1>7, <1>8 DEF Joins

\* They are so in one way only, and FlattenSeq does it.
LEMMA FlattenIs ==
  ASSUME NEW C, NEW p \in Seq(Seq(C)), NEW g, Joins(p, g)
  PROVE  FlattenSeq(p) = g[Len(p)]
<1> DEFINE Flattens(f) == f = [i \in 1 .. Len(p) |-> IF i = 1 THEN p[i] ELSE f[i - 1] \o p[i]]
           h == CHOOSE f : Flattens(f)
<1>1. Len(p) \in Nat
  BY LenProperties
<1>2. CASE Len(p) = 0
  <2>1. p = <<>>
    BY <1>2, EmptySeq
  <2> QED BY <1>2, <2>1 DEF FlattenSeq, Joins
<1>3. CASE Len(p) # 0
  <2>1. FlattenSeq(p) = h[Len(p)]
    BY <1>3 DEF FlattenSeq
  <2> DEFINE w == [i \in 1 .. Len(p) |-> g[i]]
  <2>2. Flattens(w)
    <3>1. ASSUME NEW i \in 1 .. Len(p)
          PROVE  g[i] = IF i = 1 THEN p[i] ELSE w[i - 1] \o p[i]
      <4>1. g[i] = g[i - 1] \o p[i] /\ p[i] \in Seq(C)
        BY ElementOfSeq DEF Joins
      <4>2. CASE i = 1
        <5>1. g[i - 1] = <<>>
          BY <4>2 DEF Joins
        <5> QED BY <4>1, <4>2, <5>1, ConcatEmptySeq
      <4>3. CASE i # 1
        <5>1. i - 1 \in 1 .. Len(p)
          BY <1>1, <4>3
        <5> QED BY <4>1, <4>3, <5>1
      <4> QED BY <4>2, <4>3
    <3> QED BY <3>1
  <2> HIDE DEF w
  <2>3. Flattens(h)
    BY <2>2
  <2> HIDE DEF h
  <2> DEFINE S == {n \in Nat : n + 1 <= Len(p) => h[n + 1] = g[n + 1]}
  <2>4. \A i \in 1 .. Len(p) : h[i] = IF i = 1 THEN p[i] ELSE h[i - 1] \o p[i]
    BY <2>3
  <2>5. 0 \in S
    <3>1. 1 \in 1 .. Len(p)
      BY <1>1, <1>3
    <3>2. h[1] = p[1]
      BY <2>4, <3>1
    <3>3. g[1] = g[1 - 1] \o p[1] /\ g[0] = <<>>
      BY <3>1 DEF Joins
    <3>4. p[1] \in Seq(C)
      BY <3>1, ElementOfSeq
    <3>5. g[1 - 1] = <<>>
      BY <3>3
    <3>6. g[1] = p[1]
      BY <3>3, <3>4, <3>5, ConcatEmptySeq
    <3> QED BY <3>2, <3>6
  <2>6. ASSUME NEW n \in Nat, n \in S
        PROVE  n + 1 \in S
    <3> SUFFICES ASSUME (n + 1) + 1 <= Len(p) PROVE h[(n + 1) + 1] = g[(n + 1) + 1]
      OBVIOUS
    <3>1. (n + 1) + 1 \in 1 .. Len(p) /\ ((n + 1) + 1) - 1 = n + 1 /\ n + 1 <= Len(p)
          /\ (n + 1) + 1 # 1
      BY <1>1
    <3>2. h[n + 1] = g[n + 1]
      BY <2>6, <3>1
    <3>3. h[(n + 1) + 1] = h[n + 1] \o p[(n + 1) + 1]
      BY <2>4, <3>1
    <3>4. g[(n + 1) + 1] = g[n + 1] \o p[(n + 1) + 1]
      BY <3>1 DEF Joins
    <3> QED BY <3>2, <3>3, <3>4
  <2> HIDE DEF S
  <2>7. Nat \subseteq S
    BY <2>5, <2>6, CountingUp
  <2>8. Len(p) - 1 \in Nat /\ (Len(p) - 1) + 1 = Len(p)
    BY <1>1, <1>3
  <2>9. Len(p) - 1 \in S
    BY <2>7, <2>8
  <2>10. h[Len(p)] = g[Len(p)]
    BY <2>8, <2>9 DEF S
  <2> QED BY <2>1, <2>10
<1> QED BY <1>2, <1>3

\* A message more.
LEMMA FlattenOneMore ==
  ASSUME NEW C, NEW p \in Seq(Seq(C)), NEW m \in Seq(C)
  PROVE  FlattenSeq(p) \in Seq(C) /\ FlattenSeq(Append(p, m)) = FlattenSeq(p) \o m
<1> DEFINE q == Append(p, m)
           n == Len(p)
<1>1. /\ q \in Seq(Seq(C)) /\ Len(q) = n + 1 /\ n \in Nat
      /\ (\A k \in 1 .. n : q[k] = p[k]) /\ q[n + 1] = m
  BY AppendProperties, LenProperties
<1> HIDE DEF q
<1>2. PICK g : Joins(q, g)
  BY <1>1, JoinExists
<1> DEFINE f == [k \in 0 .. n |-> g[k]]
<1>3. f = [k \in 0 .. n |-> f[k]] /\ \A k \in 0 .. n : f[k] = g[k]
  OBVIOUS
<1> HIDE DEF f
<1>4. f[0] = <<>>
  <2>1. 0 \in 0 .. n /\ g[0] = <<>>
    BY <1>1, <1>2 DEF Joins
  <2> QED BY <1>3, <2>1
<1>5. ASSUME NEW k \in 1 .. n
      PROVE  f[k] = f[k - 1] \o p[k]
  <2>1. k \in 0 .. n /\ k - 1 \in 0 .. n /\ k \in 1 .. n + 1
    BY <1>1
  <2>2. g[k] = g[k - 1] \o q[k]
    BY <1>1, <1>2, <2>1 DEF Joins
  <2> QED BY <1>1, <1>3, <2>1, <2>2
<1>6. Joins(p, f)
  BY <1>3, <1>4, <1>5 DEF Joins
<1>7. FlattenSeq(p) = f[n] /\ f[n] \in Seq(C)
  <2>1. n \in 0 .. Len(p)
    BY <1>1
  <2> QED BY <1>6, <2>1, FlattenIs, JoinsAreSeqs
<1>8. FlattenSeq(q) = g[n + 1]
  BY <1>1, <1>2, FlattenIs
<1>9. g[n + 1] = g[n] \o m
  <2>1. n + 1 \in 1 .. Len(q) /\ (n + 1) - 1 = n
    BY <1>1
  <2> QED BY <1>1, <1>2, <2>1 DEF Joins
<1>10. f[n] = g[n]
  <2>1. n \in 0 .. n
    BY <1>1
  <2> QED BY <1>3, <2>1
<1> QED BY <1>7, <1>8, <1>9, <1>10 DEF q

\* Nothing put together is nothing.
LEMMA FlattenNone == FlattenSeq(<<>>) = <<>>
BY EmptyIsSeq DEF FlattenSeq

\* What the library says of Append, for a name of the result.
LEMMA AppendIs ==
  ASSUME NEW S, NEW s \in Seq(S), NEW e \in S, NEW t, t = Append(s, e)
  PROVE  /\ t \in Seq(S) /\ Len(s) \in Nat /\ Len(t) = Len(s) + 1
         /\ (\A k \in 1 .. Len(s) : t[k] = s[k]) /\ t[Len(s) + 1] = e
BY AppendProperties, LenProperties

\* And what it says of \o.
LEMMA ConcatIs ==
  ASSUME NEW S, NEW s \in Seq(S), NEW e \in Seq(S), NEW t, t = s \o e
  PROVE  /\ t \in Seq(S) /\ Len(s) \in Nat /\ Len(e) \in Nat /\ Len(t) = Len(s) + Len(e)
         /\ \A k \in 1 .. Len(s) + Len(e) : t[k] = IF k <= Len(s) THEN s[k] ELSE e[k - Len(s)]
BY ConcatProperties, LenProperties

\* Where message k + 1 is in what is put together of p.
LEMMA FlattenHas ==
  ASSUME NEW C, NEW p \in Seq(Seq(C)), NEW k \in 0 .. Len(p) - 1,
         NEW off, off = Len(FlattenSeq(SubSeq(p, 1, k)))
  PROVE  /\ off \in Nat /\ off + Len(p[k + 1]) <= Len(FlattenSeq(p))
         /\ Len(FlattenSeq(SubSeq(p, 1, k + 1))) = off + Len(p[k + 1])
         /\ p[k + 1] = SubSeq(FlattenSeq(p), off + 1, off + Len(p[k + 1]))
<1> DEFINE P(n) == SubSeq(p, 1, n)
           F(n) == FlattenSeq(P(n))
           m == p[k + 1]
           L == Len(p)
<1>1. L \in Nat /\ k \in Nat /\ k + 1 \in 1 .. L /\ k \in 0 .. L
  BY LenProperties
<1>2. \A n \in 0 .. L : P(n) \in Seq(Seq(C)) /\ Len(P(n)) = n /\ \A j \in 1 .. n : P(n)[j] = p[j]
  BY FirstOnes
<1>3. ASSUME NEW n \in 0 .. L - 1
      PROVE  F(n) \in Seq(C) /\ p[n + 1] \in Seq(C) /\ F(n + 1) = F(n) \o p[n + 1]
  <2>1. n \in 0 .. L /\ n + 1 \in 0 .. L /\ n + 1 \in 1 .. L /\ n \in Nat
    BY <1>1
  <2>2. p[n + 1] \in Seq(C)
    BY <2>1, ElementOfSeq
  <2> DEFINE q == P(n)
             r == P(n + 1)
             e == p[n + 1]
  <2>3. /\ q \in Seq(Seq(C)) /\ Len(q) = n /\ \A j \in 1 .. n : q[j] = p[j]
        /\ r \in Seq(Seq(C)) /\ Len(r) = n + 1 /\ \A j \in 1 .. n + 1 : r[j] = p[j]
    BY <1>2, <2>1
  <2> HIDE DEF q, r, e
  <2>4. r = Append(q, e)
    <3> DEFINE a == Append(q, e)
    <3> HIDE DEF a
    <3>1. /\ a \in Seq(Seq(C)) /\ Len(a) = n + 1
          /\ (\A j \in 1 .. n : a[j] = q[j]) /\ a[n + 1] = e
      <4>1. e \in Seq(C) /\ a = Append(q, e)
        BY <2>2 DEF e, a
      <4>2. q \in Seq(Seq(C)) /\ Len(q) = n
        BY <2>3
      <4> QED BY ONLY <4>1, <4>2, AppendIs
    <3>2. \A j \in 1 .. n + 1 : a[j] = r[j]
      <4> SUFFICES ASSUME NEW j \in 1 .. n + 1 PROVE a[j] = r[j]
        OBVIOUS
      <4>1. CASE j = n + 1
        BY <2>3, <3>1, <4>1 DEF e
      <4>2. CASE j # n + 1
        <5>1. j \in 1 .. n
          BY <2>1, <4>2
        <5> QED BY <2>3, <3>1, <5>1
      <4> QED BY <4>1, <4>2
    <3> QED BY <2>3, <3>1, <3>2, SeqEqual DEF a
  <2>5. FlattenSeq(q) \in Seq(C) /\ FlattenSeq(Append(q, e)) = FlattenSeq(q) \o e
    BY <2>2, <2>3, FlattenOneMore DEF e
  <2> QED BY <2>2, <2>4, <2>5 DEF q, r, e
<1>4. P(L) = p
  <2>1. P(L) \in Seq(Seq(C)) /\ Len(P(L)) = L /\ \A j \in 1 .. L : P(L)[j] = p[j]
    BY <1>1, <1>2
  <2> HIDE DEF P
  <2> QED BY <2>1, SeqEqual
<1> HIDE DEF P
<1> DEFINE Starts(s, t) == /\ s \in Seq(C) /\ t \in Seq(C) /\ Len(s) <= Len(t)
                           /\ \A j \in 1 .. Len(s) : t[j] = s[j]
           a == F(k + 1)
           S == {d \in Nat : k + 1 + d <= L => Starts(a, F(k + 1 + d))}
<1>5. /\ F(k) \in Seq(C) /\ m \in Seq(C) /\ a = F(k) \o m /\ off = Len(F(k))
      /\ off \in Nat /\ Len(m) \in Nat
  <2>1. k \in 0 .. L - 1
    BY <1>1
  <2>2. off = Len(F(k))
    BY DEF P
  <2>3. F(k) \in Seq(C) /\ m \in Seq(C) /\ a = F(k) \o m
    BY <1>3, <2>1
  <2> HIDE DEF F, m, a
  <2> QED BY <2>2, <2>3, LenProperties
<1> HIDE DEF F
<1>6. a \in Seq(C) /\ Len(a) = off + Len(m)
      /\ \A j \in 1 .. off + Len(m) : a[j] = IF j <= off THEN F(k)[j] ELSE m[j - off]
  <2> DEFINE s == F(k)
  <2>1. s \in Seq(C) /\ m \in Seq(C) /\ a = s \o m /\ off = Len(s)
    BY <1>5
  <2> HIDE DEF a, m, s
  <2>2. /\ a \in Seq(C) /\ Len(a) = Len(s) + Len(m)
        /\ \A j \in 1 .. Len(s) + Len(m) : a[j] = IF j <= Len(s) THEN s[j] ELSE m[j - Len(s)]
    BY <2>1, ConcatIs
  <2> QED BY <2>1, <2>2 DEF s
<1> HIDE DEF a, m
<1>7. 0 \in S
  <2>1. k + 1 + 0 = k + 1 /\ Len(a) \in Nat
    BY <1>1, <1>5, <1>6
  <2>2. F(k + 1 + 0) = a
    BY <2>1 DEF a
  <2> QED BY <1>6, <2>1, <2>2
<1>8. ASSUME NEW d \in Nat, d \in S
      PROVE  d + 1 \in S
  <2> SUFFICES ASSUME k + 1 + (d + 1) <= L PROVE Starts(a, F(k + 1 + (d + 1)))
    OBVIOUS
  <2> DEFINE n == k + 1 + d
  <2>1. n \in 0 .. L - 1 /\ n + 1 = k + 1 + (d + 1) /\ n <= L
    BY <1>1
  <2>2. Starts(a, F(n))
    BY <1>8, <2>1
  <2> HIDE DEF n
  <2>3. F(n) \in Seq(C) /\ p[n + 1] \in Seq(C) /\ F(n + 1) = F(n) \o p[n + 1]
    BY <1>3, <2>1
  <2> DEFINE s == F(n)
             t == F(n + 1)
             e == p[n + 1]
  <2>4. /\ t \in Seq(C) /\ Len(t) = Len(s) + Len(e) /\ Len(s) \in Nat /\ Len(e) \in Nat
        /\ \A j \in 1 .. Len(s) + Len(e) : t[j] = IF j <= Len(s) THEN s[j] ELSE e[j - Len(s)]
    <3>1. s \in Seq(C) /\ e \in Seq(C) /\ t = s \o e
      BY <2>3
    <3> HIDE DEF s, t, e
    <3> QED BY <3>1, ConcatIs
  <2> HIDE DEF s, t, e
  <2>5. Starts(a, s)
    BY <2>2 DEF s
  <2>6. Starts(a, t)
    <3>1. Len(a) \in Nat
      BY <1>5, <1>6
    <3>2. \A j \in 1 .. Len(a) : j <= Len(s) /\ j \in 1 .. Len(s) + Len(e)
      BY <2>4, <2>5, <3>1
    <3>3. Len(a) <= Len(t)
      BY <2>4, <2>5, <3>1
    <3> QED BY <1>6, <2>4, <2>5, <3>2, <3>3
  <2>7. t = F(k + 1 + (d + 1))
    BY <2>1 DEF t
  <2> QED BY <2>6, <2>7
<1> HIDE DEF S
<1>9. Nat \subseteq S
  BY <1>7, <1>8, CountingUp
<1>10. Starts(a, FlattenSeq(p))
  <2> DEFINE d == L - (k + 1)
  <2>1. d \in Nat /\ k + 1 + d = L
    BY <1>1
  <2>2. d \in S
    BY <1>9, <2>1
  <2> HIDE DEF d
  <2>3. Starts(a, F(L))
    BY <2>1, <2>2 DEF S
  <2>4. F(L) = FlattenSeq(p)
    BY <1>4 DEF F
  <2> QED BY <2>3, <2>4
<1> DEFINE w == FlattenSeq(p)
           u == SubSeq(w, off + 1, off + Len(m))
<1>11. Starts(a, w)
  BY <1>10
<1> HIDE DEF w
<1>12. off + Len(m) <= Len(w)
  BY <1>6, <1>11
<1>13. m = u
  <2>1. Len(w) \in Nat /\ \A j \in off + 1 .. off + Len(m) : w[j] \in C
    <3>1. Len(w) \in Nat /\ w \in Seq(C)
      BY <1>11, LenProperties
    <3>2. \A j \in off + 1 .. off + Len(m) : j \in 1 .. Len(w)
      BY <1>5, <1>12, <3>1
    <3> QED BY <3>1, <3>2, ElementOfSeq
  <2>2. off + 1 \in Int /\ off + Len(m) \in Int
    BY <1>5
  <2>3. /\ u \in Seq(C)
        /\ Len(u) = IF off + 1 <= off + Len(m) THEN (off + Len(m)) - (off + 1) + 1 ELSE 0
        /\ \A j \in 1 .. (off + Len(m)) - (off + 1) + 1 : u[j] = w[(off + 1) + j - 1]
    BY <2>1, <2>2, SubSeqProperties
  <2> HIDE DEF u
  <2>4. (off + Len(m)) - (off + 1) + 1 = Len(m) /\ Len(u) = Len(m)
    BY <1>5, <2>3
  <2>5. ASSUME NEW j \in 1 .. Len(m)
        PROVE  u[j] = m[j]
    <3>1. /\ (off + 1) + j - 1 = off + j /\ off + j \in 1 .. off + Len(m) /\ ~(off + j <= off)
          /\ (off + j) - off = j
      BY <1>5
    <3>2. u[j] = w[off + j]
      BY <2>3, <2>4, <3>1
    <3>3. w[off + j] = a[off + j]
      BY <1>6, <1>11, <3>1
    <3>4. a[off + j] = m[j]
      BY <1>6, <3>1
    <3> QED BY <3>2, <3>3, <3>4
  <2> QED BY <1>5, <2>3, <2>4, <2>5, SeqEqual
<1>14. Len(FlattenSeq(SubSeq(p, 1, k + 1))) = off + Len(m)
  BY <1>6 DEF a, F, P
<1> QED BY <1>5, <1>12, <1>13, <1>14 DEF m, w, u

-----------------------------------------------------------------------------
(* Messages in the files of their boxes *)

\* What messages are made of.
Symbols == UNION {{m[i] : i \in DOMAIN m} : m \in Messages}

\* Messages are sequences of it.
LEMMA MessagesAreSeqs ==
  /\ \A m \in Messages : m \in Seq(Symbols)
  /\ \A p \in Seq(Messages) : p \in Seq(Seq(Symbols))
<1>1. ASSUME NEW m \in Messages PROVE m \in Seq(Symbols)
  <2>1. m \in Seq({m[i] : i \in DOMAIN m})
    BY ClientsAssumption
  <2>2. {m[i] : i \in DOMAIN m} \subseteq Symbols
    BY DEF Symbols
  <2> DEFINE S == {m[i] : i \in DOMAIN m}
  <2>3. S \subseteq Symbols /\ m \in Seq(S)
    BY <2>1, <2>2
  <2> HIDE DEF S
  <2> QED BY <2>3
<1>2. Messages \subseteq Seq(Symbols)
  BY <1>1
<1> DEFINE M == Seq(Symbols)
<1>3. Messages \subseteq M
  BY <1>2
<1> HIDE DEF M
<1>4. \A p \in Seq(Messages) : p \in Seq(M)
  BY <1>3
<1> QED BY <1>1, <1>4 DEF M

\* The same files with the same contents.
SameStorage(f, g) ==
  /\ \A n, i : FileHas(g, n, i) <=> FileHas(f, n, i)
  /\ \A i : ContentsOf(g, i) = ContentsOf(f, i) /\ SizeOf(g, i) = SizeOf(f, i)

\* That is so when no table of files changes.
LEMMA SameFilesStored == ASSUME NEW f, NEW g, SameFiles(f, g) PROVE SameStorage(f, g)
<1>1. \A n, i : FileHas(g, n, i) <=> FileHas(f, n, i)
  BY DEF SameFiles, FileHas, Live
<1>2. \A i : ContentsOf(g, i) = ContentsOf(f, i) /\ SizeOf(g, i) = SizeOf(f, i)
  BY DEF SameFiles, ContentsOf, SizeOf
<1> QED BY <1>1, <1>2 DEF SameStorage

\* A message that is published is appended to its file; no other file that keeps to
\* its block notices.
LEMMA PublicationAppends ==
  ASSUME NEW f, FsInv(f), NEW n, NEW i, FileHas(f, n, i), NEW C, NEW m \in Seq(C),
         ContentsOf(f, i) \in Seq(C), NEW r, r = write_to_box(f, n, m), r.ret >= 0,
         SizeOf(f, i) <= BLOCK_SIZE
  PROVE  /\ \A b, k : FileHas(r.fs, b, k) <=> FileHas(f, b, k)
         /\ SizeOf(r.fs, i) = SizeOf(f, i) + Len(m)
         /\ \A k \in Inumbers \ {i} : SizeOf(r.fs, k) = SizeOf(f, k)
         /\ SizeOf(r.fs, i) <= BLOCK_SIZE =>
              /\ ContentsOf(r.fs, i) = ContentsOf(f, i) \o m
              /\ \A k \in Files(f) \ {i} :
                   SizeOf(f, k) <= BLOCK_SIZE => ContentsOf(r.fs, k) = ContentsOf(f, k)
<1> DEFINE opened == tfs_open(f, n, {"APPEND"})
           g == opened.fs
           h == opened.ret
           written == tfs_write(g, h, m)
           w == written.fs
           closed == tfs_close(w, h)
<1>1. r = IF h < 0 THEN opened ELSE IF written.ret < 0 THEN written ELSE closed
  BY DEF write_to_box
<1>2. /\ FsInv(g) /\ SameFiles(f, g)
      /\ \/ h = -1
         \/ /\ h \in Nat /\ h \in DOMAIN g.open_file_table
            /\ FileHas(f, n, g.open_file_table[h].of_inumber)
            /\ g.open_file_table[h].of_offset = SizeOf(f, g.open_file_table[h].of_inumber)
  BY OpenToAppend, OpenKeepsInv
<1> HIDE DEF opened, g, h
<1>3. h # -1
  <2>1. CASE h = -1
    <3>1. r = opened
      BY <1>1, <2>1
    <3>2. r.ret = -1
      BY <2>1, <3>1 DEF h
    <3> QED BY <3>2
  <2> QED BY <2>1
<1>4. /\ h \in Nat /\ h \in DOMAIN g.open_file_table /\ SameStorage(f, g)
      /\ g.open_file_table[h].of_inumber = i /\ g.open_file_table[h].of_offset = SizeOf(g, i)
  <2>1. SameStorage(f, g)
    BY <1>2, SameFilesStored
  <2>2. g.open_file_table[h].of_inumber = i
    BY <1>2, <1>3, FileIs
  <2> QED BY <1>2, <1>3, <2>1, <2>2 DEF SameStorage
<1>5. /\ FsInv(w)
      /\ written.ret = -1 \/ written.ret \in Nat
      /\ \A b, k : FileHas(w, b, k) <=> FileHas(g, b, k)
      /\ \A k \in Inumbers \ {i} : SizeOf(w, k) = SizeOf(g, k)
      /\ written.ret # -1 => SizeOf(w, i) = SizeOf(g, i) + Len(m)
  <2>1. FsInv(w)
    BY <1>2, WriteKeepsInv
  <2>2. FsInv(g) /\ h \in DOMAIN g.open_file_table
    BY <1>2, <1>4
  <2>3. Grows(g, h, g.open_file_table[h].of_inumber, Len(m), written)
    BY ONLY m \in Seq(C), <2>2, WriteGrows
  <2>4. Grows(g, h, i, Len(m), written)
    BY ONLY <1>4, <2>3
  <2> HIDE DEF written
  <2> QED BY <1>4, <2>1, <2>4 DEF Grows
<1> HIDE DEF written, w
<1>6. r = closed /\ written.ret # -1
  <2> DEFINE bad == written.ret < 0
  <2>1. r = IF bad THEN written ELSE closed
    BY <1>1, <1>4
  <2>2. ~bad
    <3>1. bad => written.ret = -1
      BY <1>5
    <3>2. bad => r = written
      BY <2>1
    <3>3. bad => r.ret = -1
      BY <3>1, <3>2
    <3> QED BY <3>3
  <2>3. written.ret # -1
    BY <2>2
  <2> HIDE DEF bad, closed
  <2> QED BY <2>1, <2>2, <2>3
<1>7. SameFiles(w, closed.fs)
  BY <1>5, CloseKeepsInv
<1> HIDE DEF closed
<1>8. SameStorage(w, r.fs)
  BY <1>6, <1>7, SameFilesStored
<1>9. /\ FileHas(g, n, i) /\ i \in Files(g) /\ Files(g) = Files(f)
      /\ ContentsOf(g, i) \in Seq(C)
  <2>1. FileHas(g, n, i) /\ ContentsOf(g, i) \in Seq(C)
    BY <1>4 DEF SameStorage
  <2> QED BY <1>2, <2>1, FileIs DEF SameFiles, Files, Live
<1>10. InFile(g, h) /\ SizeOf(g, i) \in Nat
  <2>1. SizeOf(g, i) \in Nat
    BY <1>2, <1>9, FileIs
  <2> QED BY <1>4, <1>9, <2>1 DEF InFile, SizeOf
<1>11. ASSUME SizeOf(r.fs, i) <= BLOCK_SIZE
       PROVE  /\ ContentsOf(w, i) = ContentsOf(g, i) \o m
              /\ \A k \in Files(g) \ {i} :
                   SizeOf(g, k) <= BLOCK_SIZE => ContentsOf(w, k) = ContentsOf(g, k)
  <2>1. SizeOf(g, i) + Len(m) <= BLOCK_SIZE
    BY <1>5, <1>6, <1>8, <1>11 DEF SameStorage
  <2>2. tfs_write(g, h, m).ret # -1
    BY <1>6 DEF written
  <2>3. /\ FsInv(g) /\ h \in DOMAIN g.open_file_table /\ InFile(g, h)
        /\ i = g.open_file_table[h].of_inumber /\ g.open_file_table[h].of_offset = SizeOf(g, i)
    BY <1>2, <1>4, <1>10
  <2>4. /\ ContentsOf(tfs_write(g, h, m).fs, i) = ContentsOf(g, i) \o m
        /\ \A k \in Files(g) \ {i} :
             SizeOf(g, k) <= BLOCK_SIZE => ContentsOf(tfs_write(g, h, m).fs, k) = ContentsOf(g, k)
    BY ONLY m \in Seq(C), <1>9, <2>1, <2>2, <2>3, WriteAppends
  <2> QED BY <2>4 DEF written, w
<1>12. \A b, k : FileHas(r.fs, b, k) <=> FileHas(f, b, k)
  BY <1>4, <1>5, <1>8 DEF SameStorage
<1>13. /\ SizeOf(r.fs, i) = SizeOf(f, i) + Len(m)
       /\ \A k \in Inumbers \ {i} : SizeOf(r.fs, k) = SizeOf(f, k)
  BY <1>4, <1>5, <1>6, <1>8 DEF SameStorage
<1> QED BY <1>4, <1>8, <1>9, <1>11, <1>12, <1>13 DEF SameStorage

\* The file of a box, opened and rewound, is at its beginning or the mutex is kept.
LEMMA RewoundIs ==
  ASSUME NEW f, FsInv(f), NEW n, NEW r, r = rewound_box(f, n), ~(r.ret < 0)
  PROVE  /\ FsInv(r.fs) /\ SameFiles(f, r.fs)
         /\ \/ r.fs.locked
            \/ /\ r.ret \in DOMAIN r.fs.open_file_table
               /\ FileHas(f, n, r.fs.open_file_table[r.ret].of_inumber)
               /\ r.fs.open_file_table[r.ret].of_offset = 0
<1> DEFINE opened == tfs_open(f, n, {"APPEND"})
           g == opened.fs
           h == opened.ret
           rewound == tfs_rewind_offset(g, h)
           w == rewound.fs
<1>1. r = IF h < 0 THEN opened ELSE [rewound EXCEPT !.ret = h]
  BY DEF rewound_box
<1>2. /\ FsInv(g) /\ SameFiles(f, g)
      /\ \/ h = -1
         \/ /\ h \in Nat /\ h \in DOMAIN g.open_file_table
            /\ FileHas(f, n, g.open_file_table[h].of_inumber)
  BY OpenToAppend, OpenKeepsInv
<1>3. h # -1
  <2>1. CASE h = -1
    <3>1. r = opened
      BY <1>1, <2>1
    <3>2. r.ret = -1
      BY <2>1, <3>1
    <3> QED BY <3>2
  <2> QED BY <2>1
<1>4. /\ h \in Nat /\ h \in DOMAIN g.open_file_table
      /\ FileHas(f, n, g.open_file_table[h].of_inumber)
  BY <1>2, <1>3
<1> HIDE DEF opened, g, h
<1>5. /\ FsInv(w) /\ SameFiles(g, w)
      /\ \/ w = [g EXCEPT !.locked = TRUE]
         \/ w.open_file_table = [g.open_file_table EXCEPT ![h] =
              [of_inumber |-> g.open_file_table[h].of_inumber, of_offset |-> 0]]
  BY <1>2, <1>4, RewindKeepsInv DEF IsOpen
<1>6. rewound = [fs |-> w, ret |-> rewound.ret, data |-> <<>>]
  BY <1>2, RewindingKeeps
<1> HIDE DEF rewound, w
<1>7. r.fs = w /\ r.ret = h
  <2>1. r = [rewound EXCEPT !.ret = h]
    BY <1>1, <1>4
  <2> QED BY <1>6, <2>1
<1>8. SameFiles(f, w)
  BY <1>2, <1>5 DEF SameFiles
<1>9. \/ w.locked
      \/ h \in DOMAIN w.open_file_table /\ w.open_file_table[h] =
           [of_inumber |-> g.open_file_table[h].of_inumber, of_offset |-> 0]
  <2>1. CASE w = [g EXCEPT !.locked = TRUE]
    BY <1>2, <2>1 DEF FsInv, FsType
  <2>2. CASE w.open_file_table = [g.open_file_table EXCEPT ![h] =
              [of_inumber |-> g.open_file_table[h].of_inumber, of_offset |-> 0]]
    BY <1>4, <2>2
  <2> QED BY <1>5, <2>1, <2>2
<1> QED BY <1>4, <1>5, <1>7, <1>8, <1>9

\* Where the messages after the first k begin in the file.
EndOf(p, k) == Len(FlattenSeq(SubSeq(p, 1, k)))

\* r is what reading message k + 1 of p returns, through handle h of file i.
ReadsNext(f, h, i, p, k, r) ==
  /\ FsInv(r.fs) /\ SameFiles(f, r.fs) /\ r.data = p[k + 1]
  /\ h \in DOMAIN r.fs.open_file_table
  /\ r.fs.open_file_table[h] = [of_inumber |-> i, of_offset |-> EndOf(p, k + 1)]

\* A replay that has read k messages of p reads message k + 1.
LEMMA NextIsRead ==
  ASSUME NEW f, FsInv(f), NEW n, NEW i, FileHas(f, n, i),
         NEW h \in DOMAIN f.open_file_table, f.open_file_table[h].of_inumber = i,
         NEW C, NEW p \in Seq(Seq(C)), ContentsOf(f, i) = FlattenSeq(p),
         NEW k \in 0 .. Len(p) - 1, f.open_file_table[h].of_offset = EndOf(p, k),
         NEW len, len = Len(p[k + 1]), NEW r, r = tfs_read(f, h, len)
  PROVE  ReadsNext(f, h, i, p, k, r)
<1> DEFINE off == EndOf(p, k)
           all == FlattenSeq(p)
<1>1. /\ off \in Nat /\ off + len <= Len(all) /\ EndOf(p, k + 1) = off + len
      /\ p[k + 1] = SubSeq(all, off + 1, off + len)
  BY FlattenHas DEF EndOf
<1>2. len \in Nat
  <2>1. k + 1 \in 1 .. Len(p)
    BY LenProperties
  <2>2. p[k + 1] \in Seq(C)
    BY <2>1, ElementOfSeq
  <2> QED BY <2>2, LenProperties
<1>3. Len(all) = SizeOf(f, i) /\ i \in Files(f)
  <2>1. SizeOf(f, i) \in Nat /\ i \in Files(f)
    BY FileIs
  <2> QED BY <2>1, ContentsLen DEF SizeOf
<1> HIDE DEF off, all
<1>4. f.open_file_table[h].of_offset = off /\ off <= SizeOf(f, i) /\ off + len <= SizeOf(f, i)
  <2>1. f.open_file_table[h].of_offset = off
    BY DEF off
  <2>2. off <= Len(all)
    <3>1. SizeOf(f, i) \in Nat
      BY FileIs
    <3> QED BY <1>1, <1>2, <1>3, <3>1
  <2> QED BY <1>1, <1>3, <2>1, <2>2
<1>5. InFile(f, h)
  BY <1>3, <1>4 DEF InFile, SizeOf
<1>6. Reads(f, h, i, off, len, tfs_read(f, h, len))
  <2>1. /\ FsInv(f) /\ h \in DOMAIN f.open_file_table /\ InFile(f, h)
        /\ i = f.open_file_table[h].of_inumber /\ off = f.open_file_table[h].of_offset
        /\ off + len <= SizeOf(f, i)
    BY <1>4, <1>5
  <2> QED BY ONLY <1>2, <2>1, ReadGets
<1>7. FsInv(r.fs)
  BY <1>2, ReadKeepsInv
<1>8. /\ r.data = SubSeq(all, off + 1, off + len) /\ SameFiles(f, r.fs)
      /\ h \in DOMAIN r.fs.open_file_table
      /\ r.fs.open_file_table[h] = [of_inumber |-> i, of_offset |-> off + len]
  BY <1>6 DEF Reads, all
<1> QED BY <1>1, <1>7, <1>8 DEF ReadsNext

-----------------------------------------------------------------------------
(* What every step does to the boxes and their files *)

\* Every file keeps to its block, and one whose name is not in the list is empty.
FilesTidy ==
  pc \notin Ended => \A n, i : FileHas(fs, n, i) =>
    SizeOf(fs, i) <= BLOCK_SIZE /\ (SizeOf(fs, i) > 0 => InList(n))

LengthsOf(p) == [j \in DOMAIN p |-> Len(p[j])]

\* Box b has in its file of f what is published for its name, and the sizes of it.
Stored(b, f, p) ==
  /\ \E i : FileHas(f, b.box_name, i) /\ ContentsOf(f, i) = FlattenSeq(p[b.box_name])
  /\ b.messages_size = LengthsOf(p[b.box_name])

AllStored == pc \notin Ended => \A k \in DOMAIN box_list : Stored(box_list[k], fs, published)

\* Neither files nor what was published change.
Unstirred ==
  /\ NamesKept /\ published' = published /\ SameStorage(fs, fs')
  /\ \A k \in DOMAIN box_list : box_list'[k].messages_size = box_list[k].messages_size

\* A message of client c that was not read is read.
Hears(c) == Unread(c) > 0 /\ taken' = [taken EXCEPT ![c] = @ + 1]

StorageKind ==
  /\ pc \notin Ended
  /\ \/ Unstirred
     \/ pc = "listening" /\ Hears(job.client) /\ \E i, m : Accepts(i, m)
     \/ UNCHANGED <<box_list, published>> /\ \E n \in Boxes : fs' = fs \/ Makes(n)
     \/ \E n \in Boxes : Creates(n)
     \/ /\ "remove" \in Commands /\ published' = published
        /\ \E i \in Nat, n \in Boxes : Removes(i, n)

\* A step that leaves all of it alone.
LEMMA NothingStirs ==
  ASSUME BoxesFit, UNCHANGED <<box_list, published>>, SameFiles(fs, fs')
  PROVE  Unstirred
<1>1. NamesKept /\ \A k \in DOMAIN box_list : box_list'[k].messages_size = box_list[k].messages_size
  BY DEF NamesKept, BoxesFit
<1>2. SameStorage(fs, fs')
  BY SameFilesStored
<1> QED BY <1>1, <1>2 DEF Unstirred

\* So does one that leaves the file system alone.
LEMMA NoFileStirs == ASSUME BoxesFit, UNCHANGED <<box_list, published, fs>> PROVE Unstirred
BY NothingStirs DEF SameFiles

\* A publisher comes or goes.
LEMMA PublisherStirsNothing ==
  ASSUME Sane, UNCHANGED <<fs, published>>, NEW i \in DOMAIN box_list,
         NEW p \in Publishers \cup {NoClient},
         box_list' = [box_list EXCEPT ![i].publisher_named_pipe = p]
  PROVE  Unstirred
<1>1. SameStorage(fs, fs')
  BY SameFilesStored DEF SameFiles
<1>2. NamesKept /\ \A k \in DOMAIN box_list : box_list'[k].messages_size = box_list[k].messages_size
  BY PublisherSet DEF Sane
<1> QED BY <1>1, <1>2 DEF Unstirred

\* A replay of box i reads the first of its messages through handle h of g, which is
\* at the beginning of the file, and the sizes of the others are to be done.
FirstRead(i, g, h, sizes) ==
  /\ FsInv(g) /\ SameFiles(fs, g) /\ h \in DOMAIN g.open_file_table
  /\ FileHas(fs, Boxed(i), g.open_file_table[h].of_inumber)
  /\ g.open_file_table[h].of_offset = 0
  /\ sizes = box_list[i].messages_size /\ sizes \in Seq(Nat) /\ sizes # <<>>
  /\ job'.client = Head(register_pipe).client /\ job'.life = Head(register_pipe).life
  /\ job'.box = Boxed(i) /\ job'.handle = h /\ job'.todo = Tail(sizes)
  /\ job'.data = tfs_read(g, h, Head(sizes)).data
  /\ fs' = tfs_read(g, h, Head(sizes)).fs

\* register_subscriber does so, if it goes on.
LEMMA FirstReadIs ==
  ASSUME Sane, register_pipe # <<>>, ReadsFirst, pc' \notin Ended
  PROVE  /\ SameFiles(fs, fs')
         /\ \E i \in DOMAIN box_list : \E g, h, sizes : FirstRead(i, g, h, sizes)
<1> DEFINE request == Head(register_pipe)
           rewound == rewound_box(fs, request.box)
           g == rewound.fs
           h == rewound.ret
<1>1. PICK i \in DOMAIN box_list :
        LET sizes == box_list[i].messages_size
            read == tfs_read(g, h, Head(sizes))
        IN  /\ Boxed(i) = request.box /\ sizes # <<>> /\ ~(h < 0)
            /\ job' = [Job(request) EXCEPT !.handle = h, !.todo = Tail(sizes), !.data = read.data]
            /\ fs' = IF g.locked THEN g ELSE read.fs
            /\ pc' = IF g.locked THEN "blocked" ELSE "replay open"
  BY DEF ReadsFirst
<1> DEFINE sizes == box_list[i].messages_size
           read == tfs_read(g, h, Head(sizes))
<1>2. ~g.locked /\ fs' = read.fs
  BY <1>1 DEF Ended
<1>3. FsInv(fs) /\ BoxesFit /\ request \in Requests
  BY RequestTaken DEF Sane
<1>4. Boxed(i) = request.box /\ sizes # <<>> /\ ~(h < 0)
  BY <1>1
<1>5. job' = [Job(request) EXCEPT !.handle = h, !.todo = Tail(sizes), !.data = read.data]
  BY <1>1
<1>6. sizes \in Seq(Nat)
  BY <1>3, BoxIs DEF BoxesFit, BoxRecords
<1> HIDE DEF request, sizes
<1>7. /\ FsInv(g) /\ SameFiles(fs, g) /\ h \in DOMAIN g.open_file_table
      /\ FileHas(fs, Boxed(i), g.open_file_table[h].of_inumber)
      /\ g.open_file_table[h].of_offset = 0
  BY <1>2, <1>3, <1>4, RewoundIs
<1> HIDE DEF rewound, g, h
<1>8. Head(sizes) \in Nat
  BY <1>4, <1>6
<1>9. SameFiles(g, read.fs)
  BY <1>7, <1>8, ReadKeepsInv
<1>10. SameFiles(fs, fs')
  BY <1>2, <1>7, <1>9 DEF SameFiles
<1>11. /\ job'.client = request.client /\ job'.life = request.life /\ job'.box = request.box
       /\ job'.handle = h /\ job'.todo = Tail(sizes) /\ job'.data = read.data
  <2> DEFINE j == Job(request)
             t == Tail(sizes)
             d == read.data
  <2>1. /\ JobTyped(j) /\ j.client = request.client /\ j.life = request.life
        /\ j.box = request.box
    BY <1>3, JobOf
  <2>2. job' = [j EXCEPT !.handle = h, !.todo = t, !.data = d]
    BY <1>5
  <2> HIDE DEF j, t, d
  <2>3. /\ job'.client = j.client /\ job'.life = j.life /\ job'.box = j.box
        /\ job'.handle = h /\ job'.todo = t /\ job'.data = d
    BY <2>1, <2>2 DEF JobTyped
  <2> QED BY <2>1, <2>3 DEF t, d
<1>12. /\ sizes = box_list[i].messages_size /\ job'.client = Head(register_pipe).client
       /\ job'.life = Head(register_pipe).life
  BY <1>11 DEF request, sizes
<1>13. FirstRead(i, g, h, sizes)
  BY <1>2, <1>4, <1>6, <1>7, <1>11, <1>12 DEF FirstRead
<1> QED BY <1>10, <1>13

\* A replay that goes on reads through its handle, if any message is left.
LEMMA ReplayGoesOn ==
  ASSUME Sane, ReplayWrite
  PROVE  /\ UNCHANGED <<box_list, published, register_pipe, lives>> /\ SameFiles(fs, fs')
         /\ pc' = "killed" \/ pipe' = [pipe EXCEPT ![job.client] = Append(@, job.data)]
         /\ \/ job.todo = <<>> /\ UNCHANGED <<job, fs>> /\ pc' \in {"watch open", "killed"}
            \/ /\ job.todo # <<>> /\ pc' \in {"replay open", "killed"}
               /\ job'.client = job.client /\ job'.life = job.life /\ job'.box = job.box
               /\ job'.handle = job.handle /\ job'.todo = Tail(job.todo)
               /\ job'.data = tfs_read(fs, job.handle, Head(job.todo)).data
               /\ fs' = tfs_read(fs, job.handle, Head(job.todo)).fs
<1> DEFINE next == IF job.todo = <<>> THEN "watch open" ELSE "replay open"
           read == tfs_read(fs, job.handle, Head(job.todo))
<1>1. /\ pc = "replay write" /\ WriteTo(job.client, job.data, next)
      /\ \/ job.todo = <<>> /\ UNCHANGED <<job, fs>>
         \/ /\ job.todo # <<>> /\ fs' = read.fs
            /\ job' = [job EXCEPT !.todo = Tail(job.todo), !.data = read.data]
  BY DEF ReplayWrite
<1>2. /\ UNCHANGED <<box_list, published, register_pipe, lives>>
      /\ pc' = "killed" \/ (pc' = next /\ pipe' = [pipe EXCEPT ![job.client] = Append(@, job.data)])
  <2> HIDE DEF next
  <2> QED BY <1>1 DEF WriteTo, Goto
<1>3. JobTyped(job) /\ job.todo \in Seq(Nat) /\ FsInv(fs)
  BY <1>1 DEF Sane, JobFits, Replaying
<1>4. CASE job.todo = <<>> /\ UNCHANGED <<job, fs>>
  BY <1>2, <1>4 DEF SameFiles
<1>5. CASE /\ job.todo # <<>> /\ fs' = read.fs
           /\ job' = [job EXCEPT !.todo = Tail(job.todo), !.data = read.data]
  <2>1. SameFiles(fs, fs')
    <3>1. Head(job.todo) \in Nat
      BY <1>3, <1>5
    <3> QED BY <1>3, <1>5, <3>1, ReadKeepsInv
  <2>2. /\ job'.client = job.client /\ job'.life = job.life /\ job'.box = job.box
        /\ job'.handle = job.handle /\ job'.todo = Tail(job.todo) /\ job'.data = read.data
    <3> DEFINE old == job
               t == Tail(job.todo)
               d == read.data
    <3>1. JobTyped(old) /\ job' = [old EXCEPT !.todo = t, !.data = d]
      BY <1>3, <1>5
    <3> HIDE DEF old, t, d
    <3>2. /\ job'.client = old.client /\ job'.life = old.life /\ job'.box = old.box
          /\ job'.handle = old.handle /\ job'.todo = t /\ job'.data = d
      BY <3>1 DEF JobTyped
    <3> QED BY <3>2 DEF old, t, d
  <2> HIDE DEF read
  <2>3. pc' \in {"replay open", "killed"}
    BY <1>2, <1>5
  <2> QED BY <1>2, <1>5, <2>1, <2>2, <2>3 DEF read
<1> QED BY <1>1, <1>4, <1>5

\* Every step after which the broker goes on is of one of the kinds.
LEMMA StorageKinds == ASSUME Sane, [Next]_vars, pc' \notin Ended PROVE StorageKind
<1>1. BoxesFit
  BY DEF Sane
<1>2. CASE register_box
  <2>1. /\ pc = "serving"
        /\ \/ UNCHANGED <<box_list, published>> /\ \E n \in Boxes : fs' = fs \/ Makes(n)
           \/ \E n \in Boxes : Creates(n)
    BY <1>2, RegisterBoxCases
  <2> QED BY <2>1 DEF StorageKind, Ended, Down
<1>3. CASE remove_box
  <2>1. /\ pc = "serving" /\ published' = published
        /\ pc' = "exited" \/ \E i \in Nat, n \in Boxes : Removes(i, n)
    BY <1>3, RemoveBoxCases
  <2>2. "remove" \in Commands
    <3>1. Head(register_pipe) \in Requests /\ Head(register_pipe).code = "remove"
      BY <1>3, Served DEF remove_box
    <3> QED BY <3>1 DEF Requests
  <2> QED BY <2>1, <2>2 DEF StorageKind, Ended, Down
<1>4. CASE list_boxes
  <2>1. pc = "serving" /\ UNCHANGED <<box_list, published, fs>>
    BY <1>4 DEF list_boxes, ServeNext, Serve
  <2> QED BY <1>1, <2>1, NoFileStirs DEF StorageKind, Ended, Down
<1>5. CASE register_publisher
  <2>1. /\ pc = "serving" /\ UNCHANGED <<fs, published>>
        /\ \/ pc' = "exited"
           \/ /\ job'.client \in Publishers
              /\ \E i \in DOMAIN box_list :
                   box_list' = [box_list EXCEPT ![i].publisher_named_pipe = job'.client]
    BY <1>5, RegisterPublisherCases
  <2>2. job'.client \in Publishers
    BY <2>1 DEF Ended, Down
  <2>3. PICK i \in DOMAIN box_list :
          box_list' = [box_list EXCEPT ![i].publisher_named_pipe = job'.client]
    BY <2>1 DEF Ended, Down
  <2> DEFINE p == job'.client
  <2>4. p \in Publishers \cup {NoClient} /\ box_list' = [box_list EXCEPT ![i].publisher_named_pipe = p]
    BY <2>2, <2>3
  <2> HIDE DEF p
  <2>5. Unstirred
    BY <2>1, <2>4, PublisherStirsNothing
  <2> QED BY <2>1, <2>5 DEF StorageKind, Ended, Down
<1>6. CASE register_subscriber
  <2>1. pc = "serving" /\ published' = published /\ Links /\ BeginsReplay
    BY <1>6, RegisterSubscriberCases DEF Ended, Down
  <2>2. SameFiles(fs, fs')
    BY <2>1, FirstReadIs DEF BeginsReplay
  <2>3. PICK i \in DOMAIN box_list, t \in Seq(Subscribers) :
          box_list' = [box_list EXCEPT ![i].subscribers = t]
    BY <2>1 DEF Links
  <2>4. NamesKept /\ \A k \in DOMAIN box_list : box_list'[k].messages_size = box_list[k].messages_size
    BY <1>1, <2>3, SubscribersSet
  <2>5. Unstirred
    BY <2>1, <2>2, <2>4, SameFilesStored DEF Unstirred
  <2> QED BY <2>1, <2>5 DEF StorageKind, Ended, Down
<1>7. CASE ServeUndefined
  BY <1>7 DEF ServeUndefined, Goto, Ended, Down
<1>8. CASE AnswerOpen \/ ListOpen \/ SpreadOpen \/ ReplayOpen \/ WatchOpen
  <2>1. pc \notin Ended /\ UNCHANGED <<box_list, published, fs>>
    BY <1>8 DEF AnswerOpen, ListOpen, SpreadOpen, ReplayOpen, WatchOpen, OpenToWrite, Ended, Down
  <2> QED BY <1>1, <2>1, NoFileStirs DEF StorageKind
<1>9. CASE AnswerWrite \/ ListWrite \/ SpreadWrite
  <2>1. pc \notin Ended /\ UNCHANGED <<box_list, published, fs>>
    BY <1>9 DEF AnswerWrite, ListWrite, SpreadWrite, WriteTo, Ended, Down
  <2> QED BY <1>1, <2>1, NoFileStirs DEF StorageKind
<1>10. CASE ReplayWrite
  <2>1. pc = "replay write" /\ UNCHANGED <<box_list, published>> /\ SameFiles(fs, fs')
    BY <1>10, ReplayGoesOn DEF ReplayWrite
  <2> QED BY <1>1, <2>1, NothingStirs DEF StorageKind, Ended, Down
<1>11. CASE PublisherOpen
  <2>1. pc \notin Ended /\ UNCHANGED <<box_list, published, fs>>
    BY <1>11 DEF PublisherOpen, Ended, Down
  <2> QED BY <1>1, <2>1, NoFileStirs DEF StorageKind
<1>12. CASE ListenMessage
  <2>1. pc = "listening" /\ (pc' = "exited" \/ \E i, m : Accepts(i, m))
    BY <1>12, ListenMessageCases
  <2>2. Hears(job.client)
    BY <1>12 DEF ListenMessage, Hears
  <2> QED BY <2>1, <2>2 DEF StorageKind, Ended, Down
<1>13. CASE ListenEnd
  <2>1. /\ pc = "listening" /\ UNCHANGED <<fs, published>>
        /\ \E i \in DOMAIN box_list :
              box_list' = [box_list EXCEPT ![i].publisher_named_pipe = NoClient]
    BY <1>13, ListenEndCases
  <2>2. Unstirred
    BY <2>1, PublisherStirsNothing
  <2> QED BY <2>1, <2>2 DEF StorageKind, Ended, Down
<1>14. CASE WatchEnd
  <2>1. pc \notin Ended /\ UNCHANGED <<box_list, published, fs>>
    BY <1>14 DEF WatchEnd, Ended, Down
  <2> QED BY <1>1, <2>1, NoFileStirs DEF StorageKind
<1>15. CASE (BesideBroker /\ ClientStep) \/ UNCHANGED vars
  <2>1. pc \notin Ended /\ UNCHANGED <<box_list, published, fs>>
    BY <1>15 DEF BesideBroker, vars, brokerVars
  <2> QED BY <1>1, <2>1, NoFileStirs DEF StorageKind
<1> QED BY <1>2, <1>3, <1>4, <1>5, <1>6, <1>7, <1>8, <1>9, <1>10, <1>11, <1>12, <1>13, <1>14, <1>15
     DEF Next, Broker

-----------------------------------------------------------------------------
(* Every box keeps its messages *)

\* A box that keeps its name and sizes and finds its messages where they were.
LEMMA StaysStored ==
  ASSUME NEW b, NEW c, NEW f, NEW g, NEW p, NEW q, Stored(b, f, p),
         c.box_name = b.box_name, c.messages_size = b.messages_size,
         q[b.box_name] = p[b.box_name],
         \A i : FileHas(f, b.box_name, i) =>
                  FileHas(g, b.box_name, i) /\ ContentsOf(g, i) = ContentsOf(f, i)
  PROVE  Stored(c, g, q)
BY DEF Stored

\* What is known of a file that is tidy.
LEMMA TidyIs ==
  ASSUME Sane, FilesTidy, pc \notin Ended, NEW n, NEW i, FileHas(fs, n, i)
  PROVE  /\ SizeOf(fs, i) \in Nat /\ SizeOf(fs, i) <= BLOCK_SIZE
         /\ ~InList(n) => ContentsOf(fs, i) = <<>>
<1>1. SizeOf(fs, i) <= BLOCK_SIZE /\ (SizeOf(fs, i) > 0 => InList(n))
  BY DEF FilesTidy
<1>2. SizeOf(fs, i) \in Nat
  BY FileIs DEF Sane
<1>3. ~InList(n) => SizeOf(fs, i) = 0
  BY <1>1, <1>2
<1> QED BY <1>1, <1>2, <1>3, NoContents DEF SizeOf

\* The sizes of the messages, with one more.
LEMMA OneLengthMore ==
  ASSUME NEW p \in Seq(Messages), NEW m \in Messages
  PROVE  Append(LengthsOf(p), Len(m)) = LengthsOf(Append(p, m))
<1> DEFINE q == Append(p, m)
           lp == LengthsOf(p)
           lq == LengthsOf(q)
           t == Append(lp, Len(m))
<1>1. /\ q \in Seq(Messages) /\ Len(p) \in Nat /\ Len(q) = Len(p) + 1
      /\ (\A k \in 1 .. Len(p) : q[k] = p[k]) /\ q[Len(p) + 1] = m
  BY AppendIs
<1>2. DOMAIN p = 1 .. Len(p) /\ DOMAIN q = 1 .. Len(p) + 1
  BY <1>1, LenProperties
<1>3. Len(m) \in Nat /\ \A k \in 1 .. Len(p) : Len(p[k]) \in Nat
  BY MessagesAreSeqs, LenProperties, ElementOfSeq
<1>4. lp \in Seq(Nat) /\ Len(lp) = Len(p) /\ \A k \in 1 .. Len(p) : lp[k] = Len(p[k])
  BY <1>1, <1>2, <1>3 DEF LengthsOf
<1>5. lq = [k \in 1 .. Len(p) + 1 |-> Len(q[k])]
  BY <1>2 DEF LengthsOf
<1> HIDE DEF q, lp, lq
<1>6. /\ t \in Seq(Nat) /\ Len(t) = Len(p) + 1
      /\ (\A k \in 1 .. Len(p) : t[k] = lp[k]) /\ t[Len(p) + 1] = Len(m)
  BY <1>3, <1>4, AppendIs
<1> HIDE DEF t
<1>7. t = [k \in 1 .. Len(p) + 1 |-> t[k]]
  BY <1>6
<1>8. \A k \in 1 .. Len(p) + 1 : t[k] = lq[k]
  <2>1. ASSUME NEW k \in 1 .. Len(p) PROVE t[k] = lq[k]
    BY <1>1, <1>4, <1>5, <1>6, <2>1
  <2>2. t[Len(p) + 1] = lq[Len(p) + 1]
    BY <1>1, <1>5, <1>6
  <2>3. \A k \in 1 .. Len(p) + 1 : k \in 1 .. Len(p) \/ k = Len(p) + 1
    BY <1>1
  <2> QED BY <2>1, <2>2, <2>3
<1>9. t = lq
  BY <1>5, <1>7, <1>8
<1> QED BY <1>9 DEF t, lq, lp, q

\* A message is accepted.
LEMMA AcceptStored ==
  ASSUME Sane, Sane', FilesTidy, FilesTidy', AllStored, pc \notin Ended, pc' \notin Ended,
         pc = "listening", NEW i, NEW m, Accepts(i, m)
  PROVE  AllStored'
<1> DEFINE n == job.box
           r == write_to_box(fs, n, m)
<1>1. /\ i \in DOMAIN box_list /\ box_list[i].box_name = n /\ m \in Messages /\ Len(m) \in Nat
      /\ box_list' = [box_list EXCEPT ![i].messages_size = Append(@, Len(m))]
      /\ published' = [published EXCEPT ![n] = Append(@, m)]
      /\ fs' = r.fs /\ r.ret >= 0
  BY DEF Accepts, Stores, Boxed
<1>2. /\ FsInv(fs) /\ BoxesFit /\ n \in DOMAIN published /\ published[n] \in Seq(Messages)
      /\ \A k \in DOMAIN box_list : Stored(box_list[k], fs, published)
  BY <1>1 DEF Sane, BoxesFit, AllStored, Boxed
<1> HIDE DEF n
<1>3. PICK e : FileHas(fs, n, e) /\ ContentsOf(fs, e) = FlattenSeq(published[n])
  BY <1>1, <1>2 DEF Stored
<1>4. m \in Seq(Symbols) /\ published[n] \in Seq(Seq(Symbols))
  BY <1>1, <1>2, MessagesAreSeqs
<1>5. /\ ContentsOf(fs, e) \in Seq(Symbols)
      /\ FlattenSeq(Append(published[n], m)) = ContentsOf(fs, e) \o m
  BY <1>3, <1>4, FlattenOneMore
<1>6. SizeOf(fs, e) <= BLOCK_SIZE
  BY <1>3, TidyIs
<1>7. /\ \A b, k : FileHas(fs', b, k) <=> FileHas(fs, b, k)
      /\ SizeOf(fs', e) <= BLOCK_SIZE =>
           /\ ContentsOf(fs', e) = ContentsOf(fs, e) \o m
           /\ \A k \in Files(fs) \ {e} :
                SizeOf(fs, k) <= BLOCK_SIZE => ContentsOf(fs', k) = ContentsOf(fs, k)
  <2>1. /\ \A b, k : FileHas(r.fs, b, k) <=> FileHas(fs, b, k)
        /\ SizeOf(r.fs, e) <= BLOCK_SIZE =>
             /\ ContentsOf(r.fs, e) = ContentsOf(fs, e) \o m
             /\ \A k \in Files(fs) \ {e} :
                  SizeOf(fs, k) <= BLOCK_SIZE => ContentsOf(r.fs, k) = ContentsOf(fs, k)
    <3> HIDE DEF r
    <3>1. r = write_to_box(fs, n, m)
      BY DEF r
    <3> QED BY ONLY <1>1, <1>2, <1>3, <1>4, <1>5, <1>6, <3>1, PublicationAppends
  <2> QED BY <1>1, <2>1
<1>8. SizeOf(fs', e) <= BLOCK_SIZE
  <2>1. PICK b : b = n
    OBVIOUS
  <2>2. FileHas(fs', b, e)
    BY <1>3, <1>7, <2>1
  <2> QED BY <2>2 DEF FilesTidy
<1> HIDE DEF r
<1>9. /\ NamesKept /\ box_list'[i].messages_size = Append(box_list[i].messages_size, Len(m))
      /\ \A k \in DOMAIN box_list \ {i} : box_list'[k].messages_size = box_list[k].messages_size
  BY <1>1, <1>2, SizeAdded
<1>10. published'[n] = Append(published[n], m)
  BY <1>1, <1>2
<1>11. Stored(box_list'[i], fs', published')
  <2>1. ContentsOf(fs', e) = FlattenSeq(published'[n]) /\ FileHas(fs', n, e)
    BY <1>3, <1>5, <1>7, <1>8, <1>10
  <2>2. box_list'[i].box_name = n
    BY <1>1, <1>9 DEF NamesKept
  <2>3. box_list[i].messages_size = LengthsOf(published[n])
    BY <1>1, <1>2 DEF Stored
  <2>4. Append(LengthsOf(published[n]), Len(m)) = LengthsOf(Append(published[n], m))
    BY <1>1, <1>2, OneLengthMore
  <2> QED BY <1>9, <1>10, <2>1, <2>2, <2>3, <2>4 DEF Stored
<1>12. ASSUME NEW k \in DOMAIN box_list, k # i PROVE Stored(box_list'[k], fs', published')
  <2> DEFINE b == box_list[k]
             c == box_list'[k]
  <2>1. b.box_name # n
    BY <1>1, <1>2, <1>12 DEF BoxesFit, Boxed
  <2>2. c.box_name = b.box_name /\ c.messages_size = b.messages_size
    BY <1>9, <1>12 DEF NamesKept
  <2>3. Stored(b, fs, published)
    BY <1>2
  <2>4. published'[b.box_name] = published[b.box_name]
    BY <1>1, <1>2, <2>1 DEF BoxesFit
  <2>5. ASSUME NEW j, FileHas(fs, b.box_name, j)
        PROVE  FileHas(fs', b.box_name, j) /\ ContentsOf(fs', j) = ContentsOf(fs, j)
    <3>1. j # e /\ j \in Files(fs)
      BY <1>2, <1>3, <2>1, <2>5, FileIs
    <3>2. SizeOf(fs, j) <= BLOCK_SIZE
      BY <2>5, TidyIs
    <3> QED BY <1>7, <1>8, <2>5, <3>1, <3>2
  <2> HIDE DEF b, c
  <2>6. Stored(c, fs', published')
    BY <2>2, <2>3, <2>4, <2>5, StaysStored
  <2> QED BY <2>6 DEF c
<1>13. DOMAIN box_list' = DOMAIN box_list
  BY <1>9 DEF NamesKept
<1> QED BY <1>11, <1>12, <1>13 DEF AllStored

\* A file is made, if there was none, and no box is told of it.
LEMMA MadeStored ==
  ASSUME Sane, NEW n \in Boxes, fs' = fs \/ Makes(n), NEW b, NEW c, NEW p,
         Stored(b, fs, p), c.box_name = b.box_name, c.messages_size = b.messages_size
  PROVE  Stored(c, fs', p)
<1> DEFINE g == tfs_open(fs, n, {"CREAT"}).fs
<1>1. fs' = fs \/ fs' = g
  BY DEF Makes
<1>2. FsInv(fs)
  BY DEF Sane
<1>3. \A m, k : FileHas(fs, m, k) => FileHas(g, m, k) /\ ContentsOf(g, k) = ContentsOf(fs, k)
  BY <1>2, CreateKeepsContents
<1> HIDE DEF g
<1>4. \A m, k : FileHas(fs, m, k) => FileHas(fs', m, k) /\ ContentsOf(fs', k) = ContentsOf(fs, k)
  BY <1>1, <1>3
<1> QED BY <1>4, StaysStored

\* A box is created: its file is a new one, or one without contents.
LEMMA CreationStored ==
  ASSUME Sane, FilesTidy, AllStored, pc \notin Ended, NEW n \in Boxes, Creates(n)
  PROVE  AllStored'
<1> DEFINE g == tfs_open(fs, n, {"CREAT"}).fs
<1>1. BoxesFit /\ FsInv(fs) /\ \A k \in DOMAIN box_list : Stored(box_list[k], fs, published)
  BY DEF Sane, AllStored
<1>2. /\ DOMAIN box_list' = 1 .. Len(box_list) + 1 /\ Len(box_list) \in Nat
      /\ DOMAIN box_list = 1 .. Len(box_list)
      /\ \A k \in DOMAIN box_list : box_list'[k] = box_list[k]
      /\ box_list'[Len(box_list) + 1] = NewBox(n)
  BY <1>1, CreatesKeeps
<1>3. /\ ~InList(n) /\ Makes(n) /\ tfs_open(fs, n, {"CREAT"}).ret # -1 /\ fs' = g
      /\ published' = [b \in DOMAIN published \cup {n} |-> IF b = n THEN <<>> ELSE published[b]]
  BY DEF Creates, InList, MakesAndOpens, Makes
<1>4. PICK e : FileHas(fs', n, e)
  BY <1>1, <1>3, CreateKeepsContents
<1>5. ContentsOf(fs', e) = <<>>
  <2>1. /\ \A m, k : FileHas(g, m, k) => FileHas(fs, m, k) \/ (m = n /\ ContentsOf(g, k) = <<>>)
        /\ \A m, k : FileHas(fs, m, k) => ContentsOf(g, k) = ContentsOf(fs, k)
    BY <1>1, CreateKeepsContents
  <2>2. FileHas(fs, n, e) => ContentsOf(fs, e) = <<>>
    BY <1>3, TidyIs
  <2> HIDE DEF g
  <2> QED BY <1>3, <1>4, <2>1, <2>2
<1>6. Stored(NewBox(n), fs', published')
  <2>1. published'[n] = <<>>
    BY <1>3
  <2>2. LengthsOf(<<>>) = <<>>
    BY DEF LengthsOf
  <2>3. NewBox(n).box_name = n /\ NewBox(n).messages_size = <<>>
    BY DEF NewBox
  <2> HIDE DEF g
  <2> QED BY <1>4, <1>5, <2>1, <2>2, <2>3, FlattenNone DEF Stored
<1>7. ASSUME NEW k \in DOMAIN box_list PROVE Stored(box_list'[k], fs', published')
  <2> DEFINE b == box_list[k]
  <2>1. Stored(b, fs, published) /\ Boxed(k) # n /\ b.box_name \in DOMAIN published
    BY <1>1, <1>3 DEF InList, BoxesFit, Boxed
  <2>2. published'[b.box_name] = published[b.box_name]
    BY <1>3, <2>1 DEF Boxed
  <2>3. Stored(b, fs, published')
    BY <2>1, <2>2 DEF Stored
  <2>4. box_list'[k] = b
    BY <1>2
  <2> HIDE DEF b
  <2> QED BY <1>3, <2>3, <2>4, MadeStored
<1>8. \A k \in DOMAIN box_list' : k \in DOMAIN box_list \/ k = Len(box_list) + 1
  BY <1>2
<1> QED BY <1>2, <1>6, <1>7, <1>8 DEF AllStored

\* A box is removed: the others keep their files.
LEMMA RemovalStored ==
  ASSUME Sane, AllStored, pc \notin Ended, published' = published,
         NEW i \in Nat, NEW n \in Boxes, Removes(i, n)
  PROVE  AllStored'
<1>1. BoxesFit /\ FsInv(fs) /\ \A k \in DOMAIN box_list : Stored(box_list[k], fs, published)
  BY DEF Sane, AllStored
<1>2. TakesOut(i) /\ i \in DOMAIN box_list /\ Boxed(i) = n /\ (fs' = fs \/ Unlinks(n))
  BY DEF Removes, TakesOut
<1>3. /\ DOMAIN box_list' = 1 .. Len(box_list) - 1 /\ Len(box_list) \in Nat
      /\ \A k \in DOMAIN box_list' :
           /\ k \in DOMAIN box_list /\ k + 1 \in DOMAIN box_list
           /\ k < i => SameBox(box_list'[k], box_list[k])
           /\ k >= i => SameBox(box_list'[k], box_list[k + 1])
  BY <1>1, <1>2, WasAt
<1>4. \A m, k : FileHas(fs, m, k) /\ m # n =>
        FileHas(fs', m, k) /\ ContentsOf(fs', k) = ContentsOf(fs, k)
  BY <1>1, <1>2, UnlinkKeepsContents DEF Unlinks
<1>5. ASSUME NEW k \in DOMAIN box_list' PROVE Stored(box_list'[k], fs', published)
  <2>1. PICK j \in DOMAIN box_list : j # i /\ SameBox(box_list'[k], box_list[j])
    <3>1. CASE k < i
      BY <1>3, <3>1
    <3>2. CASE k >= i
      <4>1. k + 1 \in DOMAIN box_list /\ SameBox(box_list'[k], box_list[k + 1]) /\ k + 1 # i
        BY <1>3, <3>2
      <4> QED BY <4>1
    <3>3. k \in Nat
      BY <1>3
    <3> QED BY <3>1, <3>2, <3>3
  <2> DEFINE b == box_list[j]
             c == box_list'[k]
  <2>2. Stored(b, fs, published) /\ b.box_name # n
    BY <1>1, <1>2, <2>1 DEF BoxesFit, Boxed
  <2>3. c.box_name = b.box_name /\ c.messages_size = b.messages_size
    BY <2>1 DEF SameBox
  <2> HIDE DEF b, c
  <2>4. \A k2 : FileHas(fs, b.box_name, k2) =>
          FileHas(fs', b.box_name, k2) /\ ContentsOf(fs', k2) = ContentsOf(fs, k2)
    BY <1>4, <2>2
  <2>5. Stored(c, fs', published)
    BY <2>2, <2>3, <2>4, StaysStored
  <2> QED BY <2>5 DEF c
<1> QED BY <1>5 DEF AllStored

\* Every step keeps every box with its messages.
LEMMA StoredKept ==
  Sane /\ Sane' /\ FilesTidy /\ FilesTidy' /\ AllStored /\ [Next]_vars => AllStored'
<1> SUFFICES ASSUME Sane, Sane', FilesTidy, FilesTidy', AllStored, [Next]_vars, pc' \notin Ended
             PROVE  AllStored'
  BY DEF AllStored
<1>1. StorageKind
  BY StorageKinds
<1>2. /\ pc \notin Ended /\ BoxesFit
      /\ \A k \in DOMAIN box_list : Stored(box_list[k], fs, published)
  BY <1>1 DEF StorageKind, Sane, AllStored
<1>3. CASE Unstirred
  <2>1. /\ NamesKept /\ published' = published /\ SameStorage(fs, fs')
        /\ \A k \in DOMAIN box_list : box_list'[k].messages_size = box_list[k].messages_size
    BY <1>3 DEF Unstirred
  <2>2. ASSUME NEW k \in DOMAIN box_list PROVE Stored(box_list'[k], fs', published)
    <3> DEFINE b == box_list[k]
               c == box_list'[k]
    <3>1. Stored(b, fs, published) /\ c.box_name = b.box_name /\ c.messages_size = b.messages_size
      BY <1>2, <2>1 DEF NamesKept
    <3> HIDE DEF b, c
    <3>2. Stored(c, fs', published)
      BY <2>1, <3>1, StaysStored DEF SameStorage
    <3> QED BY <3>2 DEF c
  <2> QED BY <2>1, <2>2 DEF AllStored, NamesKept
<1>4. CASE pc = "listening" /\ Hears(job.client) /\ \E i, m : Accepts(i, m)
  BY <1>2, <1>4, AcceptStored
<1>5. CASE UNCHANGED <<box_list, published>> /\ \E n \in Boxes : fs' = fs \/ Makes(n)
  <2>1. PICK n \in Boxes : fs' = fs \/ Makes(n)
    BY <1>5
  <2>2. ASSUME NEW k \in DOMAIN box_list PROVE Stored(box_list[k], fs', published)
    <3>1. Stored(box_list[k], fs, published)
      BY <1>2
    <3> QED BY <2>1, <3>1, MadeStored
  <2> QED BY <1>5, <2>2 DEF AllStored
<1>6. CASE \E n \in Boxes : Creates(n)
  BY <1>2, <1>6, CreationStored
<1>7. CASE /\ "remove" \in Commands /\ published' = published
           /\ \E i \in Nat, n \in Boxes : Removes(i, n)
  BY <1>2, <1>7, RemovalStored
<1> QED BY <1>1, <1>3, <1>4, <1>5, <1>6, <1>7 DEF StorageKind

\* There is no box at first.
LEMMA StoredStart == Init => AllStored
BY DEF Init, AllStored

\* The file of a box that is stored has what was published.
LEMMA StoredAgree == Sane /\ AllStored => BoxFileAgree
<1> SUFFICES ASSUME Sane, AllStored, pc \notin Ended, NEW i \in DOMAIN box_list
             PROVE  /\ CellsOf(Boxed(i)) = FlattenSeq(published[Boxed(i)])
                    /\ box_list[i].messages_size = LengthsOf(published[Boxed(i)])
  BY DEF BoxFileAgree, LengthsOf
<1> DEFINE n == Boxed(i)
<1>1. Stored(box_list[i], fs, published) /\ FsInv(fs)
  BY DEF AllStored, Sane
<1>2. /\ \E e : FileHas(fs, n, e) /\ ContentsOf(fs, e) = FlattenSeq(published[n])
      /\ box_list[i].messages_size = LengthsOf(published[n])
  BY <1>1 DEF Stored, Boxed
<1> HIDE DEF n
<1>3. PICK e : FileHas(fs, n, e) /\ ContentsOf(fs, e) = FlattenSeq(published[n])
  BY <1>2
<1>4. find_in_dir(fs.dir, n) = e
  BY <1>1, <1>3, FileIs
<1>5. CellsOf(n) = ContentsOf(fs, e)
  BY <1>4 DEF CellsOf, FileOf, ContentsOf
<1> QED BY <1>2, <1>3, <1>5 DEF n

\* BoxFileAgree: while every file keeps to its block and none that is not of a listed
\* box has contents, the file of each box is what was published to it, end to end, and
\* messages_size has the sizes, whatever publication, creation or removal failed.
THEOREM FilesAgree == Behaviour /\ []FilesTidy => []BoxFileAgree
<1>1. Behaviour => []Sane
  BY AlwaysSane
<1> QED BY <1>1, StoredStart, StoredKept, StoredAgree, PTL DEF Behaviour

-----------------------------------------------------------------------------
(* What a replay has sent *)

\* q ends with the first k messages of p.
EndsWith(q, p, k) == Len(q) >= k /\ \A l \in 1 .. k : q[Len(q) - k + l] = p[l]

\* One more message.
LEMMA EndsWithNext ==
  ASSUME NEW q, IsSeq(q), NEW p, NEW k \in Nat, EndsWith(q, p, k), NEW x, x = p[k + 1]
  PROVE  EndsWith(Append(q, x), p, k + 1)
<1> DEFINE t == Append(q, x)
<1>1. /\ Len(q) \in Nat /\ Len(t) = Len(q) + 1
      /\ (\A l \in 1 .. Len(q) : t[l] = q[l]) /\ t[Len(q) + 1] = x
  BY AppendIsSeq
<1> HIDE DEF t
<1>2. Len(q) >= k /\ \A l \in 1 .. k : q[Len(q) - k + l] = p[l]
  BY DEF EndsWith
<1>3. ASSUME NEW l \in 1 .. k PROVE t[Len(t) - (k + 1) + l] = p[l]
  <2>1. Len(t) - (k + 1) + l = Len(q) - k + l /\ Len(q) - k + l \in 1 .. Len(q)
    BY <1>1, <1>2
  <2>2. t[Len(q) - k + l] = q[Len(q) - k + l]
    BY <1>1, <2>1
  <2>3. q[Len(q) - k + l] = p[l]
    BY <1>2
  <2> QED BY <2>1, <2>2, <2>3
<1>4. t[Len(t) - (k + 1) + (k + 1)] = p[k + 1]
  <2>1. Len(t) - (k + 1) + (k + 1) = Len(q) + 1
    BY <1>1
  <2> QED BY <1>1, <2>1
<1>5. \A l \in 1 .. k + 1 : l \in 1 .. k \/ l = k + 1
  OBVIOUS
<1>6. \A l \in 1 .. k + 1 : t[Len(t) - (k + 1) + l] = p[l]
  BY <1>3, <1>4, <1>5
<1>7. Len(t) >= k + 1
  BY <1>1, <1>2
<1> QED BY <1>6, <1>7 DEF EndsWith, t

\* What ends with all messages of p has p as its suffix.
LEMMA EndIsSuffix ==
  ASSUME NEW P, NEW p \in Seq(P), NEW q, IsSeq(q), EndsWith(q, p, Len(p))
  PROVE  IsSuffix(p, q)
<1> DEFINE Q == {q[i] : i \in DOMAIN q}
           S == P \cup Q
           rp == Reverse(p)
           rq == Reverse(q)
           m == Len(p)
           n == Len(q)
<1>1. p \in Seq(S) /\ q \in Seq(S)
  <2>1. P \subseteq S /\ Q \subseteq S /\ q \in Seq(Q)
    BY DEF IsSeq
  <2> HIDE DEF Q, S
  <2> QED BY <2>1
<1> HIDE DEF Q, S
<1>2. /\ m \in Nat /\ n \in Nat /\ m <= n
      /\ \A l \in 1 .. m : q[n - m + l] = p[l]
  BY <1>1, LenProperties DEF EndsWith
<1>3. rp = [i \in 1 .. m |-> p[(m - i) + 1]] /\ rq = [i \in 1 .. n |-> q[(n - i) + 1]]
  BY DEF Reverse
<1> HIDE DEF m, n
<1>4. /\ rp \in Seq(S) /\ Len(rp) = m /\ \A i \in 1 .. m : rp[i] = p[(m - i) + 1]
      /\ rq \in Seq(S) /\ Len(rq) = n /\ \A i \in 1 .. n : rq[i] = q[(n - i) + 1]
  <2>1. /\ \A i \in 1 .. m : p[(m - i) + 1] \in S
        /\ \A i \in 1 .. n : q[(n - i) + 1] \in S
    <3>1. ASSUME NEW i \in 1 .. m PROVE p[(m - i) + 1] \in S
      <4>1. (m - i) + 1 \in 1 .. m
        BY <1>2
      <4> QED BY <1>1, <4>1, ElementOfSeq DEF m
    <3>2. ASSUME NEW i \in 1 .. n PROVE q[(n - i) + 1] \in S
      <4>1. (n - i) + 1 \in 1 .. n
        BY <1>2
      <4> QED BY <1>1, <4>1, ElementOfSeq DEF n
    <3> QED BY <3>1, <3>2
  <2> HIDE DEF rp, rq
  <2> QED BY <1>2, <1>3, <2>1
<1> HIDE DEF rp, rq
<1> DEFINE u == SubSeq(rp, 1, m)
           v == SubSeq(rq, 1, m)
<1>5. /\ u \in Seq(S) /\ Len(u) = m /\ \A i \in 1 .. m : u[i] = rp[i]
      /\ v \in Seq(S) /\ Len(v) = m /\ \A i \in 1 .. m : v[i] = rq[i]
  <2>1. m \in 0 .. Len(rp) /\ m \in 0 .. Len(rq)
    BY <1>2, <1>4
  <2> QED BY <1>4, <2>1, FirstOnes
<1> HIDE DEF u, v
<1>6. \A i \in 1 .. m : rp[i] = rq[i]
  <2>1. ASSUME NEW i \in 1 .. m PROVE rp[i] = rq[i]
    <3>1. (m - i) + 1 \in 1 .. m /\ i \in 1 .. n /\ n - m + ((m - i) + 1) = (n - i) + 1
      BY <1>2
    <3>2. q[n - m + ((m - i) + 1)] = p[(m - i) + 1]
      BY <1>2, <3>1
    <3>3. q[(n - i) + 1] = p[(m - i) + 1]
      BY <3>1, <3>2
    <3> QED BY <1>4, <3>1, <3>3
  <2> QED BY <2>1
<1>7. u = v
  <2>1. \A i \in 1 .. Len(u) : u[i] = v[i]
    BY <1>5, <1>6
  <2> QED BY <1>5, <2>1, SeqEqual
<1>8. IsPrefix(rp, rq)
  BY <1>2, <1>4, <1>7 DEF IsPrefix, u, v
<1> QED BY <1>8 DEF IsSuffix, rp, rq

\* Job j has sent the first k messages of p and read the next, through its handle of
\* the file of its box in f; the sizes of the others are to be done.
Between(j, f, p, k) ==
  /\ k \in 0 .. Len(p) - 1 /\ j.data = p[k + 1]
  /\ j.todo \in Seq(Nat) /\ Len(p) = k + 1 + Len(j.todo)
  /\ \A l \in 1 .. Len(j.todo) : j.todo[l] = Len(p[k + 1 + l])
  /\ j.handle \in DOMAIN f.open_file_table
  /\ FileHas(f, j.box, f.open_file_table[j.handle].of_inumber)
  /\ f.open_file_table[j.handle].of_offset = EndOf(p, k + 1)

\* Handle h of file i of f, of name n, is behind the first k messages of p, and sizes
\* has the lengths of the others.
AtMessage(f, n, i, h, p, k, sizes) ==
  /\ FsInv(f) /\ FileHas(f, n, i) /\ ContentsOf(f, i) = FlattenSeq(p)
  /\ h \in DOMAIN f.open_file_table /\ f.open_file_table[h].of_inumber = i
  /\ f.open_file_table[h].of_offset = EndOf(p, k)
  /\ Len(p) = k + Len(sizes) /\ \A l \in 1 .. Len(sizes) : sizes[l] = Len(p[k + l])

\* A read comes there.
LEMMA ReadOne ==
  ASSUME NEW f, NEW n, NEW i, NEW h, NEW p \in Seq(Messages), NEW k \in Nat,
         NEW sizes \in Seq(Nat), sizes # <<>>, AtMessage(f, n, i, h, p, k, sizes),
         NEW r, r = tfs_read(f, h, Head(sizes)),
         NEW j, j.data = r.data, j.todo = Tail(sizes), j.handle = h, j.box = n
  PROVE  Between(j, r.fs, p, k)
<1> DEFINE t == Tail(sizes)
           a == Head(sizes)
<1>0. /\ FsInv(f) /\ FileHas(f, n, i) /\ ContentsOf(f, i) = FlattenSeq(p)
      /\ h \in DOMAIN f.open_file_table /\ f.open_file_table[h].of_inumber = i
      /\ f.open_file_table[h].of_offset = EndOf(p, k)
      /\ Len(p) = k + Len(sizes) /\ \A l \in 1 .. Len(sizes) : sizes[l] = Len(p[k + l])
  BY DEF AtMessage
<1>1. /\ Len(sizes) \in Nat \ {0} /\ t \in Seq(Nat) /\ Len(t) = Len(sizes) - 1 /\ a = sizes[1]
      /\ \A l \in 1 .. Len(t) : t[l] = sizes[l + 1]
  BY EmptySeq, LenProperties, HeadTailProperties
<1>2. j.todo = t /\ r = tfs_read(f, h, a)
  OBVIOUS
<1> HIDE DEF t, a
<1>3. k \in 0 .. Len(p) - 1 /\ a = Len(p[k + 1]) /\ Len(p) = k + 1 + Len(t)
  <2>1. Len(p) = k + Len(sizes) /\ 1 \in 1 .. Len(sizes)
    BY <1>0, <1>1
  <2>2. sizes[1] = Len(p[k + 1])
    BY <1>0, <2>1
  <2>3. Len(sizes) \in Nat \ {0} /\ Len(t) = Len(sizes) - 1 /\ a = sizes[1]
    BY <1>1
  <2> QED BY ONLY k \in Nat, <2>1, <2>2, <2>3
<1>4. PICK C : p \in Seq(Seq(C))
  BY MessagesAreSeqs
<1>4a. ReadsNext(f, h, i, p, k, r)
  <2>1. FsInv(f) /\ FileHas(f, n, i) /\ f.open_file_table[h].of_inumber = i
    BY <1>0
  <2>2. ContentsOf(f, i) = FlattenSeq(p) /\ f.open_file_table[h].of_offset = EndOf(p, k)
    BY <1>0
  <2>3. k \in 0 .. Len(p) - 1
    BY <1>3
  <2>4. a = Len(p[k + 1])
    BY <1>3
  <2>5. r = tfs_read(f, h, a)
    BY <1>2
  <2>6. h \in DOMAIN f.open_file_table
    BY <1>0
  <2> QED BY ONLY <1>4, <2>1, <2>2, <2>3, <2>4, <2>5, <2>6, NextIsRead
<1>5. /\ FsInv(r.fs) /\ SameFiles(f, r.fs) /\ r.data = p[k + 1]
      /\ h \in DOMAIN r.fs.open_file_table
      /\ r.fs.open_file_table[h] = [of_inumber |-> i, of_offset |-> EndOf(p, k + 1)]
  BY <1>4a DEF ReadsNext
<1>6. FileHas(r.fs, n, i)
  <2>1. SameStorage(f, r.fs)
    BY <1>5, SameFilesStored
  <2> QED BY ONLY <1>0, <2>1 DEF SameStorage
<1>7. \A l \in 1 .. Len(t) : t[l] = Len(p[k + 1 + l])
  <2>1. ASSUME NEW l \in 1 .. Len(t) PROVE t[l] = Len(p[k + 1 + l])
    <3>1. l + 1 \in 1 .. Len(sizes) /\ k + (l + 1) = k + 1 + l
      <4>1. Len(sizes) \in Nat \ {0} /\ Len(t) = Len(sizes) - 1
        BY <1>1
      <4> QED BY ONLY <4>1, k \in Nat, l \in 1 .. Len(t)
    <3>2. sizes[l + 1] = Len(p[k + (l + 1)])
      BY <1>0, <3>1
    <3> QED BY <1>1, <3>1, <3>2
  <2> QED BY <2>1
<1>8. j.handle = h /\ j.box = n /\ j.data = r.data /\ j.todo = t
  BY <1>2
<1>9. /\ j.todo \in Seq(Nat) /\ Len(p) = k + 1 + Len(j.todo)
      /\ \A l \in 1 .. Len(j.todo) : j.todo[l] = Len(p[k + 1 + l])
  BY ONLY <1>1, <1>3, <1>7, <1>8
<1>10. /\ j.handle \in DOMAIN r.fs.open_file_table
       /\ FileHas(r.fs, j.box, r.fs.open_file_table[j.handle].of_inumber)
       /\ r.fs.open_file_table[j.handle].of_offset = EndOf(p, k + 1)
  BY ONLY <1>5, <1>6, <1>8
<1>11. k \in 0 .. Len(p) - 1 /\ j.data = p[k + 1]
  BY ONLY <1>3, <1>5, <1>8
<1> QED BY ONLY <1>9, <1>10, <1>11 DEF Between

\* Every request in the register pipe is of a life that its client began.
RequestsBegun ==
  \A i \in DOMAIN register_pipe : register_pipe[i].life <= lives[register_pipe[i].client]

\* The broker begins no lives and takes requests from the head.
LEMMA BrokerTakes ==
  ASSUME Broker
  PROVE  /\ lives' = lives
         /\ \/ register_pipe' = register_pipe \/ register_pipe' = <<>>
            \/ register_pipe # <<>> /\ register_pipe' = Tail(register_pipe)
<1>1. CASE register_box \/ list_boxes \/ register_publisher \/ register_subscriber
  BY <1>1 DEF register_box, list_boxes, register_publisher, register_subscriber, ServeNext, Serve,
     clientVars
<1>2. CASE remove_box
  BY <1>2 DEF remove_box, Serve, clientVars
<1>3. CASE ServeUndefined
  BY <1>3 DEF ServeUndefined, clientVars
<1>4. CASE AnswerOpen \/ ListOpen \/ SpreadOpen \/ ReplayOpen \/ WatchOpen
  BY <1>4 DEF AnswerOpen, ListOpen, SpreadOpen, ReplayOpen, WatchOpen, OpenToWrite
<1>5. CASE AnswerWrite \/ ListWrite \/ SpreadWrite \/ ReplayWrite
  BY <1>5 DEF AnswerWrite, ListWrite, SpreadWrite, ReplayWrite, WriteTo
<1>6. CASE PublisherOpen \/ ListenMessage \/ ListenEnd \/ WatchEnd
  BY <1>6 DEF PublisherOpen, ListenMessage, ListenEnd, WatchEnd, clientVars
<1> QED BY <1>1, <1>2, <1>3, <1>4, <1>5, <1>6 DEF Broker

\* Every step keeps them so.
LEMMA RequestsBegunKept == Sane /\ RequestsBegun /\ [Next]_vars => RequestsBegun'
<1> SUFFICES ASSUME Sane, RequestsBegun, [Next]_vars PROVE RequestsBegun'
  OBVIOUS
<1>1. /\ ClientsInv /\ register_pipe \in Seq(Requests)
      /\ DOMAIN register_pipe = 1 .. Len(register_pipe) /\ Len(register_pipe) \in Nat
  BY LenProperties DEF Sane, ClientsInv, RequestsFit
<1>2. \A c \in Clients : lives[c] \in Nat
  BY <1>1 DEF ClientsInv, FifosFit, FifoFits
<1>3. \A i \in DOMAIN register_pipe : /\ register_pipe[i].client \in Clients
                                      /\ register_pipe[i].life \in Nat
  <2>1. \A i \in DOMAIN register_pipe : register_pipe[i] \in Requests
    BY <1>1, ElementOfSeq
  <2> QED BY <2>1 DEF Requests
<1>4. CASE UNCHANGED <<register_pipe, lives>>
  BY <1>4 DEF RequestsBegun
<1>5. CASE register_pipe' = <<>>
  BY <1>5 DEF RequestsBegun
<1>6. CASE lives' = lives /\ register_pipe # <<>> /\ register_pipe' = Tail(register_pipe)
  <2> DEFINE t == Tail(register_pipe)
  <2>1. /\ t \in Seq(Requests) /\ Len(t) = Len(register_pipe) - 1
        /\ \A i \in 1 .. Len(t) : t[i] = register_pipe[i + 1]
    BY <1>1, <1>6, HeadTailProperties
  <2>2. register_pipe' = t
    BY <1>6
  <2> HIDE DEF t
  <2>3. DOMAIN t = 1 .. Len(t) /\ Len(t) \in Nat
    BY <2>1, LenProperties
  <2>4. ASSUME NEW i \in DOMAIN t PROVE t[i].life <= lives[t[i].client]
    <3>1. i + 1 \in DOMAIN register_pipe
      BY <1>1, <2>1, <2>3
    <3>2. t[i] = register_pipe[i + 1]
      BY <2>1, <2>3
    <3> QED BY <3>1, <3>2 DEF RequestsBegun
  <2> QED BY <1>6, <2>2, <2>4 DEF RequestsBegun
<1>7. ASSUME NEW c \in Clients, SignsIn(c) PROVE RequestsBegun'
  <2>1. PICK request \in Requests :
          /\ request.client = c /\ request.life = lives[c] + 1
          /\ register_pipe' = Append(register_pipe, request)
    BY <1>7 DEF SignsIn
  <2>2. /\ lives'[c] = lives[c] + 1 /\ \A d \in Clients : d # c => lives'[d] = lives[d]
    BY <1>1, <1>7 DEF SignsIn, ClientsInv, FifosFit
  <2> DEFINE q == register_pipe'
  <2>3. /\ q \in Seq(Requests) /\ Len(q) = Len(register_pipe) + 1
        /\ (\A k \in 1 .. Len(register_pipe) : q[k] = register_pipe[k])
        /\ q[Len(register_pipe) + 1] = request
    BY <1>1, <2>1, AppendIs
  <2>4. DOMAIN q = 1 .. Len(register_pipe) + 1
    BY <2>3, LenProperties
  <2> HIDE DEF q
  <2>5. ASSUME NEW k \in DOMAIN register_pipe PROVE q[k].life <= lives'[q[k].client]
    <3> DEFINE r == register_pipe[k]
               d == r.client
    <3>1. r.life <= lives[d] /\ d \in Clients /\ r.life \in Nat
      BY <1>3 DEF RequestsBegun
    <3>2. q[k] = r
      BY <1>1, <2>3
    <3> HIDE DEF r
    <3>3. r.life <= lives'[d]
      <4> HIDE DEF d
      <4>1. CASE d = c
        <5>1. lives[d] \in Nat /\ lives'[d] = lives[d] + 1
          BY <1>2, <2>2, <3>1, <4>1
        <5> QED BY <3>1, <5>1
      <4>2. CASE d # c
        BY <2>2, <3>1, <4>2
      <4> QED BY <4>1, <4>2
    <3> QED BY <3>2, <3>3
  <2>6. q[Len(register_pipe) + 1].life <= lives'[q[Len(register_pipe) + 1].client]
    <3>1. lives[c] + 1 \in Nat
      BY <1>2
    <3> QED BY <2>1, <2>2, <2>3, <3>1
  <2>7. \A k \in DOMAIN q : k \in DOMAIN register_pipe \/ k = Len(register_pipe) + 1
    BY <1>1, <2>4
  <2> QED BY <2>5, <2>6, <2>7 DEF RequestsBegun, q
<1>8. CASE Broker
  BY <1>4, <1>5, <1>6, <1>8, BrokerTakes
<1>9. CASE ClientStep
  BY <1>1, <1>4, <1>7, <1>9, ClientStepCases DEF GoesOn
<1>10. CASE UNCHANGED vars
  BY <1>4, <1>10 DEF vars, clientVars
<1> QED BY <1>8, <1>9, <1>10 DEF Next

\* Unless the client of job j has begun another life, its FIFO, of those in q, ends
\* with the first k messages of p.
Sent(j, begun, q, p, k) == begun[j.client] = j.life => EndsWith(q[j.client], p, k)

\* In a session on a box, its messages were sent or are being sent.
ReplayFits ==
  LET p == published[job.box]
  IN  /\ pc \in Subscribing => job.life <= lives[job.client] /\ InList(job.box)
      /\ pc \in Replaying =>
           \E k : Between(job, fs, p, k) /\ Sent(job, lives, pipe, p, k)
      /\ pc \in {"watch open", "watching"} => Sent(job, lives, pipe, p, Len(p))

\* What is sent stays sent when clients go on.
LEMMA SentStays ==
  ASSUME ClientsInv, (\E c \in Clients : SignsIn(c)) \/ GoesOn, NEW j, j.client \in Subscribers,
         j.life \in Nat, j.life <= lives[j.client]
  PROVE  /\ j.life <= lives'[j.client]
         /\ \A p, k : Sent(j, lives, pipe, p, k) => Sent(j, lives', pipe', p, k)
<1> DEFINE s == j.client
           n == j.life
<1>1. s \in Clients \ Publishers /\ n \in Nat /\ n <= lives[s]
  BY Kinds
<1>2. lives[s] \in Nat /\ lives = [d \in Clients |-> lives[d]] /\ pipe = [d \in Clients |-> pipe[d]]
  BY <1>1 DEF ClientsInv, FifosFit, FifoFits
<1> HIDE DEF s, n
<1>3. \/ lives'[s] = lives[s] /\ pipe'[s] = pipe[s]
      \/ lives'[s] = lives[s] + 1
  <2>1. CASE GoesOn
    BY <1>1, <2>1 DEF GoesOn
  <2>2. ASSUME NEW c \in Clients, SignsIn(c), s # c
        PROVE  lives'[s] = lives[s] /\ pipe'[s] = pipe[s]
    BY <1>1, <1>2, <2>2 DEF SignsIn
  <2>3. ASSUME SignsIn(s) PROVE lives'[s] = lives[s] + 1
    BY <1>1, <1>2, <2>3 DEF SignsIn
  <2> QED BY <2>1, <2>2, <2>3
<1>4. CASE lives'[s] = lives[s] /\ pipe'[s] = pipe[s]
  <2>1. n <= lives'[s]
    BY <1>1, <1>4
  <2> QED BY <1>4, <2>1 DEF Sent, s, n
<1>5. CASE lives'[s] = lives[s] + 1
  <2>1. n <= lives'[s] /\ lives'[s] # n
    BY <1>1, <1>2, <1>5
  <2> QED BY <2>1 DEF Sent, s, n
<1> QED BY <1>3, <1>4, <1>5

\* An open of the pipe leaves the rest of the locals.
LEMMA OpenLeaves ==
  ASSUME Sane, NEW c \in Clients, NEW next, OpenToWrite(c, next)
  PROVE  /\ UNCHANGED <<box_list, fs, published, lives, pipe>> /\ pc' \in {next, "blocked", "exited"}
         /\ job'.client = job.client /\ job'.life = job.life /\ job'.box = job.box
         /\ job'.todo = job.todo /\ job'.data = job.data /\ job'.handle = job.handle
<1>1. UNCHANGED <<box_list, fs, published, lives>>
  BY DEF OpenToWrite
<1>2. /\ pipe' = pipe
      /\ \/ pc' = next /\ job' = [job EXCEPT !.reader = lives[c]] /\ lives[c] \in Nat
         \/ pc' \in {"blocked", "exited"} /\ job' = job
  BY OpenKeeps DEF Sane
<1>3. JobTyped(job)
  BY DEF Sane, JobFits
<1>4. CASE pc' = next /\ job' = [job EXCEPT !.reader = lives[c]] /\ lives[c] \in Nat
  BY <1>1, <1>2, <1>3, <1>4, JobReads
<1>5. CASE pc' \in {"blocked", "exited"} /\ job' = job
  BY <1>1, <1>2, <1>5
<1> QED BY <1>2, <1>4, <1>5

\* What is known of the box of a job and its file.
LEMMA BoxOfJob ==
  ASSUME Sane, AllStored, pc \notin Ended, NEW i \in DOMAIN box_list, NEW n, n = Boxed(i)
  PROVE  /\ published[n] \in Seq(Messages) /\ Len(published[n]) \in Nat
         /\ box_list[i].messages_size = LengthsOf(published[n])
         /\ \E e : FileHas(fs, n, e) /\ ContentsOf(fs, e) = FlattenSeq(published[n])
<1>1. Stored(box_list[i], fs, published) /\ n = box_list[i].box_name
  BY DEF AllStored, Boxed
<1>2. published[n] \in Seq(Messages)
  BY DEF Sane, BoxesFit
<1> QED BY <1>1, <1>2, LenProperties DEF Stored

\* A box that was listed still is.
LEMMA StaysListed ==
  ASSUME BoxesFit, NamesKept, NEW n, InList(n), job'.box = n
  PROVE  InList(job.box)'
<1>1. PICK k \in DOMAIN box_list : Boxed(k) = n
  BY DEF InList
<1>2. k \in DOMAIN box_list' /\ box_list'[k].box_name = job'.box
  BY <1>1 DEF NamesKept, Boxed
<1> QED BY <1>2 DEF InList, Boxed

\* A replay begins.
LEMMA ReplayBegins ==
  ASSUME Sane, Sane', AllStored, RequestsBegun, register_subscriber, pc' \notin Ended
  PROVE  ReplayFits'
<1>1. /\ pc = "serving" /\ published' = published /\ lives' = lives /\ pc' = "replay open"
      /\ register_pipe # <<>> /\ ReadsFirst /\ Links /\ pc \notin Ended
  BY RegisterSubscriberCases DEF Ended, Down, BeginsReplay, register_subscriber, ServeNext, Serve,
     clientVars
<1>2. PICK i \in DOMAIN box_list : \E g, h, sizes : FirstRead(i, g, h, sizes)
  BY <1>1, FirstReadIs
<1>3. PICK g, h, sizes : FirstRead(i, g, h, sizes)
  BY <1>2
<1> DEFINE n == Boxed(i)
           p == published[n]
           r == tfs_read(g, h, Head(sizes))
<1>4. /\ p \in Seq(Messages) /\ Len(p) \in Nat
      /\ box_list[i].messages_size = LengthsOf(p)
      /\ \E e : FileHas(fs, n, e) /\ ContentsOf(fs, e) = FlattenSeq(p)
  BY <1>1, BoxOfJob
<1>5. /\ FsInv(g) /\ SameFiles(fs, g) /\ h \in DOMAIN g.open_file_table
      /\ FileHas(fs, n, g.open_file_table[h].of_inumber) /\ g.open_file_table[h].of_offset = 0
      /\ sizes = box_list[i].messages_size /\ sizes \in Seq(Nat) /\ sizes # <<>>
      /\ job'.client = Head(register_pipe).client /\ job'.life = Head(register_pipe).life
      /\ job'.box = n /\ job'.handle = h /\ job'.todo = Tail(sizes)
      /\ job'.data = r.data /\ fs' = r.fs
  BY <1>3 DEF FirstRead
<1> HIDE DEF n, p, r
<1>6. PICK e : FileHas(fs, n, e) /\ ContentsOf(fs, e) = FlattenSeq(p)
  BY <1>4
<1>7. FileHas(g, n, e) /\ ContentsOf(g, e) = FlattenSeq(p) /\ g.open_file_table[h].of_inumber = e
  <2>1. g.open_file_table[h].of_inumber = e
    BY <1>5, <1>6, FileIs DEF Sane
  <2> QED BY <1>5, <1>6, <2>1, SameFilesStored DEF SameStorage
<1>8. Len(p) = 0 + Len(sizes) /\ \A l \in 1 .. Len(sizes) : sizes[l] = Len(p[0 + l])
  <2>1. sizes = LengthsOf(p) /\ DOMAIN p = 1 .. Len(p)
    BY <1>4, <1>5, LenProperties
  <2>2. sizes = [l \in 1 .. Len(p) |-> Len(p[l])]
    BY <2>1 DEF LengthsOf
  <2>3. DOMAIN sizes = 1 .. Len(sizes) /\ Len(sizes) \in Nat
    BY <1>5, LenProperties
  <2>4. 1 .. Len(sizes) = 1 .. Len(p)
    BY <2>2, <2>3
  <2>5. Len(sizes) = Len(p)
    BY <1>4, <2>3, <2>4
  <2> QED BY <1>4, <2>2, <2>5
<1>9. g.open_file_table[h].of_offset = EndOf(p, 0)
  <2>1. SubSeq(p, 1, 0) = <<>>
    BY <1>4
  <2>2. Len(<<>>) = 0
    BY EmptyIsSeq
  <2> QED BY <1>5, <2>1, <2>2, FlattenNone DEF EndOf
<1>10. Between(job', fs', p, 0)
  <2>1. PICK j : j = job'
    OBVIOUS
  <2>2. j.data = r.data /\ j.todo = Tail(sizes) /\ j.handle = h /\ j.box = n
    BY <1>5, <2>1
  <2>3. r = tfs_read(g, h, Head(sizes)) /\ FsInv(g) /\ h \in DOMAIN g.open_file_table
    BY <1>5 DEF r
  <2>4. sizes \in Seq(Nat) /\ sizes # <<>> /\ p \in Seq(Messages)
    BY <1>4, <1>5
  <2>5. 0 \in Nat
    OBVIOUS
  <2>6. Between(j, r.fs, p, 0)
    <3>1. AtMessage(g, n, e, h, p, 0, sizes)
      BY ONLY <1>7, <1>8, <1>9, <2>3 DEF AtMessage
    <3> QED BY ONLY <2>2, <2>3, <2>4, <2>5, <3>1, ReadOne
  <2> QED BY <1>5, <2>1, <2>6
<1>11. Head(register_pipe).life <= lives[Head(register_pipe).client]
  <2>1. register_pipe \in Seq(Requests)
    BY DEF Sane, ClientsInv, RequestsFit
  <2>2. 1 \in DOMAIN register_pipe /\ Head(register_pipe) = register_pipe[1]
    <3> DEFINE q == register_pipe
    <3>1. q \in Seq(Requests) /\ q # <<>>
      BY <1>1, <2>1
    <3> HIDE DEF q
    <3>2. Len(q) \in Nat \ {0} /\ DOMAIN q = 1 .. Len(q)
      BY <3>1, EmptySeq, LenProperties
    <3>3. 1 \in DOMAIN q /\ Head(q) = q[1]
      BY <3>1, <3>2
    <3> QED BY <3>3 DEF q
  <2> QED BY <2>2 DEF RequestsBegun
<1>12. Sent(job', lives', pipe', p, 0)
  <2>1. job'.client \in Clients /\ IsSeq(pipe'[job'.client])
    BY <1>1, Kinds DEF Sane, JobFits, Subscribing, Replaying, ClientsInv, FifosFit, FifoFits
  <2>2. Len(pipe'[job'.client]) \in Nat
    BY <2>1, LenProperties DEF IsSeq
  <2>3. EndsWith(pipe'[job'.client], p, 0)
    BY <2>2 DEF EndsWith
  <2> QED BY <2>3 DEF Sent
<1>13. InList(job.box)'
  <2>1. BoxesFit /\ NamesKept
    BY <1>1, LinksKeeps DEF Sane
  <2>2. PICK b : b = n
    OBVIOUS
  <2>3. InList(b) /\ job'.box = b
    BY <1>5, <2>2 DEF InList, n
  <2> QED BY <2>1, <2>3, StaysListed
<1>14. published'[job'.box] = p /\ pc' \notin {"watch open", "watching"}
  BY <1>1, <1>5 DEF p
<1>15. job'.life <= lives'[job'.client]
  BY <1>1, <1>5, <1>11
<1> QED BY <1>10, <1>12, <1>13, <1>14, <1>15 DEF ReplayFits

\* A replay goes on.
LEMMA ReplayGoes ==
  ASSUME Sane, AllStored, ReplayFits, ReplayWrite, pc' \notin Ended
  PROVE  ReplayFits'
<1> DEFINE n == job.box
           c == job.client
           p == published[n]
<1>1. /\ UNCHANGED <<box_list, published, lives>> /\ SameFiles(fs, fs') /\ pc = "replay write"
      /\ pipe' = [pipe EXCEPT ![c] = Append(@, job.data)]
      /\ \/ job.todo = <<>> /\ UNCHANGED <<job, fs>> /\ pc' = "watch open"
         \/ /\ job.todo # <<>> /\ pc' = "replay open"
            /\ job'.client = c /\ job'.life = job.life /\ job'.box = n
            /\ job'.handle = job.handle /\ job'.todo = Tail(job.todo)
            /\ job'.data = tfs_read(fs, job.handle, Head(job.todo)).data
            /\ fs' = tfs_read(fs, job.handle, Head(job.todo)).fs
  BY ReplayGoesOn DEF Ended, Down, ReplayWrite
<1>2. PICK k : Between(job, fs, p, k) /\ Sent(job, lives, pipe, p, k)
  BY <1>1 DEF ReplayFits, Replaying
<1>3. /\ k \in 0 .. Len(p) - 1 /\ job.data = p[k + 1]
      /\ job.todo \in Seq(Nat) /\ Len(p) = k + 1 + Len(job.todo)
      /\ \A l \in 1 .. Len(job.todo) : job.todo[l] = Len(p[k + 1 + l])
      /\ job.handle \in DOMAIN fs.open_file_table
      /\ FileHas(fs, n, fs.open_file_table[job.handle].of_inumber)
      /\ fs.open_file_table[job.handle].of_offset = EndOf(p, k + 1)
  BY <1>2 DEF Between
<1>4. job.life <= lives[c] /\ InList(n) /\ c \in Subscribers /\ FsInv(fs) /\ BoxesFit
  BY <1>1 DEF ReplayFits, Subscribing, Replaying, Sane, JobFits
<1>5. PICK i \in DOMAIN box_list : Boxed(i) = n
  BY <1>4 DEF InList
<1>6. /\ p \in Seq(Messages) /\ Len(p) \in Nat
      /\ \E e : FileHas(fs, n, e) /\ ContentsOf(fs, e) = FlattenSeq(p)
  <2>1. pc \notin Ended
    BY <1>1 DEF Ended, Down
  <2> QED BY <1>5, <2>1, BoxOfJob
<1> HIDE DEF n, c, p
<1>7. k \in Nat /\ k + 1 \in Nat
  BY <1>3, <1>6
<1>8. Sent(job, lives', pipe', p, k + 1)
  <2>1. IsSeq(pipe[c]) /\ pipe'[c] = Append(pipe[c], job.data)
    BY <1>1, <1>4, Kinds DEF Sane, ClientsInv, FifosFit, FifoFits
  <2>2. EndsWith(pipe[c], p, k) => EndsWith(pipe'[c], p, k + 1)
    BY <1>3, <1>7, <2>1, EndsWithNext
  <2> QED BY <1>1, <1>2, <2>2 DEF Sent, c
<1>9. InList(job.box)' /\ published'[job'.box] = p /\ job'.life <= lives'[job'.client]
  <2>1. job'.box = n /\ job'.client = c /\ job'.life = job.life
    BY <1>1 DEF n, c
  <2>2. InList(job.box)'
    <3>1. PICK b : b = n
      OBVIOUS
    <3>2. NamesKept
      BY <1>1, <1>4 DEF NamesKept, BoxesFit
    <3> QED BY <1>4, <2>1, <3>1, <3>2, StaysListed
  <2> QED BY <1>1, <1>4, <2>1, <2>2 DEF p
<1>10. CASE job.todo = <<>> /\ UNCHANGED <<job, fs>> /\ pc' = "watch open"
  <2>1. Len(p) = k + 1
    <3>1. Len(job.todo) = 0
      BY <1>10, EmptyIsSeq
    <3> QED BY <1>3, <1>7, <3>1
  <2>2. Sent(job', lives', pipe', p, Len(p))
    BY <1>8, <1>10, <2>1
  <2>3. pc' \notin Replaying
    BY <1>10 DEF Replaying
  <2> QED BY <1>9, <2>2, <2>3 DEF ReplayFits
<1>11. CASE /\ job.todo # <<>> /\ pc' = "replay open"
            /\ job'.client = c /\ job'.life = job.life /\ job'.box = n
            /\ job'.handle = job.handle /\ job'.todo = Tail(job.todo)
            /\ job'.data = tfs_read(fs, job.handle, Head(job.todo)).data
            /\ fs' = tfs_read(fs, job.handle, Head(job.todo)).fs
  <2> DEFINE sizes == job.todo
             h == job.handle
             r == tfs_read(fs, h, Head(sizes))
  <2>1. PICK e : FileHas(fs, n, e) /\ ContentsOf(fs, e) = FlattenSeq(p)
    BY <1>6
  <2>2. fs.open_file_table[h].of_inumber = e
    BY <1>3, <1>4, <2>1, FileIs
  <2>3. PICK j : j = job'
    OBVIOUS
  <2>4. j.data = r.data /\ j.todo = Tail(sizes) /\ j.handle = h /\ j.box = n
    BY <1>11, <2>3
  <2>5. /\ sizes \in Seq(Nat) /\ sizes # <<>> /\ Len(p) = (k + 1) + Len(sizes)
        /\ \A l \in 1 .. Len(sizes) : sizes[l] = Len(p[(k + 1) + l])
        /\ h \in DOMAIN fs.open_file_table /\ fs.open_file_table[h].of_offset = EndOf(p, k + 1)
    BY <1>3, <1>11
  <2>6. fs' = r.fs
    BY <1>11
  <2> HIDE DEF sizes, h, r
  <2>7. r = tfs_read(fs, h, Head(sizes))
    BY DEF r
  <2> DEFINE m == k + 1
  <2>8. /\ m \in Nat /\ Len(p) = m + Len(sizes) /\ fs.open_file_table[h].of_offset = EndOf(p, m)
        /\ \A l \in 1 .. Len(sizes) : sizes[l] = Len(p[m + l])
    BY <1>7, <2>5
  <2> HIDE DEF m
  <2>9. Between(j, r.fs, p, m)
    <3>1. /\ FsInv(fs) /\ p \in Seq(Messages) /\ h \in DOMAIN fs.open_file_table
          /\ sizes \in Seq(Nat) /\ sizes # <<>>
      BY <1>4, <1>6, <2>5
    <3>2. AtMessage(fs, n, e, h, p, m, sizes)
      BY ONLY <2>1, <2>2, <2>8, <3>1 DEF AtMessage
    <3>3. m \in Nat
      BY <2>8
    <3> QED BY ONLY <2>4, <2>7, <3>1, <3>2, <3>3, ReadOne
  <2>10. Between(job', fs', p, m)
    BY <2>3, <2>6, <2>9
  <2>11. Sent(job', lives', pipe', p, m)
    BY <1>8, <1>11 DEF Sent, c, m
  <2>12. pc' \notin {"watch open", "watching"}
    BY <1>11
  <2> QED BY <1>9, <2>10, <2>11, <2>12 DEF ReplayFits
<1> QED BY <1>1, <1>10, <1>11 DEF n, c

\* Nobody is replayed anything outside of a session.
LEMMA NoReplay == ASSUME pc' \notin Subscribing PROVE ReplayFits'
<1>1. pc' \notin Replaying /\ pc' \notin {"watch open", "watching"}
  BY DEF Subscribing, Replaying
<1> QED BY <1>1 DEF ReplayFits

\* The pipe to the subscriber is opened once more.
LEMMA ReplayOpens ==
  ASSUME Sane, ReplayFits, ReplayOpen \/ WatchOpen, pc' \notin Ended
  PROVE  ReplayFits'
<1>1. /\ pc \in {"replay open", "watch open"}
      /\ OpenToWrite(job.client, IF pc = "replay open" THEN "replay write" ELSE "watching")
  BY DEF ReplayOpen, WatchOpen
<1>2. job.client \in Clients
  BY <1>1, Kinds DEF Sane, JobFits, Subscribing, Replaying
<1>3. /\ UNCHANGED <<box_list, fs, published, lives, pipe>>
      /\ pc' = IF pc = "replay open" THEN "replay write" ELSE "watching"
      /\ job'.client = job.client /\ job'.life = job.life /\ job'.box = job.box
      /\ job'.todo = job.todo /\ job'.data = job.data /\ job'.handle = job.handle
  BY <1>1, <1>2, OpenLeaves DEF Ended, Down
<1> DEFINE p == published[job.box]
<1>4. job.life <= lives[job.client] /\ InList(job.box)
  BY <1>1 DEF ReplayFits, Subscribing, Replaying
<1>5. job'.life <= lives'[job'.client] /\ InList(job.box)' /\ published'[job'.box] = p
  BY <1>3, <1>4 DEF InList, Boxed
<1>6. \A k : Sent(job, lives, pipe, p, k) => Sent(job', lives', pipe', p, k)
  BY <1>3 DEF Sent
<1>7. \A k : Between(job, fs, p, k) => Between(job', fs', p, k)
  BY <1>3 DEF Between
<1> HIDE DEF p
<1>8. CASE pc = "replay open"
  <2>1. \E k : Between(job, fs, p, k) /\ Sent(job, lives, pipe, p, k)
    BY <1>8 DEF ReplayFits, Replaying, p
  <2>2. pc' \notin {"watch open", "watching"}
    BY <1>3, <1>8
  <2> QED BY <1>5, <1>6, <1>7, <2>1, <2>2 DEF ReplayFits
<1>9. CASE pc = "watch open"
  <2>1. Sent(job, lives, pipe, p, Len(p))
    BY <1>9 DEF ReplayFits, p
  <2>2. pc' \notin Replaying
    BY <1>3, <1>9 DEF Replaying
  <2> QED BY <1>5, <1>6, <2>1, <2>2 DEF ReplayFits
<1> QED BY <1>1, <1>8, <1>9

\* Clients go on, or nobody does.
LEMMA ReplayWaits ==
  ASSUME Sane, ReplayFits, (BesideBroker /\ ClientStep) \/ UNCHANGED vars
  PROVE  ReplayFits'
<1>1. UNCHANGED brokerVars /\ ((ClientsInv /\ ClientStep) \/ UNCHANGED clientVars)
  BY DEF BesideBroker, vars, Sane
<1>2. UNCHANGED <<pc, job, box_list, fs, published>>
  BY <1>1 DEF brokerVars
<1>3. CASE pc \notin Subscribing
  BY <1>2, <1>3, NoReplay
<1>4. CASE pc \in Subscribing
  <2>1. job.life <= lives[job.client] /\ InList(job.box)
    BY <1>4 DEF ReplayFits
  <2>2. job.client \in Subscribers /\ job.life \in Nat
    BY <1>4 DEF Sane, JobFits, JobTyped
  <2>3. /\ job.life <= lives'[job.client]
        /\ \A p, k : Sent(job, lives, pipe, p, k) => Sent(job, lives', pipe', p, k)
    <3>1. CASE ClientsInv /\ ClientStep
      <4>1. (\E c \in Clients : SignsIn(c)) \/ GoesOn
        BY <3>1, ClientStepCases
      <4>2. ClientsInv /\ job.client \in Subscribers /\ job.life \in Nat /\ job.life <= lives[job.client]
        BY <2>1, <2>2, <3>1
      <4>3. PICK x : x = job
        OBVIOUS
      <4>4. x.client \in Subscribers /\ x.life \in Nat /\ x.life <= lives[x.client]
        BY <4>2, <4>3
      <4>5. /\ x.life <= lives'[x.client]
            /\ \A p, k : Sent(x, lives, pipe, p, k) => Sent(x, lives', pipe', p, k)
        BY <4>1, <4>2, <4>4, SentStays
      <4> QED BY <4>3, <4>5
    <3>2. CASE UNCHANGED clientVars
      BY <2>1, <3>2 DEF clientVars
    <3> QED BY <1>1, <3>1, <3>2
  <2>4. InList(job.box)'
    BY <1>2, <2>1 DEF InList, Boxed
  <2> DEFINE p == published[job.box]
  <2>5. published'[job'.box] = p /\ job' = job /\ fs' = fs /\ pc' = pc
    BY <1>2
  <2>6. /\ pc \in Replaying => \E k : Between(job, fs, p, k) /\ Sent(job, lives, pipe, p, k)
        /\ pc \in {"watch open", "watching"} => Sent(job, lives, pipe, p, Len(p))
    BY DEF ReplayFits
  <2> HIDE DEF p
  <2> QED BY <2>3, <2>4, <2>5, <2>6 DEF ReplayFits
<1> QED BY <1>3, <1>4

\* The other steps of the broker begin no replay.
LEMMA OthersLeaveReplay ==
  ASSUME Sane, Broker, ~register_subscriber, ~ReplayOpen, ~ReplayWrite, ~WatchOpen
  PROVE  pc' \notin Subscribing
<1>1. CASE register_box
  BY <1>1, RegisterBoxCases DEF Answering, Creates, Subscribing, Replaying
<1>2. CASE remove_box
  BY <1>2, RemoveBoxCases DEF Answering, Removes, Subscribing, Replaying
<1>3. CASE list_boxes \/ ServeUndefined
  BY <1>3 DEF list_boxes, ServeUndefined, Goto, Subscribing, Replaying
<1>4. CASE register_publisher
  BY <1>4, RegisterPublisherCases DEF Subscribing, Replaying
<1>5. CASE AnswerOpen
  BY <1>5 DEF AnswerOpen, OpenToWrite, Goto, Exit, Subscribing, Replaying
<1>6. CASE ListOpen
  BY <1>6 DEF ListOpen, OpenToWrite, Goto, Exit, Subscribing, Replaying
<1>7. CASE SpreadOpen
  BY <1>7 DEF SpreadOpen, OpenToWrite, Goto, Exit, Subscribing, Replaying
<1>8. CASE AnswerWrite
  BY <1>8 DEF AnswerWrite, WriteTo, Goto, Subscribing, Replaying
<1>9. CASE ListWrite
  BY <1>9 DEF ListWrite, WriteTo, Goto, Subscribing, Replaying
<1>10. CASE SpreadWrite
  BY <1>10 DEF SpreadWrite, WriteTo, Goto, Subscribing, Replaying
<1>11. CASE PublisherOpen
  BY <1>11 DEF PublisherOpen, Goto, Subscribing, Replaying
<1>12. CASE ListenMessage
  BY <1>12, ListenMessageCases DEF Accepts, Subscribing, Replaying
<1>13. CASE ListenEnd
  BY <1>13, ListenEndCases DEF Subscribing, Replaying
<1>14. CASE WatchEnd
  BY <1>14 DEF WatchEnd, Done, Goto, Subscribing, Replaying
<1> QED BY <1>1, <1>2, <1>3, <1>4, <1>5, <1>6, <1>7, <1>8, <1>9, <1>10, <1>11, <1>12, <1>13, <1>14
     DEF Broker

\* Every step keeps to what a replay has sent.
LEMMA ReplayFitsKept ==
  Sane /\ Sane' /\ AllStored /\ RequestsBegun /\ ReplayFits /\ [Next]_vars => ReplayFits'
<1> SUFFICES ASSUME Sane, Sane', AllStored, RequestsBegun, ReplayFits, [Next]_vars
             PROVE  ReplayFits'
  OBVIOUS
<1>1. CASE pc' \in Ended
  <2>1. pc' \notin Subscribing
    BY <1>1 DEF Ended, Down, Subscribing, Replaying
  <2> QED BY <2>1, NoReplay
<1>2. CASE pc' \notin Ended
  <2>1. CASE Broker
    BY <1>2, <2>1, ReplayBegins, ReplayOpens, ReplayGoes, OthersLeaveReplay, NoReplay
  <2>2. CASE (BesideBroker /\ ClientStep) \/ UNCHANGED vars
    BY <2>2, ReplayWaits
  <2> QED BY <2>1, <2>2 DEF Next
<1> QED BY <1>1, <1>2

\* Nobody asks for anything at first.
LEMMA ReplayStart == Init => RequestsBegun /\ ReplayFits
<1> SUFFICES ASSUME Init PROVE RequestsBegun /\ ReplayFits
  OBVIOUS
<1>1. RequestsBegun
  BY DEF Init, ClientsInit, RequestsBegun
<1>2. pc = "serving"
  BY DEF Init
<1> QED BY <1>1, <1>2 DEF ReplayFits, Subscribing, Replaying

\* Whoever is watched was sent everything.
LEMMA ReplayIsFaithful == Sane /\ ReplayFits => ReplayFaithful
<1> SUFFICES ASSUME Sane, ReplayFits, pc = "watching", lives[job.client] = job.life
             PROVE  IsSuffix(published[job.box], pipe[job.client])
  BY DEF ReplayFaithful
<1> DEFINE p == published[job.box]
           q == pipe[job.client]
<1>1. Sent(job, lives, pipe, p, Len(p)) /\ InList(job.box)
  BY DEF ReplayFits, Subscribing
<1>2. EndsWith(q, p, Len(p))
  BY <1>1 DEF Sent
<1>3. p \in Seq(Messages)
  BY <1>1 DEF Sane, BoxesFit, InList
<1>4. IsSeq(q)
  BY Kinds DEF Sane, JobFits, Subscribing, ClientsInv, FifosFit, FifoFits
<1> HIDE DEF p, q
<1>5. IsSuffix(p, q)
  BY <1>2, <1>3, <1>4, EndIsSuffix
<1> QED BY <1>5 DEF p, q

\* ReplayFaithful: under the same hypothesis, a subscriber of any box that is watched and
\* has not begun another life since its request was sent, last of all, every message
\* published to the box, each whole, once and in order, through a handle and a list of
\* sizes that were read one by one while other clients came, went and wrote.
THEOREM ReplaysAreFaithful == Behaviour /\ []FilesTidy => []ReplayFaithful
<1>1. Behaviour => []Sane
  BY AlwaysSane
<1> QED BY <1>1, StoredStart, StoredKept, ReplayStart, RequestsBegunKept, ReplayFitsKept,
       ReplayIsFaithful, PTL DEF Behaviour

-----------------------------------------------------------------------------
(* Where blocks have room *)

\* Whatever publishers may send fits in a block, with at most L cells a message, and
\* nobody removes a box, which would leave its file behind.
Roomy(L) ==
  /\ L \in Nat /\ \A m \in Messages : Len(m) <= L
  /\ IsFiniteSet(Publishers) /\ L * (Cardinality(Publishers) * MaxMessages) <= BLOCK_SIZE
  /\ "remove" \notin Commands

\* The messages the broker has read: of which publisher, and which of its.
Heard == {x \in Publishers \X (1 .. MaxMessages) : x[2] <= taken[x[1]]}

\* The broker leaves the FIFOs of publishers as they are, and reads a message of one
\* only where it accepts it.
LEMMA BrokerWithin ==
  ASSUME Sane, Broker
  PROVE  /\ \A p \in Publishers : pipe'[p] = pipe[p]
         /\ taken' = taken \/ (pc = "listening" /\ Hears(job.client))
<1>1. CASE \/ register_box \/ remove_box \/ list_boxes \/ register_publisher
           \/ register_subscriber
  <2>1. UNCHANGED clientVars
    BY <1>1 DEF register_box, remove_box, list_boxes, register_publisher, register_subscriber,
                ServeNext, Serve
  <2> QED BY <2>1 DEF clientVars
<1>2. CASE ServeUndefined \/ ListenEnd \/ WatchEnd
  BY <1>2 DEF ServeUndefined, ListenEnd, WatchEnd, clientVars
<1>3. CASE AnswerOpen \/ ListOpen \/ SpreadOpen \/ ReplayOpen \/ WatchOpen
  BY <1>3 DEF AnswerOpen, ListOpen, SpreadOpen, ReplayOpen, WatchOpen, OpenToWrite
<1>4. CASE PublisherOpen
  BY <1>4 DEF PublisherOpen
<1>5. CASE ListenMessage
  BY <1>5 DEF ListenMessage, Hears
<1>6. CASE AnswerWrite \/ ListWrite \/ SpreadWrite \/ ReplayWrite
  <2>1. PICK c, data, next : WriteTo(c, data, next) /\ c \notin Publishers
    <3>1. CASE AnswerWrite \/ ListWrite \/ ReplayWrite
      <4>1. job.client \notin Publishers
        BY <3>1, ClientsAssumption DEF Sane, JobFits, Managing, Subscribing, Replaying, AnswerWrite,
           ListWrite, ReplayWrite
      <4> QED BY <3>1, <4>1 DEF AnswerWrite, ListWrite, ReplayWrite
    <3>2. CASE SpreadWrite
      <4>1. job.todo \in Seq(Subscribers) /\ job.todo # <<>>
        BY <3>2 DEF Sane, JobFits, Spreading, SpreadWrite
      <4>2. Head(job.todo) \notin Publishers
        <5>1. Head(job.todo) \in Subscribers
          BY <4>1
        <5> QED BY <5>1, ClientsAssumption
      <4> QED BY <3>2, <4>2 DEF SpreadWrite
    <3> QED BY <1>6, <3>1, <3>2
  <2>2. taken' = taken /\ pipe' = IF HasReader(c) THEN [pipe EXCEPT ![c] = Append(@, data)] ELSE pipe
    BY <2>1 DEF WriteTo
  <2>3. pipe = [d \in Clients |-> pipe[d]]
    BY DEF Sane, ClientsInv, FifosFit
  <2>4. \A p \in Publishers : p \in Clients
    BY DEF Clients
  <2> QED BY <2>1, <2>2, <2>3, <2>4
<1> QED BY <1>1, <1>2, <1>3, <1>4, <1>5, <1>6 DEF Broker

\* Every step keeps publishers within their bounds, and forgets nothing that was read.
LEMMA WithinKept ==
  ASSUME Sane, Sane', PublishersWithin, [Next]_vars
  PROVE  PublishersWithin' /\ Heard \subseteq Heard'
<1>1. \A p \in Publishers : taken[p] \in Nat /\ taken'[p] \in Nat
  BY Kinds DEF Sane, ClientsInv, FifosFit, FifoFits
<1>2. PublishersWithin' /\ \A p \in Publishers : taken[p] <= taken'[p]
  <2>1. CASE Broker
    <3>1. /\ \A p \in Publishers : pipe'[p] = pipe[p]
          /\ taken' = taken \/ taken' = [taken EXCEPT ![job.client] = @ + 1]
      BY <2>1, BrokerWithin DEF Hears
    <3>2. taken = [d \in Clients |-> taken[d]]
      BY DEF Sane, ClientsInv, FifosFit
    <3>3. \A p \in Publishers : taken'[p] = taken[p] \/ taken'[p] = taken[p] + 1
      BY <3>1, <3>2, Kinds
    <3> QED BY <1>1, <3>1, <3>3 DEF PublishersWithin
  <2>2. CASE BesideBroker /\ ClientStep
    <3>1. PublishersWithin' /\ \A p \in Publishers : taken'[p] = taken[p]
      BY <2>2, ClientStepWithin DEF Sane
    <3> QED BY <1>1, <3>1
  <2>3. CASE UNCHANGED vars
    BY <1>1, <2>3 DEF vars, clientVars, PublishersWithin
  <2> QED BY <2>1, <2>2, <2>3 DEF Next
<1>3. ASSUME NEW x \in Heard PROVE x \in Heard'
  <2>1. x \in Publishers \X (1 .. MaxMessages) /\ x[2] <= taken[x[1]]
    BY DEF Heard
  <2> DEFINE a == taken[x[1]]
             b == taken'[x[1]]
             k == x[2]
  <2>2. a \in Nat /\ b \in Nat /\ a <= b /\ k \in Nat /\ k <= a
    BY <1>1, <1>2, <2>1, ClientsAssumption
  <2> HIDE DEF a, b, k
  <2>3. k <= b
    BY <2>2
  <2> QED BY <2>1, <2>3 DEF Heard, b, k
<1> QED BY <1>2, <1>3

Hearable == Publishers \X (1 .. MaxMessages)

\* There are only so many messages to hear.
LEMMA FewToHear ==
  ASSUME NEW L, Roomy(L), NEW S \in SUBSET Hearable
  PROVE  /\ IsFiniteSet(S) /\ Cardinality(S) \in Nat
         /\ L * Cardinality(S) <= BLOCK_SIZE /\ L * Cardinality(S) \in Nat
<1> DEFINE all == Publishers \X (1 .. MaxMessages)
           few == Cardinality(S)
           many == Cardinality(Publishers) * MaxMessages
<1>1. /\ L \in Nat /\ IsFiniteSet(Publishers) /\ L * many <= BLOCK_SIZE
  BY DEF Roomy
<1>2. IsFiniteSet(1 .. MaxMessages) /\ Cardinality(1 .. MaxMessages) = MaxMessages
  <2>1. MaxMessages \in Nat
    BY ClientsAssumption
  <2> QED BY <2>1, FS_Interval
<1>3. IsFiniteSet(all) /\ Cardinality(all) = many
  BY <1>1, <1>2, FS_Product
<1>4. S \in SUBSET all
  BY DEF Hearable
<1> HIDE DEF all
<1>5. IsFiniteSet(S) /\ few <= many
  BY <1>3, <1>4, FS_Subset
<1>6. few \in Nat /\ many \in Nat
  BY <1>1, <1>3, <1>5, FS_CardinalityType
<1>7. BLOCK_SIZE \in Int
  BY TfsAssumption
<1> HIDE DEF few, many
<1>8. L * few <= L * many /\ L * few \in Nat /\ L * many \in Nat
  BY <1>1, <1>5, <1>6
<1> DEFINE lf == L * few
           lm == L * many
<1>9. lf <= lm /\ lf \in Nat /\ lm \in Nat /\ lm <= BLOCK_SIZE
  BY <1>1, <1>8
<1> HIDE DEF lf, lm
<1>10. lf <= BLOCK_SIZE
  BY <1>7, <1>9
<1> QED BY <1>5, <1>6, <1>9, <1>10 DEF lf, few

\* They become no fewer, and one more when a message is heard.
LEMMA HeardGrows ==
  ASSUME NEW L, Roomy(L), Sane, Sane', PublishersWithin, [Next]_vars
  PROVE  /\ L * Cardinality(Heard) <= L * Cardinality(Heard')
         /\ pc = "listening" /\ Hears(job.client) =>
              L * Cardinality(Heard) + L <= L * Cardinality(Heard')
<1> DEFINE a == Cardinality(Heard)
           b == Cardinality(Heard')
<1>1. IsFiniteSet(Heard) /\ a \in Nat
  <2>1. Heard \in SUBSET Hearable
    BY DEF Heard, Hearable
  <2> QED BY <2>1, FewToHear
<1>2. IsFiniteSet(Heard') /\ b \in Nat
  <2>1. Heard' \in SUBSET Hearable
    BY DEF Heard, Hearable
  <2> QED BY <2>1, FewToHear
<1>3. Heard \subseteq Heard' /\ L \in Nat
  BY WithinKept DEF Roomy
<1>4. a <= b
  BY <1>2, <1>3, FS_Subset
<1>5. ASSUME pc = "listening", Hears(job.client) PROVE a + 1 <= b
  <2> DEFINE c == job.client
             x == <<c, taken[c] + 1>>
  <2>1. c \in Publishers
    BY <1>5 DEF Sane, JobFits, Publishing
  <2>2. /\ Unread(c) > 0 /\ taken' = [taken EXCEPT ![c] = @ + 1]
        /\ taken = [d \in Clients |-> taken[d]]
    BY <1>5 DEF Hears, Sane, ClientsInv, FifosFit
  <2>3. taken[c] \in Nat /\ taken[c] + 1 <= MaxMessages /\ taken'[c] = taken[c] + 1
    <3>1. c \in Clients
      BY <2>1, Kinds
    <3>2. taken'[c] = taken[c] + 1
      BY <2>2, <3>1
    <3>3. taken[c] \in Nat /\ Len(pipe[c]) \in Nat /\ Unread(c) = Len(pipe[c]) - taken[c]
      BY <3>1, UnreadIs DEF Sane
    <3>4. Len(pipe[c]) <= MaxMessages /\ MaxMessages \in Nat
      BY <2>1, ClientsAssumption DEF PublishersWithin
    <3> DEFINE len == Len(pipe[c])
               t == taken[c]
               u == Unread(c)
    <3>5. t \in Nat /\ len \in Nat /\ u = len - t /\ u > 0 /\ len <= MaxMessages /\ MaxMessages \in Nat
      BY <2>2, <3>3, <3>4
    <3> HIDE DEF len, t, u
    <3>6. t + 1 <= MaxMessages
      BY <3>5
    <3> QED BY <3>2, <3>3, <3>6 DEF t
  <2> HIDE DEF c
  <2>4. x \notin Heard /\ x \in Heard'
    <3>1. x[1] = c /\ x[2] = taken[c] + 1 /\ x \in Publishers \X (1 .. MaxMessages)
      BY <2>1, <2>3, ClientsAssumption
    <3> QED BY <2>3, <3>1 DEF Heard
  <2> HIDE DEF x
  <2>5. IsFiniteSet(Heard \cup {x}) /\ Cardinality(Heard \cup {x}) = a + 1
    BY <1>1, <2>4, FS_AddElement
  <2>6. Heard \cup {x} \in SUBSET Heard'
    BY <1>3, <2>4
  <2> QED BY <1>2, <2>5, <2>6, FS_Subset
<1> HIDE DEF a, b
<1>6. L * a <= L * b
  BY <1>1, <1>2, <1>3, <1>4
<1>7. a + 1 <= b => L * a + L <= L * b
  BY <1>1, <1>2, <1>3
<1> QED BY <1>5, <1>6, <1>7 DEF a, b

\* What is published for a box has no more cells than the messages heard may have.
Bounded(L) ==
  pc \notin Ended => \A n \in DOMAIN published :
    Len(FlattenSeq(published[n])) <= L * Cardinality(Heard)

\* What is published has a number of cells, and so many more with a message more.
LEMMA CellsPublished ==
  ASSUME NEW p \in Seq(Messages)
  PROVE  /\ Len(FlattenSeq(p)) \in Nat
         /\ \A m \in Messages : /\ Len(m) \in Nat
                                /\ Len(FlattenSeq(Append(p, m))) = Len(FlattenSeq(p)) + Len(m)
<1>1. p \in Seq(Seq(Symbols)) /\ \A m \in Messages : m \in Seq(Symbols)
  BY MessagesAreSeqs
<1>2. <<>> \in Seq(Symbols)
  BY EmptyIsSeq
<1>3. FlattenSeq(p) \in Seq(Symbols)
  BY <1>1, <1>2, FlattenOneMore
<1>4. ASSUME NEW m \in Messages
      PROVE  Len(m) \in Nat /\ Len(FlattenSeq(Append(p, m))) = Len(FlattenSeq(p)) + Len(m)
  <2> DEFINE t == FlattenSeq(p) \o m
  <2>1. m \in Seq(Symbols) /\ FlattenSeq(Append(p, m)) = t
    BY <1>1, FlattenOneMore
  <2>2. Len(m) \in Nat /\ Len(t) = Len(FlattenSeq(p)) + Len(m)
    BY <1>3, <2>1, ConcatIs
  <2> QED BY <2>1, <2>2
<1>5. Len(FlattenSeq(p)) \in Nat
  BY <1>3, LenProperties
<1> QED BY <1>4, <1>5

\* Every step keeps that.
LEMMA BoundedKept ==
  ASSUME NEW L, Roomy(L), Sane, Sane', PublishersWithin, Bounded(L), [Next]_vars
  PROVE  Bounded(L)'
<1> SUFFICES ASSUME pc' \notin Ended, NEW n \in DOMAIN published'
             PROVE  Len(FlattenSeq(published'[n])) <= L * Cardinality(Heard')
  BY DEF Bounded
<1>1. StorageKind
  BY StorageKinds
<1>2. BoxesFit /\ BoxesFit' /\ pc \notin Ended
  BY <1>1 DEF Sane, StorageKind
<1> DEFINE a == L * Cardinality(Heard)
           b == L * Cardinality(Heard')
           size == Len(FlattenSeq(published'[n]))
<1>3. /\ Heard \in SUBSET Hearable /\ Heard' \in SUBSET Hearable
      /\ \A k \in DOMAIN published : Len(FlattenSeq(published[k])) <= a
  BY <1>2 DEF Heard, Hearable, Bounded
<1>4. a \in Nat /\ b \in Nat /\ a <= b
  BY <1>3, FewToHear, HeardGrows
<1>5. pc = "listening" /\ Hears(job.client) => a + L <= b
  BY HeardGrows
<1>6. published'[n] \in Seq(Messages) /\ size \in Nat
  BY <1>2, CellsPublished DEF BoxesFit
<1> HIDE DEF a, b, size
<1>7. CASE published' = published
  <2>1. size <= a
    BY <1>3, <1>7 DEF size
  <2> QED BY <1>4, <1>6, <2>1 DEF size, b
<1>8. CASE \E k \in Boxes : Creates(k)
  <2>1. published'[n] = <<>> \/ (n \in DOMAIN published /\ published'[n] = published[n])
    BY <1>8 DEF Creates
  <2>2. CASE published'[n] = <<>>
    <3>1. size = 0
      BY <2>2, FlattenNone, EmptyIsSeq DEF size
    <3> QED BY <1>4, <3>1 DEF size, b
  <2>3. CASE n \in DOMAIN published /\ published'[n] = published[n]
    <3>1. size <= a
      BY <1>3, <2>3 DEF size
    <3> QED BY <1>4, <1>6, <3>1 DEF size, b
  <2> QED BY <2>1, <2>2, <2>3
<1>9. CASE pc = "listening" /\ Hears(job.client) /\ \E i, m : Accepts(i, m)
  <2>1. PICK i, m : Accepts(i, m)
    BY <1>9
  <2>2. /\ m \in Messages /\ published' = [published EXCEPT ![job.box] = Append(@, m)]
        /\ n \in DOMAIN published
    BY <2>1 DEF Accepts
  <2> DEFINE was == Len(FlattenSeq(published[n]))
             more == Len(m)
  <2>3. published[n] \in Seq(Messages) /\ was <= a
    BY <1>2, <1>3, <2>2 DEF BoxesFit
  <2>4. was \in Nat /\ more \in Nat /\ Len(FlattenSeq(Append(published[n], m))) = was + more
    BY <2>2, <2>3, CellsPublished
  <2>5. published'[n] = published[n] \/ published'[n] = Append(published[n], m)
    BY <2>2
  <2>6. size = was \/ size = was + more
    BY <2>4, <2>5 DEF size
  <2>7. more <= L /\ L \in Nat /\ a + L <= b
    BY <1>5, <1>9, <2>2 DEF Roomy
  <2> HIDE DEF was, more
  <2>8. size <= b
    BY <1>4, <2>3, <2>4, <2>6, <2>7
  <2> QED BY <2>8 DEF size, b
<1> QED BY <1>1, <1>7, <1>8, <1>9 DEF StorageKind, Unstirred

\* A file that is made is empty, and the others keep their sizes.
LEMMA MadeSizes ==
  ASSUME Sane, Sane', NEW n \in Boxes, fs' = fs \/ Makes(n), NEW b, NEW i, FileHas(fs', b, i)
  PROVE  \/ FileHas(fs, b, i) /\ SizeOf(fs', i) = SizeOf(fs, i)
         \/ SizeOf(fs', i) = 0
<1> DEFINE g == tfs_open(fs, n, {"CREAT"}).fs
<1>1. FsInv(fs) /\ FsInv(fs') /\ (fs' = fs \/ fs' = g)
  BY DEF Sane, Makes
<1>2. /\ \A m, k : FileHas(fs, m, k) => ContentsOf(g, k) = ContentsOf(fs, k)
      /\ \A m, k : FileHas(g, m, k) => FileHas(fs, m, k) \/ ContentsOf(g, k) = <<>>
  BY <1>1, CreateKeepsContents
<1> HIDE DEF g
<1>3. SizeOf(fs', i) \in Nat
  BY <1>1, FileIs
<1>4. Len(ContentsOf(fs', i)) = SizeOf(fs', i)
  BY <1>3, ContentsLen DEF SizeOf
<1>5. CASE fs' = fs
  BY <1>5
<1>6. CASE fs' = g /\ FileHas(fs, b, i)
  <2>1. SizeOf(fs, i) \in Nat
    BY <1>1, <1>6, FileIs
  <2>2. Len(ContentsOf(fs, i)) = SizeOf(fs, i)
    BY <2>1, ContentsLen DEF SizeOf
  <2> QED BY <1>2, <1>4, <1>6, <2>2
<1>7. CASE fs' = g /\ ContentsOf(g, i) = <<>>
  BY <1>4, <1>7, EmptyIsSeq
<1> QED BY <1>1, <1>2, <1>5, <1>6, <1>7

\* Every step leaves the files tidy.
LEMMA TidyKept ==
  ASSUME NEW L, Roomy(L), Sane, Sane', PublishersWithin, Bounded(L), FilesTidy, AllStored,
         [Next]_vars
  PROVE  FilesTidy'
<1> SUFFICES ASSUME pc' \notin Ended, NEW b, NEW i, FileHas(fs', b, i)
             PROVE  SizeOf(fs', i) <= BLOCK_SIZE /\ (SizeOf(fs', i) > 0 => InList(b)')
  <2>1. (pc \notin Ended => \A n, i : FileHas(fs, n, i) =>
           SizeOf(fs, i) <= BLOCK_SIZE /\ (SizeOf(fs, i) > 0 => InList(n)))' => FilesTidy'
    BY DEF FilesTidy
  <2> QED BY <2>1 DEF InList
<1>1. StorageKind /\ BLOCK_SIZE \in Nat
  BY StorageKinds, TfsAssumption
<1>2. FsInv(fs) /\ FsInv(fs') /\ BoxesFit /\ pc \notin Ended
  BY <1>1 DEF Sane, StorageKind
<1>3. SizeOf(fs', i) \in Nat
  BY <1>2, FileIs
<1>4. \A n, k : FileHas(fs, n, k) =>
        SizeOf(fs, k) <= BLOCK_SIZE /\ (SizeOf(fs, k) > 0 => InList(n))
  BY <1>2 DEF FilesTidy
<1>5. CASE Unstirred
  <2>1. FileHas(fs, b, i) /\ SizeOf(fs', i) = SizeOf(fs, i) /\ NamesKept
    BY <1>5 DEF Unstirred, SameStorage
  <2>2. InList(b)' <=> InList(b)
    BY <1>2, <2>1, ListedKept
  <2> QED BY <1>4, <2>1, <2>2
<1>6. CASE UNCHANGED <<box_list, published>> /\ \E n \in Boxes : fs' = fs \/ Makes(n)
  <2>1. \/ FileHas(fs, b, i) /\ SizeOf(fs', i) = SizeOf(fs, i)
        \/ SizeOf(fs', i) = 0
    BY <1>6, MadeSizes
  <2>2. InList(b)' <=> InList(b)
    BY <1>6 DEF InList, Boxed
  <2> QED BY <1>1, <1>4, <2>1, <2>2
<1>7. CASE \E n \in Boxes : Creates(n)
  <2>1. PICK n \in Boxes : Creates(n)
    BY <1>7
  <2>2. Makes(n)
    BY <2>1 DEF Creates, MakesAndOpens
  <2>3. \/ FileHas(fs, b, i) /\ SizeOf(fs', i) = SizeOf(fs, i)
        \/ SizeOf(fs', i) = 0
    BY <2>2, MadeSizes
  <2>4. InList(b) => InList(b)'
    BY <1>2, <2>1, CreationListed
  <2> QED BY <1>1, <1>4, <2>3, <2>4
<1>8. CASE pc = "listening" /\ Hears(job.client) /\ \E k, m : Accepts(k, m)
  <2>1. PICK k, m : Accepts(k, m)
    BY <1>8
  <2> DEFINE n == job.box
             r == write_to_box(fs, n, m)
  <2>2. /\ k \in DOMAIN box_list /\ box_list[k].box_name = n /\ m \in Messages /\ Len(m) \in Nat
        /\ box_list' = [box_list EXCEPT ![k].messages_size = Append(@, Len(m))]
        /\ published' = [published EXCEPT ![n] = Append(@, m)]
        /\ fs' = r.fs /\ r.ret >= 0
    BY <2>1 DEF Accepts, Stores, Boxed
  <2>3. /\ n \in DOMAIN published /\ published[n] \in Seq(Messages)
        /\ Stored(box_list[k], fs, published)
    BY <1>2, <2>2 DEF BoxesFit, AllStored, Boxed
  <2> HIDE DEF n
  <2>4. PICK e : FileHas(fs, n, e) /\ ContentsOf(fs, e) = FlattenSeq(published[n])
    BY <2>2, <2>3 DEF Stored
  <2>5. m \in Seq(Symbols) /\ ContentsOf(fs, e) \in Seq(Symbols) /\ SizeOf(fs, e) <= BLOCK_SIZE
    <3>1. m \in Seq(Symbols) /\ published[n] \in Seq(Seq(Symbols))
      BY <2>2, <2>3, MessagesAreSeqs
    <3> QED BY <1>4, <2>4, <3>1, FlattenOneMore
  <2>6. /\ \A d, j : FileHas(fs', d, j) <=> FileHas(fs, d, j)
        /\ SizeOf(fs', e) = SizeOf(fs, e) + Len(m)
        /\ \A j \in Inumbers \ {e} : SizeOf(fs', j) = SizeOf(fs, j)
    <3>1. /\ \A d, j : FileHas(r.fs, d, j) <=> FileHas(fs, d, j)
          /\ SizeOf(r.fs, e) = SizeOf(fs, e) + Len(m)
          /\ \A j \in Inumbers \ {e} : SizeOf(r.fs, j) = SizeOf(fs, j)
      <4> HIDE DEF r
      <4>1. r = write_to_box(fs, n, m)
        BY DEF r
      <4> QED BY ONLY <1>2, <2>2, <2>4, <2>5, <4>1, PublicationAppends
    <3> QED BY <2>2, <3>1
  <2> HIDE DEF r
  <2>7. FileHas(fs, b, i) /\ i \in Inumbers
    BY <1>2, <2>6, FileIs
  <2>8. NamesKept
    BY <1>2, <2>2, SizeAdded
  <2>9. InList(b)' <=> InList(b)
    BY <1>2, <2>8, ListedKept
  <2>10. CASE i # e
    <3>1. SizeOf(fs', i) = SizeOf(fs, i)
      BY <2>6, <2>7, <2>10
    <3> QED BY <1>4, <2>7, <2>9, <3>1
  <2>11. CASE i = e
    <3>1. b = n /\ InList(n)
      BY <1>2, <2>2, <2>4, <2>7, <2>11, FileIs DEF InList, Boxed
    <3>2. SizeOf(fs, e) = Len(FlattenSeq(published[n]))
      <4>1. SizeOf(fs, e) \in Nat
        BY <1>2, <2>4, FileIs
      <4>2. Len(ContentsOf(fs, e)) = SizeOf(fs, e)
        BY <4>1, ContentsLen DEF SizeOf
      <4> QED BY <2>4, <4>2
    <3>3. published'[n] = Append(published[n], m) /\ n \in DOMAIN published'
      BY <2>2, <2>3
    <3>4. Len(FlattenSeq(published'[n])) = SizeOf(fs', e)
      <4>1. Len(FlattenSeq(Append(published[n], m))) = Len(FlattenSeq(published[n])) + Len(m)
        BY <2>2, <2>3, CellsPublished
      <4> QED BY <2>6, <3>2, <3>3, <4>1
    <3> DEFINE most == L * Cardinality(Heard')
    <3>5. SizeOf(fs', e) <= most
      <4>1. PICK d : d = n
        OBVIOUS
      <4>2. Bounded(L)'
        BY BoundedKept
      <4> QED BY <3>3, <3>4, <4>2 DEF Bounded
    <3>6. most \in Nat /\ most <= BLOCK_SIZE
      <4>1. Heard' \in SUBSET Hearable
        BY DEF Heard, Hearable
      <4> QED BY <4>1, FewToHear
    <3> HIDE DEF most
    <3>7. SizeOf(fs', e) <= BLOCK_SIZE
      BY <1>1, <1>3, <2>11, <3>5, <3>6
    <3> QED BY <2>9, <2>11, <3>1, <3>7
  <2> QED BY <2>10, <2>11
<1>9. ~("remove" \in Commands)
  BY DEF Roomy
<1> QED BY <1>1, <1>5, <1>6, <1>7, <1>8, <1>9 DEF StorageKind

\* Nothing is heard at first, and nothing is in a file.
LEMMA TidyStart ==
  ASSUME NEW L, Roomy(L), Init
  PROVE  PublishersWithin /\ Bounded(L) /\ FilesTidy
<1>1. pipe = [c \in Clients |-> <<>>] /\ published = <<>> /\ fs = TfsInitial
  BY DEF Init, ClientsInit
<1>2. PublishersWithin
  BY <1>1, Kinds, EmptyIsSeq, ClientsAssumption DEF PublishersWithin
<1>3. Bounded(L)
  BY <1>1 DEF Bounded
<1>4. FilesTidy
  <2>1. Live(fs) = {}
    BY <1>1, StartsEmpty
  <2> QED BY <2>1 DEF FilesTidy, FileHas
<1> QED BY <1>2, <1>3, <1>4

\* Where blocks have room, files are tidy: as many messages as publishers may send fit
\* in a block, and no box is removed.
THEOREM RoomIsEnough == ASSUME NEW L, Roomy(L) PROVE Behaviour => []FilesTidy
<1> DEFINE Tidy == PublishersWithin /\ Bounded(L) /\ FilesTidy /\ AllStored
<1>1. Init => Tidy
  BY TidyStart, StoredStart
<1>2. Sane /\ Sane' /\ Tidy /\ [Next]_vars => Tidy'
  <2> SUFFICES ASSUME Sane, Sane', Tidy, [Next]_vars PROVE Tidy'
    OBVIOUS
  <2>1. PublishersWithin' /\ Bounded(L)' /\ FilesTidy'
    BY WithinKept, BoundedKept, TidyKept
  <2>2. AllStored'
    BY <2>1, StoredKept
  <2> QED BY <2>1, <2>2
<1>3. Tidy => FilesTidy
  OBVIOUS
<1> HIDE DEF Tidy
<1> QED BY <1>1, <1>2, <1>3, AlwaysSane, PTL DEF Behaviour

\* BoxFileAgree and ReplayFaithful there, whatever is lost, refused or interrupted.
THEOREM RoomKeepsMessages ==
  ASSUME NEW L, Roomy(L) PROVE Behaviour => [](BoxFileAgree /\ ReplayFaithful)
<1>1. Behaviour => []FilesTidy
  BY RoomIsEnough
<1> QED BY <1>1, FilesAgree, ReplaysAreFaithful, PTL
=============================================================================

------------------------------ MODULE Mbroker ------------------------------
(***************************************************************************)
(* The message broker (mbroker/mbroker.c) with its clients, which are      *)
(* those of module Clients.  The broker is one thread.  It takes requests  *)
(* from the register pipe one at a time and serves each to its end, a      *)
(* session included, before it reads the next; a handler that returns -1   *)
(* ends the process.  Messages are kept in TecnicoFS, a file for each box. *)
(*                                                                         *)
(* A broker step goes from one operation on a named pipe to the next: what *)
(* it does in between nobody else can see.                                 *)
(*                                                                         *)
(* The operators named ...Faulty are plausible mistakes in the operator    *)
(* that follows them; the checks put them in its place to show that the    *)
(* properties notice.                                                      *)
(***************************************************************************)
EXTENDS Clients, TfsOps, SequencesExt

CONSTANT LongPathed     \* managers whose path has more than six characters

ASSUME MbrokerAssumption == LongPathed \subseteq Managers

VARIABLES
  pc,               \* where the broker is
  job,              \* the locals of the request it serves
  box_list,         \* the boxes, oldest first
  box_list_mutex,   \* held or not
  fs,               \* TecnicoFS
  published,        \* history: the messages accepted for each box created
  kept              \* history: handles that creations and replays opened

brokerVars == <<pc, job, box_list, box_list_mutex, fs, published, kept>>
vars == <<brokerVars, register_pipe, clientVars>>

NoJob == [client |-> NoClient, life |-> 0, box |-> NoName, todo |-> <<>>, data |-> <<>>,
          handle |-> -1, reader |-> 0]

\* Nobody else runs after these: the process has ended, or is undefined.
Down == {"exited", "crashed", "killed", "undefined"}
\* Nor does the broker after this: it waits for a pipe or a lock in vain.
Ended == Down \cup {"blocked"}

Init ==
  /\ ClientsInit
  /\ pc = "serving" /\ job = NoJob
  /\ box_list = <<>> /\ box_list_mutex = FALSE
  /\ fs = TfsInitial
  /\ published = <<>> /\ kept = 0

-----------------------------------------------------------------------------
(* The broker's use of a client's pipe *)

Goto(label) == pc' = label
Exit == Goto("exited")

\* Whether the process that the broker opened the pipe to still reads it.
HasReader(c) == stage[c] \in Reading /\ lives[c] = job.reader

\* open(path, O_WRONLY): it meets the client's own open, waits for ever on a
\* FIFO that was left behind, or fails where there is none.
OpenToWrite(c, next) ==
  /\ UNCHANGED <<box_list, fs, published, kept, register_pipe, lives, pipe, taken>>
  /\ \/ /\ stage[c] \in {"signed"} \cup Reading
        /\ stage' = [stage EXCEPT ![c] = IF @ = "signed" THEN "reading" ELSE @]
        /\ job' = [job EXCEPT !.reader = lives[c]]
        /\ Goto(next)
     \/ /\ stage[c] = "gone"
        /\ Goto("blocked") /\ UNCHANGED <<stage, job>>
     \/ /\ stage[c] = "nofifo"
        /\ Exit /\ UNCHANGED <<stage, job>>

\* write(fd, ...): SIGPIPE ends the broker when nobody reads.
WriteTo(c, data, next) ==
  /\ UNCHANGED <<box_list, published, kept, register_pipe, stage, lives, taken>>
  /\ pipe' = IF HasReader(c) THEN [pipe EXCEPT ![c] = Append(@, data)] ELSE pipe
  /\ Goto(IF HasReader(c) THEN next ELSE "killed")

-----------------------------------------------------------------------------
(* Requests *)

\* Starts at the second box.
find_box_by_nameFaulty(n) ==
  LET found == {i \in DOMAIN box_list \ {1} : box_list[i].box_name = n}
  IN  IF found = {} THEN 0 ELSE FirstOf(found)

find_box_by_name(n) ==
  LET found == {i \in DOMAIN box_list : box_list[i].box_name = n}
  IN  IF found = {} THEN 0 ELSE FirstOf(found)

\* Every walk of the list starts at its head.
HeadIsFreed == box_list # <<>> /\ Head(box_list).freed

\* The broker takes the next request off the register pipe, of this kind, and
\* looks its box up.  The program is not followed past a use of freed memory;
\* to list the boxes it opens a pipe first.
Serve(code) ==
  /\ pc = "serving" /\ ~box_list_mutex /\ ~fs.locked
  /\ register_pipe # <<>> /\ Head(register_pipe).code = code
  /\ HeadIsFreed => code = "list"
  /\ UNCHANGED clientVars

\* One request of as many bytes as its kind has.
ServeNext(code) == Serve(code) /\ register_pipe' = Tail(register_pipe)

ServeUndefined ==
  /\ pc = "serving" /\ register_pipe # <<>> /\ HeadIsFreed
  /\ Head(register_pipe).code # "list"
  /\ Goto("undefined")
  /\ UNCHANGED <<job, box_list, box_list_mutex, fs, published, kept, register_pipe,
                 clientVars>>

Job(request) == [NoJob EXCEPT !.client = request.client, !.life = request.life,
                              !.box = request.box]
Done == Goto("serving") /\ job' = NoJob

\* Forgets the return code.
create_answerFaulty(code, n, ret) == [op |-> code, box |-> n, ret |-> 0]

\* The bytes of an answer are its op code and return code; which box it is about
\* is not sent.
create_answer(code, n, ret) == [op |-> code, box |-> n, ret |-> ret]

\* A failure is not answered.
AnswerFaulty(request, n, ret) ==
  IF ret < 0 THEN Done
  ELSE /\ job' = [Job(request) EXCEPT !.data = create_answer(request.code, n, ret)]
       /\ Goto("answer open")

Answer(request, n, ret) ==
  /\ job' = [Job(request) EXCEPT !.data = create_answer(request.code, n, ret)]
  /\ Goto("answer open")

NewBox(n) == [box_name |-> n, publisher_named_pipe |-> NoClient, subscribers |-> <<>>,
              messages_size |-> <<>>, freed |-> FALSE]

\* register_box up to its answer; the handle of the new file stays open.
register_box ==
  /\ ServeNext("create")
  /\ LET request == Head(register_pipe)
         n == request.box
         opened == tfs_open(fs, n, {"CREAT"})
         exists == find_box_by_name(n) # 0
     IN  /\ fs' = IF exists THEN fs ELSE opened.fs
         /\ IF exists \/ opened.ret < 0
              THEN Answer(request, n, -1) /\ UNCHANGED <<box_list, published, kept>>
              ELSE /\ box_list' = Append(box_list, NewBox(n))
                   /\ published' = [b \in DOMAIN published \cup {n} |->
                                      IF b = n THEN <<>> ELSE published[b]]
                   /\ kept' = kept + 1
                   /\ Answer(request, n, 0)
  /\ UNCHANGED box_list_mutex

\* The boxes that remove_box_command leaves on its way to the one it looks for
\* are freed, and the file it looks for is unlinked at each: a box that is first
\* keeps its file, one that is second takes the first with it, one that is third
\* or missing is not removed.  A failure is not answered.
remove_box_command(request, n) ==
  LET i == find_box_by_name(n)
      unlinked == tfs_unlink(fs, n)
  IN  IF i = 1
        THEN /\ box_list' = Tail(box_list)
             /\ Answer(request, n, 0) /\ UNCHANGED fs
      ELSE IF i = 2 /\ unlinked.ret = 0
        THEN /\ box_list' = [RemoveAt(box_list, 2) EXCEPT ![1].freed = TRUE]
             /\ fs' = unlinked.fs
             /\ Answer(request, n, 0)
        ELSE Exit /\ UNCHANGED <<job, box_list, fs>>

\* Where the answer goes: to the path that the broker has put together from seven
\* bytes of the sender's and what its stack holds, which may be the end of another
\* manager's path.  If it is nobody's the broker exits.
AnswerPaths(m) == IF m \in LongPathed THEN {c \in Managers : lives[c] > 0} ELSE {m}

\* remove_box reads 256 bytes of path and 32 of name where the manager sent seven.
\* Removals behind it are swallowed with them; another request behind it puts the
\* zeros of its own path where the name should be.  Otherwise the name is what
\* the stack holds: that of any box, or of none, in which case the broker exits.
\* None is also what a request makes of it that arrives between the two reads.
remove_box ==
  /\ Serve("remove")
  /\ LET request == Head(register_pipe)
         swallowed == \A i \in DOMAIN register_pipe : register_pipe[i].code = "remove"
     IN  \/ /\ swallowed
            /\ \E n \in Boxes, client \in AnswerPaths(request.client) :
                 remove_box_command([request EXCEPT !.client = client], n)
            /\ register_pipe' = <<>>
         \/ /\ Exit
            /\ register_pipe' = IF swallowed THEN <<>> ELSE Tail(register_pipe)
            /\ UNCHANGED <<job, box_list, fs>>
  /\ UNCHANGED <<box_list_mutex, published, kept>>

AnswerOpen == /\ pc = "answer open"
              /\ OpenToWrite(job.client, "answer write")
              /\ UNCHANGED box_list_mutex

AnswerWrite == /\ pc = "answer write"
               /\ WriteTo(job.client, job.data, "serving")
               /\ job' = NoJob
               /\ UNCHANGED <<box_list_mutex, fs>>

list_boxes ==
  /\ ServeNext("list")
  /\ job' = Job(Head(register_pipe))
  /\ Goto("list open")
  /\ UNCHANGED <<box_list, box_list_mutex, fs, published, kept>>

\* list_boxes_command opens the pipe before it locks the list.
ListOpen ==
  /\ pc = "list open"
  /\ ~box_list_mutex
  /\ OpenToWrite(job.client, IF HeadIsFreed THEN "undefined" ELSE "list write")
  /\ box_list_mutex' = (pc' = "list write")

\* Eight bytes of a listing are sent: its op code, whether it is the last, and
\* the beginning of the name.
create_listing_message(i) ==
  [op |-> "list", last |-> i = Len(box_list), box |-> box_list[i].box_name]
create_listing_error_message == [op |-> "list", last |-> TRUE, box |-> NoName]

\* One write for each box, or a single one that says there is none.
ListWrite ==
  /\ pc = "list write"
  /\ LET i == Len(job.todo) + 1
         last == i >= Len(box_list)
     IN  /\ WriteTo(job.client, IF box_list = <<>> THEN create_listing_error_message
                                                  ELSE create_listing_message(i),
                    IF last THEN "serving" ELSE "list write")
         /\ job' = IF last THEN NoJob ELSE [job EXCEPT !.todo = Append(@, i)]
         /\ box_list_mutex' = ~last
  /\ UNCHANGED fs

-----------------------------------------------------------------------------
(* A publisher's session *)

register_publisher ==
  /\ ServeNext("publish")
  /\ LET request == Head(register_pipe)
         i == find_box_by_name(request.box)
     IN  IF i = 0 \/ (i > 0 /\ box_list[i].publisher_named_pipe # NoClient)
           THEN Exit /\ UNCHANGED <<job, box_list>>
           ELSE /\ box_list' = [box_list EXCEPT ![i].publisher_named_pipe = request.client]
                /\ job' = Job(request)
                /\ Goto("publisher open")
  /\ UNCHANGED <<box_list_mutex, fs, published, kept>>

\* open(path, O_RDONLY) in listen_to_publisher.
PublisherOpen ==
  /\ pc = "publisher open"
  /\ \/ /\ stage[job.client] = "signed"
        /\ stage' = [stage EXCEPT ![job.client] = "writing"]
        /\ Goto("listening")
     \/ /\ stage[job.client] = "gone"
        /\ Goto("blocked") /\ UNCHANGED stage
  /\ UNCHANGED <<job, box_list, box_list_mutex, fs, published, kept, register_pipe,
                 lives, pipe, taken>>

\* Does not append.
write_to_boxFaulty(f, n, message) ==
  LET opened == tfs_open(f, n, {})
      written == tfs_write(opened.fs, opened.ret, message)
  IN  IF opened.ret < 0 THEN opened
      ELSE IF written.ret < 0 THEN written
      ELSE tfs_close(written.fs, opened.ret)

\* Does not close.
write_to_boxFaulty2(f, n, message) ==
  LET opened == tfs_open(f, n, {"APPEND"})
  IN  IF opened.ret < 0 THEN opened ELSE tfs_write(opened.fs, opened.ret, message)

\* write_to_box on TecnicoFS: open, write, close.
write_to_box(f, n, message) ==
  LET opened == tfs_open(f, n, {"APPEND"})
      written == tfs_write(opened.fs, opened.ret, message)
  IN  IF opened.ret < 0 THEN opened
      ELSE IF written.ret < 0 THEN written
      ELSE tfs_close(written.fs, opened.ret)

\* The path is compared with that of every box up to the publisher's, and a box
\* without a publisher has a null pointer there.
get_box_by_publisher_pipe_crashes(p) ==
  LET i == CHOOSE i \in DOMAIN box_list : box_list[i].publisher_named_pipe = p
  IN  \E j \in 1 .. i - 1 : box_list[j].publisher_named_pipe = NoClient

\* A message is stored and then spread.  The unlock of box_list_mutex that
\* follows finds it free.
ListenMessage ==
  /\ pc = "listening" /\ Unread(job.client) > 0 /\ ~fs.locked /\ ~box_list_mutex
  /\ LET message == pipe[job.client][taken[job.client] + 1]
         i == find_box_by_name(job.box)
         stored == write_to_box(fs, job.box, message)
     IN  /\ fs' = stored.fs
         /\ IF stored.ret < 0
              THEN Exit /\ UNCHANGED <<job, box_list, published>>
              ELSE /\ box_list' = [box_list EXCEPT ![i].messages_size = Append(@, Len(message))]
                   /\ published' = [published EXCEPT ![job.box] = Append(@, message)]
                   /\ job' = [job EXCEPT !.data = message, !.todo = box_list[i].subscribers]
                   /\ Goto(IF get_box_by_publisher_pipe_crashes(job.client) THEN "crashed"
                           ELSE IF box_list[i].subscribers = <<>> THEN "listening"
                           ELSE "spread open")
  /\ taken' = [taken EXCEPT ![job.client] = @ + 1]
  /\ UNCHANGED <<box_list_mutex, kept, register_pipe, stage, lives, pipe>>

SpreadOpen == /\ pc = "spread open"
              /\ OpenToWrite(Head(job.todo), "spread write")
              /\ UNCHANGED box_list_mutex

SpreadWrite ==
  /\ pc = "spread write"
  /\ WriteTo(Head(job.todo), job.data,
             IF Len(job.todo) = 1 THEN "listening" ELSE "spread open")
  /\ job' = [job EXCEPT !.todo = Tail(@)]
  /\ UNCHANGED <<box_list_mutex, fs>>

\* The box keeps its publisher.
ListenEndFaulty ==
  /\ pc = "listening" /\ Unread(job.client) = 0 /\ stage[job.client] # "writing"
  /\ Done
  /\ UNCHANGED <<box_list, box_list_mutex, fs, published, kept, register_pipe, clientVars>>

\* End of file: remove_publisher_command.
ListenEnd ==
  /\ pc = "listening" /\ Unread(job.client) = 0 /\ stage[job.client] # "writing"
  /\ ~box_list_mutex
  /\ box_list' = [box_list EXCEPT ![find_box_by_name(job.box)].publisher_named_pipe = NoClient]
  /\ Done
  /\ UNCHANGED <<box_list_mutex, fs, published, kept, register_pipe, clientVars>>

-----------------------------------------------------------------------------
(* A subscriber's session, all of it under box_list_mutex *)

\* The subscriber is linked to the box when it is the first, and only then.
link(subscribers, s) == IF subscribers = <<>> THEN <<s>> ELSE subscribers

\* get_old_messages up to its first read: the box is opened at its end and
\* rewound, which keeps g_library_mutex if that is the beginning.
rewound_box(f, n) ==
  LET opened == tfs_open(f, n, {"APPEND"})
  IN  IF opened.ret < 0 THEN opened
      ELSE [tfs_rewind_offset(opened.fs, opened.ret) EXCEPT !.ret = opened.ret]

\* register_subscriber_command to the first open in get_old_messages.  A box
\* without messages has no size to read: a null pointer.
register_subscriber ==
  /\ ServeNext("subscribe")
  /\ LET request == Head(register_pipe)
         i == find_box_by_name(request.box)
         box == box_list[i]
         rewound == rewound_box(fs, request.box)
         read == tfs_read(rewound.fs, rewound.ret, Head(box.messages_size))
     IN  IF i = 0 THEN Exit /\ UNCHANGED <<job, box_list, box_list_mutex, fs, kept>>
         ELSE /\ box_list' = [box_list EXCEPT ![i].subscribers = link(@, request.client)]
              /\ IF rewound.ret < 0
                   THEN Exit /\ UNCHANGED <<job, box_list_mutex, fs, kept>>
                 ELSE IF box.messages_size = <<>>
                   THEN Goto("crashed") /\ UNCHANGED <<job, box_list_mutex, fs, kept>>
                   ELSE /\ box_list_mutex' = TRUE
                        /\ kept' = kept + 1
                        /\ job' = [Job(request) EXCEPT !.handle = rewound.ret,
                                     !.todo = Tail(box.messages_size), !.data = read.data]
                        /\ fs' = IF rewound.fs.locked THEN rewound.fs ELSE read.fs
                        /\ Goto(IF rewound.fs.locked THEN "blocked" ELSE "replay open")
  /\ UNCHANGED published

ReplayOpen == /\ pc = "replay open"
              /\ OpenToWrite(job.client, "replay write")
              /\ UNCHANGED box_list_mutex

\* Takes the last message for the end.
ReplayWriteFaulty ==
  /\ pc = "replay write" /\ ~fs.locked
  /\ WriteTo(job.client, job.data, IF Len(job.todo) <= 1 THEN "watch open" ELSE "replay open")
  /\ IF Len(job.todo) <= 1 THEN UNCHANGED <<job, fs>>
     ELSE LET read == tfs_read(fs, job.handle, Head(job.todo))
          IN  /\ job' = [job EXCEPT !.todo = Tail(@), !.data = read.data]
              /\ fs' = read.fs
  /\ UNCHANGED box_list_mutex

\* The message goes out and the next is read, if there is one.
ReplayWrite ==
  /\ pc = "replay write" /\ ~fs.locked
  /\ WriteTo(job.client, job.data, IF job.todo = <<>> THEN "watch open" ELSE "replay open")
  /\ IF job.todo = <<>> THEN UNCHANGED <<job, fs>>
     ELSE LET read == tfs_read(fs, job.handle, Head(job.todo))
          IN  /\ job' = [job EXCEPT !.todo = Tail(@), !.data = read.data]
              /\ fs' = read.fs
  /\ UNCHANGED box_list_mutex

WatchOpen == /\ pc = "watch open"
             /\ OpenToWrite(job.client, "watching")
             /\ UNCHANGED box_list_mutex

\* The mutex stays held.
WatchEndFaulty ==
  /\ pc = "watching" /\ ~HasReader(job.client)
  /\ Done
  /\ UNCHANGED <<box_list, box_list_mutex, fs, published, kept, register_pipe, clientVars>>

\* Waits for the subscriber to remove its FIFO.
WatchEndFaulty2 ==
  /\ pc = "watching" /\ stage[job.client] = "nofifo"
  /\ box_list_mutex' = FALSE
  /\ Done
  /\ UNCHANGED <<box_list, fs, published, kept, register_pipe, clientVars>>

\* select returns once nobody has the pipe open for reading.
WatchEnd ==
  /\ pc = "watching" /\ ~HasReader(job.client)
  /\ box_list_mutex' = FALSE
  /\ Done
  /\ UNCHANGED <<box_list, fs, published, kept, register_pipe, clientVars>>

-----------------------------------------------------------------------------
Broker ==
  \/ register_box \/ remove_box \/ list_boxes \/ register_publisher \/ register_subscriber
  \/ ServeUndefined
  \/ AnswerOpen \/ AnswerWrite \/ ListOpen \/ ListWrite
  \/ PublisherOpen \/ ListenMessage \/ ListenEnd \/ SpreadOpen \/ SpreadWrite
  \/ ReplayOpen \/ ReplayWrite \/ WatchOpen \/ WatchEnd

\* The clients go on beside the broker.  What they do once it is down is left out.
BesideBroker == pc \notin Down /\ UNCHANGED brokerVars

Next == Broker \/ (BesideBroker /\ ClientStep)

Behaviour == Init /\ [][Next]_vars

\* The broker is scheduled.  Nobody has to do anything else.
Spec == Behaviour /\ WF_vars(Broker)

\* Users end what they began: the input of a publisher has an end, and so has
\* the patience of who reads a subscriber's output.
SessionsEnd == /\ \A p \in Publishers : WF_vars(BesideBroker /\ PublisherLeave(p))
               /\ \A s \in Subscribers \cap Killable :
                    WF_vars(BesideBroker /\ stage[s] \in Reading /\ Interrupt(s))
SpecSessionsEnd == Spec /\ SessionsEnd

-----------------------------------------------------------------------------
(* Properties *)

Labels == {"serving", "answer open", "answer write", "list open", "list write",
           "publisher open", "listening", "spread open", "spread write",
           "replay open", "replay write", "watch open", "watching"} \cup Ended

TypeOK ==
  /\ pc \in Labels
  /\ box_list_mutex \in BOOLEAN
  /\ job.client \in Clients \cup {NoClient} /\ job.life \in Nat /\ job.reader \in Nat
  /\ \A i \in DOMAIN box_list :
       /\ box_list[i].box_name \in Boxes
       /\ box_list[i].publisher_named_pipe \in Publishers \cup {NoClient}
       /\ box_list[i].subscribers \in Seq(Subscribers)
       /\ box_list[i].messages_size \in Seq(Nat)
       /\ box_list[i].freed \in BOOLEAN
  /\ ClientsTypeOK
  /\ DOMAIN published \subseteq Boxes /\ kept \in Nat

Boxed(i) == box_list[i].box_name
FileOf(n) == fs.inode_table[find_in_dir(fs.dir, n)]
CellsOf(n) == [k \in 1 .. FileOf(n).i_size |->
                 fs.fs_data[FileOf(n).i_data_block * BLOCK_SIZE + k - 1]]

\* A subscriber that stays to the end of its replay was sent, last of all, the
\* messages published to its box since the box was created: each once, whole
\* and in order, although they are kept as bytes in a file and sizes in a list,
\* and another life of the subscriber may have received some of them already.
ReplayFaithful ==
  pc = "watching" /\ lives[job.client] = job.life /\ job.reader = job.life =>
    IsSuffix(published[job.box], pipe[job.client])

\* The file of a box is the concatenation of the messages accepted for it and
\* messages_size has their lengths, whatever failed in between.
BoxFileAgree ==
  pc \notin Ended => \A i \in DOMAIN box_list :
    LET n == Boxed(i)
    IN  /\ CellsOf(n) = FlattenSeq(published[n])
        /\ box_list[i].messages_size = [k \in DOMAIN published[n] |-> Len(published[n][k])]

\* A broker that is ready for a request or for a message holds neither mutex:
\* every path through a handler has given back what it took.
MutexesFree == pc \in {"serving", "listening"} => ~box_list_mutex /\ ~fs.locked

\* A box has a publisher exactly while the broker is in that one's session, so
\* that a later publisher is not refused.
PublisherInSession ==
  pc \notin Ended => \A i \in DOMAIN box_list :
    box_list[i].publisher_named_pipe =
      IF /\ pc \in {"publisher open", "listening", "spread open", "spread write"}
         /\ job.box = Boxed(i)
        THEN job.client ELSE NoClient

\* A publication gives its handle back; each creation and each replay keeps one
\* of MAX_OPEN_FILES for ever.
HandlesKept == pc \in {"serving", "listening"} => Cardinality(DOMAIN fs.open_file_table) = kept

\* While nothing has been freed, names in the list are unique and each has its
\* own file, the files of removed boxes notwithstanding.
BoxesHaveFiles ==
  pc \notin Ended /\ ~HeadIsFreed =>
    /\ \A i \in DOMAIN box_list : find_in_dir(fs.dir, Boxed(i)) # -1
    /\ \A i, j \in DOMAIN box_list : Boxed(i) = Boxed(j) => i = j

\* How many of these answers managers got, the one on its way included.
Successes(op, boxes) == {create_answer(op, n, 0) : n \in boxes}
Told(answers) ==
  LET received(m) == {i \in DOMAIN pipe[m] : pipe[m][i] \in answers}
  IN  Cardinality(UNION {{<<m, i>> : i \in received(m)} : m \in Managers})
      + IF pc \in {"answer open", "answer write"} /\ job.data \in answers THEN 1 ELSE 0

\* The list has as many boxes as managers were told of creations more than of
\* removals, whatever failed or was swallowed in between; and whoever asked for a
\* box that is in it was told that it was created.  A creation is told to the one
\* that asked, of the box that it named.  A removal counts by its op code alone:
\* the manager may have named another box than the one that went.
AnswersAgree ==
  pc \notin Ended /\ ~HeadIsFreed =>
    /\ Len(box_list) = Told(Successes("create", Boxes)) - Told(Successes("remove", Boxes))
    /\ \A i \in DOMAIN box_list : Told(Successes("create", {Boxed(i)})) > 0

\* If sessions end, a manager that asks for a creation or a listing is answered,
\* or the broker has ended.  A removal may be swallowed with another.
Asks(m, code) == \E i \in DOMAIN register_pipe :
                   register_pipe[i].client = m /\ register_pipe[i].code = code
ManagersAnswered ==
  \A m \in Managers, code \in {"create", "list"} :
    Asks(m, code) ~> (pipe[m] # <<>> \/ pc \in Ended \/ stage[m] = "gone")

\* When the subscriber it watches goes away, the broker serves again.
WatchEnds == (pc = "watching" /\ stage[job.client] = "gone") ~> pc = "serving"

\* "send the create command and the box name to the mbroker" (manager/manager.c,
\* in remove_box): the box that a removal takes away is the one it was asked for.
RemovalNamesItsBox ==
  pc = "answer open" /\ job.data.op = "remove" => job.data.box = job.box

\* "find the box that has the publisher pipe" (mbroker/mbroker.c): the broker
\* does not fail to find a box whose publisher it serves.
PublisherBoxIsFound == pc = "crashed" => job.client \notin Publishers

\* "a session remains open until [...] a box is removed from the manager"
\* (mbroker/mbroker.c): a request to remove the box of a session ends it.
InSessionOn(n) == pc \in {"listening", "watching"} /\ job.box = n
RemovalEndsSession ==
  \A n \in Boxes :
    (InSessionOn(n) /\ \E i \in DOMAIN register_pipe :
                         register_pipe[i].code = "remove" /\ register_pipe[i].box = n)
      ~> ~InSessionOn(n)
=============================================================================

--------------------------- MODULE MbrokerThread ---------------------------
(***************************************************************************)
(* The broker of mbroker_thread.c with the clients of module Clients.  In  *)
(* the program as it stands main serves every request itself               *)
(* (read_pipe_input), and the threads that would (session_thread) are      *)
(* written and not started.  Both are here: the set of threads that serve  *)
(* is chosen at the start.  How a request gets from main's read to a       *)
(* session thread is left out (the call of pcq_enqueue is a comment):      *)
(* whoever is idle takes the next read of the register pipe.               *)
(*                                                                         *)
(* A step goes from one operation that others can see to the next: a call  *)
(* of TecnicoFS, an operation on a pipe, a lock of box_list_mutex.  A      *)
(* critical section without any of them but one call of TecnicoFS is one   *)
(* step, its lock and unlock included.                                     *)
(*                                                                         *)
(* The operators named ...Faulty are plausible mistakes in the operator    *)
(* that follows them; the checks put them in its place to show that the    *)
(* properties notice.                                                      *)
(***************************************************************************)
EXTENDS Clients, TfsOps, SequencesExt

CONSTANTS MainThread,
          SessionThreads,   \* the threads that run session_thread
          NameOrder,        \* the box names as strcmp orders them
          MaxDescriptors,   \* how many the process may have open
          MaxClients,       \* bound: how many clients are ever started
          Nobody

ASSUME MbrokerThreadAssumption ==
  /\ MainThread \notin SessionThreads /\ Nobody \notin SessionThreads \cup {MainThread}
  /\ \A n \in Boxes : \E i \in DOMAIN NameOrder : NameOrder[i] = n
  /\ MaxDescriptors \in Nat /\ MaxClients \in Nat

VARIABLES
  process,          \* up, or how it ended
  threads,          \* the threads that serve
  at,               \* where each of them is
  job,              \* the locals of the request it serves
  box_list,
  box_list_mutex,   \* its holder or Nobody
  fs,               \* TecnicoFS
  request_name,     \* the box name left in main's request buffer
  descriptors,      \* how many are open
  created,          \* history: how often each box was created
  failed,           \* history: clients whose handler returned -1
  lost,             \* history: clients whose request was read with another
  strayed           \* history: a thread has released what another one held

brokerVars == <<process, threads, at, job, box_list, box_list_mutex, fs, request_name,
                descriptors, created, failed, lost, strayed>>
vars == <<brokerVars, register_pipe, clientVars>>
history == <<created, lost, strayed>>

Threads == SessionThreads \cup {MainThread}
NoJob == [client |-> NoClient, box |-> NoName, todo |-> <<>>, data |-> <<>>,
          handle |-> -1, reader |-> 0]

Init ==
  /\ ClientsInit
  /\ process = "up" /\ threads \in {{MainThread}, SessionThreads}
  /\ at = [t \in Threads |-> "idle"] /\ job = [t \in Threads |-> NoJob]
  /\ box_list = <<>> /\ box_list_mutex = Nobody
  /\ fs = TfsInitial
  /\ request_name = NoName
  /\ descriptors = 0
  /\ created = [n \in Boxes |-> 0]
  /\ failed = {} /\ lost = {} /\ strayed = FALSE

\* Where a thread uses the list of boxes across several steps.
Inside == {"listing", "replay open", "replay write", "flood open", "flood write"}
\* Where it takes the lock, changes the list and gives the lock back in one step.
ShortSections == {"create", "remove", "publish", "append"}
InSession == {"publisher open", "listening", "store", "close", "append", "unlock"}
Labels == Inside \cup InSession \cup
          {"idle", "create", "remove", "publish", "subscribe", "list open", "list lock",
           "answer open", "answer write", "stuck"}

-----------------------------------------------------------------------------
(* How a handler goes on and how it ends *)

Steps(t, label) == /\ at' = [at EXCEPT ![t] = label]
                   /\ UNCHANGED <<process, failed>>

Returns(t) == /\ Steps(t, "idle")
              /\ job' = [job EXCEPT ![t] = NoJob]

\* A failure ends main; a session thread logs it and takes the next request.
Fails(t) == /\ process' = IF t = MainThread THEN "exited" ELSE process
            /\ at' = [at EXCEPT ![t] = "idle"]
            /\ job' = [job EXCEPT ![t] = NoJob]
            /\ failed' = failed \cup {job[t].client}

Dies(how) == process' = how /\ UNCHANGED <<at, job, failed>>

\* A thread that has lost the mutex in the middle of the list races with one that
\* changes the list; the program is not followed further.
Races == \E u \in threads : at[u] \in {"listing", "replay open", "replay write"}

\* What is known of the file system and the list is as before, and so are the pipes.
OnlyPipes == UNCHANGED <<threads, box_list, fs, request_name, history>>
NoPipes == UNCHANGED <<register_pipe, clientVars>>

At(t, label) == process = "up" /\ t \in threads /\ at[t] = label

\* open(path, O_WRONLY): meets the client's own open, waits for ever on a FIFO
\* that was left behind, or fails.
OpenToWrite(t, next) ==
  LET c == job[t].client
  IN  /\ \/ /\ stage[c] \in {"signed"} \cup Reading /\ descriptors < MaxDescriptors
            /\ stage' = [stage EXCEPT ![c] = IF @ = "signed" THEN "reading" ELSE @]
            /\ job' = [job EXCEPT ![t].reader = lives[c]]
            /\ descriptors' = descriptors + 1
            /\ Steps(t, next)
         \/ /\ stage[c] = "gone" /\ descriptors < MaxDescriptors
            /\ Steps(t, "stuck") /\ UNCHANGED <<stage, job, descriptors>>
         \/ /\ stage[c] = "nofifo" \/ descriptors = MaxDescriptors
            /\ Fails(t) /\ UNCHANGED <<stage, descriptors>>
      /\ UNCHANGED <<register_pipe, fifoVars>>

\* Whether the process that the broker opened the pipe to still reads it.
HasReader(t) == LET c == job[t].client IN stage[c] \in Reading /\ lives[c] = job[t].reader

\* write(fd, ...) to a pipe with a reader; without one SIGPIPE ends the process.
Sends(t, data) == /\ HasReader(t)
                  /\ pipe' = [pipe EXCEPT ![job[t].client] = Append(@, data)]
                  /\ UNCHANGED <<register_pipe, stage, lives, taken>>
BrokenPipe(t) == /\ ~HasReader(t)
                 /\ Dies("killed")
                 /\ UNCHANGED <<descriptors, register_pipe, clientVars>>

-----------------------------------------------------------------------------
(* The register pipe: main reads 289 bytes whatever the request *)

BOX_MESSAGE_SIZE == 289
NameOffset == 257       \* where the box name begins

SumBytes(q) == FoldSeq(LAMBDA r, sum : r.bytes + sum, 0, q)

\* Those that a read begins to take, how many it takes whole, and what it leaves.
Touched(q) == {i \in DOMAIN q : SumBytes(SubSeq(q, 1, i - 1)) < BOX_MESSAGE_SIZE}
Whole(q) == Cardinality({i \in DOMAIN q : SumBytes(SubSeq(q, 1, i)) <= BOX_MESSAGE_SIZE})
Rest(q) ==
  LET k == Whole(q)
      over == BOX_MESSAGE_SIZE - SumBytes(SubSeq(q, 1, k))
  IN  IF k = Len(q) THEN <<>>
      ELSE IF over = 0 THEN SubSeq(q, k + 1, Len(q))
      ELSE <<[q[k + 1] EXCEPT !.bytes = @ - over, !.code = "cut"]>> \o SubSeq(q, k + 2, Len(q))

\* The box name in the buffer: that of a whole request, that of an earlier one if
\* the read did not get so far, or bytes of something else.
NameRead(q) == IF Head(q).bytes = BOX_MESSAGE_SIZE THEN Head(q).box
               ELSE IF SumBytes(q) <= NameOffset THEN request_name ELSE NoName

\* The request is taken for one of its kind, whatever was read behind it.  A read
\* that begins in the middle of a request finds no op code.
read_pipe_input(t) ==
  /\ At(t, "idle") /\ register_pipe # <<>>
  /\ LET request == Head(register_pipe)
         n == NameRead(register_pipe)
         behind == Touched(register_pipe) \ {1}
     IN  /\ register_pipe' = Rest(register_pipe)
         /\ request_name' = n
         /\ lost' = lost \cup {register_pipe[i].client : i \in behind}
         /\ IF request.code = "cut"
              THEN /\ process' = IF t = MainThread THEN "exited" ELSE process
                   /\ UNCHANGED <<at, job, failed>>
              ELSE /\ Steps(t, IF request.code = "list" THEN "list open" ELSE request.code)
                   /\ job' = [job EXCEPT ![t] = [NoJob EXCEPT !.client = request.client,
                                                              !.box = n]]
  /\ UNCHANGED <<threads, box_list, box_list_mutex, fs, descriptors, created, strayed,
                 clientVars>>
-----------------------------------------------------------------------------
(* Managers *)

find_box_by_name(n) ==
  LET found == {i \in DOMAIN box_list : box_list[i].box_name = n}
  IN  IF found = {} THEN 0 ELSE FirstOf(found)

Precedes(m, n) == \E i, j \in DOMAIN NameOrder : i < j /\ NameOrder[i] = m /\ NameOrder[j] = n

NewBox(n) == [box_name |-> n, publisher_named_pipe |-> NoClient, num_subscribers |-> 0,
              messages_size |-> <<>>]

\* The new box follows the first whose name does not precede its own, or the last;
\* whatever followed that one is dropped.
Inserted(n) ==
  LET stops == {i \in DOMAIN box_list :
                  i = Len(box_list) \/ ~Precedes(box_list[i].box_name, n)}
  IN  IF box_list = <<>> THEN <<NewBox(n)>>
      ELSE Append(SubSeq(box_list, 1, FirstOf(stops)), NewBox(n))

Answers(t, op, ret) ==
  /\ Steps(t, "answer open")
  /\ job' = [job EXCEPT ![t].data = [op |-> op, ret |-> ret]]

\* The calls of TecnicoFS wait for g_library_mutex; inside a critical section they
\* wait with box_list_mutex held.
StuckInside(t) == /\ fs.locked
                  /\ box_list_mutex' = t
                  /\ Steps(t, "stuck") /\ UNCHANGED <<job, box_list, fs, created>>

\* register_box up to its answer.
create_box_command(t) ==
  LET n == job[t].box
      opened == tfs_open(fs, n, {"CREAT"})
  IN  /\ At(t, "create") /\ box_list_mutex = Nobody
      /\ \/ /\ find_box_by_name(n) # 0
            /\ Answers(t, "create", -1)
            /\ UNCHANGED <<box_list, box_list_mutex, fs, created>>
         \/ find_box_by_name(n) = 0 /\ StuckInside(t)
         \/ /\ find_box_by_name(n) = 0 /\ ~fs.locked /\ opened.ret < 0
            /\ fs' = opened.fs
            /\ Answers(t, "create", -1)
            /\ UNCHANGED <<box_list, box_list_mutex, created>>
         \/ /\ find_box_by_name(n) = 0 /\ ~fs.locked /\ opened.ret >= 0 /\ ~Races
            /\ fs' = opened.fs
            /\ box_list' = Inserted(n)
            /\ created' = [created EXCEPT ![n] = @ + 1]
            /\ Answers(t, "create", 0)
            /\ UNCHANGED box_list_mutex
         \/ /\ find_box_by_name(n) = 0 /\ Races
            /\ Dies("undefined")
            /\ UNCHANGED <<box_list, box_list_mutex, fs, created>>
      /\ UNCHANGED <<threads, request_name, descriptors, lost, strayed>> /\ NoPipes

\* Does not unlock when the box is missing.
remove_box_commandFaulty(t) ==
  LET i == find_box_by_name(job[t].box)
  IN  /\ At(t, "remove") /\ box_list_mutex = Nobody
      /\ IF i = 0 THEN Fails(t) /\ box_list_mutex' = t /\ UNCHANGED box_list
         ELSE /\ box_list' = RemoveAt(box_list, i)
              /\ Answers(t, "remove", 0)
              /\ UNCHANGED box_list_mutex
      /\ UNCHANGED <<threads, fs, request_name, descriptors, history>> /\ NoPipes

\* Takes the removal of a missing box for done.
remove_box_commandSilent(t) ==
  LET i == find_box_by_name(job[t].box)
  IN  /\ At(t, "remove") /\ box_list_mutex = Nobody
      /\ IF i = 0 THEN Returns(t) /\ UNCHANGED box_list
         ELSE /\ box_list' = RemoveAt(box_list, i)
              /\ Answers(t, "remove", 0)
      /\ UNCHANGED <<threads, box_list_mutex, fs, request_name, descriptors, history>>
      /\ NoPipes

\* The box leaves the list and its file stays.  A box that is missing is not
\* answered.
remove_box_command(t) ==
  LET i == find_box_by_name(job[t].box)
  IN  /\ At(t, "remove") /\ box_list_mutex = Nobody
      /\ \/ i = 0 /\ Fails(t) /\ UNCHANGED box_list
         \/ /\ i # 0 /\ ~Races
            /\ box_list' = RemoveAt(box_list, i)
            /\ Answers(t, "remove", 0)
         \/ i # 0 /\ Races /\ Dies("undefined") /\ UNCHANGED box_list
      /\ UNCHANGED <<threads, box_list_mutex, fs, request_name, descriptors, history>>
      /\ NoPipes

AnswerOpen(t) == /\ At(t, "answer open")
                 /\ OpenToWrite(t, "answer write")
                 /\ UNCHANGED box_list_mutex /\ OnlyPipes

\* Closes the pipe twice.
AnswerWriteFaulty(t) ==
  /\ At(t, "answer write")
  /\ \/ /\ Sends(t, job[t].data)
        /\ descriptors' = descriptors - 2
        /\ Returns(t)
     \/ BrokenPipe(t)
  /\ UNCHANGED box_list_mutex /\ OnlyPipes

\* The answer is written and the pipe closed.
AnswerWrite(t) ==
  /\ At(t, "answer write")
  /\ \/ /\ Sends(t, job[t].data)
        /\ descriptors' = descriptors - 1
        /\ Returns(t)
     \/ BrokenPipe(t)
  /\ UNCHANGED box_list_mutex /\ OnlyPipes

ListOpen(t) == /\ At(t, "list open")
               /\ OpenToWrite(t, "list lock")
               /\ UNCHANGED box_list_mutex /\ OnlyPipes

create_listing_message(i) ==
  [op |-> "list", last |-> i = Len(box_list), box |-> box_list[i].box_name,
   n_publishers |-> IF box_list[i].publisher_named_pipe = NoClient THEN 0 ELSE 1,
   n_subscribers |-> box_list[i].num_subscribers]
create_listing_error_message ==
  [op |-> "list", last |-> TRUE, box |-> NoName, n_publishers |-> 0, n_subscribers |-> 0]

ListLock(t) == /\ At(t, "list lock") /\ box_list_mutex = Nobody
               /\ box_list_mutex' = t
               /\ Steps(t, "listing")
               /\ UNCHANGED <<job, descriptors>> /\ OnlyPipes /\ NoPipes

\* Locks the list for each box anew.
ListWriteFaulty(t) ==
  LET i == Len(job[t].todo) + 1
  IN  /\ At(t, "listing")
      /\ box_list_mutex' = Nobody
      /\ \/ BrokenPipe(t)
         \/ /\ i < Len(box_list)
            /\ Sends(t, create_listing_message(i))
            /\ job' = [job EXCEPT ![t].todo = Append(@, i)]
            /\ Steps(t, "list lock") /\ UNCHANGED descriptors
         \/ /\ i >= Len(box_list)
            /\ Sends(t, IF i > Len(box_list) THEN create_listing_error_message
                                            ELSE create_listing_message(i))
            /\ Returns(t) /\ UNCHANGED descriptors
      /\ OnlyPipes

\* A write for each box.  With the last the pipe is closed and the list unlocked;
\* the pipe of an empty listing stays open.
ListWrite(t) ==
  LET i == Len(job[t].todo) + 1
  IN  /\ At(t, "listing")
      /\ \/ BrokenPipe(t) /\ UNCHANGED box_list_mutex
         \/ /\ i < Len(box_list)
            /\ Sends(t, create_listing_message(i))
            /\ job' = [job EXCEPT ![t].todo = Append(@, i)]
            /\ Steps(t, "listing") /\ UNCHANGED <<descriptors, box_list_mutex>>
         \/ /\ i = Len(box_list)
            /\ Sends(t, create_listing_message(i))
            /\ descriptors' = descriptors - 1
            /\ box_list_mutex' = Nobody
            /\ Returns(t)
         \/ /\ box_list = <<>>
            /\ Sends(t, create_listing_error_message)
            /\ box_list_mutex' = Nobody
            /\ Returns(t) /\ UNCHANGED descriptors
      /\ OnlyPipes

-----------------------------------------------------------------------------
(* A publisher's session *)

\* Takes a box that has a publisher.
register_publisher_commandFaulty(t) ==
  LET i == find_box_by_name(job[t].box)
  IN  /\ At(t, "publish") /\ box_list_mutex = Nobody
      /\ IF i = 0 THEN Fails(t) /\ UNCHANGED box_list
         ELSE /\ box_list' = [box_list EXCEPT ![i].publisher_named_pipe = job[t].client]
              /\ Steps(t, "publisher open") /\ UNCHANGED job
      /\ UNCHANGED <<threads, box_list_mutex, fs, request_name, descriptors, history>>
      /\ NoPipes

register_publisher_command(t) ==
  LET i == find_box_by_name(job[t].box)
      free == i # 0 /\ box_list[i].publisher_named_pipe = NoClient
  IN  /\ At(t, "publish") /\ box_list_mutex = Nobody
      /\ \/ ~free /\ Fails(t) /\ UNCHANGED box_list
         \/ /\ free /\ ~Races
            /\ box_list' = [box_list EXCEPT ![i].publisher_named_pipe = job[t].client]
            /\ Steps(t, "publisher open") /\ UNCHANGED job
         \/ free /\ Races /\ Dies("undefined") /\ UNCHANGED box_list
      /\ UNCHANGED <<threads, box_list_mutex, fs, request_name, descriptors, history>>
      /\ NoPipes

\* open(path, O_RDONLY) in listen_to_publisher; the descriptor is never closed.  A
\* failure leaves the box with its publisher.
PublisherOpen(t) ==
  LET p == job[t].client
  IN  /\ At(t, "publisher open")
      /\ \/ /\ stage[p] = "signed" /\ descriptors < MaxDescriptors
            /\ stage' = [stage EXCEPT ![p] = "writing"]
            /\ descriptors' = descriptors + 1
            /\ Steps(t, "listening") /\ UNCHANGED job
         \/ /\ stage[p] = "gone" /\ descriptors < MaxDescriptors
            /\ Steps(t, "stuck") /\ UNCHANGED <<stage, job, descriptors>>
         \/ /\ descriptors = MaxDescriptors
            /\ Fails(t) /\ UNCHANGED <<stage, descriptors>>
      /\ UNCHANGED <<box_list_mutex, register_pipe, fifoVars>> /\ OnlyPipes

\* A message is read, and write_to_box opens the box at its end.
read_publisher_pipe_input(t) ==
  LET p == job[t].client
      opened == tfs_open(fs, job[t].box, {"APPEND"})
  IN  /\ At(t, "listening") /\ Unread(p) > 0 /\ ~fs.locked
      /\ taken' = [taken EXCEPT ![p] = @ + 1]
      /\ fs' = opened.fs
      /\ IF opened.ret < 0 THEN Fails(t)
         ELSE /\ job' = [job EXCEPT ![t].handle = opened.ret,
                                    ![t].data = pipe[p][taken[p] + 1]]
              /\ Steps(t, "store")
      /\ UNCHANGED <<threads, box_list, box_list_mutex, request_name, descriptors, history,
                     register_pipe, stage, lives, pipe>>

\* A failure leaves the handle open.
Store(t) ==
  LET written == tfs_write(fs, job[t].handle, job[t].data)
  IN  /\ At(t, "store") /\ ~fs.locked
      /\ fs' = written.fs
      /\ IF written.ret < 0 THEN Fails(t) ELSE Steps(t, "close") /\ UNCHANGED job
      /\ UNCHANGED <<threads, box_list, box_list_mutex, request_name, descriptors, history>>
      /\ NoPipes

CloseBox(t) == /\ At(t, "close") /\ ~fs.locked
               /\ fs' = tfs_close(fs, job[t].handle).fs
               /\ Steps(t, "append")
               /\ UNCHANGED <<threads, job, box_list, box_list_mutex, request_name,
                              descriptors, history>>
               /\ NoPipes

\* The size of the message is appended to those of the box, if it is still listed.
AppendSize(t) ==
  LET i == find_box_by_name(job[t].box)
  IN  /\ At(t, "append") /\ box_list_mutex = Nobody
      /\ \/ i = 0 /\ Fails(t) /\ UNCHANGED box_list
         \/ /\ i # 0 /\ ~Races
            /\ box_list' = [box_list EXCEPT ![i].messages_size =
                              Append(@, Len(job[t].data))]
            /\ Steps(t, "unlock") /\ UNCHANGED job
         \/ i # 0 /\ Races /\ Dies("undefined") /\ UNCHANGED box_list
      /\ UNCHANGED <<threads, box_list_mutex, fs, request_name, descriptors, history>>
      /\ NoPipes

\* read_publisher_pipe_input ends with an unlock of a mutex that this thread has
\* given back already: it releases whoever holds it.  If that one is in the middle
\* of a critical section that is one step here, this thread can be in another
\* before it ends, at the latest when its publisher leaves.
StrayUnlock(t) ==
  /\ At(t, "unlock")
  /\ \/ /\ box_list_mutex' = Nobody
        /\ strayed' = (strayed \/ box_list_mutex # Nobody)
        /\ Steps(t, "listening")
        /\ UNCHANGED job
     \/ /\ box_list_mutex = Nobody /\ \E u \in threads \ {t} : at[u] \in ShortSections
        /\ Dies("undefined")
        /\ UNCHANGED <<box_list_mutex, strayed>>
  /\ UNCHANGED <<threads, box_list, fs, request_name, descriptors, created, lost>>
  /\ NoPipes

\* Forgets to free the box for the next publisher.
remove_publisher_commandFaulty(t) ==
  /\ At(t, "listening") /\ box_list_mutex = Nobody
  /\ Unread(job[t].client) = 0 /\ stage[job[t].client] # "writing"
  /\ Returns(t)
  /\ UNCHANGED <<threads, box_list, box_list_mutex, fs, request_name, descriptors, history>>
  /\ NoPipes

\* End of file.  The box may be missing, or another of its name that has another
\* publisher or none: then a null pointer is compared.
remove_publisher_command(t) ==
  LET p == job[t].client
      i == find_box_by_name(job[t].box)
      present == IF i = 0 THEN NoClient ELSE box_list[i].publisher_named_pipe
  IN  /\ At(t, "listening") /\ box_list_mutex = Nobody
      /\ Unread(p) = 0 /\ stage[p] # "writing"
      /\ \/ i # 0 /\ present = NoClient /\ Dies("crashed") /\ UNCHANGED box_list
         \/ /\ i = 0 \/ present \notin {NoClient, p}
            /\ Fails(t) /\ UNCHANGED box_list
         \/ /\ present = p /\ ~Races
            /\ box_list' = [box_list EXCEPT ![i].publisher_named_pipe = NoClient]
            /\ Returns(t)
         \/ present = p /\ Races /\ Dies("undefined") /\ UNCHANGED box_list
      /\ UNCHANGED <<threads, box_list_mutex, fs, request_name, descriptors, history>>
      /\ NoPipes

-----------------------------------------------------------------------------
(* A subscriber's session: box_list_mutex is taken at its start, and given back  *)
(* only when a message cannot be read.                                           *)

\* Up to the rewind.  A box that cannot be opened leaves the mutex held.
register_subscriber_command(t) ==
  LET n == job[t].box
      i == find_box_by_name(n)
      opened == tfs_open(fs, n, {"APPEND"})
  IN  /\ At(t, "subscribe") /\ box_list_mutex = Nobody
      /\ \/ i = 0 /\ Fails(t) /\ UNCHANGED <<box_list, box_list_mutex, fs>>
         \/ /\ i # 0 /\ ~Races
            /\ box_list' = [box_list EXCEPT ![i].num_subscribers = @ + 1]
            /\ box_list_mutex' = t
            /\ \/ fs.locked /\ Steps(t, "stuck") /\ UNCHANGED <<job, fs>>
               \/ /\ ~fs.locked /\ opened.ret < 0
                  /\ fs' = opened.fs
                  /\ Fails(t)
               \/ /\ ~fs.locked /\ opened.ret >= 0
                  /\ fs' = tfs_rewind_offset(opened.fs, opened.ret).fs
                  /\ job' = [job EXCEPT ![t].handle = opened.ret, ![t].data = <<Unwritten>>,
                                        ![t].todo = box_list[i].messages_size]
                  /\ Steps(t, "replay open")
         \/ i # 0 /\ Races /\ Dies("undefined") /\ UNCHANGED <<box_list, box_list_mutex, fs>>
      /\ UNCHANGED <<threads, request_name, descriptors, history>> /\ NoPipes

ReplayOpen(t) == /\ At(t, "replay open")
                 /\ OpenToWrite(t, "replay write")
                 /\ UNCHANGED box_list_mutex /\ OnlyPipes

\* What goes out first is the buffer as malloc gave it: the first read is a
\* comment.  A box without messages has a null pointer where the size of the next
\* is looked for.
ReplayWrite(t) ==
  LET todo == job[t].todo
      read == tfs_read(fs, job[t].handle, todo[2])
  IN  /\ At(t, "replay write")
      /\ \/ BrokenPipe(t) /\ UNCHANGED <<box_list_mutex, fs>>
         \/ /\ Sends(t, job[t].data)
            /\ \/ todo = <<>> /\ Dies("crashed") /\ UNCHANGED <<box_list_mutex, fs>>
               \/ /\ Len(todo) = 1
                  /\ Steps(t, "flood open") /\ UNCHANGED <<job, box_list_mutex, fs>>
               \/ /\ Len(todo) > 1 /\ fs.locked
                  /\ Steps(t, "stuck") /\ UNCHANGED <<job, box_list_mutex, fs>>
               \/ /\ Len(todo) > 1 /\ ~fs.locked /\ read.ret > 0
                  /\ fs' = read.fs
                  /\ job' = [job EXCEPT ![t].todo = Tail(@), ![t].data = read.data]
                  /\ Steps(t, "replay open") /\ UNCHANGED box_list_mutex
               \/ /\ Len(todo) > 1 /\ ~fs.locked /\ read.ret <= 0
                  /\ fs' = read.fs
                  /\ box_list_mutex' = Nobody
                  /\ Fails(t)
            /\ UNCHANGED descriptors
      /\ UNCHANGED <<threads, box_list, request_name, history>>

\* Then it sends without waiting for anything: the wait is a comment.  What is
\* read from the box is not what is sent; where the handle moves is left out.
FloodOpen(t) == /\ At(t, "flood open") /\ ~fs.locked
                /\ OpenToWrite(t, "flood write")
                /\ UNCHANGED box_list_mutex /\ OnlyPipes

FloodWrite(t) == /\ At(t, "flood write")
                 /\ \/ /\ Sends(t, <<Unwritten>>)
                       /\ Steps(t, "flood open") /\ UNCHANGED <<job, descriptors>>
                    \/ BrokenPipe(t)
                 /\ UNCHANGED box_list_mutex /\ OnlyPipes

-----------------------------------------------------------------------------
Thread(t) ==
  \/ read_pipe_input(t)
  \/ create_box_command(t) \/ remove_box_command(t) \/ AnswerOpen(t) \/ AnswerWrite(t)
  \/ ListOpen(t) \/ ListLock(t) \/ ListWrite(t)
  \/ register_publisher_command(t) \/ PublisherOpen(t) \/ read_publisher_pipe_input(t)
  \/ Store(t) \/ CloseBox(t) \/ AppendSize(t) \/ StrayUnlock(t)
  \/ remove_publisher_command(t)
  \/ register_subscriber_command(t) \/ ReplayOpen(t) \/ ReplayWrite(t)
  \/ FloodOpen(t) \/ FloodWrite(t)

\* The clients go on beside the broker.  What they do once it is down is left out.
BesideBroker == process = "up" /\ UNCHANGED brokerVars

FewClients == Cardinality({c \in Clients : lives[c] > 0}) <= MaxClients

Next == (\E t \in Threads : Thread(t)) \/ (BesideBroker /\ ClientStep /\ FewClients')

Spec == Init /\ [][Next]_vars

-----------------------------------------------------------------------------
(* Properties *)

TypeOK ==
  /\ process \in {"up", "exited", "killed", "crashed", "undefined"}
  /\ threads \subseteq Threads
  /\ at \in [Threads -> Labels]
  /\ \A t \in Threads : job[t].client \in Clients \cup {NoClient}
  /\ \A i \in DOMAIN box_list :
       /\ box_list[i].box_name \in Boxes
       /\ box_list[i].publisher_named_pipe \in Publishers \cup {NoClient}
       /\ box_list[i].messages_size \in Seq(Nat) /\ box_list[i].num_subscribers \in Nat
  /\ box_list_mutex \in Threads \cup {Nobody}
  /\ request_name \in Boxes \cup {NoName}
  /\ descriptors \in 0 .. MaxDescriptors
  /\ created \in [Boxes -> Nat] /\ failed \subseteq Clients /\ lost \subseteq Clients
  /\ strayed \in BOOLEAN
  /\ ClientsTypeOK

\* What a listing has sent so far is the beginning of the list as it is now, its
\* end marked, whatever others do meanwhile; unless a publisher's thread has
\* released the mutex under it.
ListingAgrees ==
  process = "up" /\ ~strayed =>
    \A t \in threads :
      at[t] = "listing" =>
        pipe[job[t].client] = [i \in DOMAIN job[t].todo |-> create_listing_message(i)]

\* The mutex is held by a thread inside the list, or it is one that a subscriber's
\* failed session has kept; and who is inside holds it, unless it was released by
\* a publisher's thread.  The rest of the code takes it and gives it back on every
\* path.
MutexAccounted ==
  process = "up" =>
    /\ \A t \in threads : box_list_mutex = t =>
         at[t] \in Inside \cup {"stuck"} \/ failed \cap Subscribers # {}
    /\ ~strayed => \A t \in threads : at[t] \in Inside => box_list_mutex = t

\* The sizes kept for a box add up to its file, the message that is between the
\* two included, as long as the box is the first of its name: one publisher at a
\* time appends, in four calls that others come between.
Bytes(n) == FoldSeq(+, 0, box_list[find_box_by_name(n)].messages_size)
OnItsWay(n) == {t \in threads : at[t] \in {"close", "append"} /\ job[t].box = n}
SizesAgree ==
  process = "up" => \A n \in Boxes :
    find_box_by_name(n) # 0 /\ created[n] = 1 =>
      fs.inode_table[find_in_dir(fs.dir, n)].i_size =
        Bytes(n) + FoldSet(LAMBDA t, sum : Len(job[t].data) + sum, 0, OnItsWay(n))

\* A box has a publisher exactly while a thread is in that one's session, or for
\* ever if the session failed or hangs; a box that was removed and created again
\* excepted, which a session on the old one knows nothing of.
PublishersAccounted ==
  process = "up" => \A i \in DOMAIN box_list :
    LET p == box_list[i].publisher_named_pipe
        n == box_list[i].box_name
        serving == {t \in threads : at[t] \in InSession /\ job[t].box = n}
    IN  /\ p # NoClient =>
             \/ p \in failed
             \/ \E t \in threads : job[t].client = p /\ at[t] \in InSession \cup {"stuck"}
        /\ created[n] = 1 => \A t \in serving : job[t].client = p

\* No request disappears: a client that waits for its pipe to be opened has its
\* request in the register pipe or in the hands of one thread, unless the handler
\* returned -1 or the request was read behind another's.  In a later life of a
\* subscriber the request of an earlier one may still be served.
Waiting(c) == stage[c] = "signed" /\ lives[c] = 1 /\ c \notin failed \cup lost
RequestsAccounted ==
  process = "up" => \A c \in Clients : Waiting(c) =>
    1 = Cardinality({i \in DOMAIN register_pipe : register_pipe[i].client = c})
        + Cardinality({t \in threads : job[t].client = c})
=============================================================================

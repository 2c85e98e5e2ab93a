# A TLA+ model of the pipe messaging system

The repository is a message broker for one machine. Managers create, remove and
list boxes; publishers write messages to a box; subscribers are sent the
messages of a box. Every process talks to the broker through named pipes, and
the broker keeps the messages in TecnicoFS, a file system in its own memory. A
bounded producer-consumer queue is there for a pool of session threads.

This directory models those parts, model-checks them on small instances and
proves what holds of the queue, of TecnicoFS and of both brokers for every
instance. `PROJECT.json` maps each
definition to the lines it translates and lists runs, mutants, findings,
hazards and theorems.

## Inventory

| Component | State | Operations | Interacts with |
|---|---|---|---|
| Queue (`producer-consumer/`) | ring, head, tail, count, five mutexes, two conditions | `pcq_create`, `pcq_destroy`, `pcq_enqueue`, `pcq_dequeue` | created by the broker; meant for its session threads |
| TecnicoFS (`fs/`) | inode table, block map, blocks, root directory, open file table, `g_library_mutex` | `tfs_init`, `tfs_destroy`, `tfs_open`, `tfs_close`, `tfs_write`, `tfs_read`, `tfs_rewind_offset`, `tfs_unlink` | called by the broker, by several threads in `tests/` |
| Broker (`mbroker/mbroker.c`) | `box_list`, `box_list_mutex`, the session it serves | serving loop; create, remove, list; publisher's and subscriber's session | register pipe (reads), clients' pipes (reads and writes), TecnicoFS |
| Manager (`manager/`) | its FIFO | one request, one answer | register pipe, broker |
| Publisher (`publisher/`) | its FIFO | sign in, write each line, end | register pipe, broker |
| Subscriber (`subscriber/`) | its FIFO | sign in, read, SIGINT, start again | register pipe, broker |
| Broker for threads (`mbroker_thread.c`) | `box_list`, `box_list_mutex`, a session per thread, one request buffer | the same five requests, served by `main` or by `session_thread` in several threads; the threads are written and their start is a comment; built by no rule | as the broker |
| `utils/`, `tests/`, build files | | record layouts, op codes, assertions, logging | |

What is hard in each, and what makes it correct:

* **Queue.** Threads leave the gate (the test of the count under the
  condition's mutex) before they take a slot; the count is written under a
  third mutex. Correct when the count stays within the capacity, no increment
  is lost, a store never meets a load on one slot, no wake-up is lost, elements
  come out once and in order, and every enqueue returns.
* **TecnicoFS.** One mutex makes each call atomic; the difficulty is in
  sequences: handles that outlive their file, an operation that fails half-way,
  tables that are full, the order of TRUNC and APPEND. Correct when directory,
  inode table and block map agree and the whole behaves as a store of files.
* **Broker and clients.** One thread, sessions served to their end, and clients
  that may vanish between any two operations on a pipe: an `open` that waits
  for ever, a `write` that is a SIGPIPE, a path that leads to another life of
  the client. Correct when a replay is what was published, the sizes in the
  list agree with the bytes in the file, mutexes, handles and the publisher's
  place are given back, and whoever waits is answered.

* **Broker for threads.** Sessions side by side over one list and one mutex, with
  the library called outside the mutex by publishers and inside it by everyone
  else; a thread that gives back a mutex it does not hold, one that never gives
  it back; reads of 289 bytes over requests of 8, 257 and 289. Correct when a
  listing is the list, sizes and file agree, a box has the publisher whose
  thread is in session, the mutex is with who uses the list, and no request
  disappears.

The hazards are listed one by one, each at its line, in `PROJECT.json`. Some of
them the code meets and nothing in the repository says what should happen then: the
model follows them, the properties except them, and the list names no property
there but says where the model goes.

## Modules

| Module | What it is |
|---|---|
| `BoundedFifo` | abstract: a first-in first-out queue, `Put`, `Get`, `Discard` |
| `PCQueue` | the queue, one action per step that another thread can see |
| `PCQueueProofs` | theorems for any number of threads, and for one producer and one consumer |
| `PCQueueRefinement` | for those, `PCQueue` implements `BoundedFifo` |
| `FileStore` | abstract: named files with contents, and handles with offsets |
| `TfsOps` | the operations of TecnicoFS as functions of its state |
| `TfsOpsProofs` | what keeps the tables consistent, and what each operation does then |
| `TecnicoFS` | the calls as actions, any caller or disciplined ones |
| `TecnicoFSProofs` | theorems for any callers |
| `TecnicoFSRefinement` | with disciplined callers, `TecnicoFS` implements `FileStore` |
| `Clients` | managers, publishers, subscribers, their FIFOs and the register pipe |
| `ClientsProofs` | what the clients keep, whatever the broker |
| `Mbroker` | `Clients` with the broker of `mbroker.c`, its files kept by `TfsOps` |
| `MbrokerProofs` | theorems for any clients, boxes, messages and tables |
| `MbrokerThread` | `Clients` with the broker of `mbroker_thread.c`, likewise |
| `MbrokerThreadProofs` | theorems for any threads, clients, boxes, messages and tables |
| `MCPCQueue`, `MCTecnicoFS`, `MCMbroker`, `MCMbrokerThread` | instances for TLC |

### PCQueue

Variables have the names of the fields of `pc_queue_t`; `lock` maps the five
mutexes to their holders, `pc` says where a thread is, `elem` is its argument or
result, `seen` the count it read in `++` or `--`. `pcq_enqueue` is `EnqCall`,
then `EnqPass` or `EnqFull; EnqWait` and a wake-up back to the gate, `EnqStore`
(tail lock), `EnqReadSize; EnqWriteSize` (size lock; the read and the write of
`++` are apart, so that only the lock keeps it atomic), `EnqSignal`.
`pcq_dequeue` mirrors it. A critical section that ends in the step in which it
begins takes its mutex only if it is free and leaves it free. `Signal` wakes one
sleeper, any of them; `EnqSpurious` and `DeqSpurious` are POSIX's spurious
wake-ups. `malloc` gives `Garbage`; `size_t` is counted modulo `SizeModulus`.

### TfsOps, TecnicoFS

A state of the library is one record: the TAKEN inodes and blocks as sets,
`inode_table`, the directory, the bytes (*cells*) of the other blocks in one
array, so that a write past a block lands in the next, and the open handles.
`locked` is `g_library_mutex` left held, `panicked` a failed `ALWAYS_ASSERT`.
Each call is a function to the next state, the return value and the bytes read.
Allocation takes the first free entry, as the loops do. The operators are those of
`state.c` one by one, and those of `operations.c` over them. `inode_create` sets
the inumbers of a new directory and not the names: after `tfs_destroy` and
`tfs_init`, `malloc` may hand the table back with what it held (`Remount`).
`clear_dir_entry` takes the first entry with the name, in use or not, so that a
stale name must never come before a live one; `InodesAccounted` is where that
would show.

`AnyCalls` lets callers do anything that stays inside `fs_data` (beyond it the
C program writes over other memory). `Disciplined` adds the limits that the
code leaves to its callers: no write past the block, no read past the end, no
unlink or truncation of an open file, no rewind at 0.

### Clients

A client is named by the path of its pipe. `stage` says what is at the path and
how far the client is; `lives` counts its starts; `pipe` is all that was written
to its present FIFO and `taken` how much of it was read. `SignIn` is a client's
start up to its request, which goes to `register_pipe` with the number of bytes
the client writes. Subscribers that come back remove the old FIFO; a broker
holding the old one does not meet them.

### Mbroker

The broker is `pc` and `job` (the locals of the handler). A step goes from one
operation on a pipe to the next; in between nobody can see the broker. A
handler that returns -1 ends the program (`exited`), because the serving loop
does. The other ends are `crashed` (null pointer), `killed` (SIGPIPE),
`undefined` (freed memory is used) and `blocked` (an `open` nobody meets, or a
mutex the broker itself holds). `OpenToWrite` meets the client's own `open`,
waits for ever on an abandoned FIFO, fails where there is none. `WriteTo`
succeeds while the process the broker opened the pipe to still reads it.
`published` and `kept` are history variables: the messages accepted for each
box since it was created, and the handles that creations and replays left open.
So is the field `box` of an answer, which is not sent. `AnswersAgree` is about what
managers can count: creations by the box that the manager asked for, to which the
answer to a creation always goes, removals by the op code alone. Box by box
removals do not add up for them, as `manager_removal` shows: the box that went may
be another than the one they named.

A removal is framed as it is: `manager.c` sends 8 bytes of it (`sizeof` of a
pointer, line 187), the op code and seven of its path, and the broker reads 1,
256 and 32. The 256 take whatever is queued behind: further removals are
swallowed, a request of another kind ends the broker, since its zeros stand where
the name should be. With nothing behind, the name is what the stack of
`remove_box` holds: any box, or none. A path longer than seven bytes
(`LongPathed`) is completed by the stack too, with the end of some manager's path
that was handled before, or nobody's.

### MbrokerThread

`threads`, chosen at the start, is `main` alone, which is the program as it
stands, or a set of session threads. `at` says where each is and `job` what it
serves. A step goes from one operation that another thread or a client can see
to the next: a call of the library, an operation on a pipe, a lock. A
short critical section is one step. `write_to_box` is four of them (`read_publisher_pipe_input`
up to `tfs_open`, `Store`, `CloseBox`, `AppendSize`), as the code gives everything
up in between. `StrayUnlock` is the unlock at the end of
`read_publisher_pipe_input`, which that thread has no lock for: it takes the
mutex from whoever has it. The program is followed up to the data race that this
allows and no further (`process = "undefined"`): `Races` is a change of the list
under a thread that has lost the mutex in the middle of it, and the second
alternative of `StrayUnlock` the same for a short section.

Every read of the register pipe takes 289 bytes: `Whole` counts the requests
that go with it, `Touched` are those it begins to take (all but the first are
`lost`), `Rest` is what is left, `NameRead` the box name the buffer then
holds. The buffer is not cleared, so a removal, alone in the pipe, names the box
of the request before. The path of a client is taken to fit into the seven bytes
that a removal sends. How a request would get from `main` to a thread is a
comment in the code; here an idle thread reads the pipe itself.

The history variables `created`, `failed`, `lost` and `strayed` count creations
and remember the clients whose handler returned -1, those whose request was read
behind another, and that a mutex was taken from its holder.

## Runs

All passing runs are exhaustive on their instance.

| Run | Instance | Shows |
|---|---|---|
| `pcq_spsc` | 1 producer, 1 consumer, 3 slots, 2 elements | `TypeOK`, `LockOwnership`, `NoLostUpdate`, `SizeWithinCapacity`, `SlotRaceFree`, `LoadFindsElement`, `NoLostWakeup`, `EnqueueReturns`; implements `BoundedFifo` (`FifoSpec`) |
| `tfs_disciplined` | 3 file inodes, 2 directory entries, 1 file block of 2 cells, 2 handles | implements `FileStore` (`StoreSpec`), `NoBlockLeaks` |
| `tfs_any_calls` | 2 file inodes, 3 entries, 2 file blocks of 1 cell, 2 handles | `DirectoryIsInjective`, `InodesAccounted`, `BlocksAreOwned`, `OnlyReadPanics`, `OnlyOverrunsCorrupt` |
| `broker_sessions` | 1 manager, 2 publishers, 2 subscribers with 2 lives, 1 box | `ReplayFaithful`, `BoxFileAgree`, `MutexesFree`, `PublisherInSession`, `HandlesKept` |
| `broker_managers` | 3 managers, one of them with a long path, 1 publisher, 1 subscriber, 2 boxes | `BoxesHaveFiles`, `AnswersAgree` |
| `broker_progress` | 2 managers, 1 publisher, 1 subscriber, 1 box, fairness | `ManagersAnswered`, `WatchEnds` |
| `threads_sessions` | `main` or 3 threads; any 4 of 3 managers, 2 publishers, 1 subscriber; 2 boxes | `ListingAgrees`, `MutexAccounted`, `SizesAgree`, `PublishersAccounted`, `RequestsAccounted` |

Five runs end in a violation, each of a sentence of the repository:

| Run | Sentence | What happens |
|---|---|---|
| `pcq_pool` | `producer-consumer.h:49`, "sleep until the queue has an element" | two consumers pass the gate on one element |
| `broker_second_box` | `mbroker.c:49`, "find the box that has the publisher pipe" | null pointer in a box before it |
| `broker_recreated` | `mbroker.c:329`, "should've used tfs_unlink to remove the box" | a new box replays an old one's bytes |
| `broker_removal` | `mbroker.c:20`, a session stays open until "a box is removed from the manager" | the removal waits for the session |
| `manager_removal` | `manager.c:183`, "send the create command and the box name" | another box than the one named is removed |

Two more disagreements are in the model and have no run of their own. `tfs_read`
returns as many bytes as it is asked for (`operations.c:267`), where
`operations.h:111` says "can be lower than 'len' if the file size was reached"
and `test1.c:28` asserts it. A second subscriber of a box is never linked
(`mbroker.c:461`), where line 452 says "add the subscriber to the box".

### Bounds

* **Queue.** With three slots the ring wraps, is full, empty and in between;
  two elements tell order and duplicates apart. `SizeModulus` is 8, so a wrap of
  the counter is seen as a value above the capacity. The proofs need none of
  these bounds.
* **TecnicoFS.** Each table can fill up before the others: in `tfs_disciplined`
  the directory, the block map and the open file table, in `tfs_any_calls` the
  inode table and the open file table. Names: three that are valid, one too
  long for an entry, one invalid. Buffers are empty, within a block, or exactly
  a block (and beyond it in `tfs_any_calls`).
* **TecnicoFS, symmetry.** In `tfs_any_calls` the three short paths are
  interchangeable: the code compares names for equality and nothing else.
* **Broker.** `MaxMessages` 1 for each publisher, so two in a box and their
  order; messages of 0, 1 and 2 cells, so that boundaries between messages are
  not those of cells; `MaxLives` 2, a restart; a subscriber that meets a box
  with several messages, with only empty ones, with none. `MAX_OPEN_FILES` is 3
  and is reached: an accepted message that finds no handle ends the broker.
  `Killable` names who may be interrupted; the others bound the state space.
  `broker_progress` leaves out a second subscriber and a second box for the
  sake of the liveness check; with two managers a request waits behind another.

* **Broker for threads.** `MaxClients` 4: four clients are what it takes to change
  a listing of two boxes under way (two creations, a listing, and a publisher or a
  removal), or to have two publishers and a subscriber on one box. Three threads
  are what it takes for a stray unlock to let a third thread into the list that
  the second is using. `MAX_OPEN_FILES` 3, `DATA_BLOCKS` 2 (a second box finds no
  block) and `MaxDescriptors` 4 are reached, each with its failing path. Managers,
  publishers and session threads are interchangeable; boxes are not, the list is
  ordered by their names. Nobody is interrupted; that is `broker_sessions`'s part.

`CHECK_DEADLOCK FALSE` stands where the system may stop: TecnicoFS after a
failed assertion or with its mutex held, the broker when it has ended or all
clients have. The queue is checked for deadlock.

### Fairness

* **Queue.** Weak fairness of each thread's steps inside a call: threads are
  scheduled. Strong fairness of the signal steps: a thread that waits for a
  condition's mutex gets it although sleepers that wake for no reason take it
  again and again. The consumer calls again, as the session thread's loop does.
  Nobody has to call `pcq_enqueue`. Spurious wake-ups are never forced.
* **Broker.** Weak fairness of the broker: it is one scheduled thread. Nothing
  is asked of clients in `broker_removal`. In `broker_progress` users also end
  their sessions (`SessionsEnd`: a publisher's input has an end; a subscriber
  is interrupted at some time), without which a manager may wait for ever, as
  the code has it. `ManagersAnswered` is about creations and listings: a removal
  can be swallowed by another.
* **Broker for threads.** None: its properties are safety. That whoever waits is
  answered is not to be had there. A subscriber's session, once begun, keeps
  `box_list_mutex` for ever; `MutexAccounted` and `RequestsAccounted` say where the
  mutex and each request are instead.

### Mutants

Every property of a passing run has a mutant: an operator named `...Faulty` (or
for its mistake, in `PCQueue`) just before the definition it replaces, such as a
wake-up that tests nothing, a truncation that leaves the size, a handle that is
not closed. With it, TLC finds the property violated.

## Proofs

Every theorem is about the specification that TLC runs, for every value of its
constants that its assumption admits.

| Assumption | Says | Why the code justifies it |
|---|---|---|
| `PCQAssumption` | disjoint sets of threads, elements that differ from `NoThread` and `Garbage`, capacity above 0 and below `SizeModulus` | a thread produces or consumes; a capacity is a `size_t`, and an array of none is no queue |
| `TfsAssumption` | at least one inode, block and byte in a block, any number of entries and handles; long names are names, `NoName` is none | `tfs_default_params`; `tfs_init` takes the first inode and block for the root |
| `CallsAssumption` | a path that `valid_pathname` rejects is no path, buffers are sequences, lengths natural | the types of the arguments |
| `ClientsAssumption` | managers, publishers and subscribers are different clients, `NoClient` is none, messages are sequences | a client is one process of one of three programs |
| `MbrokerAssumption` | those with a long path are managers | only a removal depends on the length |
| `MbrokerThreadAssumption` | `MainThread` and `Nobody` are no session threads, every box has a place in the order of names, limits are natural numbers | the list is ordered by `strcmp` |

### Queue

**Any number of threads** (`PCQueueProofs`). The inductive invariant is

    LockInv == TypeOK /\ CreatedWhileUsed /\ LockOwnership /\ NoLostUpdate

None of its parts is inductive alone. The type of the cursors needs a capacity
that is not 0 (`% pcq_capacity`), so a thread inside a call must find the queue
created. `NoLostUpdate` needs `LockOwnership`: two threads that have read the
count would both hold the size lock. From it: `TypeCorrect`, `LocksAreOwned`,
`NoUpdateIsLost`.

**One producer, one consumer** (in `PCQueueProofs` too). More threads of a kind
break these properties, as `pcq_pool` shows, and the theorems assume
`Producers = {p}` and `Consumers = {c}`. The invariant adds to `LockInv`

* `Bounded`: while the producer is past its gate the count is below the
  capacity, and while the consumer is past its own it is above 0. This is what
  leaving the gate early keeps, because only the other thread moves the count,
  and in the harmless direction;
* `RingSpan`: the tail is the head plus the number of elements in the ring,
  modulo the capacity, those stored but not counted included and those loaded
  but still counted left out;
* `WillBeWoken`: a thread that sleeps, or is about to, although it could go on
  has the other at its signal; the mutex it holds until it sleeps keeps the
  signal from coming too early.

From it: `SizeStaysWithinCapacity`, `NoSlotRace`, `NoWakeupIsLost`.

**Implementation** (`PCQueueRefinement`). With `CarriesElem` (a producer that
will store holds an element), `EnqStore` maps to `Put`, `DeqLoad` to `Get`,
`PcqDestroy` and `PcqCreate` to `Discard`, every other step to a stutter:
`ImplementsFifo` states `Spec => Fifo!Init /\ [][Fifo!Next]_(Fifo!fifoVars)`,
and `LoadsFindElements` that a load finds an element.

### TecnicoFS

**Any calls** (`TecnicoFSProofs`, over `TfsOpsProofs`). The invariant is

    FsInv(fs) == FsType /\ DirInjective /\ NamesFindEntries /\ InodesTaken /\ BlocksOwned

and that only a read panics. `TfsOpsProofs` shows for each operation that it
preserves `FsInv`, whoever calls and with whatever handle, and describes the
next state; the modules over `TecnicoFS` and `MbrokerProofs` use it. What the
parts are for:

* `NamesFindEntries`: no unused entry bears the name of a live one behind it.
  `clear_dir_entry` takes the first entry with the name, used or not, and after
  `Remount` unused entries bear names. It is kept because `add_dir_entry` takes
  the first unused entry and `tfs_unlink` clears the name. Without it `tfs_unlink`
  could free an inode and leave its entry.
* `InodesTaken`: the TAKEN inodes are the root and the files, so `inode_alloc` gives
  one that no entry has, and `DirInjective` survives a creation.
* `BlocksOwned`: a file with contents has a TAKEN block of its own. Its first
  conjunct is about all inodes, deleted ones too: an inode with a size has a block
  number. `tfs_write` through a stale handle tests the size and uses the number.
  `inode_delete` leaves both, so such a write may land in what is now another
  file's block, but never outside the block map.

From it, for disciplined and for any other callers: `TypeCorrect`,
`EntriesAreUnique`, `InodesDoNotLeak`, `BlocksHaveOneOwner`, `PanicsAreReads`.
`OthersAreKept` proves the action property `OnlyOverrunsCorrupt`, call by call: a
file that a call does not name keeps its contents, because its cells are those of a
block of its own and its inode is written only through its handles.

**Disciplined callers** (`TecnicoFSRefinement`). `Orderly` adds what the limits
buy: the TAKEN blocks are those of files with contents (a stale handle could
allocate one for a deleted inode), files end within their block, handles stand
within files that exist. From it `BlocksDoNotLeak`, and `ImplementsFileStore`:

    Disciplined => StoreSpec

The refinement mapping reads names and contents through the entries
(`FilesOf`, `HandlesOf`); there is one lemma for each thing that can happen to
them (a file is cut, added, removed, a handle given or moved, bytes written,
bytes read), and one for each way a call of `FileStore` may fail. `BlockCount`
shows that the block map is full exactly when as many files have contents as the
store admits.

### Broker

`MbrokerProofs` has three layers. The first is an inductive invariant,

    Sane == ClientsInv /\ FsInv(fs) /\ BoxesFit /\ JobFits /\ LocksFit

* `ClientsInv` (`ClientsProofs`): requests in the register pipe are of a client of
  the kind that makes them, nothing is read before it is written, a client
  that was never started has no FIFO. It holds for any broker that only opens
  FIFOs, writes to them and reads them in order.
* `BoxesFit`: names in the list are unique, those of freed boxes included, and
  there is a record of what was published to each.
* `JobFits`: a handler serves a client of the kind its request is for. A
  publisher's session is about a box in the list, which holds only because a
  removal waits for the session (see `broker_removal`).
* `LocksFit`: `box_list_mutex` is held only in the places named, `g_library_mutex`
  nowhere but at an end. `MutexesFree` alone is not inductive: it says nothing of a
  handler under way.

From it: `TypeCorrect`, `MutexesAreFree`. The second layer is about what a step
means. `StepKinds`: from a sane state every step is `Calm` (the list, the handles
and the publishers stay), begins or ends a publisher's session on one box, creates
a box with its file, takes one box out, begins a replay, or ends the broker.
Over these kinds four invariants are proved, without the handlers again:

* `PublisherInSession` itself: `PublishersAreInSession`;
* `HandlesFit`, the handles are as many as `kept` in every state and not only
  between requests: `HandlesAreKept`. The handle a publication closes is the one it
  opened, so what earlier creations and replays left open stays;
* `FilesFit`, names in the list have files: `BoxesKeepFiles`. A removal may leave
  its file behind or unlink it; that the file unlinked is that of the box taken
  out, and no other's, needs `BoxesFit` and `DirInjective`;
* `AnswersFit`, the list is as long as creations were answered with success more
  than removals (`LengthTold`), every name in it was answered (`AllTold`), and
  answers are finitely many (without which `Cardinality` means nothing):
  `AnswersAddUp`. `CreationTold` and `RemovalTold` are the two kinds that change
  the list; `OthersAreSilent` says that clients' steps and other handlers' writes
  add no answer.

**Messages.** The third layer is about what the files hold. Its invariant is
`AllStored`: the file of every box is the concatenation of what was `published` to
it, and `messages_size` lists the lengths. It is proved over `StorageKind`: no step
of the broker does anything to files and list but leave them, append an accepted
message to the file of its box and its length to the sizes, make or create a box, or
remove one. From it, with `FilesTidy` as a hypothesis:

* `FilesAgree`: `Behaviour /\ []FilesTidy => []BoxFileAgree`;
* `ReplaysAreFaithful`: `Behaviour /\ []FilesTidy => []ReplayFaithful`. The invariant
  `ReplayFits` adds where a replay is: k messages sent, the next one read, the
  handle at the end of it, the sizes of the rest still to do (`Between`), and the
  subscriber's FIFO ends with those k (`Sent`), as long as the client has not begun
  another life. That needs `RequestsBegun`: no request is of a life that is yet to
  come. `ReadOne` is the step: reading as many bytes as the size says, from where
  the last message ended, gives the next message.

`FilesTidy` says that every file keeps to its block and that one whose name is not
in the list is empty. The code guarantees neither. `tfs_write` does not stop at the
end of the block, and a removal leaves a file behind with its contents, which a
creation of the same name then finds; `broker_recreated` is that. So the theorems
say exactly what faithful replays rest on, and `RoomIsEnough` says where it is the
case: with messages of at most `L` cells, finitely many publishers of `MaxMessages`
messages each that fit into one block together, and no removals (`Roomy(L)`),
`Behaviour => []FilesTidy`. Its invariant bounds the cells in the file of a box by
`L` times the number of messages the broker has read (`Heard`, `Bounded`).
`RoomKeepsMessages` is the conclusion, without a hypothesis on behaviours:

    Roomy(L)  |-  Behaviour => [](BoxFileAgree /\ ReplayFaithful)

`broker_sessions` is such an instance, with no cell to spare (`BLOCK_SIZE` is 4).

### Broker for threads

`MbrokerThreadProofs` is about any set of session threads or `main`. Its first
invariant says what the state is like whatever the threads do:

    Sane == ClientsInv /\ FsInv(fs) /\ ThreadsFit /\ BoxesFit /\ DescriptorsFit
            /\ RequestsFramed /\ HistoryFits

* `ThreadsFit`: what a thread knows at each place: whom it serves, which box, what
  is in its buffers.
* `BoxesFit`: no name is twice in the list. The test for the name and the insertion
  are one critical section; the unlocks that are not the thread's own do not matter
  here, as the program is followed only up to the first race.
* `DescriptorsFit`: whoever will close a pipe has a descriptor of its own among those
  that are open, so that the count never goes below 0.
* `RequestsFramed`: a request in the register pipe has the size of its kind, or is
  the rest of one that was read behind another and is `lost`.

Then, as in `MbrokerProofs`, steps are sorted into kinds and invariants proved over
the kinds. A step of a thread is `Acts` (`Goes`: it alone moves on and nothing is
taken from the register pipe; `Locks`: one of the four things it may do with the
mutex; `Writes`: no other manager's FIFO is written) or `Takes` (an idle thread
reads the first requests of the pipe). Beside it stand what a handler does to the
list (`ListKept`, `BoxCreated`, `BoxRemoved`, `BoxUsed`), to the FIFO of a manager
that it lists boxes to (`Tells`), and to files and handles (`UsesFiles`).

* `MutexIsAccounted`. `MutexAccounted` is inductive over `Sane` by itself. With it
  `RacesNeedStrayUnlock`, an action property: the program can only become undefined
  if a publisher's thread has released, or releases now, a mutex that it does not
  hold. Every other use of the list is safe for any number of threads.
* `RequestsAreAccounted`. `Singles`: a client in its first life has one request,
  unread or in the hands of one thread, never both, and once its session begins it no
  longer waits. `Remembered`: while it waits it has one. Both are needed to say
  that it is exactly one. A read that begins to take a request takes it from the
  pipe or marks its client as lost, whatever the sizes.
* `PublishersAreAccounted`. `PublishersKnown` says it box by box: the publisher in the
  list has a thread in session or hanging on this very box, or has failed; on a
  box that was created once, no other publisher has. A name that is created again
  forgets its old publisher, and `created` is what tells the two apart.
* `ListingsAgree`. `ListingsKnown`: a manager that is asked about nothing yet has an
  empty pipe, and one that is sent a listing has the first boxes of the list as it is
  now. That the list stays as it is meanwhile is `MutexIsAccounted`.
* `SizesAlwaysAgree`. `HandlesKnown`: threads between their `tfs_open` and their
  `tfs_close` have handles of their own. `SizesKnown`, of a box created once: a thread
  about to store has its handle at the end of the file, and the file has the size of
  the messages in the list and of the one on its way. It is one because `register_publisher` admits one publisher at a time
  (`PublishersKnown`), as long as the box was created once.

### Inductions

Facts about sequences of any length are proved by induction in first-order form:
`CountingUp`, for a set of numbers, takes the place of the library's induction
theorem. A recursive definition is met through what characterises it: `FlattenSeq`
through the function it is computed with (`Joins`), `FoldSeq` and `FoldSet` through
the fold that they are instances of (`IsTotal`), of which it is proved that it does
not depend on the order in which elements are picked. The framing of the register
pipe is reasoned about with partial sums (`Upto`), which grow with every request.

### Only model-checked

`EnqueueReturns`, `ManagersAnswered`, `WatchEnds` and the fairness in `FifoSpec`:
liveness is beyond the proof system used. Every invariant and action property of a
passing run is stated by a theorem; `ReplayFaithful` and `BoxFileAgree` where blocks
have room, as in the instance that is checked.

## Not modelled

* `session_thread` of `mbroker.c`, a comment; that of `mbroker_thread.c` is
  modelled. How it would get a request (`pcq_enqueue` of a pointer to a local, a
  comment too) is not; what such a pool needs of the queue is `pcq_pool`.
* SIGINT in `mbroker_thread.c`: the handler calls `close_mbroker`, and `main`
  calls it again. Nothing is served after it.
* Where the handle of lines 464-507 of `mbroker_thread.c` moves: what is read
  there is thrown away, and the offset grows without bound.
* `tfs_link`, `tfs_sym_link`, `tfs_copy_from_external_fs`: declared, not there.
* `remove_subscriber_from_box`, `box_in_list` (never called, or after an EPIPE
  that SIGPIPE prevents), `close_mbroker` and the end of `main` in `mbroker.c`
  (after a loop that does not end).
* Failures of pthread calls and of `malloc`; storage delays; printing.
* The limit of descriptors in `mbroker.c`; `mbroker_thread.c` has one. A thread that
  waits in `open` has none there, where Linux would have reserved it.
* The capacity of a FIFO: a write never waits for room.
* What the buffer of a replay held before (`mbroker.c:153`, not cleared, with no NUL
  after the message that `strlen` could find): `Mbroker` sends the cells that were
  read, as on fresh memory, which is zero. `mbroker_thread.c` reads nothing at all
  into its buffer before the first write, and `MbrokerThread` sends `Unwritten`.
* Bytes of answers: 8 bytes of an answer are sent, its op code and return code,
  which is what the model keeps.
* Requests of other framing than that of the three clients.

## Plan

Done, in this order: queue, its proofs and refinement; TecnicoFS and its store;
broker with clients; the framing of removals; TecnicoFS over `state.c` operator by
operator, with overruns and stale names; the broker for threads; the proofs about
TecnicoFS, its implementation of the store, and the broker; those about the broker
for threads; what boxes hold and what replays send.

If more is to be modelled: what subscribers read, with reads of 1029 bytes over
messages of 1025, as a run next to `ReplayFaithful`, which is about what was sent;
and the handler of SIGINT beside the session threads.

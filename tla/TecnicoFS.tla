----------------------------- MODULE TecnicoFS -----------------------------
(***************************************************************************)
(* TecnicoFS called by any number of threads: g_library_mutex makes each   *)
(* call one step, so what remains of the interleaving is the order of the  *)
(* calls, every one of them with any handle or path.                       *)
(*                                                                         *)
(* Two specifications.  AnyCalls excludes only the calls that reach memory *)
(* outside the tables.  Disciplined adds what a caller must respect for    *)
(* the file system to be one: no call asks for what the code does not cut  *)
(* (a write past the block, a read past the file), none removes a file     *)
(* that is open, and none rewinds a handle that is at 0.                   *)
(***************************************************************************)
EXTENDS TfsOps

CONSTANTS Buffers,      \* the sequences of cells that are written
          Lengths       \* the lengths that are read

ASSUME CallsAssumption ==
  /\ "no such path" \notin Paths
  /\ \A b \in Buffers : b \in Seq({b[i] : i \in DOMAIN b})
  /\ Lengths \subseteq Nat

VARIABLES fs,           \* the state of the library
          reply         \* what the last call returned

vars == <<fs, reply>>

Modes == SUBSET {"CREAT", "TRUNC", "APPEND"}
Names == Paths \cup {"no such path"}
AnyHandle == Handles \cup {MAX_OPEN_FILES}

Init == /\ fs = TfsInitial
        /\ reply = [op |-> "init", ret |-> 0, data |-> <<>>]

\* A call gets the mutex and runs to its end.
Call(op, result) ==
  /\ ~fs.locked /\ ~fs.panicked
  /\ fs' = result.fs
  /\ reply' = [op |-> op, ret |-> result.ret, data |-> result.data]

Open(n, mode) == Call("open", tfs_open(fs, n, mode))
Close(h) == Call("close", tfs_close(fs, h))
Write(h, buffer) == Call("write", tfs_write(fs, h, buffer))
Read(h, len) == Call("read", tfs_read(fs, h, len))
Rewind(h) == Call("rewind", tfs_rewind_offset(fs, h))
Unlink(n) == Call("unlink", tfs_unlink(fs, n))

\* tfs_destroy, then tfs_init; neither touches the mutex.  malloc may hand the
\* directory the names it held before: nobody clears them.
Remount ==
  /\ ~fs.panicked
  /\ \E names \in {fs.dir, state_init.dir} :
       fs' = tfs_init([state_init EXCEPT !.locked = fs.locked, !.dir = names])
  /\ reply' = [op |-> "init", ret |-> 0, data |-> <<>>]

-----------------------------------------------------------------------------
(* Callers *)

Offset(h) == fs.open_file_table[h].of_offset
Inode(h) == fs.inode_table[fs.open_file_table[h].of_inumber]
FileIsOpen(n) == \E h \in DOMAIN fs.open_file_table :
                   fs.open_file_table[h].of_inumber = find_in_dir(fs.dir, n)

\* Where a call of length len on handle h would stop, in fs_data.
Reach(h, len) ==
  LET inode == Inode(h)
      bnum == IF inode.i_size = 0 THEN DATA_BLOCKS - 1 ELSE inode.i_data_block
  IN  bnum * BLOCK_SIZE + Offset(h) + len

InArena(h, len) ==
  /\ IsOpen(fs, h) => Reach(h, len) <= DATA_BLOCKS * BLOCK_SIZE

AnyCall ==
  \/ \E n \in Names, mode \in Modes : Open(n, mode)
  \/ \E h \in AnyHandle : Close(h) \/ Rewind(h)
  \/ \E h \in AnyHandle, b \in Buffers : InArena(h, Len(b)) /\ Write(h, b)
  \/ \E h \in AnyHandle, l \in Lengths : InArena(h, l) /\ Read(h, l)
  \/ \E n \in Names : Unlink(n)
  \/ Remount

FitsBlock(h, len) == IsOpen(fs, h) => Offset(h) + len <= BLOCK_SIZE
FitsFile(h, len) == IsOpen(fs, h) => Offset(h) + len <= Inode(h).i_size
Moved(h) == IsOpen(fs, h) => Offset(h) > 0

DisciplinedCall ==
  \/ \E n \in Names, mode \in Modes :
        ("TRUNC" \in mode => ~FileIsOpen(n)) /\ Open(n, mode)
  \/ \E h \in AnyHandle : Close(h)
  \/ \E h \in AnyHandle : Moved(h) /\ Rewind(h)
  \/ \E h \in AnyHandle, b \in Buffers : FitsBlock(h, Len(b)) /\ Write(h, b)
  \/ \E h \in AnyHandle, l \in Lengths : FitsFile(h, l) /\ Read(h, l)
  \/ \E n \in Names : ~FileIsOpen(n) /\ Unlink(n)
  \/ Remount

AnyCalls == Init /\ [][AnyCall]_vars
Disciplined == Init /\ [][DisciplinedCall]_vars

-----------------------------------------------------------------------------
(* Properties *)

LiveEntries == {i \in DOMAIN fs.dir : fs.dir[i].d_inumber # -1}
FileInodes == {fs.dir[i].d_inumber : i \in LiveEntries}
NonEmpty == {i \in FileInodes : fs.inode_table[i].i_size > 0}

TypeOK ==
  /\ fs.locked \in BOOLEAN /\ fs.panicked \in BOOLEAN
  /\ fs.inodes \subseteq Inumbers /\ ROOT_DIR_INUM \in fs.inodes
  /\ fs.inode_table \in [Inumbers -> [i_size : Nat, i_data_block : Blocks \cup {-1}]]
  /\ fs.blocks \subseteq Blocks /\ 0 \in fs.blocks
  /\ fs.dir \in [1 .. MAX_DIR_ENTRIES ->
                   [d_name : Paths \cup {NoName}, d_inumber : Inumbers \cup {-1}]]
  /\ DOMAIN fs.fs_data = Cells
  /\ DOMAIN fs.open_file_table \subseteq Handles
  /\ \A h \in DOMAIN fs.open_file_table :
       fs.open_file_table[h] \in [of_inumber : Inumbers, of_offset : Nat]
  /\ reply.ret \in -1 .. MAX_OPEN_FILES \cup Nat

\* Whatever is called, two entries of the directory never have the same name
\* or the same inode, although inodes and entries are freed one at a time and
\* handles outlive both.
DirectoryIsInjective ==
  \A i, j \in LiveEntries :
    i # j => /\ fs.dir[i].d_name # fs.dir[j].d_name
             /\ fs.dir[i].d_inumber # fs.dir[j].d_inumber

\* Whatever is called and whatever fails half-way, an inode is TAKEN exactly
\* while it is the root or in the directory: none leaks, none is used free.
InodesAccounted == fs.inodes = {ROOT_DIR_INUM} \cup FileInodes

\* Whatever is called, two files that have contents have different blocks, and
\* no block of a file is free or the directory's, although a stale handle may
\* still write through a deleted inode.
BlocksAreOwned ==
  /\ \A i \in NonEmpty : fs.inode_table[i].i_data_block \in fs.blocks \ {0}
  /\ \A i, j \in NonEmpty :
       fs.inode_table[i].i_data_block = fs.inode_table[j].i_data_block => i = j

\* Of the assertions in fs/, the one that a caller can make fail is that of
\* data_block_get, by reading a file that never had a block.
OnlyReadPanics == fs.panicked => reply.op = "read"

\* A block is given back exactly when its file is emptied or deleted.
NoBlockLeaks ==
  fs.blocks = {0} \cup {fs.inode_table[i].i_data_block : i \in NonEmpty}

\* The contents of a file, cell by cell.
Contents(i) ==
  [k \in 1 .. fs.inode_table[i].i_size |->
     fs.fs_data[fs.inode_table[i].i_data_block * BLOCK_SIZE + k - 1]]

EntryOf(n) == CHOOSE i \in LiveEntries : fs.dir[i].d_name = n
NameOf(inum) == fs.dir[CHOOSE i \in LiveEntries : fs.dir[i].d_inumber = inum].d_name

\* Handles whose file is not in the directory any more, and handles that stand
\* past the end of their block.
Stale(h) == fs.open_file_table[h].of_inumber \notin FileInodes
Overran(h) == Offset(h) > BLOCK_SIZE

\* Whatever is called, the contents of a file that lies within its block change
\* only by a call on it: by a write of one of its handles, or when it is opened to
\* be truncated.  The exceptions are what the code does not check: a write that
\* passes the end of its block, and one with a handle whose file was unlinked.
Within(i) == fs.inode_table[i].i_size <= BLOCK_SIZE
ContentsStep ==
  \A i \in FileInodes \cap FileInodes' :
    Within(i) /\ Within(i)' /\ Contents(i)' # Contents(i) =>
      \/ reply'.op = "open" /\ Contents(i)' = <<>>
      \/ \E h \in DOMAIN fs.open_file_table :
           /\ reply'.op = "write" /\ Offset(h)' # Offset(h)
           /\ fs.open_file_table[h].of_inumber = i \/ Overran(h)' \/ Stale(h)
OnlyOverrunsCorrupt == [][ContentsStep]_vars

\* With disciplined callers, TecnicoFS implements FileStore: its files are what the
\* entries of the directory lead to, and a handle is of the file whose inode it has.
StoredFiles == [n \in {fs.dir[i].d_name : i \in LiveEntries} |->
                  Contents(fs.dir[EntryOf(n)].d_inumber)]
StoredHandles == [h \in DOMAIN fs.open_file_table |->
                    [name |-> NameOf(fs.open_file_table[h].of_inumber), off |-> Offset(h)]]
FileLimit == IF MAX_DIR_ENTRIES < INODE_TABLE_SIZE - 1
               THEN MAX_DIR_ENTRIES ELSE INODE_TABLE_SIZE - 1
Store == INSTANCE FileStore WITH
  Paths <- Paths \ LongPaths,
  MaxFiles <- FileLimit,
  MaxNonEmpty <- DATA_BLOCKS - 1,
  MaxOpen <- MAX_OPEN_FILES,
  contents <- StoredFiles,
  handles <- StoredHandles,
  reply <- reply
StoreSpec == Store!Spec
=============================================================================

------------------------------- MODULE TfsOps -------------------------------
(***************************************************************************)
(* The operations of TecnicoFS (fs/operations.c over fs/state.c) as        *)
(* functions of the state of the library: each takes a state and the       *)
(* arguments of the call and gives the state it leaves, what it returns    *)
(* and the cells it copied to the caller.  Every operation runs under      *)
(* g_library_mutex from its first to its last statement, so a call is one  *)
(* step of any module that uses this one.                                  *)
(*                                                                         *)
(* A cell stands for a byte.  Block 0 holds the root directory, which is   *)
(* kept as a table of its own; fs_data has the cells of the other blocks.  *)
(***************************************************************************)
EXTENDS Integers, Sequences, FiniteSets

CONSTANTS INODE_TABLE_SIZE, DATA_BLOCKS, BLOCK_SIZE, MAX_OPEN_FILES,
          MAX_DIR_ENTRIES,
          Paths,        \* path names that valid_pathname accepts
          LongPaths,    \* those whose sub-name does not fit MAX_FILE_NAME
          NoName,       \* d_name of an entry that holds no name
          Unwritten     \* a cell nobody has written since malloc

ASSUME TfsAssumption ==
  /\ INODE_TABLE_SIZE \in Nat \ {0} /\ DATA_BLOCKS \in Nat \ {0}
  /\ BLOCK_SIZE \in Nat \ {0} /\ MAX_OPEN_FILES \in Nat /\ MAX_DIR_ENTRIES \in Nat
  /\ LongPaths \subseteq Paths /\ NoName \notin Paths

Inumbers == 0 .. INODE_TABLE_SIZE - 1
Blocks == 0 .. DATA_BLOCKS - 1
Handles == 0 .. MAX_OPEN_FILES - 1
Cells == BLOCK_SIZE .. DATA_BLOCKS * BLOCK_SIZE - 1
ROOT_DIR_INUM == 0

\* The first entry of a table, lowest index first, among those that qualify.
FirstOf(S) == CHOOSE i \in S : \A j \in S : i <= j

Result(fs, ret) == [fs |-> fs, ret |-> ret, data |-> <<>>]

-----------------------------------------------------------------------------
(* fs/state.c.  An ALWAYS_ASSERT that fails ends the process: panicked.  The  *)
(* operators named ...Faulty are plausible mistakes in the operator that       *)
(* follows them; the checks put them in its place to show that the properties  *)
(* notice.                                                                     *)

Panic(fs) == [fs EXCEPT !.panicked = TRUE]

\* state_init with every table allocated.  Of the allocation maps the TAKEN
\* entries are kept; free_open_file_entries is the domain of open_file_table.
state_init ==
  [locked |-> FALSE, panicked |-> FALSE,
   inodes |-> {}, blocks |-> {},
   inode_table |-> [i \in Inumbers |-> [i_size |-> 0, i_data_block |-> -1]],
   dir |-> [i \in 1 .. MAX_DIR_ENTRIES |-> [d_name |-> NoName, d_inumber |-> -1]],
   fs_data |-> [c \in Cells |-> Unwritten],
   open_file_table |-> <<>>]

\* The first FREE entry of free_blocks is taken.
data_block_alloc(fs) ==
  LET free == Blocks \ fs.blocks
  IN  IF free = {} THEN Result(fs, -1)
      ELSE Result([fs EXCEPT !.blocks = @ \cup {FirstOf(free)}], FirstOf(free))

data_block_free(fs, block) ==
  IF block \in Blocks THEN [fs EXCEPT !.blocks = @ \ {block}] ELSE Panic(fs)

\* Where the cells of a block begin in fs_data.
data_block_get(block) == block * BLOCK_SIZE

inode_alloc(fs) ==
  LET free == Inumbers \ fs.inodes
  IN  IF free = {} THEN Result(fs, -1)
      ELSE Result([fs EXCEPT !.inodes = @ \cup {FirstOf(free)}], FirstOf(free))

\* Gives the inode back and not its block.
inode_deleteFaulty(fs, inum) ==
  IF inum \notin fs.inodes THEN Panic(fs) ELSE [fs EXCEPT !.inodes = @ \ {inum}]

\* The size is left as it was, and so is the block number.
inode_delete(fs, inum) ==
  LET inode == fs.inode_table[inum]
      fs1 == IF inode.i_size > 0 THEN data_block_free(fs, inode.i_data_block) ELSE fs
  IN  IF inum \notin fs.inodes THEN Panic(fs)
      ELSE [fs1 EXCEPT !.inodes = @ \ {inum}]

\* A directory gets a block, in which the inumber of every entry is set and the
\* names are left as malloc gave them.
inode_create(fs, i_type) ==
  LET new == inode_alloc(fs)
      empty == [new.fs EXCEPT !.inode_table[new.ret] = [i_size |-> 0, i_data_block |-> -1]]
      block == data_block_alloc(empty)
  IN  IF new.ret = -1 THEN new
      ELSE IF i_type = "FILE" THEN Result(empty, new.ret)
      ELSE IF block.ret = -1 THEN Result(inode_delete(empty, new.ret), -1)
      ELSE Result([block.fs EXCEPT
             !.inode_table[new.ret] = [i_size |-> BLOCK_SIZE, i_data_block |-> block.ret],
             !.dir = [i \in DOMAIN @ |-> [@[i] EXCEPT !.d_inumber = -1]]],
             new.ret)

\* Starts one entry late.
find_in_dirFaulty(dir, name) ==
  LET found == {i \in DOMAIN dir : /\ dir[i].d_inumber # -1 /\ dir[i].d_name = name
                                   /\ i > 1}
  IN  IF found = {} THEN -1 ELSE dir[FirstOf(found)].d_inumber

find_in_dir(dir, name) ==
  LET found == {i \in DOMAIN dir : dir[i].d_inumber # -1 /\ dir[i].d_name = name}
  IN  IF found = {} THEN -1 ELSE dir[FirstOf(found)].d_inumber

\* Fills the last empty entry.
add_dir_entryFaulty(fs, name, inum) ==
  LET empty == {i \in DOMAIN fs.dir : fs.dir[i].d_inumber = -1}
      last == CHOOSE i \in empty : \A j \in empty : i >= j
  IN  IF name \in LongPaths \/ empty = {} THEN Result(fs, -1)
      ELSE Result([fs EXCEPT !.dir[last] = [d_name |-> name, d_inumber |-> inum]], 0)

\* The first empty entry is filled, unless the name is too long.
add_dir_entry(fs, name, inum) ==
  LET empty == {i \in DOMAIN fs.dir : fs.dir[i].d_inumber = -1}
  IN  IF name \in LongPaths \/ empty = {} THEN Result(fs, -1)
      ELSE Result([fs EXCEPT !.dir[FirstOf(empty)] =
                     [d_name |-> name, d_inumber |-> inum]], 0)

\* The first entry whose name matches, in use or not.
clear_dir_entry(fs, name) ==
  LET found == {i \in DOMAIN fs.dir : fs.dir[i].d_name = name}
  IN  IF found = {} THEN Result(fs, -1)
      ELSE Result([fs EXCEPT !.dir[FirstOf(found)] =
                     [d_name |-> NoName, d_inumber |-> -1]], 0)

\* Looks one entry past the table.
add_to_open_file_tableFaulty(fs, inum, offset) ==
  LET h == FirstOf((0 .. MAX_OPEN_FILES) \ DOMAIN fs.open_file_table)
  IN  IF Cardinality(DOMAIN fs.open_file_table) > MAX_OPEN_FILES THEN Result(fs, -1)
      ELSE Result([fs EXCEPT !.open_file_table =
             [x \in DOMAIN @ \cup {h} |->
                IF x = h THEN [of_inumber |-> inum, of_offset |-> offset] ELSE @[x]]], h)

add_to_open_file_table(fs, inum, offset) ==
  LET free == Handles \ DOMAIN fs.open_file_table
      h == FirstOf(free)
  IN  IF free = {} THEN Result(fs, -1)
      ELSE Result([fs EXCEPT !.open_file_table =
             [x \in DOMAIN @ \cup {h} |->
                IF x = h THEN [of_inumber |-> inum, of_offset |-> offset] ELSE @[x]]], h)

remove_from_open_file_table(fs, h) ==
  [fs EXCEPT !.open_file_table = [x \in DOMAIN @ \ {h} |-> @[x]]]

\* Whether get_open_file_entry finds an entry in use.
IsOpen(fs, h) == h \in DOMAIN fs.open_file_table

-----------------------------------------------------------------------------
(* fs/operations.c *)

\* tfs_init on what malloc gave: the root directory takes inode and block 0.
tfs_init(fs) == inode_create(fs, "DIRECTORY").fs
TfsInitial == tfs_init(state_init)

\* A name that does not begin with a slash, or is no more than one, is not found.
tfs_lookup(fs, name) == IF name \in Paths THEN find_in_dir(fs.dir, name) ELSE -1

\* Frees the block and leaves the size.
truncateFaulty(fs, inum) ==
  IF fs.inode_table[inum].i_size = 0 THEN fs
  ELSE data_block_free(fs, fs.inode_table[inum].i_data_block)

truncate(fs, inum) ==
  IF fs.inode_table[inum].i_size = 0 THEN fs
  ELSE [data_block_free(fs, fs.inode_table[inum].i_data_block)
          EXCEPT !.inode_table[inum].i_size = 0]

\* Takes the offset of TFS_O_APPEND before it truncates.
open_existingFaulty(fs, inum, mode) ==
  add_to_open_file_table(
    IF "TRUNC" \in mode THEN truncate(fs, inum) ELSE fs, inum,
    IF "APPEND" \in mode THEN fs.inode_table[inum].i_size ELSE 0)

\* The branch of tfs_open for a name that exists.
open_existing(fs, inum, mode) ==
  LET fs1 == IF "TRUNC" \in mode THEN truncate(fs, inum) ELSE fs
  IN  add_to_open_file_table(fs1, inum,
        IF "APPEND" \in mode THEN fs1.inode_table[inum].i_size ELSE 0)

\* Keeps the inode of a file that found no entry in the directory.
open_newFaulty(fs, name) ==
  LET created == inode_create(fs, "FILE")
      entered == add_dir_entry(created.fs, name, created.ret)
  IN  IF created.ret = -1 THEN created
      ELSE IF entered.ret = -1 THEN entered
      ELSE add_to_open_file_table(entered.fs, created.ret, 0)

\* The branch of tfs_open that creates the file; a file that finds no room in
\* the open file table stays created.
open_new(fs, name) ==
  LET created == inode_create(fs, "FILE")
      entered == add_dir_entry(created.fs, name, created.ret)
  IN  IF created.ret = -1 THEN created
      ELSE IF entered.ret = -1 THEN Result(inode_delete(created.fs, created.ret), -1)
      ELSE add_to_open_file_table(entered.fs, created.ret, 0)

tfs_open(fs, name, mode) ==
  LET inum == tfs_lookup(fs, name)
  IN  IF name \notin Paths THEN Result(fs, -1)
      ELSE IF inum >= 0 THEN open_existing(fs, inum, mode)
      ELSE IF "CREAT" \in mode THEN open_new(fs, name)
      ELSE Result(fs, -1)

tfs_close(fs, h) ==
  IF IsOpen(fs, h) THEN Result(remove_from_open_file_table(fs, h), 0) ELSE Result(fs, -1)

\* Copies one cell too many, whatever follows the buffer.
put_cellsFaulty(data, start, buffer) ==
  [c \in DOMAIN data |-> IF c \in start .. start + Len(buffer) - 1
                           THEN buffer[c - start + 1]
                         ELSE IF c = start + Len(buffer) THEN Unwritten ELSE data[c]]

\* The copy of a write: cells start .. start + Len(buffer) - 1, wherever the
\* block ends.
put_cells(data, start, buffer) ==
  [c \in DOMAIN data |-> IF c \in start .. start + Len(buffer) - 1
                           THEN buffer[c - start + 1] ELSE data[c]]

\* An empty file gets a block, whatever block it had; to_write is not cut to what
\* is left of it.
tfs_write(fs, h, buffer) ==
  LET file == fs.open_file_table[h]
      inum == file.of_inumber
      inode == fs.inode_table[inum]
      block == IF inode.i_size = 0 THEN data_block_alloc(fs)
                                   ELSE Result(fs, inode.i_data_block)
      end == file.of_offset + Len(buffer)
  IN  IF ~IsOpen(fs, h) THEN Result(fs, -1)
      ELSE IF buffer = <<>> THEN Result(fs, 0)
      ELSE IF inode.i_size = 0 /\ block.ret = -1 THEN block
      ELSE IF block.ret \notin Blocks THEN Result(Panic(fs), -1)
      ELSE Result(
        [block.fs EXCEPT
           !.fs_data = put_cells(@, data_block_get(block.ret) + file.of_offset, buffer),
           !.open_file_table[h].of_offset = end,
           !.inode_table[inum] =
              [i_size |-> IF end > inode.i_size THEN end ELSE inode.i_size,
               i_data_block |-> block.ret]],
        Len(buffer))

\* to_read is not cut to what is left of the file; data_block_get panics on a
\* file that never had a block.
tfs_read(fs, h, len) ==
  LET file == fs.open_file_table[h]
      bnum == fs.inode_table[file.of_inumber].i_data_block
      start == data_block_get(bnum) + file.of_offset
  IN  IF ~IsOpen(fs, h) THEN Result(fs, -1)
      ELSE IF len = 0 THEN Result(fs, 0)
      ELSE IF bnum \notin Blocks THEN Result(Panic(fs), -1)
      ELSE [fs |-> [fs EXCEPT !.open_file_table[h].of_offset = @ + len],
            ret |-> len,
            data |-> [i \in 1 .. len |-> fs.fs_data[start + i - 1]]]

\* A handle that is at the beginning already returns with the mutex held.
tfs_rewind_offset(fs, h) ==
  IF ~IsOpen(fs, h) THEN Result(fs, -1)
  ELSE IF fs.open_file_table[h].of_offset = 0 THEN Result([fs EXCEPT !.locked = TRUE], 0)
  ELSE Result([fs EXCEPT !.open_file_table[h].of_offset = 0], 0)

\* Deletes the inode and leaves the entry of the directory.
tfs_unlinkFaulty(fs, name) ==
  LET inum == tfs_lookup(fs, name)
  IN  IF inum = -1 THEN Result(fs, -1) ELSE Result(inode_delete(fs, inum), 0)

tfs_unlink(fs, name) ==
  LET inum == tfs_lookup(fs, name)
  IN  IF inum = -1 THEN Result(fs, -1)
      ELSE clear_dir_entry(inode_delete(fs, inum), name)
=============================================================================

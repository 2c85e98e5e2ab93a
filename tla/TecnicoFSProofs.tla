-------------------------- MODULE TecnicoFSProofs --------------------------
(* Theorems about TecnicoFS for tables of any size and any set of paths, buffers
   and lengths.  Unless they say otherwise they hold for callers that do anything
   and for disciplined ones. *)
EXTENDS TecnicoFS, TfsOpsProofs

\* A call by either kind of caller.
SomeCall == AnyCall \/ DisciplinedCall

\* What is inductive: the tables are consistent and a panic is a read's.
Inv == /\ FsInv(fs)
       /\ reply.ret \in Nat \cup {-1}
       /\ OnlyReadPanics

\* Every call is one of these seven.
LEMMA CallKinds ==
  ASSUME SomeCall
  PROVE  \/ \E n \in Names, mode \in Modes : Open(n, mode)
         \/ \E h \in AnyHandle : Close(h)
         \/ \E h \in AnyHandle : Rewind(h)
         \/ \E h \in AnyHandle, b \in Buffers : Write(h, b)
         \/ \E h \in AnyHandle, l \in Lengths : Read(h, l)
         \/ \E n \in Names : Unlink(n)
         \/ Remount
BY DEF SomeCall, AnyCall, DisciplinedCall

\* The invariant in terms of TecnicoFS.
LEMMA Entries ==
  ASSUME FsInv(fs)
  PROVE  LiveEntries = Live(fs) /\ FileInodes = Files(fs)
BY DEF FsInv, FsType, LiveEntries, FileInodes, Live, Files

\* A library that is initialised again has lost its files and handles.
LEMMA RemountEmpties ==
  ASSUME FsInv(fs), Remount
  PROVE  /\ FsInv(fs') /\ ~fs'.panicked
         /\ Live(fs') = {} /\ fs'.open_file_table = <<>> /\ fs'.blocks = {0}
<1>1. PICK names \in {fs.dir, state_init.dir} :
        fs' = tfs_init([state_init EXCEPT !.locked = fs.locked, !.dir = names])
  BY DEF Remount
<1>2. names \in [Slots -> DirEntries] /\ fs.locked \in BOOLEAN
  BY DEF FsInv, FsType, state_init, Slots, DirEntries
<1> QED BY <1>1, <1>2, InitIsConsistent

\* The library starts consistent.
LEMMA InitInv == Init => Inv
<1> SUFFICES ASSUME Init PROVE Inv
  OBVIOUS
<1>1. FsInv(fs) /\ ~fs.panicked
  BY StartsEmpty DEF Init
<1> QED BY <1>1 DEF Inv, Init, OnlyReadPanics

\* Every call preserves it.
LEMMA CallInv ==
  ASSUME Inv, SomeCall
  PROVE  Inv'
<1>1. FsInv(fs)
  BY DEF Inv
<1>2. CASE \E n \in Names, mode \in Modes : Open(n, mode)
  <2>1. PICK n \in Names, mode \in Modes : Open(n, mode)
    BY <1>2
  <2> DEFINE r == tfs_open(fs, n, mode)
  <2>2. FsInv(r.fs) /\ SameFlags(fs, r.fs) /\ MayGiveHandle(fs, r.fs, r.ret)
    BY <1>1, OpenKeepsInv
  <2>3. r.ret \in Nat \cup {-1}
    BY <2>2, TfsAssumption DEF MayGiveHandle, Handles
  <2> HIDE DEF r
  <2>4. ~fs.panicked /\ fs' = r.fs /\ reply' = [op |-> "open", ret |-> r.ret, data |-> r.data]
    BY <2>1 DEF Open, Call, r
  <2> QED BY <2>2, <2>3, <2>4 DEF Inv, OnlyReadPanics, SameFlags
<1>3. CASE \E h \in AnyHandle : Close(h)
  <2>1. PICK h \in AnyHandle : Close(h)
    BY <1>3
  <2> DEFINE r == tfs_close(fs, h)
  <2>2. FsInv(r.fs) /\ SameFlags(fs, r.fs) /\ r.ret \in {0, -1}
    BY <1>1, CloseKeepsInv
  <2> HIDE DEF r
  <2>3. ~fs.panicked /\ fs' = r.fs /\ reply' = [op |-> "close", ret |-> r.ret, data |-> r.data]
    BY <2>1 DEF Close, Call, r
  <2> QED BY <2>2, <2>3 DEF Inv, OnlyReadPanics, SameFlags
<1>4. CASE \E h \in AnyHandle : Rewind(h)
  <2>1. PICK h \in AnyHandle : Rewind(h)
    BY <1>4
  <2> DEFINE r == tfs_rewind_offset(fs, h)
  <2>2. FsInv(r.fs) /\ r.fs.panicked = fs.panicked
    BY <1>1, RewindKeepsInv
  <2>3. r.ret = IF IsOpen(fs, h) THEN 0 ELSE -1
    BY <1>1, RewindKeepsInv
  <2> HIDE DEF r
  <2>4. r.ret \in {0, -1}
    BY <2>3
  <2>5. ~fs.panicked /\ fs' = r.fs /\ reply' = [op |-> "rewind", ret |-> r.ret, data |-> r.data]
    BY <2>1 DEF Rewind, Call, r
  <2> QED BY <2>2, <2>4, <2>5 DEF Inv, OnlyReadPanics
<1>5. CASE \E h \in AnyHandle, b \in Buffers : Write(h, b)
  <2>1. PICK h \in AnyHandle, b \in Buffers : Write(h, b)
    BY <1>5
  <2> DEFINE r == tfs_write(fs, h, b)
             C == {b[i] : i \in DOMAIN b}
  <2>2. b \in Seq(C)
    BY CallsAssumption
  <2> HIDE DEF C
  <2>3. FsInv(r.fs) /\ SameFlags(fs, r.fs) /\ r.ret \in {-1, 0, Len(b)}
    BY <1>1, <2>2, WriteKeepsInv
  <2>4. r.ret \in Nat \cup {-1}
    BY <2>2, <2>3
  <2> HIDE DEF r
  <2>5. ~fs.panicked /\ fs' = r.fs /\ reply' = [op |-> "write", ret |-> r.ret, data |-> r.data]
    BY <2>1 DEF Write, Call, r
  <2> QED BY <2>3, <2>4, <2>5 DEF Inv, OnlyReadPanics, SameFlags
<1>6. CASE \E h \in AnyHandle, l \in Lengths : Read(h, l)
  <2>1. PICK h \in AnyHandle, l \in Lengths : Read(h, l)
    BY <1>6
  <2> DEFINE r == tfs_read(fs, h, l)
  <2>2. l \in Nat
    BY CallsAssumption
  <2>3. FsInv(r.fs) /\ r.ret \in {-1, 0, l}
    BY <1>1, <2>2, ReadKeepsInv
  <2> HIDE DEF r
  <2>4. fs' = r.fs /\ reply' = [op |-> "read", ret |-> r.ret, data |-> r.data]
    BY <2>1 DEF Read, Call, r
  <2> QED BY <2>2, <2>3, <2>4 DEF Inv, OnlyReadPanics
<1>7. CASE \E n \in Names : Unlink(n)
  <2>1. PICK n \in Names : Unlink(n)
    BY <1>7
  <2> DEFINE r == tfs_unlink(fs, n)
  <2>2. FsInv(r.fs) /\ SameFlags(fs, r.fs) /\ r.ret \in Nat \cup {-1}
    BY <1>1, UnlinkKeepsInv
  <2> HIDE DEF r
  <2>3. ~fs.panicked /\ fs' = r.fs /\ reply' = [op |-> "unlink", ret |-> r.ret, data |-> r.data]
    BY <2>1 DEF Unlink, Call, r
  <2> QED BY <2>2, <2>3 DEF Inv, OnlyReadPanics, SameFlags
<1>8. CASE Remount
  <2>1. FsInv(fs') /\ ~fs'.panicked
    BY <1>1, <1>8, RemountEmpties
  <2> QED BY <1>8, <2>1 DEF Inv, OnlyReadPanics, Remount
<1> QED BY <1>2, <1>3, <1>4, <1>5, <1>6, <1>7, <1>8, CallKinds

\* A step that changes nothing keeps the invariant.
LEMMA Stutter ==
  ASSUME Inv, UNCHANGED vars
  PROVE  Inv'
BY DEF Inv, vars, OnlyReadPanics

\* The invariant holds whatever is called, and whatever is called with discipline.
LEMMA AlwaysInv == AnyCalls \/ Disciplined => []Inv
<1>1. Inv /\ [AnyCall]_vars => Inv'
  BY CallInv, Stutter DEF SomeCall
<1>2. Inv /\ [DisciplinedCall]_vars => Inv'
  BY CallInv, Stutter DEF SomeCall
<1> QED BY <1>1, <1>2, InitInv, PTL DEF AnyCalls, Disciplined

-----------------------------------------------------------------------------

\* TypeOK: the tables have the sizes and entries that fs/config.h gives them, whatever
\* is called and whatever fails half-way.
THEOREM TypeCorrect == AnyCalls \/ Disciplined => []TypeOK
<1>1. Inv => TypeOK
  <2> SUFFICES ASSUME Inv PROVE TypeOK
    OBVIOUS
  <2>1. FsType(fs) /\ InodesTaken(fs) /\ reply.ret \in Nat \cup {-1}
    BY DEF Inv, FsInv
  <2>2. ROOT_DIR_INUM \in fs.inodes /\ 0 \in fs.blocks
    BY <2>1 DEF InodesTaken
  <2>3. reply.ret \in -1 .. MAX_OPEN_FILES \cup Nat
    BY <2>1, TfsAssumption
  <2>4. DOMAIN fs.fs_data = Cells
    BY <2>1 DEF FsType
  <2>5. \A h \in DOMAIN fs.open_file_table :
          fs.open_file_table[h] \in [of_inumber : Inumbers, of_offset : Nat]
    BY <2>1 DEF FsType, OpenFiles
  <2> QED BY <2>1, <2>2, <2>3, <2>4, <2>5
          DEF FsType, TypeOK, InodeRecords, DirEntries, Slots
<1> QED BY <1>1, AlwaysInv, PTL

\* DirectoryIsInjective: whatever is called, no two entries of the directory have one
\* name or one inode.
THEOREM EntriesAreUnique == AnyCalls \/ Disciplined => []DirectoryIsInjective
<1>1. Inv => DirectoryIsInjective
  BY Entries DEF Inv, FsInv, DirInjective, DirectoryIsInjective
<1> QED BY <1>1, AlwaysInv, PTL

\* InodesAccounted: whatever is called and whatever fails half-way, an inode is TAKEN
\* exactly while it is the root or in the directory.
THEOREM InodesDoNotLeak == AnyCalls \/ Disciplined => []InodesAccounted
<1>1. Inv => InodesAccounted
  BY Entries DEF Inv, FsInv, InodesTaken, InodesAccounted
<1> QED BY <1>1, AlwaysInv, PTL

\* BlocksAreOwned: whatever is called, a block of a file with contents is no other
\* file's, TAKEN, and not the directory's.
THEOREM BlocksHaveOneOwner == AnyCalls \/ Disciplined => []BlocksAreOwned
<1>1. Inv => BlocksAreOwned
  BY Entries DEF Inv, FsInv, BlocksOwned, HasBlock, BlocksAreOwned, NonEmpty
<1> QED BY <1>1, AlwaysInv, PTL

\* OnlyReadPanics: the assertions of fs/ that follow from the tables' consistency never
\* fail; only a read of a file without a block reaches one that does.
THEOREM PanicsAreReads == AnyCalls \/ Disciplined => []OnlyReadPanics
<1>1. Inv => OnlyReadPanics
  BY DEF Inv
<1> QED BY <1>1, AlwaysInv, PTL

-----------------------------------------------------------------------------
(* What a write reaches. *)

\* The contents of a file depend on its inode and on the cells of its block.
LEMMA ContentsAre ==
  ASSUME NEW i
  PROVE  Contents(i) = ContentsOf(fs, i) /\ Contents(i)' = ContentsOf(fs', i)
BY DEF Contents, ContentsOf

\* Each call leaves the contents of the files it is not about.
LEMMA ContentsSteps ==
  ASSUME Inv, Inv', SomeCall
  PROVE  ContentsStep
<1> SUFFICES ASSUME NEW i \in FileInodes \cap FileInodes', Within(i), Within(i)',
                    Contents(i)' # Contents(i)
             PROVE  \/ reply'.op = "open" /\ Contents(i)' = <<>>
                    \/ \E h \in DOMAIN fs.open_file_table :
                         /\ reply'.op = "write" /\ Offset(h)' # Offset(h)
                         /\ fs.open_file_table[h].of_inumber = i \/ Overran(h)' \/ Stale(h)
  BY DEF ContentsStep
<1>1. FsInv(fs) /\ i \in Files(fs)
  BY Entries DEF Inv
<1>2. i \in Files(fs')
  BY DEF Inv, FsInv, FsType, FileInodes, LiveEntries, Files, Live
<1>3. ContentsOf(fs', i) # ContentsOf(fs, i)
  BY ContentsAre
<1>4. ~(fs'.inode_table = fs.inode_table /\ fs'.fs_data = fs.fs_data)
  BY <1>3, SameContents
<1>5. CASE \E n \in Names, mode \in Modes : Open(n, mode)
  <2>1. PICK n \in Names, mode \in Modes : Open(n, mode)
    BY <1>5
  <2> DEFINE r == tfs_open(fs, n, mode)
  <2>2. fs' = r.fs /\ reply'.op = "open"
    BY <2>1 DEF Open, Call
  <2>3. /\ r.fs.fs_data = fs.fs_data
        /\ \/ r.fs.inode_table[i] = fs.inode_table[i]
           \/ r.fs.inode_table[i].i_size = 0
    BY <1>1, OpenKeepsFiles
  <2> HIDE DEF r
  <2>4. ~(fs'.inode_table[i] = fs.inode_table[i])
    BY <1>3, <2>2, <2>3 DEF ContentsOf
  <2> QED BY <2>2, <2>3, <2>4, ContentsAre, NoContents
<1>6. CASE \E h \in AnyHandle : Close(h)
  <2>1. PICK h \in AnyHandle : Close(h)
    BY <1>6
  <2> DEFINE r == tfs_close(fs, h)
  <2>2. SameFiles(fs, r.fs)
    BY <1>1, CloseKeepsInv
  <2> HIDE DEF r
  <2>3. fs' = r.fs
    BY <2>1 DEF Close, Call, r
  <2> QED BY <1>4, <2>2, <2>3 DEF SameFiles
<1>7. CASE \E h \in AnyHandle : Rewind(h)
  <2>1. PICK h \in AnyHandle : Rewind(h)
    BY <1>7
  <2> DEFINE r == tfs_rewind_offset(fs, h)
  <2>2. SameFiles(fs, r.fs)
    BY <1>1, RewindKeepsInv
  <2> HIDE DEF r
  <2>3. fs' = r.fs
    BY <2>1 DEF Rewind, Call, r
  <2> QED BY <1>4, <2>2, <2>3 DEF SameFiles
<1>8. CASE \E h \in AnyHandle, b \in Buffers : Write(h, b)
  <2>1. PICK h \in AnyHandle, b \in Buffers : Write(h, b)
    BY <1>8
  <2> DEFINE r == tfs_write(fs, h, b)
             C == {b[k] : k \in DOMAIN b}
             file == fs.open_file_table[h]
             end == file.of_offset + Len(b)
  <2>2. b \in Seq(C)
    BY CallsAssumption
  <2> HIDE DEF C
  <2>3. fs' = r.fs /\ reply'.op = "write"
    BY <2>1 DEF Write, Call
  <2>4. \/ r.fs = fs
        \/ IsOpen(fs, h) /\ b # <<>> /\ \E block \in Blocks : Wrote(fs, r.fs, h, b, block)
    BY <1>1, <2>2, WriteKeepsInv
  <2> HIDE DEF r
  <2>5. PICK block \in Blocks : Wrote(fs, fs', h, b, block)
    BY <1>4, <2>3, <2>4
  <2>6. h \in DOMAIN fs.open_file_table /\ b # <<>>
    BY <1>4, <2>3, <2>4 DEF IsOpen
  <2>7. file \in OpenFiles /\ Len(b) \in Nat /\ Len(b) # 0
    BY <1>1, <2>2, <2>6, EmptySeq DEF FsInv, FsType
  <2>8. Offset(h) = file.of_offset /\ Offset(h)' = end
    <3>1. fs'.open_file_table = [fs.open_file_table EXCEPT ![h] =
            [of_inumber |-> file.of_inumber, of_offset |-> end]]
      BY <2>5 DEF Wrote
    <3> QED BY <2>6, <3>1 DEF Offset
  <2>9. Offset(h)' # Offset(h)
    BY <2>7, <2>8 DEF OpenFiles
  <2>10. ASSUME file.of_inumber # i, ~Overran(h)', ~Stale(h)
         PROVE  FALSE
    <3>1. end <= BLOCK_SIZE
      BY <2>7, <2>8, <2>10, TfsAssumption DEF Overran, OpenFiles
    <3>2. file.of_inumber \in Files(fs)
      BY <1>1, <2>10, Entries DEF Stale
    <3>3. fs.inode_table[i].i_size <= BLOCK_SIZE
      BY DEF Within
    <3> QED BY <1>1, <1>3, <2>2, <2>5, <2>6, <2>10, <3>1, <3>2, <3>3, WriteKeepsOthers
  <2> QED BY <2>3, <2>6, <2>9, <2>10
<1>9. CASE \E h \in AnyHandle, l \in Lengths : Read(h, l)
  <2>1. PICK h \in AnyHandle, l \in Lengths : Read(h, l)
    BY <1>9
  <2> DEFINE r == tfs_read(fs, h, l)
  <2>2. l \in Nat
    BY CallsAssumption
  <2>3. SameFiles(fs, r.fs)
    BY <1>1, <2>2, ReadKeepsInv
  <2> HIDE DEF r
  <2>4. fs' = r.fs
    BY <2>1 DEF Read, Call, r
  <2> QED BY <1>4, <2>3, <2>4 DEF SameFiles
<1>10. CASE \E n \in Names : Unlink(n)
  BY <1>1, <1>4, <1>10, UnlinkKeepsInv DEF Unlink, Call
<1>11. CASE Remount
  <2>1. Live(fs') = {}
    BY <1>1, <1>11, RemountEmpties
  <2> QED BY <1>2, <2>1 DEF Files
<1> QED BY <1>5, <1>6, <1>7, <1>8, <1>9, <1>10, <1>11, CallKinds

\* OnlyOverrunsCorrupt: whatever is called, the contents of a file within its block
\* change only by a write with one of its handles or by being truncated; the
\* exceptions are a write past the end of a block and one through a deleted inode.
THEOREM OthersAreKept == AnyCalls \/ Disciplined => OnlyOverrunsCorrupt
<1>1. Inv /\ Inv' /\ [SomeCall]_vars => [ContentsStep]_vars
  BY ContentsSteps
<1>2. [AnyCall]_vars \/ [DisciplinedCall]_vars => [SomeCall]_vars
  BY DEF SomeCall
<1> QED BY <1>1, <1>2, AlwaysInv, PTL DEF AnyCalls, Disciplined, OnlyOverrunsCorrupt
=============================================================================

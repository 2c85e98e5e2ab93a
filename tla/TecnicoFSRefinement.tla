------------------------ MODULE TecnicoFSRefinement ------------------------
(* TecnicoFS with disciplined callers, for tables of any size: no block leaks,
   and every call is one of FileStore. *)
EXTENDS TecnicoFSProofs, FunctionTheorems

\* What disciplined callers keep beyond FsInv: blocks are TAKEN exactly while a file
\* has contents in them, files end within their block, and a handle stands within
\* a file that is in the directory.  No entry has a name that does not fit it.
Orderly(f) ==
  /\ \A e \in Live(f) : f.dir[e].d_name \notin LongPaths
  /\ f.blocks = {0} \cup {f.inode_table[i].i_data_block : i \in {k \in Files(f) : HasBlock(f, k)}}
  /\ \A i \in Files(f) : f.inode_table[i].i_size <= BLOCK_SIZE
  /\ \A h \in DOMAIN f.open_file_table : InFile(f, h)

-----------------------------------------------------------------------------
(* A file is emptied. *)

\* g has the file i empty.
LEMMA FileCut ==
  ASSUME NEW f, FsInv(f), NEW i \in Files(f), NEW g, SameFiles(truncate(f, i), g)
  PROVE  /\ Live(g) = Live(f) /\ Files(g) = Files(f) /\ g.dir = f.dir
         /\ g.blocks = f.blocks \ BlockOf(f, i) /\ g.fs_data = f.fs_data
         /\ g.inode_table[i].i_size = 0
         /\ \A k \in Files(f) \ {i} : g.inode_table[k] = f.inode_table[k]
<1> DEFINE t == truncate(f, i)
<1>1. FsInv(t) /\ ~HasBlock(t, i)
  BY Truncated
<1>2. \/ t = f
      \/ t = [f EXCEPT !.blocks = f.blocks \ BlockOf(f, i),
                       !.inode_table = [f.inode_table EXCEPT ![i] =
                          [f.inode_table[i] EXCEPT !.i_size = 0]]]
  BY Truncated
<1>3. SameFiles(t, g)
  OBVIOUS
<1> HIDE DEF t
<1>4. i \in Inumbers /\ t.inode_table[i].i_size = 0
  BY <1>1 DEF FsInv, FsType, InodesTaken, InodeRecords, HasBlock
<1>5. t.dir = f.dir /\ t.fs_data = f.fs_data
  BY <1>2 DEF FsInv, FsType
<1>6. \A k \in Files(f) \ {i} : t.inode_table[k] = f.inode_table[k]
  <2>1. \A k \in Files(f) : k \in Inumbers /\ f.inode_table \in [Inumbers -> InodeRecords]
    BY DEF FsInv, FsType, InodesTaken
  <2>2. t.inode_table = f.inode_table
        \/ t.inode_table = [f.inode_table EXCEPT ![i] = [f.inode_table[i] EXCEPT !.i_size = 0]]
    BY <1>2 DEF FsInv, FsType
  <2> QED BY ONLY <2>1, <2>2
<1>7. t.blocks = f.blocks \ BlockOf(f, i)
  <2>1. CASE t = f
    <3>1. BlockOf(f, i) = {}
      BY <1>4, <2>1 DEF BlockOf, HasBlock
    <3> QED BY <2>1, <3>1
  <2>2. CASE t = [f EXCEPT !.blocks = f.blocks \ BlockOf(f, i),
                           !.inode_table = [f.inode_table EXCEPT ![i] =
                              [f.inode_table[i] EXCEPT !.i_size = 0]]]
    BY <2>2 DEF FsInv, FsType
  <2> QED BY <1>2, <2>1, <2>2
<1>8. Live(g) = Live(f) /\ Files(g) = Files(f)
  BY <1>3, <1>5 DEF SameFiles, Live, Files
<1> QED BY <1>3, <1>4, <1>5, <1>6, <1>7, <1>8 DEF SameFiles

-----------------------------------------------------------------------------
(* Disciplined calls keep the order. *)

\* The blocks of the files, of f.
InUse(f) == {f.inode_table[i].i_data_block : i \in {k \in Files(f) : HasBlock(f, k)}}

\* The same files, and every handle is an old one or stands within a file.
LEMMA HandlesKeepOrder ==
  ASSUME NEW f, Orderly(f), NEW g, SameFiles(f, g),
         \A h \in DOMAIN g.open_file_table :
           \/ h \in DOMAIN f.open_file_table /\ g.open_file_table[h] = f.open_file_table[h]
           \/ /\ g.open_file_table[h].of_inumber \in Files(f)
              /\ g.open_file_table[h].of_offset
                   <= f.inode_table[g.open_file_table[h].of_inumber].i_size
  PROVE  Orderly(g)
<1>1. Live(g) = Live(f) /\ Files(g) = Files(f) /\ \A i : HasBlock(g, i) = HasBlock(f, i)
  BY DEF SameFiles, Files, Live, HasBlock
<1> QED BY <1>1 DEF Orderly, InFile, SameFiles

\* Emptying a file that is not open.
LEMMA CutKeepsOrder ==
  ASSUME NEW f, FsInv(f), Orderly(f), NEW i \in Files(f), NEW g,
         SameFiles(truncate(f, i), g), g.open_file_table = f.open_file_table,
         \A h \in DOMAIN f.open_file_table : f.open_file_table[h].of_inumber # i
  PROVE  Orderly(g)
<1>1. /\ Files(g) = Files(f) /\ g.blocks = f.blocks \ BlockOf(f, i)
      /\ g.inode_table[i].i_size = 0
      /\ \A k \in Files(f) \ {i} : g.inode_table[k] = f.inode_table[k]
  BY FileCut
<1>2. g.blocks = {0} \cup InUse(g)
  BY <1>1 DEF Orderly, InFile, InUse, FsInv, InodesTaken, BlocksOwned, BlockOf, HasBlock
<1>3. \A k \in Files(f) : g.inode_table[k].i_size <= BLOCK_SIZE
  BY <1>1, TfsAssumption DEF Orderly, InFile
<1>4. \A k \in Live(g) : g.dir[k].d_name \notin LongPaths
  BY FileCut DEF Orderly, InFile
<1> QED BY <1>1, <1>2, <1>3, <1>4 DEF Orderly, InFile, InUse

\* Entering a file.
LEMMA AddKeepsOrder ==
  ASSUME NEW f, FsInv(f), Orderly(f), NEW n \in Paths \ LongPaths, NEW e \in Slots \ Live(f),
         NEW i \in Inumbers \ f.inodes, NEW g, SameFiles(Entered(f, n, e, i), g),
         g.open_file_table = f.open_file_table
  PROVE  Orderly(g)
<1>1. /\ Files(g) = Files(f) \cup {i} /\ i \notin Files(f) /\ g.blocks = f.blocks
      /\ g.inode_table[i].i_size = 0
      /\ \A k \in Files(f) : g.inode_table[k] = f.inode_table[k]
  BY FileAdded DEF EmptyInode
<1>2. {k \in Files(g) : HasBlock(g, k)} = {k \in Files(f) : HasBlock(f, k)}
  BY <1>1 DEF HasBlock
<1>3. g.blocks = {0} \cup InUse(g)
  BY <1>1, <1>2 DEF Orderly, InFile, InUse
<1>4. \A k \in Files(g) : g.inode_table[k].i_size <= BLOCK_SIZE
  BY <1>1, TfsAssumption DEF Orderly, InFile
<1>5. \A k \in Live(g) : g.dir[k].d_name \notin LongPaths
  BY FileAdded DEF Orderly, InFile
<1> QED BY <1>1, <1>3, <1>4, <1>5 DEF Orderly, InFile, InUse

\* Unlinking a file that is not open.
LEMMA RemoveKeepsOrder ==
  ASSUME NEW f, FsInv(f), Orderly(f), NEW e \in Live(f), NEW g, g = Deleted(f, e),
         \A h \in DOMAIN f.open_file_table :
           f.open_file_table[h].of_inumber # f.dir[e].d_inumber
  PROVE  Orderly(g)
<1> DEFINE i == f.dir[e].d_inumber
<1>1. /\ Files(g) = Files(f) \ {i} /\ i \in Files(f)
      /\ g.blocks = f.blocks \ BlockOf(f, i) /\ g.inode_table = f.inode_table
      /\ g.open_file_table = f.open_file_table
  <2>1. i \in Files(f)
    BY DEF Files
  <2>2. Files(g) = Files(f) \ {f.dir[e].d_inumber}
    BY FileRemoved
  <2>3. /\ g.blocks = f.blocks \ BlockOf(f, f.dir[e].d_inumber)
        /\ g.inode_table = f.inode_table /\ g.open_file_table = f.open_file_table
    BY DEF Deleted, FsInv, FsType
  <2> QED BY <2>1, <2>2, <2>3
<1> HIDE DEF i
<1>2. g.blocks = {0} \cup InUse(g)
  BY <1>1 DEF Orderly, InFile, InUse, FsInv, InodesTaken, BlocksOwned, BlockOf, HasBlock
<1>3. \A k \in Live(g) : g.dir[k].d_name \notin LongPaths
  BY FileRemoved DEF Orderly, InFile
<1> QED BY <1>1, <1>2, <1>3 DEF Orderly, InFile, InUse, i

\* A write that ends within its block.
LEMMA WriteKeepsOrder ==
  ASSUME NEW f, FsInv(f), Orderly(f), NEW g, NEW h \in DOMAIN f.open_file_table, NEW C,
         NEW buffer \in Seq(C), buffer # <<>>, NEW block \in Blocks, Wrote(f, g, h, buffer, block),
         f.open_file_table[h].of_offset + Len(buffer) <= BLOCK_SIZE
  PROVE  Orderly(g)
<1> DEFINE i == f.open_file_table[h].of_inumber
           off == f.open_file_table[h].of_offset
           end == off + Len(buffer)
           size == IF end > f.inode_table[i].i_size THEN end ELSE f.inode_table[i].i_size
<1>1. i \in Files(f) /\ i \in Inumbers /\ off \in Nat /\ Len(buffer) \in Nat \ {0}
  BY EmptySeq DEF Orderly, InFile, FsInv, FsType, OpenFiles, InodesTaken
<1>2. f.inode_table[i].i_size \in Nat /\ f.inode_table[i].i_size <= BLOCK_SIZE
  BY <1>1 DEF Orderly, InFile, FsInv, FsType, InodeRecords
<1>3. /\ g.dir = f.dir
      /\ g.inode_table = [f.inode_table EXCEPT ![i] = [i_size |-> size, i_data_block |-> block]]
      /\ g.open_file_table =
           [f.open_file_table EXCEPT ![h] = [of_inumber |-> i, of_offset |-> end]]
      /\ \/ HasBlock(f, i) /\ block = f.inode_table[i].i_data_block /\ g.blocks = f.blocks
         \/ /\ ~HasBlock(f, i) /\ block \in Blocks \ f.blocks
            /\ g.blocks = f.blocks \cup {block}
  BY DEF Wrote
<1>4. size \in Nat \ {0} /\ end <= size /\ f.inode_table[i].i_size <= size /\ size <= BLOCK_SIZE
  <2> DEFINE old == f.inode_table[i].i_size
  <2>1. end \in Nat \ {0} /\ end <= BLOCK_SIZE /\ BLOCK_SIZE \in Nat
    BY <1>1, TfsAssumption
  <2>2. old \in Nat /\ old <= BLOCK_SIZE
    BY <1>2
  <2> HIDE DEF old, end
  <2>3. size = IF end > old THEN end ELSE old
    BY DEF old
  <2> HIDE DEF size
  <2>4. size \in Nat \ {0} /\ end <= size /\ old <= size /\ size <= BLOCK_SIZE
    BY <2>1, <2>2, <2>3
  <2> QED BY <2>4 DEF old
<1>5. Live(g) = Live(f) /\ Files(g) = Files(f)
  BY <1>3 DEF Live, Files
<1> HIDE DEF i, off, end, size
<1>6. /\ g.inode_table[i].i_size = size /\ g.inode_table[i].i_data_block = block
      /\ \A k \in Files(f) \ {i} : g.inode_table[k] = f.inode_table[k]
  BY <1>1, <1>3 DEF FsInv, FsType, InodesTaken
<1>7. g.blocks = {0} \cup InUse(g)
  <2>1. HasBlock(g, i) /\ \A k \in Files(f) \ {i} : HasBlock(g, k) = HasBlock(f, k)
    BY <1>4, <1>6 DEF HasBlock
  <2>2. {k \in Files(g) : HasBlock(g, k)} = {k \in Files(f) : HasBlock(f, k)} \cup {i}
    BY <1>1, <1>5, <2>1
  <2>3. InUse(g) = InUse(f) \cup {block}
    <3>1. CASE HasBlock(f, i)
      <4>1. block = f.inode_table[i].i_data_block
        BY <1>3, <3>1
      <4> QED BY <1>1, <1>5, <1>6, <2>1, <2>2, <3>1, <4>1 DEF InUse
    <3>2. CASE ~HasBlock(f, i)
      BY <1>1, <1>5, <1>6, <2>1, <2>2, <3>2 DEF InUse
    <3> QED BY <3>1, <3>2
  <2>4. f.blocks = {0} \cup InUse(f)
    BY DEF Orderly, InFile, InUse
  <2>5. HasBlock(f, i) /\ block = f.inode_table[i].i_data_block => block \in InUse(f)
    BY <1>1 DEF InUse
  <2> QED BY <1>3, <2>3, <2>4, <2>5
<1>8. \A k \in Files(g) : g.inode_table[k].i_size <= BLOCK_SIZE
  BY <1>4, <1>5, <1>6 DEF Orderly, InFile
<1>9. ASSUME NEW x \in DOMAIN g.open_file_table
      PROVE  /\ g.open_file_table[x].of_inumber \in Files(g)
             /\ g.open_file_table[x].of_offset
                  <= g.inode_table[g.open_file_table[x].of_inumber].i_size
  <2>1. x \in DOMAIN f.open_file_table
    BY <1>3
  <2>2. CASE x = h
    BY <1>1, <1>3, <1>4, <1>5, <1>6, <2>2
  <2>3. CASE x # h
    <3>1. g.open_file_table[x] = f.open_file_table[x]
      BY <1>3, <2>1, <2>3
    <3>2. /\ f.open_file_table[x].of_inumber \in Files(f) /\ f.open_file_table[x].of_offset \in Nat
          /\ f.open_file_table[x].of_offset
               <= f.inode_table[f.open_file_table[x].of_inumber].i_size
      BY <2>1 DEF Orderly, InFile, FsInv, FsType, OpenFiles
    <3>3. CASE f.open_file_table[x].of_inumber = i
      BY <1>2, <1>4, <1>5, <1>6, <3>1, <3>2, <3>3
    <3>4. CASE f.open_file_table[x].of_inumber # i
      BY <1>5, <1>6, <3>1, <3>2, <3>4
    <3> QED BY <3>3, <3>4
  <2> QED BY <2>2, <2>3
<1>10. \A k \in Live(g) : g.dir[k].d_name \notin LongPaths
  BY <1>3, <1>5 DEF Orderly, InFile
<1> QED BY <1>7, <1>8, <1>9, <1>10 DEF Orderly, InFile, InUse

\* A handle that was given out stands within its file.
LEMMA GivenKeepsOrder ==
  ASSUME NEW f, Orderly(f), NEW g, NEW ret, NEW i \in Files(f), NEW offset,
         offset <= f.inode_table[i].i_size, SameFiles(f, g),
         GivesHandle(f, g, ret, [of_inumber |-> i, of_offset |-> offset])
  PROVE  Orderly(g)
<1> DEFINE file == [of_inumber |-> i, of_offset |-> offset]
<1>1. file.of_inumber = i /\ file.of_offset = offset
  OBVIOUS
<1> HIDE DEF file
<1>2. \A h \in DOMAIN g.open_file_table :
        \/ h \in DOMAIN f.open_file_table /\ g.open_file_table[h] = f.open_file_table[h]
        \/ g.open_file_table[h] = file
  BY DEF GivesHandle, WithHandle, file
<1> QED BY <1>1, <1>2, HandlesKeepOrder

\* Opening, unless to empty a file that is open.
LEMMA OpenKeepsOrder ==
  ASSUME NEW f, FsInv(f), Orderly(f), NEW n, NEW mode,
         "TRUNC" \in mode => \A h \in DOMAIN f.open_file_table :
                               f.open_file_table[h].of_inumber # find_in_dir(f.dir, n)
  PROVE  Orderly(tfs_open(f, n, mode).fs)
<1> DEFINE r == tfs_open(f, n, mode)
           g == r.fs
<1> SUFFICES Orderly(g)
  OBVIOUS
<1>1. CASE g = f
  BY <1>1
<1>2. CASE \E e \in Live(f) : /\ n \in Paths /\ f.dir[e].d_name = n
                              /\ f.dir[e].d_inumber \in Files(f)
                              /\ OpensFile(f, g, r.ret, mode, f.dir[e].d_inumber)
  <2>1. PICK e \in Live(f) : /\ n \in Paths /\ f.dir[e].d_name = n
                             /\ f.dir[e].d_inumber \in Files(f)
                             /\ OpensFile(f, g, r.ret, mode, f.dir[e].d_inumber)
    BY <1>2
  <2> DEFINE i == f.dir[e].d_inumber
             m == IF "TRUNC" \in mode THEN truncate(f, i) ELSE f
             offset == IF "APPEND" \in mode THEN g.inode_table[i].i_size ELSE 0
  <2>2. i = find_in_dir(f.dir, n) /\ i \in Files(f)
    BY <2>1, FoundIs
  <2>3. SameFiles(m, g) /\ GivesHandle(f, g, r.ret, [of_inumber |-> i, of_offset |-> offset])
    BY <2>1 DEF OpensFile
  <2> HIDE DEF r, g, i
  <2>4. CASE "TRUNC" \in mode
    <3>1. m = truncate(f, i) /\ FsInv(m) /\ m.open_file_table = f.open_file_table
      <4>1. m = truncate(f, i)
        BY <2>4
      <4> HIDE DEF m
      <4>2. FsInv(m)
        BY <2>2, <4>1, Truncated
      <4>3. m = f \/ m = [f EXCEPT !.blocks = f.blocks \ BlockOf(f, i),
                                   !.inode_table = [f.inode_table EXCEPT ![i] =
                                      [f.inode_table[i] EXCEPT !.i_size = 0]]]
        BY <2>2, <4>1, Truncated
      <4> QED BY <4>1, <4>2, <4>3 DEF FsInv, FsType
    <3>2. SameFiles(m, m)
      BY DEF SameFiles
    <3> HIDE DEF m
    <3>3. Files(m) = Files(f)
      BY <2>2, <3>1, <3>2, FileCut
    <3>4. Orderly(m)
      BY <2>2, <2>4, <3>1, <3>2, CutKeepsOrder
    <3>5. GivesHandle(m, g, r.ret, [of_inumber |-> i, of_offset |-> offset])
      BY <2>3, <3>1 DEF GivesHandle
    <3>6. g.inode_table = m.inode_table /\ m.inode_table[i].i_size \in Nat
      BY <2>2, <2>3, <3>1, <3>3 DEF SameFiles, FsInv, FsType, InodesTaken, InodeRecords
    <3>7. offset <= m.inode_table[i].i_size
      BY <3>6
    <3> HIDE DEF offset
    <3> QED BY <2>2, <2>3, <3>1, <3>3, <3>4, <3>5, <3>7, GivenKeepsOrder
  <2>5. CASE "TRUNC" \notin mode
    <3>1. SameFiles(f, g)
      BY <2>3, <2>5
    <3>2. g.inode_table = f.inode_table /\ f.inode_table[i].i_size \in Nat
      BY <2>2, <3>1 DEF SameFiles, FsInv, FsType, InodesTaken, InodeRecords
    <3>3. offset <= f.inode_table[i].i_size
      BY <3>2
    <3> HIDE DEF offset
    <3> QED BY <2>2, <2>3, <3>1, <3>3, GivenKeepsOrder
  <2> QED BY <2>4, <2>5
<1>3. CASE NothingSeen(f, g)
  <2> HIDE DEF r, g
  <2>1. Live(g) = Live(f) /\ Files(g) = Files(f)
    BY <1>3 DEF NothingSeen, Live, Files
  <2>2. \A k \in Files(f) : g.inode_table[k] = f.inode_table[k] /\ HasBlock(g, k) = HasBlock(f, k)
    BY <1>3 DEF NothingSeen, FsInv, InodesTaken, HasBlock
  <2>3. InUse(g) = InUse(f)
    BY <2>1, <2>2 DEF InUse
  <2>4. Orderly(g)
    BY <1>3, <2>1, <2>2, <2>3 DEF Orderly, InFile, NothingSeen, InUse
  <2> QED BY <2>4
<1>4. CASE /\ n \in Paths \ LongPaths /\ \A k \in Live(f) : f.dir[k].d_name # n
           /\ \E e \in Slots \ Live(f), i \in Inumbers \ f.inodes :
                /\ SameFiles(Entered(f, n, e, i), g)
                /\ GivesHandle(f, g, r.ret, [of_inumber |-> i, of_offset |-> 0])
  <2>1. PICK e \in Slots \ Live(f), i \in Inumbers \ f.inodes :
          /\ SameFiles(Entered(f, n, e, i), g)
          /\ GivesHandle(f, g, r.ret, [of_inumber |-> i, of_offset |-> 0])
    BY <1>4
  <2> DEFINE m == Entered(f, n, e, i)
  <2>2. SameFiles(m, m) /\ m.open_file_table = f.open_file_table
    BY DEF SameFiles, Entered, FsInv, FsType
  <2> HIDE DEF r, g
  <2>3. Orderly(m)
    BY <1>4, <2>2, AddKeepsOrder
  <2>4. i \in Files(m) /\ m.inode_table[i].i_size = 0
    BY <1>4, <2>2, FileAdded DEF EmptyInode
  <2>5. GivesHandle(m, g, r.ret, [of_inumber |-> i, of_offset |-> 0]) /\ SameFiles(m, g)
    BY <2>1, <2>2 DEF GivesHandle
  <2> HIDE DEF m
  <2> QED BY <2>3, <2>4, <2>5, GivenKeepsOrder
<1> HIDE DEF r, g
<1>5. \/ g = f
      \/ \E e \in Live(f) : /\ n \in Paths /\ f.dir[e].d_name = n
                            /\ f.dir[e].d_inumber \in Files(f)
                            /\ OpensFile(f, g, r.ret, mode, f.dir[e].d_inumber)
      \/ NothingSeen(f, g)
      \/ /\ n \in Paths \ LongPaths /\ \A k \in Live(f) : f.dir[k].d_name # n
         /\ \E e \in Slots \ Live(f), i \in Inumbers \ f.inodes :
              /\ SameFiles(Entered(f, n, e, i), g)
              /\ GivesHandle(f, g, r.ret, [of_inumber |-> i, of_offset |-> 0])
  BY OpenEnds DEF r, g
<1> QED BY <1>1, <1>2, <1>3, <1>4, <1>5

-----------------------------------------------------------------------------

\* What is inductive for disciplined callers.
OrderlyInv == Inv /\ Orderly(fs)

\* A name that no handle is open on.
LEMMA NotOpen ==
  ASSUME FsInv(fs), NEW n, ~FileIsOpen(n)
  PROVE  \A h \in DOMAIN fs.open_file_table :
           fs.open_file_table[h].of_inumber # find_in_dir(fs.dir, n)
BY DEF FileIsOpen

\* A library that was just initialised has no file and no handle.
LEMMA EmptyIsOrderly ==
  ASSUME NEW f, Live(f) = {}, f.open_file_table = <<>>, f.blocks = {0}
  PROVE  Orderly(f)
<1>1. Files(f) = {}
  BY DEF Files
<1>2. DOMAIN f.open_file_table = {}
  BY NoHandles
<1> QED BY <1>1, <1>2 DEF Orderly, InFile

\* A fresh library is in order.
LEMMA InitOrderly == Init => OrderlyInv
<1> SUFFICES ASSUME Init PROVE OrderlyInv
  OBVIOUS
<1>1. Live(fs) = {} /\ fs.open_file_table = <<>> /\ fs.blocks = {0}
  BY StartsEmpty DEF Init
<1> QED BY <1>1, InitInv, EmptyIsOrderly DEF OrderlyInv

\* Every disciplined call preserves it.
LEMMA CallOrderly ==
  ASSUME OrderlyInv, DisciplinedCall
  PROVE  OrderlyInv'
<1>1. Inv /\ FsInv(fs) /\ Orderly(fs) /\ Inv'
  BY CallInv DEF OrderlyInv, Inv, SomeCall
<1> SUFFICES Orderly(fs')
  BY <1>1 DEF OrderlyInv
<1>2. CASE \E n \in Names, mode \in Modes : ("TRUNC" \in mode => ~FileIsOpen(n)) /\ Open(n, mode)
  <2>1. PICK n \in Names, mode \in Modes : ("TRUNC" \in mode => ~FileIsOpen(n)) /\ Open(n, mode)
    BY <1>2
  <2>2. Orderly(tfs_open(fs, n, mode).fs)
    BY <1>1, <2>1, NotOpen, OpenKeepsOrder
  <2> QED BY <2>1, <2>2 DEF Open, Call
<1>3. CASE \E h \in AnyHandle : Close(h)
  <2>1. PICK h \in AnyHandle : Close(h)
    BY <1>3
  <2> DEFINE g == tfs_close(fs, h).fs
  <2>2. SameFiles(fs, g)
    BY <1>1, CloseKeepsInv
  <2>3. g.open_file_table = [k \in DOMAIN fs.open_file_table \ {h} |-> fs.open_file_table[k]]
    BY <1>1, CloseKeepsInv
  <2> HIDE DEF g
  <2>4. Orderly(g)
    BY <1>1, <2>2, <2>3, HandlesKeepOrder
  <2> QED BY <2>1, <2>4 DEF Close, Call, g
<1>4. CASE \E h \in AnyHandle : Moved(h) /\ Rewind(h)
  <2>1. PICK h \in AnyHandle : Moved(h) /\ Rewind(h)
    BY <1>4
  <2> DEFINE g == tfs_rewind_offset(fs, h).fs
  <2>2. SameFiles(fs, g)
    BY <1>1, RewindKeepsInv
  <2>3. \/ g = fs /\ ~IsOpen(fs, h)
        \/ /\ IsOpen(fs, h) /\ fs.open_file_table[h].of_offset = 0
           /\ g = [fs EXCEPT !.locked = TRUE]
        \/ /\ IsOpen(fs, h) /\ fs.open_file_table[h].of_offset # 0
           /\ g.locked = fs.locked
           /\ g.open_file_table = [fs.open_file_table EXCEPT ![h] =
                [of_inumber |-> fs.open_file_table[h].of_inumber, of_offset |-> 0]]
    BY <1>1, RewindKeepsInv
  <2>4. IsOpen(fs, h) => h \in DOMAIN fs.open_file_table /\ fs.open_file_table[h].of_offset > 0
    BY <2>1 DEF Moved, Offset, IsOpen
  <2> HIDE DEF g
  <2>5. Orderly(g)
    <3>1. \A k \in DOMAIN fs.open_file_table :
            /\ fs.open_file_table[k].of_inumber \in Files(fs)
            /\ fs.inode_table[fs.open_file_table[k].of_inumber].i_size \in Nat
      BY <1>1 DEF Orderly, InFile, FsInv, FsType, InodesTaken, InodeRecords
    <3> QED BY <1>1, <2>2, <2>3, <2>4, <3>1, HandlesKeepOrder
  <2> QED BY <2>1, <2>5 DEF Rewind, Call, g
<1>5. CASE \E h \in AnyHandle, b \in Buffers : FitsBlock(h, Len(b)) /\ Write(h, b)
  <2>1. PICK h \in AnyHandle, b \in Buffers : FitsBlock(h, Len(b)) /\ Write(h, b)
    BY <1>5
  <2> DEFINE g == tfs_write(fs, h, b).fs
             C == {b[k] : k \in DOMAIN b}
  <2>2. b \in Seq(C)
    BY CallsAssumption
  <2> HIDE DEF C
  <2>3. \/ g = fs
        \/ IsOpen(fs, h) /\ b # <<>> /\ \E block \in Blocks : Wrote(fs, g, h, b, block)
    BY <1>1, <2>2, WriteKeepsInv
  <2> HIDE DEF g
  <2>4. CASE IsOpen(fs, h) /\ b # <<>> /\ \E block \in Blocks : Wrote(fs, g, h, b, block)
    <3>1. h \in DOMAIN fs.open_file_table
          /\ fs.open_file_table[h].of_offset + Len(b) <= BLOCK_SIZE
      BY <2>1, <2>4 DEF FitsBlock, Offset, IsOpen
    <3> QED BY <1>1, <2>1, <2>2, <2>4, <3>1, WriteKeepsOrder DEF Write, Call, g
  <2> QED BY <1>1, <2>1, <2>3, <2>4 DEF Write, Call, g
<1>6. CASE \E h \in AnyHandle, l \in Lengths : FitsFile(h, l) /\ Read(h, l)
  <2>1. PICK h \in AnyHandle, l \in Lengths : FitsFile(h, l) /\ Read(h, l)
    BY <1>6
  <2> DEFINE r == tfs_read(fs, h, l)
             i == fs.open_file_table[h].of_inumber
  <2>2. l \in Nat
    BY CallsAssumption
  <2>3. SameFiles(fs, r.fs)
    BY <1>1, <2>2, ReadKeepsInv
  <2>4. \/ r.fs.open_file_table = fs.open_file_table
        \/ IsOpen(fs, h) /\ ReadFrom(fs, r.fs, h, l, r.data)
    <3>1. Panic(fs).open_file_table = fs.open_file_table
      BY <1>1 DEF Panic, FsInv, FsType
    <3> QED BY <1>1, <2>2, <3>1, ReadKeepsInv
  <2> HIDE DEF r
  <2>5. Orderly(r.fs)
    <3>1. CASE r.fs.open_file_table = fs.open_file_table
      BY <1>1, <2>3, <3>1, HandlesKeepOrder
    <3>2. CASE IsOpen(fs, h) /\ ReadFrom(fs, r.fs, h, l, r.data)
      <4>1. /\ i \in Files(fs)
            /\ fs.open_file_table[h].of_offset + l <= fs.inode_table[i].i_size
        BY <1>1, <2>1, <3>2 DEF Orderly, InFile, FitsFile, Offset, Inode, IsOpen
      <4>2. r.fs.open_file_table = [fs.open_file_table EXCEPT ![h] =
              [of_inumber |-> i, of_offset |-> fs.open_file_table[h].of_offset + l]]
        BY <3>2 DEF ReadFrom
      <4>3. h \in DOMAIN fs.open_file_table
        BY <3>2 DEF IsOpen
      <4> HIDE DEF i
      <4>4. ASSUME NEW x \in DOMAIN r.fs.open_file_table
            PROVE  \/ x \in DOMAIN fs.open_file_table
                      /\ r.fs.open_file_table[x] = fs.open_file_table[x]
                   \/ /\ r.fs.open_file_table[x].of_inumber \in Files(fs)
                      /\ r.fs.open_file_table[x].of_offset
                           <= fs.inode_table[r.fs.open_file_table[x].of_inumber].i_size
        BY <4>1, <4>2, <4>3
      <4> QED BY <1>1, <2>3, <4>4, HandlesKeepOrder
    <3> QED BY <2>4, <3>1, <3>2
  <2> QED BY <2>1, <2>5 DEF Read, Call, r
<1>7. CASE \E n \in Names : ~FileIsOpen(n) /\ Unlink(n)
  <2>1. PICK n \in Names : ~FileIsOpen(n) /\ Unlink(n)
    BY <1>7
  <2> DEFINE r == tfs_unlink(fs, n)
  <2>2. \/ r.fs = fs
        \/ \E e \in Live(fs) : fs.dir[e].d_name = n /\ r.fs = Deleted(fs, e)
    BY <1>1, UnlinkKeepsInv
  <2> HIDE DEF r
  <2>3. CASE \E e \in Live(fs) : fs.dir[e].d_name = n /\ r.fs = Deleted(fs, e)
    <3>1. PICK e \in Live(fs) : fs.dir[e].d_name = n /\ r.fs = Deleted(fs, e)
      BY <2>3
    <3>2. \A h \in DOMAIN fs.open_file_table :
            fs.open_file_table[h].of_inumber # fs.dir[e].d_inumber
      BY <1>1, <2>1, <3>1, NotOpen, FoundIs
    <3>3. Orderly(r.fs)
      BY <1>1, <3>1, <3>2, RemoveKeepsOrder
    <3> QED BY <2>1, <3>3 DEF Unlink, Call, r
  <2> QED BY <1>1, <2>1, <2>2, <2>3 DEF Unlink, Call, r
<1>8. CASE Remount
  <2>1. Live(fs') = {} /\ fs'.open_file_table = <<>> /\ fs'.blocks = {0}
    BY <1>1, <1>8, RemountEmpties
  <2> QED BY <2>1, EmptyIsOrderly
<1> QED BY <1>2, <1>3, <1>4, <1>5, <1>6, <1>7, <1>8 DEF DisciplinedCall

\* A library that is used with discipline stays in order.
LEMMA AlwaysOrderly == Disciplined => []OrderlyInv
<1>1. OrderlyInv /\ UNCHANGED vars => OrderlyInv'
  BY Stutter DEF OrderlyInv, vars
<1>2. OrderlyInv /\ [DisciplinedCall]_vars => OrderlyInv'
  BY <1>1, CallOrderly
<1> QED BY <1>2, InitOrderly, PTL DEF Disciplined

\* NoBlockLeaks: with disciplined callers a block is TAKEN exactly while it is the
\* directory's or a file has contents in it.
THEOREM BlocksDoNotLeak == Disciplined => []NoBlockLeaks
<1>1. OrderlyInv => NoBlockLeaks
  BY Entries DEF OrderlyInv, Inv, Orderly, InFile, NoBlockLeaks, NonEmpty, HasBlock
<1> QED BY <1>1, AlwaysOrderly, PTL

-----------------------------------------------------------------------------
(* The files and handles of a state, as FileStore has them. *)

EntryNamed(f, n) == CHOOSE k \in Live(f) : f.dir[k].d_name = n
EntryHolding(f, inum) == CHOOSE k \in Live(f) : f.dir[k].d_inumber = inum
FileNames(f) == {f.dir[k].d_name : k \in Live(f)}
FilesOf(f) == [n \in FileNames(f) |-> ContentsOf(f, f.dir[EntryNamed(f, n)].d_inumber)]
HandlesOf(f) == [h \in DOMAIN f.open_file_table |->
                   [name |-> f.dir[EntryHolding(f, f.open_file_table[h].of_inumber)].d_name,
                    off |-> f.open_file_table[h].of_offset]]

\* FilesOf and HandlesOf are StoredFiles and StoredHandles.
LEMMA StoredIs ==
  ASSUME FsInv(fs)
  PROVE  StoredFiles = FilesOf(fs) /\ StoredHandles = HandlesOf(fs)
<1>1. LiveEntries = Live(fs)
  BY DEF FsInv, FsType, LiveEntries, Live
<1>2. StoredFiles = FilesOf(fs)
  BY <1>1 DEF StoredFiles, FilesOf, FileNames, EntryOf, EntryNamed, Contents, ContentsOf
<1>3. StoredHandles = HandlesOf(fs)
  BY <1>1 DEF StoredHandles, HandlesOf, NameOf, EntryHolding, Offset
<1> QED BY <1>2, <1>3

\* What is stored under a name is what its entry leads to.
LEMMA StoredAre ==
  ASSUME FsInv(fs), FsInv(fs')
  PROVE  /\ StoredFiles = FilesOf(fs) /\ StoredHandles = HandlesOf(fs)
         /\ StoredFiles' = FilesOf(fs') /\ StoredHandles' = HandlesOf(fs')
<1>1. LiveEntries' = Live(fs')
  BY DEF FsInv, FsType, LiveEntries, Live
<1>2. StoredFiles' = FilesOf(fs')
  BY <1>1 DEF StoredFiles, FilesOf, FileNames, EntryOf, EntryNamed, Contents, ContentsOf
<1>3. StoredHandles' = HandlesOf(fs')
  BY <1>1 DEF StoredHandles, HandlesOf, NameOf, EntryHolding, Offset
<1> QED BY <1>2, <1>3, StoredIs

\* What each file holds, by its entry.
LEMMA FilesAre ==
  ASSUME NEW f, FsInv(f)
  PROVE  /\ DOMAIN FilesOf(f) = FileNames(f)
         /\ FilesOf(f) = [n \in FileNames(f) |-> FilesOf(f)[n]]
         /\ \A k \in Live(f) : /\ f.dir[k].d_name \in FileNames(f)
                               /\ FilesOf(f)[f.dir[k].d_name] = ContentsOf(f, f.dir[k].d_inumber)
<1>1. ASSUME NEW k \in Live(f)
      PROVE  EntryNamed(f, f.dir[k].d_name) = k
  <2>1. EntryNamed(f, f.dir[k].d_name) \in Live(f)
        /\ f.dir[EntryNamed(f, f.dir[k].d_name)].d_name = f.dir[k].d_name
    BY DEF EntryNamed
  <2> QED BY <2>1 DEF FsInv, DirInjective
<1> QED BY <1>1 DEF FilesOf, FileNames

\* A function that agrees with every entry is that one.
LEMMA FilesByEntries ==
  ASSUME NEW f, FsInv(f), NEW F, DOMAIN F = FileNames(f),
         F = [n \in DOMAIN F |-> F[n]],
         \A k \in Live(f) : F[f.dir[k].d_name] = ContentsOf(f, f.dir[k].d_inumber)
  PROVE  FilesOf(f) = F
<1>1. ASSUME NEW n \in FileNames(f)
      PROVE  FilesOf(f)[n] = F[n]
  <2>1. PICK k \in Live(f) : n = f.dir[k].d_name
    BY DEF FileNames
  <2> QED BY <2>1, FilesAre
<1> QED BY <1>1, FilesAre

\* What each handle is of, by the entry of its file.
LEMMA HandlesAre ==
  ASSUME NEW f, FsInv(f), Orderly(f)
  PROVE  /\ DOMAIN HandlesOf(f) = DOMAIN f.open_file_table
         /\ HandlesOf(f) = [h \in DOMAIN f.open_file_table |-> HandlesOf(f)[h]]
         /\ \A h \in DOMAIN f.open_file_table, k \in Live(f) :
              f.dir[k].d_inumber = f.open_file_table[h].of_inumber =>
                HandlesOf(f)[h] = [name |-> f.dir[k].d_name,
                                   off |-> f.open_file_table[h].of_offset]
         /\ \A h \in DOMAIN f.open_file_table : \E k \in Live(f) :
              f.dir[k].d_inumber = f.open_file_table[h].of_inumber
<1>1. ASSUME NEW k \in Live(f)
      PROVE  EntryHolding(f, f.dir[k].d_inumber) = k
  <2>1. EntryHolding(f, f.dir[k].d_inumber) \in Live(f)
        /\ f.dir[EntryHolding(f, f.dir[k].d_inumber)].d_inumber = f.dir[k].d_inumber
    BY DEF EntryHolding
  <2> QED BY <2>1 DEF FsInv, DirInjective
<1>2. \A h \in DOMAIN f.open_file_table : \E k \in Live(f) :
        f.dir[k].d_inumber = f.open_file_table[h].of_inumber
  BY DEF Orderly, InFile, Files
<1>3. \A h \in DOMAIN f.open_file_table, k \in Live(f) :
              f.dir[k].d_inumber = f.open_file_table[h].of_inumber =>
                HandlesOf(f)[h] = [name |-> f.dir[k].d_name,
                                   off |-> f.open_file_table[h].of_offset]
  BY <1>1 DEF HandlesOf
<1> QED BY <1>2, <1>3 DEF HandlesOf

\* v is what FileStore has for handle h.
IsHandle(f, h, v) ==
  \E k \in Live(f) :
    /\ f.dir[k].d_inumber = f.open_file_table[h].of_inumber
    /\ v = [name |-> f.dir[k].d_name, off |-> f.open_file_table[h].of_offset]

\* A handle stands for the entry of its file.
LEMMA HandlesByEntries ==
  ASSUME NEW f, FsInv(f), Orderly(f), NEW H, DOMAIN H = DOMAIN f.open_file_table,
         H = [h \in DOMAIN H |-> H[h]],
         \A h \in DOMAIN H : IsHandle(f, h, H[h])
  PROVE  HandlesOf(f) = H
<1>1. ASSUME NEW h \in DOMAIN H
      PROVE  HandlesOf(f)[h] = H[h]
  <2>1. PICK k \in Live(f) :
          /\ f.dir[k].d_inumber = f.open_file_table[h].of_inumber
          /\ H[h] = [name |-> f.dir[k].d_name, off |-> f.open_file_table[h].of_offset]
    BY DEF IsHandle
  <2> QED BY <2>1, HandlesAre
<1> QED BY <1>1, HandlesAre

-----------------------------------------------------------------------------
(* What each change of the tables is to FileStore. *)

\* Nothing a caller can see.
LEMMA SameStore ==
  ASSUME NEW f, FsInv(f), NEW g, g.dir = f.dir, g.fs_data = f.fs_data,
         \A i \in Files(f) : g.inode_table[i] = f.inode_table[i]
  PROVE  FilesOf(g) = FilesOf(f)
<1>1. Live(g) = Live(f) /\ FileNames(g) = FileNames(f)
  BY DEF Live, FileNames
<1>2. ASSUME NEW n \in FileNames(f)
      PROVE  ContentsOf(g, g.dir[EntryNamed(g, n)].d_inumber)
               = ContentsOf(f, f.dir[EntryNamed(f, n)].d_inumber)
  <2>1. EntryNamed(g, n) = EntryNamed(f, n)
    BY <1>1 DEF EntryNamed
  <2>2. EntryNamed(f, n) \in Live(f)
    BY DEF EntryNamed, FileNames
  <2>3. f.dir[EntryNamed(f, n)].d_inumber \in Files(f)
    BY <2>2 DEF Files
  <2> QED BY <2>1, <2>3 DEF ContentsOf
<1> QED BY <1>1, <1>2 DEF FilesOf

\* Handles that are left alone stand for what they stood for.
LEMMA SameHandles ==
  ASSUME NEW f, NEW g, g.dir = f.dir, g.open_file_table = f.open_file_table
  PROVE  HandlesOf(g) = HandlesOf(f)
BY DEF HandlesOf, EntryHolding, Live

\* A file is emptied.
LEMMA CutStore ==
  ASSUME NEW f, FsInv(f), NEW g, FsInv(g), NEW e \in Live(f),
         SameFiles(truncate(f, f.dir[e].d_inumber), g)
  PROVE  FilesOf(g) = WithHandle(FilesOf(f), f.dir[e].d_name, <<>>)
<1> DEFINE n == f.dir[e].d_name
           i == f.dir[e].d_inumber
           F == WithHandle(FilesOf(f), n, <<>>)
<1>1. i \in Files(f)
  BY DEF Files
<1>2. /\ Live(g) = Live(f) /\ g.dir = f.dir /\ g.fs_data = f.fs_data
      /\ g.inode_table[i].i_size = 0
      /\ \A k \in Files(f) \ {i} : g.inode_table[k] = f.inode_table[k]
  BY <1>1, FileCut
<1>3. DOMAIN F = FileNames(g)
  <2>1. FileNames(g) = FileNames(f) /\ n \in FileNames(f)
    BY <1>2 DEF FileNames
  <2> QED BY <2>1, FilesAre DEF WithHandle
<1>4. F = [x \in DOMAIN F |-> F[x]]
  BY DEF WithHandle
<1>5. ASSUME NEW k \in Live(g)
      PROVE  F[g.dir[k].d_name] = ContentsOf(g, g.dir[k].d_inumber)
  <2>1. CASE k = e
    <3>1. F[n] = <<>>
      BY DEF WithHandle
    <3> QED BY <1>2, <2>1, <3>1, NoContents
  <2>2. CASE k # e
    <3>1. f.dir[k].d_name # n /\ f.dir[k].d_inumber \in Files(f) \ {i}
      BY <1>2, <2>2 DEF FsInv, DirInjective, Files
    <3>2. F[f.dir[k].d_name] = FilesOf(f)[f.dir[k].d_name]
      BY <1>2, <3>1, FilesAre DEF WithHandle
    <3>3. ContentsOf(g, f.dir[k].d_inumber) = ContentsOf(f, f.dir[k].d_inumber)
      BY <1>2, <3>1 DEF ContentsOf
    <3> QED BY <1>2, <3>2, <3>3, FilesAre
  <2> QED BY <2>1, <2>2
<1> HIDE DEF F
<1>6. FilesOf(g) = F
  BY <1>3, <1>4, <1>5, FilesByEntries
<1> QED BY <1>6 DEF F

\* A file is made.
LEMMA AddStore ==
  ASSUME NEW f, FsInv(f), NEW n \in Paths, \A k \in Live(f) : f.dir[k].d_name # n,
         NEW e \in Slots \ Live(f), NEW i \in Inumbers \ f.inodes,
         NEW g, FsInv(g), SameFiles(Entered(f, n, e, i), g)
  PROVE  FilesOf(g) = WithHandle(FilesOf(f), n, <<>>)
<1> DEFINE F == WithHandle(FilesOf(f), n, <<>>)
<1>1. /\ Live(g) = Live(f) \cup {e} /\ g.dir[e].d_name = n /\ g.dir[e].d_inumber = i
      /\ \A k \in Live(f) : k # e /\ g.dir[k] = f.dir[k]
      /\ g.inode_table[i] = EmptyInode
      /\ \A k \in Files(f) : g.inode_table[k] = f.inode_table[k]
      /\ g.fs_data = f.fs_data
  BY FileAdded
<1>2. DOMAIN F = FileNames(g)
  <2>1. FileNames(g) = FileNames(f) \cup {n}
    BY <1>1 DEF FileNames
  <2> QED BY <2>1, FilesAre DEF WithHandle
<1>3. F = [x \in DOMAIN F |-> F[x]]
  BY DEF WithHandle
<1>4. ASSUME NEW k \in Live(g)
      PROVE  F[g.dir[k].d_name] = ContentsOf(g, g.dir[k].d_inumber)
  <2>1. CASE k = e
    <3>1. F[n] = <<>>
      BY DEF WithHandle
    <3> QED BY <1>1, <2>1, <3>1, NoContents DEF EmptyInode
  <2>2. CASE k # e
    <3>1. k \in Live(f) /\ f.dir[k].d_name # n /\ f.dir[k].d_inumber \in Files(f)
      BY <1>1, <2>2 DEF Files
    <3>2. F[f.dir[k].d_name] = FilesOf(f)[f.dir[k].d_name]
      BY <3>1, FilesAre DEF WithHandle
    <3>3. ContentsOf(g, f.dir[k].d_inumber) = ContentsOf(f, f.dir[k].d_inumber)
      BY <1>1, <3>1 DEF ContentsOf
    <3> QED BY <1>1, <3>1, <3>2, <3>3, FilesAre
  <2> QED BY <2>1, <2>2
<1> HIDE DEF F
<1>5. FilesOf(g) = F
  BY <1>2, <1>3, <1>4, FilesByEntries
<1> QED BY <1>5 DEF F

\* A file is unlinked.
LEMMA RemoveStore ==
  ASSUME NEW f, FsInv(f), NEW e \in Live(f), NEW g, FsInv(g), g = Deleted(f, e)
  PROVE  FilesOf(g) = [n \in FileNames(f) \ {f.dir[e].d_name} |-> FilesOf(f)[n]]
<1> DEFINE F == [n \in FileNames(f) \ {f.dir[e].d_name} |-> FilesOf(f)[n]]
<1>1. /\ Live(g) = Live(f) \ {e} /\ \A k \in Live(g) : g.dir[k] = f.dir[k]
      /\ g.inode_table = f.inode_table /\ g.fs_data = f.fs_data
  BY FileRemoved
<1>2. \A k \in Live(f) : k # e => f.dir[k].d_name # f.dir[e].d_name
  BY DEF FsInv, DirInjective
<1>3. DOMAIN F = FileNames(g)
  <2>1. FileNames(g) = FileNames(f) \ {f.dir[e].d_name}
    BY <1>1, <1>2 DEF FileNames
  <2> QED BY <2>1
<1>4. ASSUME NEW k \in Live(g)
      PROVE  F[g.dir[k].d_name] = ContentsOf(g, g.dir[k].d_inumber)
  <2>1. k \in Live(f) /\ f.dir[k].d_name \in FileNames(f) \ {f.dir[e].d_name}
    BY <1>1, <1>2 DEF FileNames
  <2>2. F[f.dir[k].d_name] = FilesOf(f)[f.dir[k].d_name]
    BY <2>1
  <2>3. ContentsOf(g, f.dir[k].d_inumber) = ContentsOf(f, f.dir[k].d_inumber)
    BY <1>1, SameContents
  <2> QED BY <1>1, <2>1, <2>2, <2>3, FilesAre
<1>5. F = [n \in DOMAIN F |-> F[n]]
  OBVIOUS
<1> HIDE DEF F
<1>6. FilesOf(g) = F
  BY <1>3, <1>4, <1>5, FilesByEntries
<1> QED BY <1>6 DEF F

\* A handle is given out, on the file of entry e, which may be new.
LEMMA GiveStore ==
  ASSUME NEW f, FsInv(f), Orderly(f), NEW g, FsInv(g), Orderly(g), NEW e \in Live(g),
         \A k \in Live(f) : k \in Live(g) /\ g.dir[k] = f.dir[k], NEW ret, NEW offset,
         GivesHandle(f, g, ret, [of_inumber |-> g.dir[e].d_inumber, of_offset |-> offset])
  PROVE  HandlesOf(g) =
           IF Handles = DOMAIN f.open_file_table THEN HandlesOf(f)
           ELSE WithHandle(HandlesOf(f), ret, [name |-> g.dir[e].d_name, off |-> offset])
<1> DEFINE file == [of_inumber |-> g.dir[e].d_inumber, of_offset |-> offset]
           given == [name |-> g.dir[e].d_name, off |-> offset]
           H == WithHandle(HandlesOf(f), ret, given)
<1>1. ASSUME NEW h \in DOMAIN f.open_file_table, g.open_file_table[h] = f.open_file_table[h]
      PROVE  IsHandle(g, h, HandlesOf(f)[h])
  <2>1. PICK k \in Live(f) : f.dir[k].d_inumber = f.open_file_table[h].of_inumber
    BY HandlesAre
  <2>2. HandlesOf(f)[h] = [name |-> f.dir[k].d_name, off |-> f.open_file_table[h].of_offset]
    BY <2>1, HandlesAre
  <2> QED BY <1>1, <2>1, <2>2 DEF IsHandle
<1>2. CASE g.open_file_table = f.open_file_table /\ Handles = DOMAIN f.open_file_table
  <2> DEFINE K == HandlesOf(f)
  <2>1. DOMAIN K = DOMAIN g.open_file_table /\ K = [h \in DOMAIN K |-> K[h]]
    BY <1>2, HandlesAre
  <2>2. \A h \in DOMAIN K : IsHandle(g, h, K[h])
    BY <1>1, <1>2, <2>1
  <2> HIDE DEF K
  <2>3. HandlesOf(g) = K
    BY <2>1, <2>2, HandlesByEntries
  <2> QED BY <1>2, <2>3 DEF K
<1>3. CASE /\ ret \in Handles \ DOMAIN f.open_file_table
           /\ g.open_file_table = WithHandle(f.open_file_table, ret, file)
  <2>1. /\ file.of_inumber = g.dir[e].d_inumber /\ file.of_offset = offset
    OBVIOUS
  <2> HIDE DEF file, given
  <2>2. DOMAIN H = DOMAIN g.open_file_table
    BY <1>3, HandlesAre DEF WithHandle
  <2>3. H = [h \in DOMAIN H |-> H[h]]
    BY DEF WithHandle
  <2>4. ASSUME NEW h \in DOMAIN H
        PROVE  IsHandle(g, h, H[h])
    <3>1. CASE h = ret
      <4>1. H[h] = given /\ g.open_file_table[h] = file
        BY <1>3, <3>1 DEF WithHandle
      <4> QED BY <2>1, <4>1 DEF given, IsHandle
    <3>2. CASE h # ret
      <4>1. /\ h \in DOMAIN f.open_file_table /\ H[h] = HandlesOf(f)[h]
            /\ g.open_file_table[h] = f.open_file_table[h]
        BY <1>3, <3>2, HandlesAre DEF WithHandle
      <4> QED BY <1>1, <4>1
    <3> QED BY <3>1, <3>2
  <2> HIDE DEF H
  <2>5. HandlesOf(g) = H
    BY <2>2, <2>3, <2>4, HandlesByEntries
  <2> QED BY <1>3, <2>5 DEF H, given
<1> QED BY <1>2, <1>3 DEF GivesHandle

\* A handle is moved.
LEMMA MoveStore ==
  ASSUME NEW f, FsInv(f), Orderly(f), NEW g, FsInv(g), Orderly(g), g.dir = f.dir,
         NEW h \in DOMAIN f.open_file_table, NEW offset,
         g.open_file_table = [f.open_file_table EXCEPT ![h] =
           [of_inumber |-> f.open_file_table[h].of_inumber, of_offset |-> offset]]
  PROVE  /\ HandlesOf(g) = [HandlesOf(f) EXCEPT ![h].off = offset]
         /\ h \in DOMAIN HandlesOf(f)
<1> DEFINE H == [HandlesOf(f) EXCEPT ![h].off = offset]
           file == [of_inumber |-> f.open_file_table[h].of_inumber, of_offset |-> offset]
<1>1. Live(g) = Live(f)
  BY DEF Live
<1>2. /\ file.of_inumber = f.open_file_table[h].of_inumber /\ file.of_offset = offset
      /\ g.open_file_table = [f.open_file_table EXCEPT ![h] = file]
  OBVIOUS
<1> HIDE DEF file
<1>3. h \in DOMAIN HandlesOf(f) /\ DOMAIN H = DOMAIN g.open_file_table
  BY <1>2, HandlesAre
<1>4. H = [x \in DOMAIN H |-> H[x]]
  OBVIOUS
<1>5. ASSUME NEW x \in DOMAIN H
      PROVE  IsHandle(g, x, H[x])
  <2>1. x \in DOMAIN f.open_file_table
    BY HandlesAre
  <2>2. PICK k \in Live(f) : f.dir[k].d_inumber = f.open_file_table[x].of_inumber
    BY <2>1, HandlesAre
  <2>3. HandlesOf(f)[x] = [name |-> f.dir[k].d_name, off |-> f.open_file_table[x].of_offset]
    <3> HIDE DEF H
    <3> QED BY <2>1, <2>2, HandlesAre
  <2>4. CASE x = h
    <3>1. H[x] = [HandlesOf(f)[x] EXCEPT !.off = offset]
      BY <1>3, <2>4
    <3>2. H[x] = [name |-> f.dir[k].d_name, off |-> offset]
      BY <2>3, <3>1
    <3>3. g.open_file_table[x] = file
      BY <1>2, <2>1, <2>4
    <3> QED BY <1>1, <1>2, <2>2, <2>4, <3>2, <3>3 DEF IsHandle
  <2>5. CASE x # h
    <3>1. H[x] = HandlesOf(f)[x] /\ g.open_file_table[x] = f.open_file_table[x]
      BY <1>2, <1>3, <2>1, <2>5, HandlesAre
    <3> QED BY <1>1, <2>2, <2>3, <3>1 DEF IsHandle
  <2> QED BY <2>4, <2>5
<1> HIDE DEF H
<1>6. HandlesOf(g) = H
  BY <1>3, <1>4, <1>5, HandlesByEntries
<1> QED BY <1>3, <1>6 DEF H

\* A write within the block changes that file and no other.
LEMMA WriteStore ==
  ASSUME NEW f, FsInv(f), Orderly(f), NEW g, FsInv(g), NEW h \in DOMAIN f.open_file_table, NEW C,
         NEW buffer \in Seq(C), buffer # <<>>, NEW block \in Blocks, Wrote(f, g, h, buffer, block),
         f.open_file_table[h].of_offset + Len(buffer) <= BLOCK_SIZE,
         NEW e \in Live(f), f.dir[e].d_inumber = f.open_file_table[h].of_inumber
  PROVE  FilesOf(g) = [FilesOf(f) EXCEPT ![f.dir[e].d_name] =
                         ContentsOf(g, f.open_file_table[h].of_inumber)]
<1> DEFINE i == f.open_file_table[h].of_inumber
           n == f.dir[e].d_name
           F == [FilesOf(f) EXCEPT ![n] = ContentsOf(g, i)]
<1>1. g.dir = f.dir /\ Live(g) = Live(f) /\ FileNames(g) = FileNames(f)
  BY DEF Wrote, Live, FileNames
<1>2. DOMAIN F = FileNames(g) /\ n \in FileNames(f)
  BY <1>1, FilesAre
<1>3. F = [x \in DOMAIN F |-> F[x]]
  OBVIOUS
<1>4. ASSUME NEW k \in Live(g)
      PROVE  F[g.dir[k].d_name] = ContentsOf(g, g.dir[k].d_inumber)
  <2>1. CASE k = e
    BY <1>1, <1>2, <2>1, FilesAre
  <2>2. CASE k # e
    <3>1. f.dir[k].d_name # n /\ f.dir[k].d_inumber \in Files(f) /\ f.dir[k].d_inumber # i
      BY <1>1, <2>2 DEF FsInv, DirInjective, Files
    <3>2. i \in Files(f) /\ f.inode_table[f.dir[k].d_inumber].i_size <= BLOCK_SIZE
      BY <3>1 DEF Orderly, InFile
    <3>3. ContentsOf(g, f.dir[k].d_inumber) = ContentsOf(f, f.dir[k].d_inumber)
      BY <3>1, <3>2, WriteKeepsOthers
    <3>4. F[f.dir[k].d_name] = FilesOf(f)[f.dir[k].d_name]
      BY <1>1, <3>1, FilesAre
    <3> QED BY <1>1, <3>3, <3>4, FilesAre
  <2> QED BY <2>1, <2>2
<1> HIDE DEF F
<1>5. FilesOf(g) = F
  BY <1>2, <1>3, <1>4, FilesByEntries
<1> QED BY <1>5 DEF F

-----------------------------------------------------------------------------
(* What the limits of FileStore count. *)

\* A set that an injection maps onto another has as many elements.
LEMMA SameCount ==
  ASSUME NEW S, NEW T, NEW F \in [S -> T], IsFiniteSet(T),
         \A a, b \in S : F[a] = F[b] => a = b,
         \A t \in T : \E a \in S : F[a] = t
  PROVE  IsFiniteSet(S) /\ Cardinality(S) = Cardinality(T)
<1>1. F \in Injection(S, T) /\ F \in Surjection(S, T)
  BY DEF Injection, Surjection, IsInjective
<1> QED BY <1>1, FS_Injection

\* A file has one entry, one name and one inode; and there is the root.
LEMMA Counts ==
  ASSUME NEW f, FsInv(f)
  PROVE  /\ Cardinality(FileNames(f)) \in Nat
         /\ Cardinality(FileNames(f)) <= MAX_DIR_ENTRIES
         /\ Cardinality(FileNames(f)) = MAX_DIR_ENTRIES <=> Live(f) = Slots
         /\ Cardinality(FileNames(f)) <= INODE_TABLE_SIZE - 1
         /\ Cardinality(FileNames(f)) = INODE_TABLE_SIZE - 1 <=> Inumbers \subseteq f.inodes
<1>1. /\ IsFiniteSet(Slots) /\ Cardinality(Slots) = MAX_DIR_ENTRIES
      /\ IsFiniteSet(Inumbers) /\ Cardinality(Inumbers) = INODE_TABLE_SIZE
  <2>1. IsFiniteSet(1 .. MAX_DIR_ENTRIES)
        /\ Cardinality(1 .. MAX_DIR_ENTRIES)
             = IF 1 > MAX_DIR_ENTRIES THEN 0 ELSE MAX_DIR_ENTRIES - 1 + 1
    BY TfsAssumption, FS_Interval
  <2>2. IsFiniteSet(0 .. INODE_TABLE_SIZE - 1)
        /\ Cardinality(0 .. INODE_TABLE_SIZE - 1)
             = IF 0 > INODE_TABLE_SIZE - 1 THEN 0 ELSE INODE_TABLE_SIZE - 1 - 0 + 1
    BY TfsAssumption, FS_Interval
  <2> QED BY <2>1, <2>2, TfsAssumption DEF Slots, Inumbers
<1>2. Live(f) \in SUBSET Slots /\ Files(f) \in SUBSET Inumbers
  BY DEF Live, FsInv, FsType, InodesTaken
<1>3. IsFiniteSet(Live(f)) /\ IsFiniteSet(Files(f))
  BY <1>1, <1>2, FS_Subset
<1>4. Cardinality(Live(f)) = Cardinality(Files(f))
  <2> DEFINE F == [k \in Live(f) |-> f.dir[k].d_inumber]
  <2>1. F \in [Live(f) -> Files(f)]
    BY DEF Files
  <2>2. \A a, b \in Live(f) : F[a] = F[b] => a = b
    BY DEF FsInv, DirInjective
  <2>3. \A t \in Files(f) : \E a \in Live(f) : F[a] = t
    BY DEF Files
  <2> HIDE DEF F
  <2> QED BY <1>3, <2>1, <2>2, <2>3, SameCount
<1>5. Cardinality(FileNames(f)) = Cardinality(Live(f))
  <2> DEFINE F == [n \in FileNames(f) |-> EntryNamed(f, n)]
  <2>1. \A n \in FileNames(f) : EntryNamed(f, n) \in Live(f) /\ f.dir[EntryNamed(f, n)].d_name = n
    BY DEF FileNames, EntryNamed
  <2>2. F \in [FileNames(f) -> Live(f)]
    BY <2>1
  <2>3. \A a, b \in FileNames(f) : F[a] = F[b] => a = b
    BY <2>1
  <2>4. ASSUME NEW t \in Live(f) PROVE \E a \in FileNames(f) : F[a] = t
    <3>1. f.dir[t].d_name \in FileNames(f) /\ EntryNamed(f, f.dir[t].d_name) = t
      BY <2>1 DEF FileNames, FsInv, DirInjective
    <3> QED BY <3>1
  <2> HIDE DEF F
  <2> QED BY <1>3, <2>2, <2>3, <2>4, SameCount
<1>6. /\ Cardinality(Live(f)) \in Nat /\ Cardinality(Live(f)) <= MAX_DIR_ENTRIES
      /\ Cardinality(Live(f)) = MAX_DIR_ENTRIES <=> Live(f) = Slots
  BY <1>1, <1>2, <1>3, FS_Subset, FS_CardinalityType
<1>7. /\ f.inodes \in SUBSET Inumbers /\ IsFiniteSet(f.inodes)
      /\ Cardinality(f.inodes) = Cardinality(Live(f)) + 1
  <2>1. f.inodes = Files(f) \cup {ROOT_DIR_INUM} /\ ROOT_DIR_INUM \notin Files(f)
        /\ f.inodes \in SUBSET Inumbers
    BY DEF FsInv, InodesTaken, FsType
  <2>2. IsFiniteSet(Files(f) \cup {ROOT_DIR_INUM})
        /\ Cardinality(Files(f) \cup {ROOT_DIR_INUM}) = Cardinality(Files(f)) + 1
    BY <1>3, <2>1, FS_AddElement
  <2> QED BY <1>4, <2>1, <2>2
<1>8. /\ Cardinality(f.inodes) <= INODE_TABLE_SIZE
      /\ Cardinality(f.inodes) = INODE_TABLE_SIZE <=> Inumbers \subseteq f.inodes
  BY <1>1, <1>7, FS_Subset
<1> QED BY <1>5, <1>6, <1>7, <1>8, TfsAssumption

\* When no block is FREE every block but the directory's has a file's contents.
LEMMA BlockCount ==
  ASSUME NEW f, FsInv(f), Orderly(f), Blocks \subseteq f.blocks
  PROVE  Cardinality({n \in FileNames(f) : FilesOf(f)[n] # <<>>}) = DATA_BLOCKS - 1
<1> DEFINE N == {n \in FileNames(f) : FilesOf(f)[n] # <<>>}
           inode(n) == f.dir[EntryNamed(f, n)].d_inumber
           F == [n \in N |-> f.inode_table[inode(n)].i_data_block]
<1>1. ASSUME NEW n \in FileNames(f)
      PROVE  /\ EntryNamed(f, n) \in Live(f) /\ f.dir[EntryNamed(f, n)].d_name = n
             /\ inode(n) \in Files(f) /\ (n \in N <=> HasBlock(f, inode(n)))
  <2>1. EntryNamed(f, n) \in Live(f) /\ f.dir[EntryNamed(f, n)].d_name = n
    BY DEF FileNames, EntryNamed
  <2>2. inode(n) \in Files(f) /\ f.inode_table[inode(n)].i_size \in Nat
    BY <2>1 DEF Files, FsInv, FsType, InodesTaken, InodeRecords
  <2>3. FilesOf(f)[n] = ContentsOf(f, inode(n))
    BY <2>1, FilesAre
  <2>4. (FilesOf(f)[n] = <<>>) = (f.inode_table[inode(n)].i_size = 0)
    BY <2>2, <2>3, ContentsLen
  <2> QED BY <2>1, <2>2, <2>4 DEF HasBlock
<1>2. F \in [N -> Blocks \ {0}]
  BY <1>1 DEF FsInv, FsType, BlocksOwned
<1>3. ASSUME NEW a \in N, NEW b \in N, F[a] = F[b]
      PROVE  a = b
  <2>1. inode(a) = inode(b)
    BY <1>1, <1>3 DEF FsInv, BlocksOwned
  <2> QED BY <1>1, <2>1 DEF FsInv, DirInjective
<1>4. ASSUME NEW t \in Blocks \ {0}
      PROVE  \E a \in N : F[a] = t
  <2>1. PICK i \in Files(f) : HasBlock(f, i) /\ t = f.inode_table[i].i_data_block
    BY DEF Orderly, InFile
  <2>2. PICK k \in Live(f) : i = f.dir[k].d_inumber
    BY DEF Files
  <2>3. f.dir[k].d_name \in FileNames(f)
    BY DEF FileNames
  <2>4. EntryNamed(f, f.dir[k].d_name) = k
    BY <1>1, <2>3 DEF FsInv, DirInjective
  <2> QED BY <1>1, <2>1, <2>2, <2>3, <2>4
<1>5. IsFiniteSet(Blocks \ {0}) /\ Cardinality(Blocks \ {0}) = DATA_BLOCKS - 1
  <2>1. IsFiniteSet(0 .. DATA_BLOCKS - 1)
        /\ Cardinality(0 .. DATA_BLOCKS - 1) = IF 0 > DATA_BLOCKS - 1 THEN 0 ELSE DATA_BLOCKS - 1 - 0 + 1
    BY TfsAssumption, FS_Interval
  <2>2. 0 \in Blocks
    BY TfsAssumption DEF Blocks
  <2>3. IsFiniteSet(Blocks) /\ Cardinality(Blocks) = DATA_BLOCKS
    BY <2>1, TfsAssumption DEF Blocks
  <2>4. IsFiniteSet(Blocks \ {0}) /\ Cardinality(Blocks \ {0}) = Cardinality(Blocks) - 1
    BY <2>2, <2>3, FS_RemoveElement
  <2> QED BY <2>3, <2>4
<1> HIDE DEF F, N
<1>6. Cardinality(N) = DATA_BLOCKS - 1
  BY <1>2, <1>3, <1>4, <1>5, SameCount
<1> QED BY <1>6 DEF N

-----------------------------------------------------------------------------
(* Every disciplined call is a call of FileStore. *)

\* The two ways to write a function with one argument more.
LEMMA SetIs == \A F, x, v : Store!Set(F, x, v) = WithHandle(F, x, v)
BY DEF Store!Set, WithHandle

\* FileStore counts as FiniteSets does.
LEMMA CountIs == \A S : Store!Cardinality(S) = Cardinality(S)
BY DEF Store!Cardinality, Cardinality

\* The handle that is given out.
LEMMA LowestIs ==
  ASSUME FsInv(fs), StoredHandles = HandlesOf(fs)
  PROVE  /\ Store!FreeHandles = Handles \ DOMAIN fs.open_file_table
         /\ Store!FreeHandles = {} <=> Handles = DOMAIN fs.open_file_table
         /\ Store!FreeHandles # {} =>
              Store!LowestFree = FirstOf(Handles \ DOMAIN fs.open_file_table)
<1> DEFINE free == Handles \ DOMAIN fs.open_file_table
<1>1. Store!FreeHandles = free
  BY DEF Store!FreeHandles, HandlesOf, Handles
<1>2. DOMAIN fs.open_file_table \subseteq Handles
  BY DEF FsInv, FsType
<1>3. ASSUME free # {}
      PROVE  Store!LowestFree = FirstOf(free)
  <2>1. free \in SUBSET Nat
    BY TfsAssumption DEF Handles
  <2> HIDE DEF free
  <2>2. FirstOf(free) \in free /\ \A k \in free : FirstOf(free) <= k
    BY <1>3, <2>1, FirstOfIsLeast
  <2>3. Store!LowestFree \in free /\ \A k \in free : Store!LowestFree <= k
    BY <1>1, <2>2 DEF Store!LowestFree
  <2>4. FirstOf(free) <= Store!LowestFree /\ Store!LowestFree <= FirstOf(free)
        /\ FirstOf(free) \in Nat /\ Store!LowestFree \in Nat
    BY <2>1, <2>2, <2>3
  <2> QED BY <2>4
<1> QED BY <1>1, <1>2, <1>3

\* A file is open, whether it was there before or not.
LEMMA OpensStore ==
  ASSUME OrderlyInv, OrderlyInv', NEW n, NEW mode, NEW e \in Live(fs'), fs'.dir[e].d_name = n,
         \A k \in Live(fs) : k \in Live(fs') /\ fs'.dir[k] = fs.dir[k],
         NEW ret, reply' = [op |-> "open", ret |-> ret, data |-> <<>>],
         GivesHandle(fs, fs', ret, [of_inumber |-> fs'.dir[e].d_inumber, of_offset |->
           IF "APPEND" \in mode THEN fs'.inode_table[fs'.dir[e].d_inumber].i_size ELSE 0]),
         n \in FileNames(fs) \/ ("CREAT" \in mode /\ Cardinality(FileNames(fs)) < FileLimit),
         FilesOf(fs') = IF n \notin FileNames(fs) \/ "TRUNC" \in mode
                          THEN WithHandle(FilesOf(fs), n, <<>>) ELSE FilesOf(fs)
  PROVE  Store!Open(n, mode)
<1> DEFINE i == fs'.dir[e].d_inumber
           offset == IF "APPEND" \in mode THEN fs'.inode_table[i].i_size ELSE 0
           made == FilesOf(fs')
           free == Handles \ DOMAIN fs.open_file_table
           M == IF ~Store!Exists(n) \/ "TRUNC" \in mode THEN Store!Set(StoredFiles, n, <<>>)
                ELSE StoredFiles
           O == IF "APPEND" \in mode THEN Len(M[n]) ELSE 0
<1>1. FsInv(fs) /\ Orderly(fs) /\ FsInv(fs') /\ Orderly(fs')
  BY DEF OrderlyInv, Inv
<1>2. /\ StoredFiles = FilesOf(fs) /\ StoredHandles = HandlesOf(fs)
      /\ StoredFiles' = made /\ StoredHandles' = HandlesOf(fs')
  BY <1>1, StoredAre
<1>3. DOMAIN StoredFiles = FileNames(fs)
  BY <1>1, <1>2, FilesAre
<1>4. /\ Store!FreeHandles = {} <=> Handles = DOMAIN fs.open_file_table
      /\ Store!FreeHandles # {} => Store!LowestFree = FirstOf(free)
  BY <1>1, <1>2, LowestIs
<1>5. offset = IF "APPEND" \in mode THEN Len(made[n]) ELSE 0
  <2>1. made[n] = ContentsOf(fs', i)
    BY <1>1, FilesAre
  <2>2. fs'.inode_table[i].i_size \in Nat
    BY <1>1 DEF FsInv, FsType, InodesTaken, InodeRecords, Files
  <2>3. Len(ContentsOf(fs', i)) = fs'.inode_table[i].i_size
    BY <2>2, ContentsLen
  <2> QED BY <2>1, <2>3
<1>6. HandlesOf(fs') = IF Handles = DOMAIN fs.open_file_table THEN HandlesOf(fs)
                       ELSE WithHandle(HandlesOf(fs), ret, [name |-> n, off |-> offset])
  BY <1>1, GiveStore
<1>7. ret = IF Store!FreeHandles = {} THEN -1 ELSE Store!LowestFree
  <2>1. \/ ret = -1 /\ Handles = DOMAIN fs.open_file_table
        \/ ret \in free /\ ret = FirstOf(free)
    BY DEF GivesHandle
  <2> QED BY <1>4, <2>1
<1> HIDE DEF offset, made, free, i
<1>8. made = M
  BY <1>2, <1>3, SetIs DEF made, Store!Exists
<1>9. StoredHandles' = IF Store!FreeHandles = {} THEN StoredHandles
        ELSE Store!Set(StoredHandles, Store!LowestFree, [name |-> n, off |-> offset])
  BY <1>2, <1>4, <1>6, <1>7, SetIs
<1>10. Store!Reply("open", IF Store!FreeHandles = {} THEN -1 ELSE Store!LowestFree, <<>>)
  BY <1>7 DEF Store!Reply
<1>11. Store!Exists(n) \/ ("CREAT" \in mode /\ Cardinality(DOMAIN StoredFiles) < FileLimit)
  BY <1>3 DEF Store!Exists
<1>12. StoredFiles' = made
  BY <1>2
<1>13. StoredFiles' = M /\ offset = O
  BY <1>5, <1>8, <1>12
<1>14. StoredHandles' = IF Store!FreeHandles = {} THEN StoredHandles
        ELSE Store!Set(StoredHandles, Store!LowestFree, [name |-> n, off |-> O])
  BY <1>9, <1>13
<1> QED BY ONLY <1>10, <1>11, <1>13, <1>14, CountIs DEF Store!Open

\* Names of files are paths that fit an entry.
LEMMA NamesArePaths ==
  ASSUME NEW f, FsInv(f), Orderly(f)
  PROVE  FileNames(f) \subseteq Paths \ LongPaths
BY DEF FileNames, FsInv, NamesFindEntries, Orderly, InFile

\* No file is open and nothing has changed.
LEMMA OpenFailsStore ==
  ASSUME OrderlyInv, OrderlyInv', NEW n \in Names, NEW mode \in Modes,
         reply' = [op |-> "open", ret |-> -1, data |-> <<>>],
         FilesOf(fs') = FilesOf(fs), HandlesOf(fs') = HandlesOf(fs), n \notin FileNames(fs),
         \/ "CREAT" \notin mode \/ n \notin Paths \ LongPaths
         \/ Cardinality(FileNames(fs)) >= FileLimit
  PROVE  Store!Next
<1> DEFINE m == IF n \in Paths \ LongPaths THEN n ELSE "no such path"
<1>1. FsInv(fs) /\ Orderly(fs) /\ FsInv(fs') /\ Orderly(fs')
  BY DEF OrderlyInv, Inv
<1>2. /\ StoredFiles = FilesOf(fs) /\ StoredHandles = HandlesOf(fs)
      /\ StoredFiles' = FilesOf(fs') /\ StoredHandles' = HandlesOf(fs')
  BY <1>1, StoredAre
<1>3. DOMAIN StoredFiles = FileNames(fs)
  BY <1>1, <1>2, FilesAre
<1>4. m \in Store!Names /\ mode \in Store!Modes
  BY DEF Store!Names, Store!Modes, Modes
<1>5. m \notin FileNames(fs) /\ (m \in Paths \ LongPaths => m = n)
  BY <1>1, NamesArePaths, CallsAssumption
<1> HIDE DEF m
<1>6. Store!Reply("open", -1, <<>>)
  BY DEF Store!Reply
<1>7. ~Store!Exists(m)
  BY <1>3, <1>5 DEF Store!Exists
<1>8. \/ "CREAT" \notin mode \/ m \notin Paths \ LongPaths
      \/ Store!Cardinality(DOMAIN StoredFiles) >= FileLimit
  BY <1>3, <1>5, CountIs
<1>9. Store!OpenFails(m, mode)
  BY <1>2, <1>6, <1>7, <1>8 DEF Store!OpenFails
<1> QED BY <1>4, <1>9 DEF Store!Next

\* An open is one of the opens of the abstract store.
LEMMA OpenImplements ==
  ASSUME OrderlyInv, OrderlyInv', NEW n \in Names, NEW mode \in Modes, Open(n, mode)
  PROVE  Store!Next
<1> DEFINE r == tfs_open(fs, n, mode)
<1>1. FsInv(fs) /\ Orderly(fs) /\ FsInv(fs') /\ Orderly(fs')
  BY DEF OrderlyInv, Inv
<1>2. /\ StoredFiles = FilesOf(fs) /\ StoredHandles = HandlesOf(fs)
      /\ StoredFiles' = FilesOf(fs') /\ StoredHandles' = HandlesOf(fs')
  BY <1>1, StoredAre
<1>3. fs' = r.fs /\ reply' = [op |-> "open", ret |-> r.ret, data |-> <<>>]
  <2>1. r.data = <<>>
    BY <1>1, OpenKeepsInv
  <2> HIDE DEF r
  <2> QED BY <2>1 DEF Open, Call, r
<1>4. DOMAIN StoredFiles = FileNames(fs) /\ DOMAIN StoredHandles = DOMAIN fs.open_file_table
  BY <1>1, <1>2, FilesAre, HandlesAre
<1>5. CASE /\ r.fs = fs /\ r.ret = -1 /\ (n \notin Paths \/ "CREAT" \notin mode)
           /\ \A k \in Live(fs) : fs.dir[k].d_name # n
  <2>1. n \notin FileNames(fs)
    BY <1>5 DEF FileNames
  <2> HIDE DEF r
  <2> QED BY <1>3, <1>5, <2>1, OpenFailsStore
<1>6. CASE \E e \in Live(fs) : /\ n \in Paths /\ fs.dir[e].d_name = n
                               /\ fs.dir[e].d_inumber \in Files(fs)
                               /\ OpensFile(fs, r.fs, r.ret, mode, fs.dir[e].d_inumber)
  <2>1. PICK e \in Live(fs) : /\ n \in Paths /\ fs.dir[e].d_name = n
                              /\ fs.dir[e].d_inumber \in Files(fs)
                              /\ OpensFile(fs, r.fs, r.ret, mode, fs.dir[e].d_inumber)
    BY <1>6
  <2> DEFINE i == fs.dir[e].d_inumber
             m == IF "TRUNC" \in mode THEN truncate(fs, i) ELSE fs
  <2> HIDE DEF r
  <2>2. SameFiles(m, fs')
    BY <1>3, <2>1 DEF OpensFile
  <2>3. fs'.dir = fs.dir /\ Live(fs') = Live(fs)
    <3>1. SameFiles(fs, fs) /\ SameFiles(truncate(fs, i), truncate(fs, i))
      BY DEF SameFiles
    <3>2. m.dir = fs.dir
      BY <1>1, <2>1, <3>1, FileCut
    <3> QED BY <2>2, <3>2 DEF SameFiles, Live
  <2>4. n \in FileNames(fs) /\ n \in Paths \ LongPaths
    BY <1>1, <2>1, NamesArePaths DEF FileNames
  <2>5. FilesOf(fs') = IF n \notin FileNames(fs) \/ "TRUNC" \in mode
                         THEN WithHandle(FilesOf(fs), n, <<>>) ELSE FilesOf(fs)
    <3>1. CASE "TRUNC" \in mode
      <4>1. SameFiles(truncate(fs, i), fs')
        BY <2>2, <3>1
      <4> QED BY <1>1, <2>1, <3>1, <4>1, CutStore
    <3>2. CASE "TRUNC" \notin mode
      <4>1. SameFiles(fs, fs')
        BY <2>2, <3>2
      <4>2. FilesOf(fs') = FilesOf(fs)
        BY <1>1, <4>1, SameStore DEF SameFiles
      <4> QED BY <2>4, <3>2, <4>2
    <3> QED BY <3>1, <3>2
  <2>6. GivesHandle(fs, fs', r.ret, [of_inumber |-> fs'.dir[e].d_inumber, of_offset |->
           IF "APPEND" \in mode THEN fs'.inode_table[fs'.dir[e].d_inumber].i_size ELSE 0])
    BY <1>3, <2>1, <2>3 DEF OpensFile
  <2> HIDE DEF m, i
  <2>7. Store!Open(n, mode)
    BY <1>3, <2>1, <2>3, <2>4, <2>5, <2>6, OpensStore
  <2> QED BY <2>4, <2>7 DEF Store!Next, Store!Modes, Modes
<1>7. CASE /\ n \in Paths /\ "CREAT" \in mode /\ \A k \in Live(fs) : fs.dir[k].d_name # n
           /\ r.ret = -1 /\ NoRoomFor(fs, n) /\ NothingSeen(fs, r.fs)
  <2> HIDE DEF r
  <2>1. n \notin FileNames(fs)
    BY <1>7 DEF FileNames
  <2>2. FilesOf(fs') = FilesOf(fs)
    BY <1>1, <1>3, <1>7, SameStore DEF NothingSeen, FsInv, InodesTaken
  <2>3. HandlesOf(fs') = HandlesOf(fs)
    BY <1>3, <1>7, SameHandles DEF NothingSeen
  <2>4. n \in LongPaths \/ Cardinality(FileNames(fs)) >= FileLimit
    BY <1>1, <1>7, Counts, TfsAssumption DEF NoRoomFor, FileLimit
  <2> QED BY <1>3, <1>7, <2>1, <2>2, <2>3, <2>4, OpenFailsStore
<1>8. CASE /\ n \in Paths \ LongPaths /\ "CREAT" \in mode
           /\ \A k \in Live(fs) : fs.dir[k].d_name # n
           /\ \E e \in Slots \ Live(fs), i \in Inumbers \ fs.inodes :
                /\ SameFiles(Entered(fs, n, e, i), r.fs)
                /\ GivesHandle(fs, r.fs, r.ret, [of_inumber |-> i, of_offset |-> 0])
  <2>1. PICK e \in Slots \ Live(fs), i \in Inumbers \ fs.inodes :
          /\ SameFiles(Entered(fs, n, e, i), r.fs)
          /\ GivesHandle(fs, r.fs, r.ret, [of_inumber |-> i, of_offset |-> 0])
    BY <1>8
  <2> HIDE DEF r
  <2>2. /\ Live(fs') = Live(fs) \cup {e} /\ fs'.dir[e].d_name = n /\ fs'.dir[e].d_inumber = i
        /\ \A k \in Live(fs) : fs'.dir[k] = fs.dir[k]
        /\ fs'.inode_table[i].i_size = 0
    BY <1>1, <1>3, <1>8, <2>1, FileAdded DEF EmptyInode
  <2>3. n \notin FileNames(fs)
    BY <1>8 DEF FileNames
  <2>4. FilesOf(fs') = WithHandle(FilesOf(fs), n, <<>>)
    BY <1>1, <1>3, <1>8, <2>1, AddStore
  <2>5. Cardinality(FileNames(fs)) < FileLimit
    <3>1. Live(fs) # Slots /\ ~(Inumbers \subseteq fs.inodes)
      BY <2>1
    <3> QED BY <1>1, <3>1, Counts, TfsAssumption DEF FileLimit
  <2>6. GivesHandle(fs, fs', r.ret, [of_inumber |-> fs'.dir[e].d_inumber, of_offset |->
           IF "APPEND" \in mode THEN fs'.inode_table[fs'.dir[e].d_inumber].i_size ELSE 0])
    BY <1>3, <2>1, <2>2
  <2>7. Store!Open(n, mode)
    BY <1>3, <1>8, <2>2, <2>3, <2>4, <2>5, <2>6, OpensStore
  <2> QED BY <1>8, <2>7 DEF Store!Next, Store!Modes, Modes
<1> HIDE DEF r
<1>9. \/ /\ r.fs = fs /\ r.ret = -1 /\ (n \notin Paths \/ "CREAT" \notin mode)
         /\ \A k \in Live(fs) : fs.dir[k].d_name # n
      \/ \E e \in Live(fs) : /\ n \in Paths /\ fs.dir[e].d_name = n
                             /\ fs.dir[e].d_inumber \in Files(fs)
                             /\ OpensFile(fs, r.fs, r.ret, mode, fs.dir[e].d_inumber)
      \/ /\ n \in Paths /\ "CREAT" \in mode /\ \A k \in Live(fs) : fs.dir[k].d_name # n
         /\ r.ret = -1 /\ NoRoomFor(fs, n) /\ NothingSeen(fs, r.fs)
      \/ /\ n \in Paths \ LongPaths /\ "CREAT" \in mode
         /\ \A k \in Live(fs) : fs.dir[k].d_name # n
         /\ \E e \in Slots \ Live(fs), i \in Inumbers \ fs.inodes :
              /\ SameFiles(Entered(fs, n, e, i), r.fs)
              /\ GivesHandle(fs, r.fs, r.ret, [of_inumber |-> i, of_offset |-> 0])
  BY <1>1, OpenEnds DEF r
<1> QED BY <1>5, <1>6, <1>7, <1>8, <1>9

\* Both states of a call, as FileStore sees them.
LEMMA BothAre ==
  ASSUME OrderlyInv, OrderlyInv'
  PROVE  /\ FsInv(fs) /\ Orderly(fs) /\ FsInv(fs') /\ Orderly(fs')
         /\ StoredFiles = FilesOf(fs) /\ StoredHandles = HandlesOf(fs)
         /\ StoredFiles' = FilesOf(fs') /\ StoredHandles' = HandlesOf(fs')
         /\ DOMAIN StoredFiles = FileNames(fs)
         /\ DOMAIN StoredHandles = DOMAIN fs.open_file_table
<1>1. FsInv(fs) /\ Orderly(fs) /\ FsInv(fs') /\ Orderly(fs')
  BY DEF OrderlyInv, Inv
<1>2. /\ StoredFiles = FilesOf(fs) /\ StoredHandles = HandlesOf(fs)
      /\ StoredFiles' = FilesOf(fs') /\ StoredHandles' = HandlesOf(fs')
  BY <1>1, StoredAre
<1> QED BY <1>1, <1>2, FilesAre, HandlesAre

\* The handles a caller may pass are those of FileStore, and one that is none.
LEMMA HandlesFit == AnyHandle \subseteq 0 .. MAX_OPEN_FILES
BY TfsAssumption DEF AnyHandle, Handles

\* A close is one of the abstract store.
LEMMA CloseImplements ==
  ASSUME OrderlyInv, OrderlyInv', NEW h \in AnyHandle, Close(h)
  PROVE  Store!Next
<1> DEFINE r == tfs_close(fs, h)
           H == [x \in DOMAIN HandlesOf(fs) \ {h} |-> HandlesOf(fs)[x]]
<1>1. FsInv(fs) /\ Orderly(fs) /\ FsInv(fs') /\ Orderly(fs')
  BY BothAre
<1>2. SameFiles(fs, r.fs)
  BY <1>1, CloseKeepsInv
<1>3. r.data = <<>>
  BY <1>1, CloseKeepsInv
<1>4. r.ret = IF IsOpen(fs, h) THEN 0 ELSE -1
  BY <1>1, CloseKeepsInv
<1>5. r.fs.open_file_table = [k \in DOMAIN fs.open_file_table \ {h} |-> fs.open_file_table[k]]
  BY <1>1, CloseKeepsInv
<1>6. fs' = r.fs /\ reply' = [op |-> "close", ret |-> r.ret, data |-> r.data]
  BY DEF Close, Call
<1> HIDE DEF r
<1>7. FilesOf(fs') = FilesOf(fs)
  BY <1>1, <1>2, <1>6, SameStore DEF SameFiles
<1>8. HandlesOf(fs') = H
  <2>1. DOMAIN H = DOMAIN fs'.open_file_table
    BY <1>1, <1>5, <1>6, HandlesAre
  <2>2. H = [x \in DOMAIN H |-> H[x]]
    OBVIOUS
  <2>3. ASSUME NEW x \in DOMAIN H
        PROVE  IsHandle(fs', x, H[x])
    <3>1. x \in DOMAIN fs.open_file_table /\ x # h
      BY <1>1, HandlesAre
    <3>2. H[x] = HandlesOf(fs)[x]
      OBVIOUS
    <3>3. PICK k \in Live(fs) : fs.dir[k].d_inumber = fs.open_file_table[x].of_inumber
      BY <1>1, <3>1, HandlesAre
    <3>4. H[x] = [name |-> fs.dir[k].d_name, off |-> fs.open_file_table[x].of_offset]
      BY <1>1, <3>1, <3>2, <3>3, HandlesAre
    <3>5. /\ fs'.dir = fs.dir /\ Live(fs') = Live(fs)
          /\ fs'.open_file_table[x] = fs.open_file_table[x]
      BY <1>2, <1>5, <1>6, <3>1 DEF SameFiles, Live
    <3> QED BY <3>3, <3>4, <3>5 DEF IsHandle
  <2> HIDE DEF H
  <2> QED BY <1>1, <2>1, <2>2, <2>3, HandlesByEntries
<1>9. Store!Close(h)
  <2>1. StoredFiles' = StoredFiles /\ StoredHandles' = Store!Drop(StoredHandles, h)
    BY <1>7, <1>8, BothAre DEF Store!Drop
  <2>2. Store!Reply("close", IF h \in DOMAIN StoredHandles THEN 0 ELSE -1, <<>>)
    BY <1>3, <1>4, <1>6, BothAre DEF Store!Reply, IsOpen
  <2> QED BY <2>1, <2>2 DEF Store!Close
<1> QED BY <1>9, HandlesFit DEF Store!Next

\* A call that found no handle, or nothing to do.
LEMMA BadHandleImplements ==
  ASSUME OrderlyInv, OrderlyInv', NEW h \in AnyHandle, NEW op \in {"rewind", "read"},
         fs' = fs, ~IsOpen(fs, h), reply' = [op |-> op, ret |-> -1, data |-> <<>>]
  PROVE  Store!Next
<1>1. Store!BadHandle(h, op)
  <2>1. StoredFiles' = StoredFiles /\ StoredHandles' = StoredHandles
    BY BothAre
  <2>2. h \notin DOMAIN StoredHandles
    BY BothAre DEF IsOpen
  <2>3. Store!Reply(op, -1, <<>>)
    BY DEF Store!Reply
  <2> QED BY <2>1, <2>2, <2>3 DEF Store!BadHandle
<1> QED BY <1>1, HandlesFit DEF Store!Next

\* A rewind is one of the abstract store.
LEMMA RewindImplements ==
  ASSUME OrderlyInv, OrderlyInv', NEW h \in AnyHandle, Moved(h), Rewind(h)
  PROVE  Store!Next
<1> DEFINE r == tfs_rewind_offset(fs, h)
           off == fs.open_file_table[h].of_offset
<1>1. FsInv(fs) /\ Orderly(fs) /\ FsInv(fs') /\ Orderly(fs')
  BY BothAre
<1>2. SameFiles(fs, r.fs)
  BY <1>1, RewindKeepsInv
<1>3. r.data = <<>>
  BY <1>1, RewindKeepsInv
<1>4. r.ret = IF IsOpen(fs, h) THEN 0 ELSE -1
  BY <1>1, RewindKeepsInv
<1>5. \/ r.fs = fs /\ ~IsOpen(fs, h)
      \/ /\ IsOpen(fs, h) /\ fs.open_file_table[h].of_offset = 0
         /\ r.fs = [fs EXCEPT !.locked = TRUE]
      \/ /\ IsOpen(fs, h) /\ fs.open_file_table[h].of_offset # 0
         /\ r.fs.locked = fs.locked
         /\ r.fs.open_file_table = [fs.open_file_table EXCEPT ![h] =
              [of_inumber |-> fs.open_file_table[h].of_inumber, of_offset |-> 0]]
  BY <1>1, RewindKeepsInv
<1>6. fs' = r.fs /\ reply' = [op |-> "rewind", ret |-> r.ret, data |-> r.data]
  BY DEF Rewind, Call
<1>7. IsOpen(fs, h) => off > 0
  BY DEF Moved, Offset
<1> HIDE DEF r
<1>8. CASE ~IsOpen(fs, h)
  <2>1. fs' = fs /\ reply' = [op |-> "rewind", ret |-> -1, data |-> <<>>]
    BY <1>3, <1>4, <1>5, <1>6, <1>8
  <2> QED BY <1>8, <2>1, BadHandleImplements
<1>9. CASE IsOpen(fs, h)
  <2>1. fs'.open_file_table = [fs.open_file_table EXCEPT ![h] =
          [of_inumber |-> fs.open_file_table[h].of_inumber, of_offset |-> 0]]
    BY <1>5, <1>6, <1>7, <1>9
  <2>2. fs'.dir = fs.dir /\ h \in DOMAIN fs.open_file_table
    BY <1>2, <1>6, <1>9 DEF SameFiles, IsOpen
  <2>3. HandlesOf(fs') = [HandlesOf(fs) EXCEPT ![h].off = 0]
    BY <1>1, <2>1, <2>2, MoveStore
  <2>4. FilesOf(fs') = FilesOf(fs)
    BY <1>1, <1>2, <1>6, SameStore DEF SameFiles
  <2>5. Store!Reply("rewind", 0, <<>>)
    BY <1>3, <1>4, <1>6, <1>9 DEF Store!Reply
  <2>6. Store!Rewind(h)
    BY <2>2, <2>3, <2>4, <2>5, BothAre DEF Store!Rewind
  <2> QED BY <2>6, HandlesFit DEF Store!Next
<1> QED BY <1>8, <1>9

\* What FileStore knows of an open handle.
LEMMA HandleIs ==
  ASSUME OrderlyInv, OrderlyInv', NEW h, IsOpen(fs, h)
  PROVE  \E e \in Live(fs) :
           /\ fs.dir[e].d_inumber = fs.open_file_table[h].of_inumber
           /\ h \in DOMAIN StoredHandles
           /\ StoredHandles[h].name = fs.dir[e].d_name
           /\ StoredHandles[h].off = fs.open_file_table[h].of_offset
           /\ fs.dir[e].d_name \in DOMAIN StoredFiles
           /\ StoredFiles[fs.dir[e].d_name] = ContentsOf(fs, fs.open_file_table[h].of_inumber)
<1>1. FsInv(fs) /\ Orderly(fs) /\ h \in DOMAIN fs.open_file_table
  BY BothAre DEF IsOpen
<1>2. PICK e \in Live(fs) : fs.dir[e].d_inumber = fs.open_file_table[h].of_inumber
  BY <1>1, HandlesAre
<1>3. HandlesOf(fs)[h] = [name |-> fs.dir[e].d_name, off |-> fs.open_file_table[h].of_offset]
  BY <1>1, <1>2, HandlesAre
<1>4. /\ fs.dir[e].d_name \in FileNames(fs)
      /\ FilesOf(fs)[fs.dir[e].d_name] = ContentsOf(fs, fs.open_file_table[h].of_inumber)
  BY <1>1, <1>2, FilesAre
<1> QED BY <1>1, <1>2, <1>3, <1>4, BothAre

\* A read is one of the abstract store.
LEMMA ReadImplements ==
  ASSUME OrderlyInv, OrderlyInv', NEW h \in AnyHandle, NEW len \in Lengths,
         FitsFile(h, len), Read(h, len)
  PROVE  Store!Next
<1> DEFINE r == tfs_read(fs, h, len)
           i == fs.open_file_table[h].of_inumber
           off == fs.open_file_table[h].of_offset
           size == fs.inode_table[i].i_size
<1>1. FsInv(fs) /\ Orderly(fs) /\ FsInv(fs') /\ Orderly(fs') /\ len \in Nat
  BY BothAre, CallsAssumption
<1>2. SameFiles(fs, r.fs)
  BY <1>1, ReadKeepsInv
<1>3. \/ r.fs = fs /\ r.ret = -1 /\ r.data = <<>> /\ ~IsOpen(fs, h)
      \/ r.fs = fs /\ r.ret = 0 /\ r.data = <<>> /\ IsOpen(fs, h) /\ len = 0
      \/ /\ r.fs = Panic(fs) /\ r.ret = -1 /\ IsOpen(fs, h) /\ len # 0 /\ ~HasBlock(fs, i)
      \/ /\ r.ret = len /\ IsOpen(fs, h) /\ len # 0 /\ ReadFrom(fs, r.fs, h, len, r.data)
  BY <1>1, ReadKeepsInv
<1>4. fs' = r.fs /\ reply' = [op |-> "read", ret |-> r.ret, data |-> r.data]
  BY DEF Read, Call
<1> HIDE DEF r
<1>5. FilesOf(fs') = FilesOf(fs)
  BY <1>1, <1>2, <1>4, SameStore DEF SameFiles
<1>6. CASE ~IsOpen(fs, h)
  <2>1. fs' = fs /\ reply' = [op |-> "read", ret |-> -1, data |-> <<>>]
    BY <1>3, <1>4, <1>6
  <2> QED BY <1>6, <2>1, BadHandleImplements
<1>7. CASE IsOpen(fs, h)
  <2>1. off + len <= size
    BY <1>7 DEF FitsFile, Offset, Inode
  <2>2. off \in Nat /\ size \in Nat /\ h \in DOMAIN fs.open_file_table
    BY <1>1, <1>7 DEF IsOpen, FsInv, FsType, OpenFiles, InodeRecords
  <2>3. PICK e \in Live(fs) :
          /\ fs.dir[e].d_inumber = i /\ h \in DOMAIN StoredHandles
          /\ StoredHandles[h].name = fs.dir[e].d_name /\ StoredHandles[h].off = off
          /\ fs.dir[e].d_name \in DOMAIN StoredFiles
          /\ StoredFiles[fs.dir[e].d_name] = ContentsOf(fs, i)
    BY <1>7, HandleIs
  <2>4. r.ret = len /\ r.data = SubSeq(ContentsOf(fs, i), off + 1, off + len)
    <3>1. CASE len = 0
      <4>1. SubSeq(ContentsOf(fs, i), off + 1, off + len) = <<>>
        <5> DEFINE c == ContentsOf(fs, i)
        <5>1. off + 1 \in Int /\ off + len \in Int /\ off + len < off + 1
          BY <2>2, <3>1
        <5> HIDE DEF c, off
        <5>2. SubSeq(c, off + 1, off + len) = <<>>
          BY <5>1, SubSeqEmpty
        <5> QED BY <5>2 DEF c, off
      <4> HIDE DEF off, i
      <4> QED BY <1>3, <1>7, <3>1, <4>1
    <3>2. CASE len # 0
      <4>1. HasBlock(fs, i)
        BY <1>1, <2>1, <2>2, <3>2 DEF HasBlock
      <4>2. r.ret = len /\ ReadFrom(fs, r.fs, h, len, r.data)
        BY <1>3, <1>7, <3>2, <4>1
      <4>3. InFile(fs, h)
        BY <1>1, <2>2 DEF Orderly
      <4>4. r.data = SubSeq(ContentsOf(fs, i), off + 1, off + len)
        <5>1. off + len <= size /\ h \in DOMAIN fs.open_file_table
          BY <2>1, <2>2
        <5> QED BY <1>1, <4>2, <4>3, <5>1, ReadData
      <4> QED BY <4>2, <4>4
    <3> QED BY <3>1, <3>2
  <2>5. HandlesOf(fs') = [HandlesOf(fs) EXCEPT ![h].off = @ + len]
    <3>1. CASE len = 0
      <4>1. fs' = fs
        BY <1>3, <1>4, <1>7, <3>1
      <4>2. HandlesOf(fs)[h].off + len = HandlesOf(fs)[h].off
        BY <2>2, <2>3, <3>1, BothAre
      <4>3. [HandlesOf(fs) EXCEPT ![h].off = @ + len] = HandlesOf(fs)
        <5>1. HandlesOf(fs)[h] = [name |-> fs.dir[e].d_name, off |-> off]
          BY <1>1, <2>2, <2>3, HandlesAre
        <5> QED BY <1>1, <2>2, <2>3, <4>2, <5>1, HandlesAre
      <4> QED BY <4>1, <4>3
    <3>2. CASE len # 0
      <4>1. HasBlock(fs, i)
        BY <1>1, <2>1, <2>2, <3>2 DEF HasBlock
      <4>2. ReadFrom(fs, fs', h, len, r.data)
        BY <1>3, <1>4, <1>7, <3>2, <4>1
      <4>3. fs'.dir = fs.dir /\ fs'.open_file_table = [fs.open_file_table EXCEPT ![h] =
              [of_inumber |-> fs.open_file_table[h].of_inumber, of_offset |-> off + len]]
        BY <4>2 DEF ReadFrom, SameFiles
      <4>4. HandlesOf(fs') = [HandlesOf(fs) EXCEPT ![h].off = off + len]
        BY <1>1, <2>2, <4>3, MoveStore
      <4> QED BY <2>3, <4>4, BothAre
    <3> QED BY <3>1, <3>2
  <2>6. off + len <= Len(ContentsOf(fs, i))
    BY <2>1, <2>2, ContentsLen
  <2> HIDE DEF i, off, size
  <2>7. Store!Reply("read", len, SubSeq(ContentsOf(fs, i), off + 1, off + len))
    BY <1>4, <2>4 DEF Store!Reply
  <2>8. StoredFiles' = StoredFiles /\ StoredHandles' = [StoredHandles EXCEPT ![h].off = @ + len]
    BY <1>5, <2>5, BothAre
  <2>9. Store!Read(h, len)
    BY <2>3, <2>6, <2>7, <2>8 DEF Store!Read
  <2> QED BY <2>9, HandlesFit DEF Store!Next
<1> QED BY <1>6, <1>7

\* A write that finds no handle, or no block for an empty file.
LEMMA WriteFailsImplements ==
  ASSUME OrderlyInv, OrderlyInv', NEW h \in AnyHandle, NEW b \in Buffers,
         fs' = fs, reply' = [op |-> "write", ret |-> -1, data |-> <<>>],
         \/ ~IsOpen(fs, h)
         \/ /\ IsOpen(fs, h) /\ b # <<>> /\ Blocks \subseteq fs.blocks
            /\ ~HasBlock(fs, fs.open_file_table[h].of_inumber)
  PROVE  Store!Next
<1>1. StoredFiles' = StoredFiles /\ StoredHandles' = StoredHandles
  BY BothAre
<1>2. Store!Reply("write", -1, <<>>)
  BY DEF Store!Reply
<1>3. CASE ~IsOpen(fs, h)
  <2>1. h \notin DOMAIN StoredHandles
    BY <1>3, BothAre DEF IsOpen
  <2>2. Store!WriteFails(h, b)
    BY <1>1, <1>2, <2>1 DEF Store!WriteFails
  <2> QED BY <2>2, HandlesFit DEF Store!Next
<1>4. CASE /\ IsOpen(fs, h) /\ b # <<>> /\ Blocks \subseteq fs.blocks
           /\ ~HasBlock(fs, fs.open_file_table[h].of_inumber)
  <2> DEFINE i == fs.open_file_table[h].of_inumber
             N == {n \in DOMAIN StoredFiles : StoredFiles[n] # <<>>}
  <2>1. PICK e \in Live(fs) :
          /\ StoredHandles[h].name = fs.dir[e].d_name
          /\ StoredFiles[fs.dir[e].d_name] = ContentsOf(fs, i)
    BY <1>4, HandleIs
  <2>2. fs.inode_table[i].i_size \in Nat
    BY <1>4, BothAre DEF IsOpen, FsInv, FsType, OpenFiles, InodeRecords
  <2>3. StoredFiles[StoredHandles[h].name] = <<>>
    BY <1>4, <2>1, <2>2, ContentsLen DEF HasBlock
  <2>4. Cardinality(N) = DATA_BLOCKS - 1
    BY <1>4, BothAre, BlockCount
  <2> HIDE DEF N
  <2>5. Store!Cardinality(N) = DATA_BLOCKS - 1
    BY <2>4, CountIs
  <2>6. Store!WriteFails(h, b)
    BY <1>1, <1>2, <1>4, <2>3, <2>5 DEF Store!WriteFails, N
  <2> QED BY <2>6, HandlesFit DEF Store!Next
<1> QED BY <1>3, <1>4

\* A write is one of the abstract store.
LEMMA WriteImplements ==
  ASSUME OrderlyInv, OrderlyInv', NEW h \in AnyHandle, NEW b \in Buffers,
         FitsBlock(h, Len(b)), Write(h, b)
  PROVE  Store!Next
<1> DEFINE r == tfs_write(fs, h, b)
           i == fs.open_file_table[h].of_inumber
           off == fs.open_file_table[h].of_offset
           end == off + Len(b)
           old == ContentsOf(fs, i)
           grown == IF end > Len(old) THEN end ELSE Len(old)
           written == [k \in 1 .. grown |-> IF k \in off + 1 .. end THEN b[k - off] ELSE old[k]]
           C == {b[k] : k \in DOMAIN b}
<1>1. FsInv(fs) /\ Orderly(fs) /\ FsInv(fs') /\ Orderly(fs')
  BY BothAre
<1>2. b \in Seq(C)
  BY CallsAssumption
<1> HIDE DEF C
<1>3. r.data = <<>>
  BY <1>1, <1>2, WriteKeepsInv
<1>4. \/ r.fs = fs /\ r.ret = -1 /\ ~IsOpen(fs, h)
      \/ r.fs = fs /\ r.ret = 0 /\ IsOpen(fs, h) /\ b = <<>>
      \/ /\ r.fs = fs /\ r.ret = -1 /\ IsOpen(fs, h) /\ b # <<>>
         /\ ~HasBlock(fs, i) /\ Blocks \subseteq fs.blocks
      \/ /\ r.ret = Len(b) /\ IsOpen(fs, h) /\ b # <<>>
         /\ \E block \in Blocks : Wrote(fs, r.fs, h, b, block)
  BY <1>1, <1>2, WriteKeepsInv
<1>5. fs' = r.fs /\ reply' = [op |-> "write", ret |-> r.ret, data |-> r.data]
  BY DEF Write, Call
<1> HIDE DEF r
<1>6. CASE fs' = fs /\ r.ret = -1 /\ (\/ ~IsOpen(fs, h)
                                      \/ /\ IsOpen(fs, h) /\ b # <<>> /\ Blocks \subseteq fs.blocks
                                         /\ ~HasBlock(fs, i))
  <2>1. reply' = [op |-> "write", ret |-> -1, data |-> <<>>]
    BY <1>3, <1>5, <1>6
  <2> QED BY <1>6, <2>1, WriteFailsImplements
<1>7. CASE /\ r.ret = Len(b) /\ IsOpen(fs, h)
           /\ \/ fs' = fs /\ b = <<>>
              \/ b # <<>> /\ \E block \in Blocks : Wrote(fs, fs', h, b, block)
  <2>1. /\ off \in Nat /\ fs.inode_table[i].i_size \in Nat /\ i \in Files(fs)
        /\ off <= fs.inode_table[i].i_size /\ Len(b) \in Nat /\ h \in DOMAIN fs.open_file_table
    BY <1>1, <1>2, <1>7 DEF Orderly, InFile, IsOpen, FsInv, FsType, OpenFiles, InodeRecords
  <2>2. PICK e \in Live(fs) :
          /\ fs.dir[e].d_inumber = i /\ h \in DOMAIN StoredHandles
          /\ StoredHandles[h].name = fs.dir[e].d_name /\ StoredHandles[h].off = off
          /\ fs.dir[e].d_name \in DOMAIN StoredFiles
          /\ StoredFiles[fs.dir[e].d_name] = ContentsOf(fs, i)
    BY <1>7, HandleIs
  <2>3. Len(old) = fs.inode_table[i].i_size /\ end <= BLOCK_SIZE
    BY <1>7, <2>1, ContentsLen DEF FitsBlock, Offset
  <2>4. /\ FilesOf(fs') = [FilesOf(fs) EXCEPT ![fs.dir[e].d_name] = written]
        /\ HandlesOf(fs') = [HandlesOf(fs) EXCEPT ![h].off = end]
    <3>1. CASE fs' = fs /\ b = <<>>
      <4>1. Len(b) = 0 /\ end = off
        BY <2>1, <3>1
      <4>2. grown = Len(old) /\ \A k \in 1 .. grown : k \notin off + 1 .. end
        <5> DEFINE n == Len(old)
        <5>1. off \in Nat /\ n \in Nat /\ off <= n /\ end = off
          BY <2>1, <2>3, <4>1
        <5> HIDE DEF n, end, off
        <5>2. \A k : k \notin off + 1 .. end
          BY <5>1
        <5>3. grown = n
          BY <5>1 DEF n
        <5> QED BY <5>2, <5>3 DEF n
      <4>3. written = [k \in 1 .. Len(old) |-> old[k]]
        BY <4>2
      <4>4. old = [k \in 1 .. fs.inode_table[i].i_size |-> old[k]]
        BY DEF ContentsOf
      <4>5. written = old
        BY <2>3, <4>3, <4>4
      <4> HIDE DEF written, old, end
      <4>6. [FilesOf(fs) EXCEPT ![fs.dir[e].d_name] = written] = FilesOf(fs)
        BY <1>1, <2>2, <4>5, BothAre, FilesAre DEF old
      <4>7. HandlesOf(fs)[h] = [name |-> fs.dir[e].d_name, off |-> off]
        BY <1>1, <2>1, <2>2, HandlesAre
      <4>8. [HandlesOf(fs) EXCEPT ![h].off = end] = HandlesOf(fs)
        BY <1>1, <2>1, <4>1, <4>7, HandlesAre
      <4> QED BY <3>1, <4>6, <4>8
    <3>2. CASE b # <<>> /\ \E block \in Blocks : Wrote(fs, fs', h, b, block)
      <4>1. PICK block \in Blocks : Wrote(fs, fs', h, b, block)
        BY <3>2
      <4>2. ContentsOf(fs', i) = written
        <5>1. ContentsOf(fs', i) = Written(fs, h, b)
          <6>1. InFile(fs, h) /\ h \in DOMAIN fs.open_file_table
            BY <1>1, <2>1 DEF Orderly
          <6>2. fs.inode_table[i].i_size <= BLOCK_SIZE
            BY <1>1, <2>1 DEF Orderly
          <6>3. off + Len(b) <= BLOCK_SIZE
            BY <2>3
          <6> QED BY <1>1, <1>2, <3>2, <4>1, <6>1, <6>2, <6>3, WrittenContents
        <5>2. Written(fs, h, b) = written
          BY <2>3 DEF Written
        <5> QED BY <5>1, <5>2
      <4> HIDE DEF written
      <4>3. FilesOf(fs') = [FilesOf(fs) EXCEPT ![fs.dir[e].d_name] = ContentsOf(fs', i)]
        <5>1. h \in DOMAIN fs.open_file_table /\ fs.dir[e].d_inumber = i
          BY <2>1, <2>2
        <5>2. off + Len(b) <= BLOCK_SIZE
          BY <2>3
        <5> QED BY <1>1, <1>2, <3>2, <4>1, <5>1, <5>2, WriteStore
      <4>4. fs'.dir = fs.dir /\ fs'.open_file_table = [fs.open_file_table EXCEPT ![h] =
              [of_inumber |-> fs.open_file_table[h].of_inumber, of_offset |-> end]]
        BY <4>1 DEF Wrote
      <4>5. HandlesOf(fs') = [HandlesOf(fs) EXCEPT ![h].off = end]
        <5>1. h \in DOMAIN fs.open_file_table
          BY <2>1
        <5> HIDE DEF end
        <5> QED BY <1>1, <4>4, <5>1, MoveStore
      <4> QED BY <4>2, <4>3, <4>5
    <3> QED BY <1>7, <3>1, <3>2
  <2>5. Store!Reply("write", Len(b), <<>>)
    BY <1>3, <1>5, <1>7 DEF Store!Reply
  <2>6. /\ StoredFiles' = [StoredFiles EXCEPT ![fs.dir[e].d_name] = written]
        /\ StoredHandles' = [StoredHandles EXCEPT ![h].off = end]
    <3> HIDE DEF written, end
    <3> QED BY <2>4, BothAre
  <2>7. Store!Write(h, b)
    <3>1. /\ h \in DOMAIN StoredHandles /\ StoredHandles[h].name = fs.dir[e].d_name
          /\ StoredHandles[h].off = off /\ StoredFiles[fs.dir[e].d_name] = old
      BY <2>2
    <3> HIDE DEF off, old
    <3> QED BY <2>5, <2>6, <3>1 DEF Store!Write
  <2> QED BY <2>7, HandlesFit DEF Store!Next
<1>8. CASE r.fs = fs /\ r.ret = 0 /\ IsOpen(fs, h) /\ b = <<>>
  <2>1. Len(b) = 0
    BY <1>8
  <2> QED BY <1>5, <1>7, <1>8, <2>1
<1> HIDE DEF i
<1> QED BY <1>4, <1>5, <1>6, <1>7, <1>8

\* An unlink is one of the abstract store.
LEMMA UnlinkImplements ==
  ASSUME OrderlyInv, OrderlyInv', NEW n \in Names, ~FileIsOpen(n), Unlink(n)
  PROVE  Store!Next
<1> DEFINE r == tfs_unlink(fs, n)
           m == IF n \in Paths \ LongPaths THEN n ELSE "no such path"
<1>1. FsInv(fs) /\ Orderly(fs) /\ FsInv(fs') /\ Orderly(fs')
  BY BothAre
<1>2. r.data = <<>>
  BY <1>1, UnlinkKeepsInv
<1>3. \/ r.fs = fs /\ r.ret = -1 /\ \A k \in Live(fs) : fs.dir[k].d_name # n
      \/ \E e \in Live(fs) : fs.dir[e].d_name = n /\ r.ret = 0 /\ r.fs = Deleted(fs, e)
  BY <1>1, UnlinkKeepsInv
<1>4. fs' = r.fs /\ reply' = [op |-> "unlink", ret |-> r.ret, data |-> r.data]
  BY DEF Unlink, Call
<1> HIDE DEF r
<1>5. FileNames(fs) \subseteq Paths \ LongPaths
  BY <1>1, NamesArePaths
<1>6. m \in Store!Names /\ (m \in FileNames(fs) => m = n) /\ (n \in FileNames(fs) => m = n)
  BY <1>5, CallsAssumption DEF Store!Names
<1> HIDE DEF m
<1>7. CASE r.fs = fs /\ r.ret = -1 /\ \A k \in Live(fs) : fs.dir[k].d_name # n
  <2>1. n \notin FileNames(fs) /\ m \notin DOMAIN StoredFiles
    BY <1>6, <1>7, BothAre DEF FileNames
  <2>2. ~Store!Exists(m)
    BY <2>1 DEF Store!Exists
  <2>3. ~Store!Opened(m)
    <3>1. ASSUME NEW h \in DOMAIN StoredHandles PROVE StoredHandles[h].name # m
      <4>1. IsOpen(fs, h)
        BY BothAre DEF IsOpen
      <4> QED BY <2>1, <4>1, HandleIs
    <3> QED BY <3>1 DEF Store!Opened
  <2>4. Store!Drop(StoredFiles, m) = StoredFiles
    <3>1. StoredFiles = [x \in DOMAIN StoredFiles |-> StoredFiles[x]]
      BY <1>1, FilesAre, BothAre
    <3>2. DOMAIN StoredFiles \ {m} = DOMAIN StoredFiles
      BY <2>1
    <3> QED BY <3>1, <3>2 DEF Store!Drop
  <2>5. StoredFiles' = StoredFiles /\ StoredHandles' = StoredHandles
    BY <1>4, <1>7, BothAre
  <2>6. Store!Reply("unlink", IF Store!Exists(m) THEN 0 ELSE -1, <<>>)
    BY <1>2, <1>4, <1>7, <2>2 DEF Store!Reply
  <2>7. Store!Unlink(m)
    BY <2>3, <2>4, <2>5, <2>6 DEF Store!Unlink
  <2> QED BY <1>6, <2>7 DEF Store!Next
<1>8. CASE \E e \in Live(fs) : fs.dir[e].d_name = n /\ r.ret = 0 /\ r.fs = Deleted(fs, e)
  <2>1. PICK e \in Live(fs) : fs.dir[e].d_name = n /\ r.ret = 0 /\ r.fs = Deleted(fs, e)
    BY <1>8
  <2>2. n \in FileNames(fs) /\ m = n /\ n \in DOMAIN StoredFiles
    BY <1>6, <2>1, BothAre DEF FileNames
  <2>3. \A h \in DOMAIN fs.open_file_table :
          fs.open_file_table[h].of_inumber # fs.dir[e].d_inumber
    BY <1>1, <2>1, NotOpen, FoundIs
  <2>4. ASSUME NEW h \in DOMAIN fs.open_file_table
        PROVE  HandlesOf(fs)[h].name # n /\ IsHandle(fs', h, HandlesOf(fs)[h])
    <3>1. PICK k \in Live(fs) : fs.dir[k].d_inumber = fs.open_file_table[h].of_inumber
      BY <1>1, HandlesAre
    <3>2. HandlesOf(fs)[h] = [name |-> fs.dir[k].d_name, off |-> fs.open_file_table[h].of_offset]
      BY <1>1, <3>1, HandlesAre
    <3>3. k # e
      BY <2>3, <3>1
    <3>4. fs.dir[k].d_name # n
      BY <1>1, <2>1, <3>3 DEF FsInv, DirInjective
    <3>5. k \in Live(fs') /\ fs'.dir[k] = fs.dir[k] /\ fs'.open_file_table = fs.open_file_table
      BY <1>1, <1>4, <2>1, <3>3, FileRemoved
    <3> QED BY <3>1, <3>2, <3>4, <3>5 DEF IsHandle
  <2>5. HandlesOf(fs') = HandlesOf(fs)
    <3> DEFINE H == HandlesOf(fs)
    <3>1. DOMAIN H = DOMAIN fs'.open_file_table /\ H = [h \in DOMAIN H |-> H[h]]
      BY <1>1, <1>4, <2>1, FileRemoved, HandlesAre
    <3>2. \A h \in DOMAIN H : IsHandle(fs', h, H[h])
      BY <1>1, <2>4, HandlesAre
    <3> HIDE DEF H
    <3>3. HandlesOf(fs') = H
      BY <1>1, <3>1, <3>2, HandlesByEntries
    <3> QED BY <3>3 DEF H
  <2>6. FilesOf(fs') = [x \in FileNames(fs) \ {n} |-> FilesOf(fs)[x]]
    BY <1>1, <1>4, <2>1, RemoveStore
  <2>7. StoredFiles' = Store!Drop(StoredFiles, n) /\ StoredHandles' = StoredHandles
    BY <2>5, <2>6, BothAre DEF Store!Drop
  <2>8. ~Store!Opened(n)
    BY <2>4, BothAre DEF Store!Opened
  <2>9. Store!Reply("unlink", IF Store!Exists(n) THEN 0 ELSE -1, <<>>)
    BY <1>2, <1>4, <2>1, <2>2 DEF Store!Reply, Store!Exists
  <2>10. Store!Unlink(n)
    BY <2>7, <2>8, <2>9 DEF Store!Unlink
  <2> QED BY <1>6, <2>2, <2>10 DEF Store!Next
<1> QED BY <1>3, <1>7, <1>8

\* A library that was just initialised is an empty FileStore.
LEMMA EmptyStore ==
  ASSUME NEW f, Live(f) = {}, f.open_file_table = <<>>
  PROVE  FilesOf(f) = <<>> /\ HandlesOf(f) = <<>>
<1>1. FileNames(f) = {} /\ DOMAIN f.open_file_table = {}
  BY NoHandles DEF FileNames
<1>2. \A F : DOMAIN F = {} /\ F = [x \in {} |-> F[x]] => F = <<>>
  <2>1. <<>> = [x \in DOMAIN <<>> |-> <<>>[x]]
    OBVIOUS
  <2> QED BY <2>1, NoHandles
<1>3. FilesOf(f) = <<>>
  <2> DEFINE F == FilesOf(f)
  <2>1. DOMAIN F = {} /\ F = [x \in {} |-> F[x]]
    BY <1>1 DEF FilesOf
  <2> HIDE DEF F
  <2>2. F = <<>>
    BY <1>2, <2>1
  <2> QED BY <2>2 DEF F
<1>4. HandlesOf(f) = <<>>
  <2> DEFINE H == HandlesOf(f)
  <2>1. DOMAIN H = {} /\ H = [x \in {} |-> H[x]]
    BY <1>1 DEF HandlesOf
  <2> HIDE DEF H
  <2>2. H = <<>>
    BY <1>2, <2>1
  <2> QED BY <2>2 DEF H
<1> QED BY <1>3, <1>4

\* A library that is initialised again is an empty store.
LEMMA RemountImplements ==
  ASSUME OrderlyInv, OrderlyInv', Remount
  PROVE  Store!Next
<1>1. Live(fs') = {} /\ fs'.open_file_table = <<>>
  BY BothAre, RemountEmpties
<1>2. StoredFiles' = <<>> /\ StoredHandles' = <<>>
  BY <1>1, BothAre, EmptyStore
<1>3. Store!Reply("init", 0, <<>>)
  BY DEF Remount, Store!Reply
<1>4. Store!Remount
  BY <1>2, <1>3 DEF Store!Remount
<1> QED BY <1>4 DEF Store!Next

\* Every disciplined call is a call of FileStore with the same answer.
LEMMA CallImplements ==
  ASSUME OrderlyInv, OrderlyInv', DisciplinedCall
  PROVE  Store!Next
<1>1. CASE \E n \in Names, mode \in Modes : Open(n, mode)
  BY <1>1, OpenImplements
<1>2. CASE \E h \in AnyHandle : Close(h)
  BY <1>2, CloseImplements
<1>3. CASE \E h \in AnyHandle : Moved(h) /\ Rewind(h)
  BY <1>3, RewindImplements
<1>4. CASE \E h \in AnyHandle, b \in Buffers : FitsBlock(h, Len(b)) /\ Write(h, b)
  BY <1>4, WriteImplements
<1>5. CASE \E h \in AnyHandle, l \in Lengths : FitsFile(h, l) /\ Read(h, l)
  BY <1>5, ReadImplements
<1>6. CASE \E n \in Names : ~FileIsOpen(n) /\ Unlink(n)
  BY <1>6, UnlinkImplements
<1>7. CASE Remount
  BY <1>7, RemountImplements
<1> QED BY <1>1, <1>2, <1>3, <1>4, <1>5, <1>6, <1>7 DEF DisciplinedCall

\* StoreSpec: what a disciplined caller sees of TecnicoFS, the names and contents of
\* its files, what its handles are of and every answer, is a behaviour of FileStore.
THEOREM ImplementsFileStore == Disciplined => StoreSpec
<1>1. Init => Store!Init
  <2> SUFFICES ASSUME Init PROVE Store!Init
    OBVIOUS
  <2>1. FsInv(fs) /\ Live(fs) = {} /\ fs.open_file_table = <<>>
    BY StartsEmpty DEF Init
  <2>2. FilesOf(fs) = <<>> /\ HandlesOf(fs) = <<>>
    BY <2>1, EmptyStore
  <2>3. StoredFiles = FilesOf(fs) /\ StoredHandles = HandlesOf(fs)
    BY <2>1, StoredIs
  <2> QED BY <2>2, <2>3 DEF Init, Store!Init
<1>2. OrderlyInv /\ OrderlyInv' /\ [DisciplinedCall]_vars => [Store!Next]_(Store!storeVars)
  <2>1. UNCHANGED vars => UNCHANGED Store!storeVars
    BY DEF vars, Store!storeVars, StoredFiles, StoredHandles, LiveEntries, EntryOf, NameOf,
           Contents, Offset
  <2> QED BY <2>1, CallImplements
<1> QED BY <1>1, <1>2, AlwaysOrderly, PTL DEF Disciplined, StoreSpec, Store!Spec
=============================================================================

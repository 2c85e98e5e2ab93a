---------------------------- MODULE TfsOpsProofs ----------------------------
(* Lemmas about the operations of TecnicoFS: what keeps its tables consistent,
   and that every operation preserves it, whoever calls. *)
EXTENDS TfsOps, FiniteSetTheorems, SequenceTheorems, TLAPS

InodeRecords == [i_size : Nat, i_data_block : Blocks \cup {-1}]
DirEntries == [d_name : Paths \cup {NoName}, d_inumber : Inumbers \cup {-1}]
OpenFiles == [of_inumber : Inumbers, of_offset : Nat]
Slots == 1 .. MAX_DIR_ENTRIES

\* A state of the library has its tables.
FsType(f) ==
  /\ f \in [locked : BOOLEAN, panicked : BOOLEAN,
            inodes : SUBSET Inumbers, blocks : SUBSET Blocks,
            inode_table : [Inumbers -> InodeRecords], dir : [Slots -> DirEntries],
            fs_data : {f.fs_data}, open_file_table : {f.open_file_table}]
  /\ f.fs_data = [c \in Cells |-> f.fs_data[c]]
  /\ f.open_file_table \in [DOMAIN f.open_file_table -> OpenFiles]
  /\ DOMAIN f.open_file_table \subseteq Handles

Live(f) == {i \in Slots : f.dir[i].d_inumber # -1}
Files(f) == {f.dir[i].d_inumber : i \in Live(f)}
HasBlock(f, i) == f.inode_table[i].i_size > 0

DirInjective(f) ==
  \A i, j \in Live(f) : i # j => /\ f.dir[i].d_name # f.dir[j].d_name
                                 /\ f.dir[i].d_inumber # f.dir[j].d_inumber

\* Stale names never hide a live entry from clear_dir_entry.
NamesFindEntries(f) ==
  /\ \A i \in Live(f) : f.dir[i].d_name \in Paths
  /\ \A i \in Slots \ Live(f), j \in Live(f) :
       f.dir[i].d_name = f.dir[j].d_name => j < i

\* The root is TAKEN, and so are its block and every file.
InodesTaken(f) == /\ f.inodes = {ROOT_DIR_INUM} \cup Files(f)
                  /\ ROOT_DIR_INUM \notin Files(f)
                  /\ 0 \in f.blocks

\* An inode with a size has a block number, deleted inodes included, and those of
\* files are theirs alone.
BlocksOwned(f) ==
  /\ \A i \in Inumbers : HasBlock(f, i) => f.inode_table[i].i_data_block \in Blocks
  /\ \A i \in Files(f) :
       HasBlock(f, i) => f.inode_table[i].i_data_block \in f.blocks \ {0}
  /\ \A i, j \in Files(f) :
       HasBlock(f, i) /\ HasBlock(f, j)
         /\ f.inode_table[i].i_data_block = f.inode_table[j].i_data_block => i = j

FsInv(f) == /\ FsType(f)
            /\ DirInjective(f)
            /\ NamesFindEntries(f)
            /\ InodesTaken(f)
            /\ BlocksOwned(f)

-----------------------------------------------------------------------------

\* The loops over a table stop at the lowest index that qualifies.
LEMMA FirstOfIsLeast ==
  ASSUME NEW S \in SUBSET Nat, S # {}
  PROVE  FirstOf(S) \in S /\ \A j \in S : FirstOf(S) <= j
<1> DEFINE T == {0 .. x : x \in S}
           R == StrictSubsetOrdering(Nat)
<1>1. \A x \in S : 0 .. x \in FiniteSubsetsOf(Nat)
  <2> TAKE x \in S
  <2>1. IsFiniteSet(0 .. x)
    BY FS_Interval
  <2>2. 0 .. x \in SUBSET Nat
    OBVIOUS
  <2> QED BY <2>1, <2>2 DEF FiniteSubsetsOf
<1>2. T # {} /\ T \subseteq FiniteSubsetsOf(Nat)
  BY <1>1
<1>3. IsWellFoundedOn(R, FiniteSubsetsOf(Nat))
  BY FS_StrictSubsetOrderingWellFounded
<1>4. PICK u \in T : \A v \in T : ~ (<<v, u>> \in R)
  <2> HIDE DEF T, R
  <2> QED BY <1>2, <1>3, WFMin
<1>5. PICK x \in S : u = 0 .. x
  OBVIOUS
<1>6. ASSUME NEW y \in S, y < x PROVE FALSE
  <2> DEFINE v == 0 .. y
  <2>1. v \subseteq u /\ x \in u /\ x \notin v
    BY <1>5, <1>6
  <2>2. v \in T
    OBVIOUS
  <2>3. v \in SUBSET Nat /\ u \in SUBSET Nat
    BY <1>5
  <2>4. ~ (<<v, u>> \in R)
    BY <2>2, <1>4
  <2> HIDE DEF v, T
  <2>5. <<v, u>> \in (SUBSET Nat) \X (SUBSET Nat)
    BY <2>3
  <2>6. <<v, u>> \in R
    BY <2>1, <2>5 DEF StrictSubsetOrdering
  <2> QED BY <2>4, <2>6
<1>7. \A y \in S : x <= y
  BY <1>6
<1> QED BY <1>7 DEF FirstOf

\* Counting up from 0 reaches every number.
LEMMA CountingUp ==
  ASSUME NEW S, 0 \in S, \A n \in Nat : n \in S => n + 1 \in S
  PROVE  Nat \subseteq S
<1> DEFINE missed == Nat \ S
<1>1. CASE missed = {}
  BY <1>1
<1>2. CASE missed # {}
  <2>1. FirstOf(missed) \in missed /\ \A j \in missed : FirstOf(missed) <= j
    BY <1>2, FirstOfIsLeast
  <2>2. PICK m \in missed : \A j \in missed : m <= j
    BY <2>1
  <2>3. m \in Nat /\ m # 0 /\ m - 1 \in Nat /\ ~(m <= m - 1)
    BY <2>2
  <2>4. m - 1 \in S
    BY <2>2, <2>3
  <2>5. (m - 1) + 1 \in S /\ (m - 1) + 1 = m
    BY <2>3, <2>4
  <2> QED BY <2>2, <2>5
<1> QED BY <1>1, <1>2

\* A new block was FREE and is now TAKEN; nothing else changes.
LEMMA BlockAllocated ==
  ASSUME NEW f, FsType(f)
  PROVE  LET r == data_block_alloc(f)
         IN  \/ r.ret = -1 /\ r.fs = f /\ Blocks \subseteq f.blocks
             \/ /\ r.ret \in Blocks \ f.blocks
                /\ r.fs = [f EXCEPT !.blocks = f.blocks \cup {r.ret}]
<1> DEFINE free == Blocks \ f.blocks
<1>1. CASE free = {}
  BY <1>1 DEF data_block_alloc, Result
<1>2. CASE free # {}
  <2>1. free \in SUBSET Nat
    BY TfsAssumption DEF Blocks
  <2>2. FirstOf(free) \in free
    BY <1>2, <2>1, FirstOfIsLeast
  <2>3. data_block_alloc(f) = Result([f EXCEPT !.blocks = f.blocks \cup {FirstOf(free)}], FirstOf(free))
    BY <1>2 DEF data_block_alloc
  <2> HIDE DEF free
  <2> QED BY <2>2, <2>3 DEF Result, free
<1> QED BY <1>1, <1>2

\* Likewise an inode.
LEMMA InodeAllocated ==
  ASSUME NEW f, FsType(f)
  PROVE  LET r == inode_alloc(f)
         IN  \/ r.ret = -1 /\ r.fs = f /\ Inumbers \subseteq f.inodes
             \/ /\ r.ret \in Inumbers \ f.inodes
                /\ r.fs = [f EXCEPT !.inodes = f.inodes \cup {r.ret}]
<1> DEFINE free == Inumbers \ f.inodes
<1>1. CASE free = {}
  BY <1>1 DEF inode_alloc, Result
<1>2. CASE free # {}
  <2>1. free \in SUBSET Nat
    BY TfsAssumption DEF Inumbers
  <2>2. FirstOf(free) \in free
    BY <1>2, <2>1, FirstOfIsLeast
  <2>3. inode_alloc(f) = Result([f EXCEPT !.inodes = f.inodes \cup {FirstOf(free)}], FirstOf(free))
    BY <1>2 DEF inode_alloc
  <2> HIDE DEF free
  <2> QED BY <2>2, <2>3 DEF Result, free
<1> QED BY <1>1, <1>2

EmptyInode == [i_size |-> 0, i_data_block |-> -1]

\* A new file has a fresh inode, without contents.
LEMMA FileCreated ==
  ASSUME NEW f, FsType(f)
  PROVE  LET r == inode_create(f, "FILE")
         IN  \/ r.ret = -1 /\ r.fs = f /\ Inumbers \subseteq f.inodes
             \/ /\ r.ret \in Inumbers \ f.inodes
                /\ r.fs = [f EXCEPT !.inodes = f.inodes \cup {r.ret},
                             !.inode_table = [f.inode_table EXCEPT ![r.ret] = EmptyInode]]
<1> DEFINE new == inode_alloc(f)
           empty == [new.fs EXCEPT !.inode_table[new.ret] = EmptyInode]
<1>1. inode_create(f, "FILE") = IF new.ret = -1 THEN new ELSE Result(empty, new.ret)
  BY DEF inode_create, EmptyInode
<1>2. CASE new.ret = -1
  <2>1. new.fs = f /\ Inumbers \subseteq f.inodes
    <3>1. -1 \notin Inumbers
      BY TfsAssumption DEF Inumbers
    <3>2. \/ new.fs = f /\ Inumbers \subseteq f.inodes
          \/ new.ret \in Inumbers
      BY InodeAllocated
    <3> QED BY <1>2, <3>1, <3>2
  <2>2. inode_create(f, "FILE") = new
    BY <1>1, <1>2
  <2> QED BY <1>2, <2>1, <2>2
<1>3. CASE new.ret # -1
  <2>1. /\ new.ret \in Inumbers \ f.inodes
        /\ new.fs = [f EXCEPT !.inodes = f.inodes \cup {new.ret}]
    BY <1>3, InodeAllocated
  <2>2. empty = [f EXCEPT !.inodes = f.inodes \cup {new.ret},
                   !.inode_table = [f.inode_table EXCEPT ![new.ret] = EmptyInode]]
    BY <2>1 DEF FsType
  <2> HIDE DEF new, empty
  <2>3. inode_create(f, "FILE").ret = new.ret /\ inode_create(f, "FILE").fs = empty
    BY <1>1, <1>3 DEF Result
  <2> QED BY <2>1, <2>2, <2>3
<1> QED BY <1>2, <1>3

\* A name is found exactly if a live entry has it.
LEMMA FoundInDir ==
  ASSUME NEW f, FsType(f), NEW n
  PROVE  \/ find_in_dir(f.dir, n) = -1 /\ \A i \in Live(f) : f.dir[i].d_name # n
         \/ \E i \in Live(f) : f.dir[i].d_name = n /\ find_in_dir(f.dir, n) = f.dir[i].d_inumber
<1> DEFINE found == {i \in DOMAIN f.dir : f.dir[i].d_inumber # -1 /\ f.dir[i].d_name = n}
<1>1. found = {i \in Live(f) : f.dir[i].d_name = n} /\ found \in SUBSET Nat
  BY TfsAssumption DEF FsType, Live, Slots
<1>2. find_in_dir(f.dir, n) = IF found = {} THEN -1 ELSE f.dir[FirstOf(found)].d_inumber
  BY DEF find_in_dir
<1>3. CASE found = {}
  BY <1>1, <1>2, <1>3
<1>4. CASE found # {}
  <2>1. FirstOf(found) \in found
    BY <1>1, <1>4, FirstOfIsLeast
  <2> QED BY <1>1, <1>2, <1>4, <2>1
<1> QED BY <1>3, <1>4

\* A new entry takes the place of the first dead one.
LEMMA EntryAdded ==
  ASSUME NEW f, FsType(f), NEW n, NEW inum
  PROVE  LET r == add_dir_entry(f, n, inum)
         IN  \/ r.ret = -1 /\ r.fs = f /\ (n \in LongPaths \/ Live(f) = Slots)
             \/ /\ r.ret = 0 /\ n \notin LongPaths
                /\ \E e \in Slots \ Live(f) :
                     /\ \A i \in Slots \ Live(f) : e <= i
                     /\ r.fs = [f EXCEPT !.dir = [f.dir EXCEPT ![e] =
                                  [d_name |-> n, d_inumber |-> inum]]]
<1> DEFINE empty == {i \in DOMAIN f.dir : f.dir[i].d_inumber = -1}
           new == [d_name |-> n, d_inumber |-> inum]
<1>1. empty = Slots \ Live(f) /\ empty \in SUBSET Nat
  BY TfsAssumption DEF FsType, Live, Slots
<1>2. add_dir_entry(f, n, inum) =
        IF n \in LongPaths \/ empty = {} THEN Result(f, -1)
        ELSE Result([f EXCEPT !.dir[FirstOf(empty)] = new], 0)
  BY DEF add_dir_entry
<1>3. CASE n \in LongPaths \/ empty = {}
  BY <1>1, <1>2, <1>3 DEF Result, Live
<1>4. CASE ~(n \in LongPaths \/ empty = {})
  <2>1. FirstOf(empty) \in empty /\ \A i \in empty : FirstOf(empty) <= i
    BY <1>1, <1>4, FirstOfIsLeast
  <2>2. [f EXCEPT !.dir[FirstOf(empty)] = new] = [f EXCEPT !.dir = [f.dir EXCEPT ![FirstOf(empty)] = new]]
    BY DEF FsType
  <2> HIDE DEF empty, new
  <2>3. /\ add_dir_entry(f, n, inum).ret = 0
        /\ add_dir_entry(f, n, inum).fs = [f EXCEPT !.dir = [f.dir EXCEPT ![FirstOf(empty)] = new]]
    BY <1>2, <1>4, <2>2 DEF Result
  <2> QED BY <1>1, <1>4, <2>1, <2>3 DEF new
<1> QED BY <1>3, <1>4

DeadEntry == [d_name |-> NoName, d_inumber |-> -1]

\* The first entry with the name of a live one is that one.
LEMMA EntryCleared ==
  ASSUME NEW f, FsType(f), DirInjective(f), NamesFindEntries(f), NEW e \in Live(f)
  PROVE  clear_dir_entry(f, f.dir[e].d_name) =
           Result([f EXCEPT !.dir = [f.dir EXCEPT ![e] = DeadEntry]], 0)
<1> DEFINE n == f.dir[e].d_name
           found == {i \in DOMAIN f.dir : f.dir[i].d_name = n}
<1>1. found \in SUBSET Nat /\ e \in found /\ found \subseteq Slots
  BY TfsAssumption DEF FsType, Live, Slots
<1>2. FirstOf(found) \in found /\ \A i \in found : FirstOf(found) <= i
  BY <1>1, FirstOfIsLeast
<1>3. FirstOf(found) = e
  <2>1. CASE FirstOf(found) \in Live(f)
    BY <1>1, <1>2, <2>1 DEF DirInjective
  <2>2. CASE FirstOf(found) \notin Live(f)
    <3>1. e < FirstOf(found)
      BY <1>1, <1>2, <2>2 DEF NamesFindEntries
    <3> HIDE DEF found
    <3>2. FirstOf(found) \in Nat /\ e \in Nat /\ FirstOf(found) <= e
      BY <1>1, <1>2
    <3> QED BY <3>1, <3>2
  <2> QED BY <2>1, <2>2
<1>4. clear_dir_entry(f, n) = Result([f EXCEPT !.dir[FirstOf(found)] = DeadEntry], 0)
  BY <1>1 DEF clear_dir_entry, DeadEntry
<1>5. [f EXCEPT !.dir[e] = DeadEntry] = [f EXCEPT !.dir = [f.dir EXCEPT ![e] = DeadEntry]]
  BY DEF FsType
<1> HIDE DEF n, found
<1> QED BY <1>3, <1>4, <1>5 DEF n

-----------------------------------------------------------------------------
(* Each way in which an operation changes the tables preserves FsInv. *)

\* Handles are opened, moved and closed.
LEMMA HandlesChanged ==
  ASSUME NEW f, FsInv(f), NEW table, DOMAIN table \subseteq Handles,
         table \in [DOMAIN table -> OpenFiles]
  PROVE  FsInv([f EXCEPT !.open_file_table = table])
<1> DEFINE g == [f EXCEPT !.open_file_table = table]
<1>1. /\ g.locked = f.locked /\ g.panicked = f.panicked /\ g.inodes = f.inodes
      /\ g.blocks = f.blocks /\ g.inode_table = f.inode_table /\ g.dir = f.dir
      /\ g.fs_data = f.fs_data /\ g.open_file_table = table
  BY DEF FsInv, FsType
<1>2. FsType(g)
  BY DEF FsInv, FsType
<1> HIDE DEF g
<1>3. Live(g) = Live(f) /\ Files(g) = Files(f)
  BY <1>1 DEF Live, Files
<1>4. FsInv(g)
  BY <1>1, <1>2, <1>3
  DEF FsInv, DirInjective, NamesFindEntries, InodesTaken, BlocksOwned, HasBlock
<1> QED BY <1>4 DEF g

\* The mutex is kept, or an assertion fails.
LEMMA FlagsChanged ==
  ASSUME NEW f, FsInv(f)
  PROVE  FsInv([f EXCEPT !.locked = TRUE]) /\ FsInv([f EXCEPT !.panicked = TRUE])
<1>1. ASSUME NEW g, g \in {[f EXCEPT !.locked = TRUE], [f EXCEPT !.panicked = TRUE]}
      PROVE  FsInv(g)
  <2>1. /\ g.inodes = f.inodes /\ g.blocks = f.blocks /\ g.inode_table = f.inode_table
        /\ g.dir = f.dir /\ g.fs_data = f.fs_data /\ g.open_file_table = f.open_file_table
    BY <1>1 DEF FsInv, FsType
  <2>2. FsType(g)
    BY <1>1 DEF FsInv, FsType
  <2>3. Live(g) = Live(f) /\ Files(g) = Files(f)
    BY <2>1 DEF Live, Files
  <2> QED
    BY <2>1, <2>2, <2>3
    DEF FsInv, DirInjective, NamesFindEntries, InodesTaken, BlocksOwned, HasBlock
<1> QED BY <1>1

\* The inode of a file that found no room in the directory is given back empty.
LEMMA InodeRecycled ==
  ASSUME NEW f, FsInv(f), NEW i \in Inumbers \ f.inodes
  PROVE  FsInv([f EXCEPT !.inode_table = [f.inode_table EXCEPT ![i] = EmptyInode]])
<1> DEFINE g == [f EXCEPT !.inode_table = [f.inode_table EXCEPT ![i] = EmptyInode]]
<1>1. /\ g.inodes = f.inodes /\ g.blocks = f.blocks /\ g.dir = f.dir
      /\ g.inode_table = [f.inode_table EXCEPT ![i] = EmptyInode]
  BY DEF FsInv, FsType
<1>2. EmptyInode \in InodeRecords /\ EmptyInode.i_size = 0
  BY DEF EmptyInode, InodeRecords
<1>3. FsType(g)
  BY <1>2 DEF FsInv, FsType
<1> HIDE DEF g
<1>4. Live(g) = Live(f) /\ Files(g) = Files(f)
  BY <1>1 DEF Live, Files
<1>5. DirInjective(g) /\ NamesFindEntries(g) /\ InodesTaken(g)
  BY <1>1, <1>4 DEF FsInv, DirInjective, NamesFindEntries, InodesTaken
<1>6. BlocksOwned(g)
  <2>1. \A k \in Inumbers : g.inode_table[k] = IF k = i THEN EmptyInode ELSE f.inode_table[k]
    BY <1>1 DEF FsInv, FsType
  <2>2. i \notin Files(f) /\ Files(f) \subseteq Inumbers
    BY DEF FsInv, InodesTaken, FsType
  <2> QED BY <1>1, <1>2, <1>4, <2>1, <2>2 DEF FsInv, BlocksOwned, HasBlock
<1> QED BY <1>3, <1>5, <1>6 DEF FsInv, g

\* A file is made: an inode that was FREE enters the first dead entry.
LEMMA FileEntered ==
  ASSUME NEW f, FsInv(f), NEW i \in Inumbers \ f.inodes, NEW n \in Paths,
         \A k \in Live(f) : f.dir[k].d_name # n,
         NEW e \in Slots \ Live(f), \A k \in Slots \ Live(f) : e <= k
  PROVE  FsInv([f EXCEPT !.inodes = f.inodes \cup {i},
                         !.inode_table = [f.inode_table EXCEPT ![i] = EmptyInode],
                         !.dir = [f.dir EXCEPT ![e] = [d_name |-> n, d_inumber |-> i]]])
<1> DEFINE g == [f EXCEPT !.inodes = f.inodes \cup {i},
                         !.inode_table = [f.inode_table EXCEPT ![i] = EmptyInode],
                         !.dir = [f.dir EXCEPT ![e] = [d_name |-> n, d_inumber |-> i]]]
           new == [d_name |-> n, d_inumber |-> i]
<1>1. /\ g.inodes = f.inodes \cup {i} /\ g.blocks = f.blocks
      /\ g.dir = [f.dir EXCEPT ![e] = new]
      /\ g.inode_table = [f.inode_table EXCEPT ![i] = EmptyInode]
  BY DEF FsInv, FsType
<1>2. EmptyInode \in InodeRecords /\ EmptyInode.i_size = 0
  BY DEF EmptyInode, InodeRecords
<1>3. new \in DirEntries /\ new.d_name = n /\ new.d_inumber = i /\ i # -1
  BY TfsAssumption DEF DirEntries, Inumbers
<1> HIDE DEF new
<1>4. FsType(g)
  BY <1>2, <1>3 DEF FsInv, FsType, new
<1> HIDE DEF g
<1>5. \A k \in Slots : g.dir[k] = IF k = e THEN new ELSE f.dir[k]
  BY <1>1 DEF FsInv, FsType
<1>6. Live(g) = Live(f) \cup {e}
  BY <1>3, <1>5 DEF Live
<1>7. Files(g) = Files(f) \cup {i}
  <2>1. \A k \in Live(f) : k # e /\ k \in Slots
    BY DEF Live
  <2> QED BY <1>3, <1>5, <1>6, <2>1 DEF Files
<1>8. i \notin Files(f) /\ Files(f) \subseteq Inumbers /\ i # ROOT_DIR_INUM
  BY DEF FsInv, InodesTaken, FsType
<1>9. DirInjective(g)
  <2>1. \A k \in Live(f) : f.dir[k].d_inumber # i /\ k \in Slots /\ k # e
    BY <1>8 DEF Files, Live
  <2> QED BY <1>3, <1>5, <1>6, <2>1 DEF FsInv, DirInjective
<1>10. NamesFindEntries(g)
  <2>1. \A k \in Live(f) : k \in Slots /\ k # e
    BY DEF Live
  <2>2. \A k \in Slots \ Live(g) : k \in Slots \ Live(f) /\ k # e /\ e < k
    BY <1>6, TfsAssumption DEF Slots
  <2> QED BY <1>3, <1>5, <1>6, <2>1, <2>2 DEF FsInv, NamesFindEntries
<1>11. InodesTaken(g)
  BY <1>1, <1>7, <1>8 DEF FsInv, InodesTaken
<1>12. BlocksOwned(g)
  <2>1. \A k \in Inumbers : g.inode_table[k] = IF k = i THEN EmptyInode ELSE f.inode_table[k]
    BY <1>1 DEF FsInv, FsType
  <2> QED BY <1>1, <1>2, <1>7, <1>8, <2>1 DEF FsInv, BlocksOwned, HasBlock
<1> QED BY <1>4, <1>9, <1>10, <1>11, <1>12 DEF FsInv, g

\* The block of a file, if it has one.
BlockOf(f, i) == IF HasBlock(f, i) THEN {f.inode_table[i].i_data_block} ELSE {}

\* A file is deleted: its entry, its inode and its block.
LEMMA FileDeleted ==
  ASSUME NEW f, FsInv(f), NEW e \in Live(f)
  PROVE  FsInv([f EXCEPT !.inodes = f.inodes \ {f.dir[e].d_inumber},
                         !.blocks = f.blocks \ BlockOf(f, f.dir[e].d_inumber),
                         !.dir = [f.dir EXCEPT ![e] = DeadEntry]])
<1> DEFINE i == f.dir[e].d_inumber
           g == [f EXCEPT !.inodes = f.inodes \ {f.dir[e].d_inumber},
                         !.blocks = f.blocks \ BlockOf(f, f.dir[e].d_inumber),
                         !.dir = [f.dir EXCEPT ![e] = DeadEntry]]
<1>1. /\ g.inodes = f.inodes \ {i} /\ g.blocks = f.blocks \ BlockOf(f, i)
      /\ g.dir = [f.dir EXCEPT ![e] = DeadEntry]
      /\ g.inode_table = f.inode_table
  BY DEF FsInv, FsType
<1>2. DeadEntry \in DirEntries /\ DeadEntry.d_name \notin Paths /\ DeadEntry.d_inumber = -1
  BY TfsAssumption DEF DeadEntry, DirEntries
<1>3. FsType(g)
  BY <1>2 DEF FsInv, FsType
<1>4. i \in Files(f)
  BY DEF Files
<1> HIDE DEF g
<1>5. e \in Slots /\ \A k \in Slots : g.dir[k] = IF k = e THEN DeadEntry ELSE f.dir[k]
  BY <1>1 DEF FsInv, FsType, Live
<1>6. Live(g) = Live(f) \ {e}
  BY <1>2, <1>5 DEF Live
<1>7. Files(g) = Files(f) \ {i}
  <2>1. \A k \in Live(f) : k \in Slots /\ (f.dir[k].d_inumber = i => k = e)
    BY DEF Live, FsInv, DirInjective
  <2> QED BY <1>5, <1>6, <2>1 DEF Files
<1> HIDE DEF i
<1>8. DirInjective(g) /\ NamesFindEntries(g)
  <2>1. \A k \in Live(f) : k \in Slots
    BY DEF Live
  <2> QED BY <1>2, <1>5, <1>6, <2>1 DEF FsInv, DirInjective, NamesFindEntries
<1>9. InodesTaken(g)
  BY <1>1, <1>4, <1>7 DEF FsInv, InodesTaken, BlocksOwned, BlockOf
<1>10. BlocksOwned(g)
  BY <1>1, <1>4, <1>7 DEF FsInv, BlocksOwned, BlockOf, HasBlock
<1> QED BY <1>3, <1>8, <1>9, <1>10 DEF FsInv, g

\* A file is emptied.
LEMMA FileEmptied ==
  ASSUME NEW f, FsInv(f), NEW i \in Files(f)
  PROVE  FsInv([f EXCEPT !.blocks = f.blocks \ BlockOf(f, i),
                         !.inode_table = [f.inode_table EXCEPT ![i] =
                            [f.inode_table[i] EXCEPT !.i_size = 0]]])
<1> DEFINE node == [f.inode_table[i] EXCEPT !.i_size = 0]
           g == [f EXCEPT !.blocks = f.blocks \ BlockOf(f, i),
                          !.inode_table = [f.inode_table EXCEPT ![i] = node]]
<1>1. /\ g.inodes = f.inodes /\ g.blocks = f.blocks \ BlockOf(f, i) /\ g.dir = f.dir
      /\ g.inode_table = [f.inode_table EXCEPT ![i] = node]
  BY DEF FsInv, FsType
<1>2. i \in Inumbers
  BY DEF FsInv, InodesTaken, FsType
<1>3. node \in InodeRecords /\ node.i_size = 0
  BY <1>2 DEF FsInv, FsType, InodeRecords
<1> HIDE DEF node
<1>4. FsType(g)
  BY <1>2, <1>3 DEF FsInv, FsType
<1> HIDE DEF g
<1>5. Live(g) = Live(f) /\ Files(g) = Files(f)
  BY <1>1 DEF Live, Files
<1>6. DirInjective(g) /\ NamesFindEntries(g)
  BY <1>1, <1>5 DEF FsInv, DirInjective, NamesFindEntries
<1>7. InodesTaken(g)
  BY <1>1, <1>5 DEF FsInv, InodesTaken, BlocksOwned, BlockOf
<1>8. BlocksOwned(g)
  <2>1. \A k \in Inumbers : g.inode_table[k] = IF k = i THEN node ELSE f.inode_table[k]
    BY <1>1 DEF FsInv, FsType
  <2>2. Files(f) \subseteq Inumbers
    BY DEF FsInv, InodesTaken, FsType
  <2> QED BY <1>1, <1>2, <1>3, <1>5, <2>1, <2>2 DEF FsInv, BlocksOwned, BlockOf, HasBlock
<1>9. FsInv(g)
  BY <1>4, <1>6, <1>7, <1>8 DEF FsInv
<1> QED BY <1>9 DEF g, node

\* A file is written to, in the block it has or in one that was FREE.  The file
\* may be one that was deleted.
LEMMA FileWritten ==
  ASSUME NEW f, FsInv(f), NEW i \in Inumbers, NEW size \in Nat \ {0}, NEW block,
         NEW blocks,
         \/ HasBlock(f, i) /\ block = f.inode_table[i].i_data_block /\ blocks = f.blocks
         \/ /\ ~HasBlock(f, i) /\ block \in Blocks \ f.blocks
            /\ blocks = f.blocks \cup {block},
         NEW data, data = [c \in Cells |-> data[c]],
         NEW table, DOMAIN table \subseteq Handles, table \in [DOMAIN table -> OpenFiles]
  PROVE  FsInv([f EXCEPT !.blocks = blocks, !.fs_data = data, !.open_file_table = table,
                         !.inode_table = [f.inode_table EXCEPT ![i] =
                            [i_size |-> size, i_data_block |-> block]]])
<1> DEFINE node == [i_size |-> size, i_data_block |-> block]
           g == [f EXCEPT !.blocks = blocks, !.fs_data = data, !.open_file_table = table,
                          !.inode_table = [f.inode_table EXCEPT ![i] = node]]
<1>1. /\ g.inodes = f.inodes /\ g.blocks = blocks /\ g.dir = f.dir
      /\ g.fs_data = data /\ g.open_file_table = table
      /\ g.inode_table = [f.inode_table EXCEPT ![i] = node]
  BY DEF FsInv, FsType
<1>2. block \in Blocks /\ blocks \subseteq Blocks
  BY DEF FsInv, BlocksOwned, FsType
<1>3. node \in InodeRecords /\ node.i_size > 0 /\ node.i_data_block = block
  BY <1>2 DEF InodeRecords
<1> HIDE DEF node
<1>4. FsType(g)
  BY <1>2, <1>3 DEF FsInv, FsType
<1> HIDE DEF g
<1>5. Live(g) = Live(f) /\ Files(g) = Files(f)
  BY <1>1 DEF Live, Files
<1>6. DirInjective(g) /\ NamesFindEntries(g) /\ InodesTaken(g)
  BY <1>1, <1>5 DEF FsInv, DirInjective, NamesFindEntries, InodesTaken
<1>7. BlocksOwned(g)
  <2>1. \A k \in Inumbers : g.inode_table[k] = IF k = i THEN node ELSE f.inode_table[k]
    BY <1>1 DEF FsInv, FsType
  <2>2. Files(f) \subseteq Inumbers /\ 0 \in f.blocks
    BY DEF FsInv, InodesTaken, FsType
  <2> QED BY <1>1, <1>2, <1>3, <1>5, <2>1, <2>2 DEF FsInv, BlocksOwned, HasBlock
<1>8. FsInv(g)
  BY <1>4, <1>6, <1>7 DEF FsInv
<1> QED BY <1>8 DEF g, node

-----------------------------------------------------------------------------
(* The calls *)

\* What add_to_open_file_table does to the table.
WithHandle(table, h, file) == [k \in DOMAIN table \cup {h} |-> IF k = h THEN file ELSE table[k]]

\* The lowest handle that was not in use is given out, if there is one.
GivesHandle(f, g, ret, file) ==
  \/ ret = -1 /\ Handles = DOMAIN f.open_file_table /\ g.open_file_table = f.open_file_table
  \/ /\ ret \in Handles \ DOMAIN f.open_file_table
     /\ ret = FirstOf(Handles \ DOMAIN f.open_file_table)
     /\ g.open_file_table = WithHandle(f.open_file_table, ret, file)

\* Nothing but a rewind keeps the mutex, nothing but a read panics.
SameFlags(f, g) == g.locked = f.locked /\ g.panicked = f.panicked
SameFiles(f, g) == /\ g.inodes = f.inodes /\ g.blocks = f.blocks /\ g.dir = f.dir
                   /\ g.inode_table = f.inode_table /\ g.fs_data = f.fs_data

\* add_to_open_file_table changes nothing else.
LEMMA HandleAdded ==
  ASSUME NEW f, FsInv(f), NEW inum \in Inumbers, NEW offset \in Nat
  PROVE  LET r == add_to_open_file_table(f, inum, offset)
         IN  /\ FsInv(r.fs) /\ SameFlags(f, r.fs) /\ SameFiles(f, r.fs) /\ r.data = <<>>
             /\ GivesHandle(f, r.fs, r.ret, [of_inumber |-> inum, of_offset |-> offset])
<1> DEFINE free == Handles \ DOMAIN f.open_file_table
           file == [of_inumber |-> inum, of_offset |-> offset]
           h == FirstOf(free)
           table == WithHandle(f.open_file_table, h, file)
           r == add_to_open_file_table(f, inum, offset)
<1>1. r = IF free = {} THEN Result(f, -1)
          ELSE Result([f EXCEPT !.open_file_table = table], h)
  BY DEF add_to_open_file_table, WithHandle
<1>2. CASE free = {}
  <2>1. Handles = DOMAIN f.open_file_table
    BY <1>2 DEF FsInv, FsType
  <2>2. r = Result(f, -1)
    BY <1>1, <1>2
  <2>3. r.fs = f /\ r.ret = -1 /\ r.data = <<>>
    BY <2>2 DEF Result
  <2> QED BY <2>1, <2>3 DEF SameFlags, SameFiles, GivesHandle
<1>3. CASE free # {}
  <2>1. free \in SUBSET Nat
    BY TfsAssumption DEF Handles
  <2>2. h \in free
    BY <1>3, <2>1, FirstOfIsLeast
  <2>3. file \in OpenFiles
    BY DEF OpenFiles
  <2>4. DOMAIN table \subseteq Handles /\ table \in [DOMAIN table -> OpenFiles]
    BY <2>2, <2>3 DEF FsInv, FsType, WithHandle
  <2> DEFINE g == [f EXCEPT !.open_file_table = table]
  <2>5. FsInv(g)
    BY <2>4, HandlesChanged
  <2>6. SameFlags(f, g) /\ SameFiles(f, g) /\ g.open_file_table = table
    BY DEF SameFlags, SameFiles, FsInv, FsType
  <2>7. r = Result(g, h)
    BY <1>1, <1>3
  <2> HIDE DEF free, file, h, table, r, g
  <2>8. r.ret = h /\ r.fs = g /\ r.data = <<>>
    BY <2>7 DEF Result
  <2>9. GivesHandle(f, g, h, file)
    BY <2>2, <2>6 DEF GivesHandle, free, table, h
  <2> QED BY <2>5, <2>6, <2>8, <2>9 DEF r, file
<1> QED BY <1>2, <1>3

\* Truncation leaves the file empty and everything else alone.
LEMMA Truncated ==
  ASSUME NEW f, FsInv(f), NEW i \in Files(f)
  PROVE  LET g == truncate(f, i)
         IN  /\ FsInv(g) /\ ~HasBlock(g, i)
             /\ \/ g = f
                \/ g = [f EXCEPT !.blocks = f.blocks \ BlockOf(f, i),
                                 !.inode_table = [f.inode_table EXCEPT ![i] =
                                    [f.inode_table[i] EXCEPT !.i_size = 0]]]
<1> DEFINE block == f.inode_table[i].i_data_block
           g == [f EXCEPT !.blocks = f.blocks \ BlockOf(f, i),
                          !.inode_table = [f.inode_table EXCEPT ![i] =
                             [f.inode_table[i] EXCEPT !.i_size = 0]]]
<1>1. i \in Inumbers /\ f.inode_table[i].i_size \in Nat
  BY DEF FsInv, InodesTaken, FsType, InodeRecords
<1>2. CASE f.inode_table[i].i_size = 0
  BY <1>2 DEF truncate, HasBlock
<1>3. CASE f.inode_table[i].i_size # 0
  <2>1. HasBlock(f, i) /\ block \in Blocks
    BY <1>1, <1>3 DEF HasBlock, FsInv, BlocksOwned
  <2>2. data_block_free(f, block) = [f EXCEPT !.blocks = f.blocks \ {block}]
    BY <2>1 DEF data_block_free
  <2>3. [data_block_free(f, block) EXCEPT !.inode_table[i].i_size = 0] = g
    BY <1>1, <2>1, <2>2 DEF FsInv, FsType, BlockOf
  <2>4. truncate(f, i) = g
    BY <1>3, <2>3 DEF truncate
  <2>5. ~HasBlock(g, i)
    BY <1>1 DEF HasBlock, FsInv, FsType, InodeRecords
  <2>6. FsInv(g)
    BY FileEmptied
  <2> HIDE DEF g
  <2>7. FsInv(truncate(f, i)) /\ ~HasBlock(truncate(f, i), i)
    BY <2>4, <2>5, <2>6
  <2> QED BY <2>4, <2>7 DEF g
<1> QED BY <1>2, <1>3

\* Opening a file that exists.
LEMMA OpenExisting ==
  ASSUME NEW f, FsInv(f), NEW i \in Files(f), NEW mode
  PROVE  LET r == open_existing(f, i, mode)
             offset == IF "APPEND" \in mode THEN r.fs.inode_table[i].i_size ELSE 0
         IN  /\ FsInv(r.fs) /\ SameFlags(f, r.fs) /\ r.data = <<>>
             /\ r.fs.dir = f.dir /\ r.fs.fs_data = f.fs_data
             /\ \A k \in Inumbers \ {i} : r.fs.inode_table[k] = f.inode_table[k]
             /\ "TRUNC" \in mode => ~HasBlock(r.fs, i)
             /\ "TRUNC" \notin mode => SameFiles(f, r.fs)
             /\ "TRUNC" \in mode => SameFiles(truncate(f, i), r.fs)
             /\ GivesHandle(f, r.fs, r.ret, [of_inumber |-> i, of_offset |-> offset])
<1> DEFINE f1 == IF "TRUNC" \in mode THEN truncate(f, i) ELSE f
           offset == IF "APPEND" \in mode THEN f1.inode_table[i].i_size ELSE 0
           r == add_to_open_file_table(f1, i, offset)
           file == [of_inumber |-> i, of_offset |-> offset]
<1>1. i \in Inumbers
  BY DEF FsInv, InodesTaken, FsType
<1>2. /\ FsInv(f1) /\ SameFlags(f, f1) /\ f1.dir = f.dir /\ f1.fs_data = f.fs_data
      /\ f1.open_file_table = f.open_file_table
      /\ \A k \in Inumbers \ {i} : f1.inode_table[k] = f.inode_table[k]
      /\ "TRUNC" \in mode => ~HasBlock(f1, i)
      /\ "TRUNC" \notin mode => f1 = f
  <2>1. CASE "TRUNC" \in mode
    <3>1. f1 = truncate(f, i)
      BY <2>1
    <3> HIDE DEF f1
    <3>2. FsInv(f1) /\ ~HasBlock(f1, i)
      BY <3>1, Truncated
    <3>3. CASE f1 = f
      BY <2>1, <3>2, <3>3 DEF SameFlags
    <3>4. CASE f1 = [f EXCEPT !.blocks = f.blocks \ BlockOf(f, i),
                              !.inode_table = [f.inode_table EXCEPT ![i] =
                                 [f.inode_table[i] EXCEPT !.i_size = 0]]]
      <4>1. /\ SameFlags(f, f1) /\ f1.dir = f.dir /\ f1.fs_data = f.fs_data
            /\ f1.open_file_table = f.open_file_table
            /\ \A k \in Inumbers \ {i} : f1.inode_table[k] = f.inode_table[k]
        BY <3>4 DEF SameFlags, FsInv, FsType
      <4> QED BY <2>1, <3>2, <4>1
    <3> QED BY <3>1, <3>3, <3>4, Truncated
  <2>2. CASE "TRUNC" \notin mode
    BY <2>2 DEF SameFlags
  <2> QED BY <2>1, <2>2
<1>3. open_existing(f, i, mode) = r
  BY DEF open_existing
<1> HIDE DEF f1
<1>4. offset \in Nat
  BY <1>1, <1>2 DEF FsInv, FsType, InodeRecords
<1> HIDE DEF offset
<1>5. /\ FsInv(r.fs) /\ SameFlags(f1, r.fs) /\ SameFiles(f1, r.fs) /\ r.data = <<>>
      /\ GivesHandle(f1, r.fs, r.ret, file)
  BY <1>1, <1>2, <1>4, HandleAdded
<1> HIDE DEF r
<1>6. /\ SameFlags(f, r.fs) /\ r.fs.dir = f.dir /\ r.fs.fs_data = f.fs_data
      /\ \A k \in Inumbers \ {i} : r.fs.inode_table[k] = f.inode_table[k]
      /\ "TRUNC" \in mode => ~HasBlock(r.fs, i)
      /\ "TRUNC" \notin mode => SameFiles(f, r.fs)
  BY <1>2, <1>5 DEF SameFlags, SameFiles, HasBlock
<1>7. GivesHandle(f, r.fs, r.ret, file)
  BY <1>2, <1>5 DEF GivesHandle
<1>8. offset = IF "APPEND" \in mode THEN r.fs.inode_table[i].i_size ELSE 0
  BY <1>5 DEF offset, SameFiles
<1>9. "TRUNC" \in mode => SameFiles(truncate(f, i), r.fs)
  BY <1>5 DEF f1
<1> HIDE DEF file
<1> QED BY <1>3, <1>5, <1>6, <1>7, <1>8, <1>9 DEF file

\* The inode and its block are FREE again; the entry stays.
LEMMA InodeDeleted ==
  ASSUME NEW f, FsType(f), NEW i \in f.inodes,
         HasBlock(f, i) => f.inode_table[i].i_data_block \in Blocks
  PROVE  inode_delete(f, i) = [f EXCEPT !.inodes = f.inodes \ {i},
                                        !.blocks = f.blocks \ BlockOf(f, i)]
<1> DEFINE inode == f.inode_table[i]
           f1 == IF inode.i_size > 0 THEN data_block_free(f, inode.i_data_block) ELSE f
<1>1. f1 = [f EXCEPT !.blocks = f.blocks \ BlockOf(f, i)]
  BY DEF HasBlock, BlockOf, data_block_free, FsType
<1>2. inode_delete(f, i) = [f1 EXCEPT !.inodes = @ \ {i}]
  BY DEF inode_delete
<1> HIDE DEF f1
<1> QED BY <1>1, <1>2 DEF FsType

\* The tables of f with a new file in them.
Entered(f, n, e, i) ==
  [f EXCEPT !.inodes = f.inodes \cup {i},
            !.inode_table = [f.inode_table EXCEPT ![i] = EmptyInode],
            !.dir = [f.dir EXCEPT ![e] = [d_name |-> n, d_inumber |-> i]]]

\* A file cannot be created: its name is too long or a table is full.
NoRoomFor(f, n) == n \in LongPaths \/ Live(f) = Slots \/ Inumbers \subseteq f.inodes

\* Opening a file that does not exist makes an empty one, or changes nothing that
\* a caller can see.
LEMMA OpenNew ==
  ASSUME NEW f, FsInv(f), NEW n \in Paths, \A k \in Live(f) : f.dir[k].d_name # n
  PROVE  LET r == open_new(f, n)
         IN  /\ FsInv(r.fs) /\ SameFlags(f, r.fs) /\ r.data = <<>>
             /\ r.fs.fs_data = f.fs_data /\ r.fs.blocks = f.blocks
             /\ \A k \in f.inodes : r.fs.inode_table[k] = f.inode_table[k]
             /\ \/ /\ r.ret = -1 /\ NoRoomFor(f, n)
                   /\ r.fs.dir = f.dir /\ r.fs.open_file_table = f.open_file_table
                \/ /\ n \notin LongPaths
                   /\ \E e \in Slots \ Live(f), i \in Inumbers \ f.inodes :
                        /\ SameFiles(Entered(f, n, e, i), r.fs)
                        /\ GivesHandle(f, r.fs, r.ret, [of_inumber |-> i, of_offset |-> 0])
<1> DEFINE created == inode_create(f, "FILE")
           i == created.ret
           f1 == created.fs
           entered == add_dir_entry(f1, n, i)
           r == open_new(f, n)
<1>1. r = IF i = -1 THEN created
          ELSE IF entered.ret = -1 THEN Result(inode_delete(f1, i), -1)
          ELSE add_to_open_file_table(entered.fs, i, 0)
  BY DEF open_new
<1>2. FsType(f) /\ -1 \notin Inumbers
  BY TfsAssumption DEF FsInv, Inumbers
<1> HIDE DEF r
<1>3. \/ i = -1 /\ f1 = f /\ Inumbers \subseteq f.inodes
      \/ /\ i \in Inumbers \ f.inodes
         /\ f1 = [f EXCEPT !.inodes = f.inodes \cup {i},
                           !.inode_table = [f.inode_table EXCEPT ![i] = EmptyInode]]
  BY <1>2, FileCreated
<1>4. CASE i = -1
  <2>1. created.fs = f /\ Inumbers \subseteq f.inodes
    <3> HIDE DEF created
    <3> QED BY <1>2, <1>4, <1>3
  <2>2. created.data = <<>>
    BY <1>4 DEF inode_create, inode_alloc, Result
  <2>3. r = created
    BY <1>1, <1>4
  <2> HIDE DEF created
  <2> QED BY <1>4, <2>1, <2>2, <2>3 DEF SameFlags, NoRoomFor, r
<1>5. CASE i # -1
  <2>1. /\ i \in Inumbers \ f.inodes
        /\ f1 = [f EXCEPT !.inodes = f.inodes \cup {i},
                          !.inode_table = [f.inode_table EXCEPT ![i] = EmptyInode]]
    <3> HIDE DEF created
    <3> QED BY <1>2, <1>5, <1>3
  <2> HIDE DEF i, f1
  <2>2. EmptyInode \in InodeRecords /\ EmptyInode.i_size = 0
    BY DEF EmptyInode, InodeRecords
  <2>3. /\ FsType(f1) /\ f1.dir = f.dir /\ f1.inodes = f.inodes \cup {i}
        /\ f1.blocks = f.blocks /\ f1.inode_table[i] = EmptyInode
    BY <1>2, <2>1, <2>2 DEF FsType
  <2>4. Live(f1) = Live(f)
    BY <2>3 DEF Live
  <2>5. CASE entered.ret = -1
    <3> DEFINE g == [f EXCEPT !.inode_table = [f.inode_table EXCEPT ![i] = EmptyInode]]
    <3>1. n \in LongPaths \/ Live(f) = Slots
      BY <2>3, <2>4, <2>5, EntryAdded
    <3>2. ~HasBlock(f1, i)
      BY <2>2, <2>3 DEF HasBlock
    <3>3. inode_delete(f1, i) = [f1 EXCEPT !.inodes = f1.inodes \ {i},
                                           !.blocks = f1.blocks \ BlockOf(f1, i)]
      BY <2>3, <3>2, InodeDeleted
    <3>4. /\ f1.inodes \ {i} = f.inodes
          /\ f1.blocks \ BlockOf(f1, i) = f.blocks
      BY <2>1, <2>3, <3>2 DEF BlockOf
    <3>5. inode_delete(f1, i) = g
      BY <1>2, <2>1, <3>3, <3>4 DEF FsType
    <3>6. FsInv(g)
      BY <2>1, InodeRecycled
    <3>7. /\ SameFlags(f, g) /\ g.fs_data = f.fs_data /\ g.blocks = f.blocks
          /\ g.dir = f.dir /\ g.open_file_table = f.open_file_table
          /\ \A k \in f.inodes : g.inode_table[k] = f.inode_table[k]
      BY <1>2, <2>1 DEF SameFlags, FsType
    <3>8. r = Result(inode_delete(f1, i), -1)
      BY <1>1, <1>5, <2>5
    <3> HIDE DEF g
    <3>9. r.fs = g /\ r.ret = -1 /\ r.data = <<>>
      BY <3>5, <3>8 DEF Result
    <3> QED BY <3>1, <3>6, <3>7, <3>9 DEF NoRoomFor, r
  <2>6. CASE entered.ret # -1
    <3>1. n \notin LongPaths
      BY <2>3, <2>6, EntryAdded
    <3>2. PICK e \in Slots \ Live(f) :
            /\ \A k \in Slots \ Live(f) : e <= k
            /\ entered.fs = [f1 EXCEPT !.dir = [f1.dir EXCEPT ![e] =
                               [d_name |-> n, d_inumber |-> i]]]
      <4>1. \E e \in Slots \ Live(f1) :
              /\ \A k \in Slots \ Live(f1) : e <= k
              /\ entered.fs = [f1 EXCEPT !.dir = [f1.dir EXCEPT ![e] =
                                 [d_name |-> n, d_inumber |-> i]]]
        <5>1. FsType(f1)
          BY <2>3
        <5>2. \/ entered.ret = -1
              \/ \E e \in Slots \ Live(f1) :
                   /\ \A k \in Slots \ Live(f1) : e <= k
                   /\ entered.fs = [f1 EXCEPT !.dir = [f1.dir EXCEPT ![e] =
                                      [d_name |-> n, d_inumber |-> i]]]
          BY ONLY <5>1, EntryAdded DEF entered
        <5> HIDE DEF entered
        <5> QED BY ONLY <2>6, <5>2
      <4> HIDE DEF entered
      <4> QED BY <2>4, <4>1
    <3> DEFINE g == Entered(f, n, e, i)
    <3>3. entered.fs = g
      BY <1>2, <2>1, <2>3, <3>2 DEF FsType, Entered
    <3>4. FsInv(g)
      BY <2>1, <3>2, FileEntered DEF Entered
    <3>5. /\ SameFlags(f, g) /\ g.fs_data = f.fs_data /\ g.blocks = f.blocks
          /\ g.open_file_table = f.open_file_table
          /\ \A k \in f.inodes : g.inode_table[k] = f.inode_table[k]
      BY <1>2, <2>1 DEF SameFlags, FsType, Entered
    <3>6. r = add_to_open_file_table(entered.fs, i, 0)
      BY <1>1, <1>5, <2>6
    <3> HIDE DEF g, entered
    <3>7. /\ FsInv(r.fs) /\ SameFlags(g, r.fs) /\ SameFiles(g, r.fs) /\ r.data = <<>>
          /\ GivesHandle(g, r.fs, r.ret, [of_inumber |-> i, of_offset |-> 0])
      BY <2>1, <3>3, <3>4, <3>6, HandleAdded
    <3>8. /\ SameFlags(f, r.fs) /\ r.fs.fs_data = f.fs_data /\ r.fs.blocks = f.blocks
          /\ \A k \in f.inodes : r.fs.inode_table[k] = f.inode_table[k]
          /\ GivesHandle(f, r.fs, r.ret, [of_inumber |-> i, of_offset |-> 0])
      BY <3>5, <3>7 DEF SameFlags, SameFiles, GivesHandle
    <3> QED BY <2>1, <3>1, <3>2, <3>7, <3>8 DEF g, r
  <2> QED BY <2>5, <2>6
<1> QED BY <1>4, <1>5

\* tfs_open takes one of three branches.
LEMMA OpenCases ==
  ASSUME NEW f, FsInv(f), NEW n, NEW mode
  PROVE  \/ /\ tfs_open(f, n, mode) = Result(f, -1)
            /\ n \notin Paths \/ "CREAT" \notin mode
            /\ \A k \in Live(f) : f.dir[k].d_name # n
         \/ \E e \in Live(f) :
              /\ n \in Paths /\ f.dir[e].d_name = n
              /\ f.dir[e].d_inumber \in Files(f)
              /\ tfs_open(f, n, mode) = open_existing(f, f.dir[e].d_inumber, mode)
         \/ /\ tfs_open(f, n, mode) = open_new(f, n)
            /\ n \in Paths /\ "CREAT" \in mode
            /\ \A k \in Live(f) : f.dir[k].d_name # n
<1>1. FsType(f) /\ \A k \in Live(f) : f.dir[k].d_name \in Paths
  BY DEF FsInv, NamesFindEntries
<1>2. CASE n \notin Paths
  BY <1>1, <1>2 DEF tfs_open
<1>3. CASE n \in Paths
  <2>1. tfs_lookup(f, n) = find_in_dir(f.dir, n)
    BY <1>3 DEF tfs_lookup
  <2>2. CASE find_in_dir(f.dir, n) = -1 /\ \A k \in Live(f) : f.dir[k].d_name # n
    BY <1>3, <2>1, <2>2 DEF tfs_open
  <2>3. CASE \E e \in Live(f) : /\ f.dir[e].d_name = n
                                /\ find_in_dir(f.dir, n) = f.dir[e].d_inumber
    <3>1. PICK e \in Live(f) : /\ f.dir[e].d_name = n
                               /\ find_in_dir(f.dir, n) = f.dir[e].d_inumber
      BY <2>3
    <3>2. f.dir[e].d_inumber \in Files(f) /\ f.dir[e].d_inumber \in Inumbers
      BY DEF Files, FsInv, InodesTaken, FsType
    <3>3. f.dir[e].d_inumber >= 0
      BY <3>2, TfsAssumption DEF Inumbers
    <3>4. tfs_open(f, n, mode) = open_existing(f, f.dir[e].d_inumber, mode)
      BY <1>3, <2>1, <3>1, <3>3 DEF tfs_open
    <3> QED BY <1>3, <3>1, <3>2, <3>4
  <2> QED BY <1>1, <2>2, <2>3, FoundInDir
<1> QED BY <1>2, <1>3

\* A handle of some file is given out, or none.
MayGiveHandle(f, g, ret) ==
  \/ ret = -1 /\ g.open_file_table = f.open_file_table
  \/ /\ ret \in Handles \ DOMAIN f.open_file_table
     /\ \E file \in OpenFiles :
          g.open_file_table = WithHandle(f.open_file_table, ret, file)

\* However a call of tfs_open ends, the tables are consistent and no other handle
\* has moved.
LEMMA OpenKeepsInv ==
  ASSUME NEW f, FsInv(f), NEW n, NEW mode
  PROVE  LET r == tfs_open(f, n, mode)
         IN  /\ FsInv(r.fs) /\ SameFlags(f, r.fs) /\ r.data = <<>>
             /\ r.fs.fs_data = f.fs_data
             /\ MayGiveHandle(f, r.fs, r.ret)
<1> DEFINE r == tfs_open(f, n, mode)
<1>1. CASE r = Result(f, -1)
  <2>1. r.fs = f /\ r.ret = -1 /\ r.data = <<>>
    BY <1>1 DEF Result
  <2> QED BY <2>1 DEF SameFlags, MayGiveHandle
<1>2. CASE \E i \in Files(f) : r = open_existing(f, i, mode)
  <2>1. PICK i \in Files(f) : r = open_existing(f, i, mode)
    BY <1>2
  <2> DEFINE offset == IF "APPEND" \in mode THEN r.fs.inode_table[i].i_size ELSE 0
  <2>2. /\ FsInv(r.fs) /\ SameFlags(f, r.fs) /\ r.data = <<>>
        /\ r.fs.fs_data = f.fs_data
        /\ GivesHandle(f, r.fs, r.ret, [of_inumber |-> i, of_offset |-> offset])
    BY <2>1, OpenExisting
  <2>3. i \in Inumbers /\ offset \in Nat
    BY <2>2 DEF FsInv, InodesTaken, FsType, InodeRecords
  <2>4. [of_inumber |-> i, of_offset |-> offset] \in OpenFiles
    BY <2>3 DEF OpenFiles
  <2> QED BY <2>2, <2>4 DEF GivesHandle, MayGiveHandle
<1>3. CASE /\ r = open_new(f, n) /\ n \in Paths
           /\ \A k \in Live(f) : f.dir[k].d_name # n
  <2>1. /\ FsInv(r.fs) /\ SameFlags(f, r.fs) /\ r.data = <<>>
        /\ r.fs.fs_data = f.fs_data
        /\ \/ r.ret = -1 /\ r.fs.open_file_table = f.open_file_table
           \/ \E i \in Inumbers : GivesHandle(f, r.fs, r.ret, [of_inumber |-> i, of_offset |-> 0])
    BY <1>3, OpenNew
  <2>2. \A i \in Inumbers : [of_inumber |-> i, of_offset |-> 0] \in OpenFiles
    BY DEF OpenFiles
  <2> QED BY <2>1, <2>2 DEF GivesHandle, MayGiveHandle
<1> QED BY <1>1, <1>2, <1>3, OpenCases

\* Opening a file empties it or leaves it, and leaves every other.
LEMMA OpenKeepsFiles ==
  ASSUME NEW f, FsInv(f), NEW n, NEW mode, NEW x \in Files(f)
  PROVE  LET r == tfs_open(f, n, mode)
         IN  /\ r.fs.fs_data = f.fs_data
             /\ \/ r.fs.inode_table[x] = f.inode_table[x]
                \/ r.fs.inode_table[x].i_size = 0
<1> DEFINE r == tfs_open(f, n, mode)
<1> SUFFICES /\ r.fs.fs_data = f.fs_data
             /\ \/ r.fs.inode_table[x] = f.inode_table[x]
                \/ r.fs.inode_table[x].i_size = 0
  OBVIOUS
<1>1. CASE r = Result(f, -1)
  BY <1>1 DEF Result
<1>2. CASE \E i \in Files(f) : r = open_existing(f, i, mode)
  <2>1. PICK i \in Files(f) : r = open_existing(f, i, mode)
    BY <1>2
  <2> DEFINE offset == IF "APPEND" \in mode THEN r.fs.inode_table[i].i_size ELSE 0
  <2>2. /\ FsInv(r.fs) /\ r.fs.fs_data = f.fs_data
        /\ \A j \in Inumbers \ {i} : r.fs.inode_table[j] = f.inode_table[j]
        /\ "TRUNC" \in mode => ~HasBlock(r.fs, i)
        /\ "TRUNC" \notin mode => SameFiles(f, r.fs)
        /\ GivesHandle(f, r.fs, r.ret, [of_inumber |-> i, of_offset |-> offset])
    BY <2>1, OpenExisting
  <2>3. x \in Inumbers /\ r.fs.inode_table[x].i_size \in Nat
    BY <2>2 DEF FsInv, InodesTaken, FsType, InodeRecords
  <2> HIDE DEF r
  <2>4. CASE x # i
    BY <2>2, <2>3, <2>4
  <2>5. CASE x = i
    BY <2>2, <2>3, <2>5 DEF HasBlock, SameFiles
  <2> QED BY <2>4, <2>5 DEF r
<1>3. CASE /\ r = open_new(f, n) /\ n \in Paths
           /\ \A j \in Live(f) : f.dir[j].d_name # n
  <2>1. r.fs.fs_data = f.fs_data /\ \A j \in f.inodes : r.fs.inode_table[j] = f.inode_table[j]
    BY <1>3, OpenNew
  <2> HIDE DEF r
  <2> QED BY <2>1 DEF FsInv, InodesTaken, r
<1> QED BY <1>1, <1>2, <1>3, OpenCases

\* A handle is given back.
LEMMA CloseKeepsInv ==
  ASSUME NEW f, FsInv(f), NEW h
  PROVE  LET r == tfs_close(f, h)
         IN  /\ FsInv(r.fs) /\ SameFlags(f, r.fs) /\ SameFiles(f, r.fs) /\ r.data = <<>>
             /\ r.ret = IF IsOpen(f, h) THEN 0 ELSE -1
             /\ r.fs.open_file_table =
                  [k \in DOMAIN f.open_file_table \ {h} |-> f.open_file_table[k]]
<1> DEFINE table == [k \in DOMAIN f.open_file_table \ {h} |-> f.open_file_table[k]]
           g == [f EXCEPT !.open_file_table = table]
           r == tfs_close(f, h)
<1>1. CASE IsOpen(f, h)
  <2>1. r = Result(g, 0)
    BY <1>1 DEF tfs_close, remove_from_open_file_table
  <2>2. DOMAIN table \subseteq Handles /\ table \in [DOMAIN table -> OpenFiles]
    BY DEF FsInv, FsType
  <2>3. FsInv(g)
    BY <2>2, HandlesChanged
  <2>4. SameFlags(f, g) /\ SameFiles(f, g) /\ g.open_file_table = table
    BY DEF SameFlags, SameFiles, FsInv, FsType
  <2> HIDE DEF g, r, table
  <2>5. r.fs = g /\ r.ret = 0 /\ r.data = <<>>
    BY <2>1 DEF Result
  <2> QED BY <1>1, <2>3, <2>4, <2>5 DEF r, table
<1>2. CASE ~IsOpen(f, h)
  <2>1. r.fs = f /\ r.ret = -1 /\ r.data = <<>>
    BY <1>2 DEF tfs_close, Result
  <2>2. f.open_file_table = table
    BY <1>2 DEF IsOpen, FsInv, FsType
  <2> QED BY <1>2, <2>1, <2>2 DEF SameFlags, SameFiles
<1> QED BY <1>1, <1>2

\* A write of buffer with handle h took place, in this block.
Wrote(f, g, h, buffer, block) ==
  LET file == f.open_file_table[h]
      i == file.of_inumber
      end == file.of_offset + Len(buffer)
  IN  /\ \/ HasBlock(f, i) /\ block = f.inode_table[i].i_data_block /\ g.blocks = f.blocks
         \/ /\ ~HasBlock(f, i) /\ block \in Blocks \ f.blocks
            /\ g.blocks = f.blocks \cup {block}
      /\ g.inodes = f.inodes /\ g.dir = f.dir
      /\ g.inode_table = [f.inode_table EXCEPT ![i] =
           [i_size |-> IF end > f.inode_table[i].i_size THEN end ELSE f.inode_table[i].i_size,
            i_data_block |-> block]]
      /\ g.fs_data = put_cells(f.fs_data, data_block_get(block) + file.of_offset, buffer)
      /\ g.open_file_table = [f.open_file_table EXCEPT ![h] =
           [of_inumber |-> i, of_offset |-> end]]

\* A write fails and changes nothing, or happens; it never panics, not even with a
\* handle whose file was deleted.
LEMMA WriteKeepsInv ==
  ASSUME NEW f, FsInv(f), NEW h, NEW C, NEW buffer \in Seq(C)
  PROVE  LET r == tfs_write(f, h, buffer)
             i == f.open_file_table[h].of_inumber
         IN  /\ FsInv(r.fs) /\ SameFlags(f, r.fs) /\ r.data = <<>>
             /\ \/ r.fs = f /\ r.ret = -1 /\ ~IsOpen(f, h)
                \/ r.fs = f /\ r.ret = 0 /\ IsOpen(f, h) /\ buffer = <<>>
                \/ /\ r.fs = f /\ r.ret = -1 /\ IsOpen(f, h) /\ buffer # <<>>
                   /\ ~HasBlock(f, i) /\ Blocks \subseteq f.blocks
                \/ /\ r.ret = Len(buffer) /\ IsOpen(f, h) /\ buffer # <<>>
                   /\ \E block \in Blocks : Wrote(f, r.fs, h, buffer, block)
<1> DEFINE r == tfs_write(f, h, buffer)
           i == f.open_file_table[h].of_inumber
           off == f.open_file_table[h].of_offset
           inode == f.inode_table[i]
           got == IF inode.i_size = 0 THEN data_block_alloc(f) ELSE Result(f, inode.i_data_block)
           end == off + Len(buffer)
           size == IF end > inode.i_size THEN end ELSE inode.i_size
           node == [i_size |-> size, i_data_block |-> got.ret]
           start == data_block_get(got.ret) + off
           g == [got.fs EXCEPT !.fs_data = put_cells(@, start, buffer),
                               !.open_file_table[h].of_offset = end,
                               !.inode_table[i] = node]
<1>1. r = IF ~IsOpen(f, h) THEN Result(f, -1)
          ELSE IF buffer = <<>> THEN Result(f, 0)
          ELSE IF inode.i_size = 0 /\ got.ret = -1 THEN got
          ELSE IF got.ret \notin Blocks THEN Result(Panic(f), -1)
          ELSE Result(g, Len(buffer))
  BY DEF tfs_write
<1>2. SameFlags(f, f)
  BY DEF SameFlags
<1> HIDE DEF r, g
<1>3. CASE ~IsOpen(f, h)
  <2>1. r = Result(f, -1)
    BY <1>1, <1>3
  <2>2. r.fs = f /\ r.ret = -1 /\ r.data = <<>>
    BY <2>1 DEF Result
  <2> HIDE DEF i
  <2> QED BY <1>2, <1>3, <2>2 DEF r
<1>4. CASE IsOpen(f, h) /\ buffer = <<>>
  <2>1. r = Result(f, 0)
    BY <1>1, <1>4
  <2>2. r.fs = f /\ r.ret = 0 /\ r.data = <<>>
    BY <2>1 DEF Result
  <2> HIDE DEF i
  <2> QED BY <1>2, <1>4, <2>2 DEF r
<1>5. CASE IsOpen(f, h) /\ buffer # <<>>
  <2>1. /\ FsType(f) /\ f.open_file_table[h] \in OpenFiles /\ i \in Inumbers /\ off \in Nat
        /\ inode \in InodeRecords /\ inode.i_size \in Nat
    BY <1>5 DEF IsOpen, FsInv, FsType, OpenFiles, InodeRecords
  <2>2. Len(buffer) \in Nat \ {0}
    BY <1>5
  <2>3. size \in Nat \ {0}
    BY <2>1, <2>2
  <2>4. HasBlock(f, i) <=> inode.i_size # 0
    BY <2>1 DEF HasBlock
  <2>5. CASE inode.i_size = 0 /\ got.ret = -1
    <3>1. got = data_block_alloc(f)
      BY <2>5
    <3>2. r = got
      BY <1>1, <1>5, <2>5
    <3>3. got.data = <<>>
      BY <3>1 DEF data_block_alloc, Result
    <3>4. -1 \notin Blocks
      BY TfsAssumption DEF Blocks
    <3> HIDE DEF got
    <3>5. got.fs = f /\ Blocks \subseteq f.blocks
      BY <2>1, <2>5, <3>1, <3>4, BlockAllocated
    <3> QED BY <1>2, <1>5, <2>4, <2>5, <3>2, <3>3, <3>5 DEF r
  <2>6. CASE ~(inode.i_size = 0 /\ got.ret = -1)
    <3>1. \/ /\ HasBlock(f, i) /\ got.ret = inode.i_data_block /\ got.fs = f
             /\ got.ret \in Blocks
          \/ /\ ~HasBlock(f, i) /\ got.ret \in Blocks \ f.blocks
             /\ got.fs = [f EXCEPT !.blocks = f.blocks \cup {got.ret}]
      <4>1. CASE inode.i_size = 0
        <5>1. got = data_block_alloc(f)
          BY <4>1
        <5> HIDE DEF got
        <5> QED BY <2>1, <2>4, <2>6, <4>1, <5>1, BlockAllocated
      <4>2. CASE inode.i_size # 0
        <5>1. got.ret = inode.i_data_block /\ got.fs = f
          BY <4>2 DEF Result
        <5> HIDE DEF got
        <5> QED BY <2>1, <2>4, <4>2, <5>1 DEF FsInv, BlocksOwned
      <4> QED BY <4>1, <4>2
    <3> DEFINE block == got.ret
               blocks == got.fs.blocks
               data == put_cells(f.fs_data, start, buffer)
               table == [f.open_file_table EXCEPT ![h] = [of_inumber |-> i, of_offset |-> end]]
               g1 == [f EXCEPT !.blocks = blocks, !.fs_data = data,
                               !.open_file_table = table,
                               !.inode_table = [f.inode_table EXCEPT ![i] = node]]
    <3> HIDE DEF got
    <3>2. block \in Blocks /\ blocks \subseteq Blocks
      BY <2>1, <3>1 DEF FsType
    <3>3. \/ HasBlock(f, i) /\ block = f.inode_table[i].i_data_block /\ blocks = f.blocks
          \/ ~HasBlock(f, i) /\ block \in Blocks \ f.blocks /\ blocks = f.blocks \cup {block}
      BY <2>1, <3>1 DEF FsType
    <3>4. [f.open_file_table[h] EXCEPT !.of_offset = end] = [of_inumber |-> i, of_offset |-> end]
      BY <2>1 DEF OpenFiles
    <3>5. got.fs = [f EXCEPT !.blocks = blocks]
      BY <2>1, <3>1 DEF FsType
    <3>6. g = g1
      BY <2>1, <3>4, <3>5 DEF g, FsType
    <3>7. data = [c \in Cells |-> data[c]]
      BY <2>1 DEF put_cells, FsType
    <3>8. DOMAIN table \subseteq Handles /\ table \in [DOMAIN table -> OpenFiles]
      BY <1>5, <2>1, <2>2 DEF FsType, OpenFiles, IsOpen
    <3> HIDE DEF data, table, blocks, size, block
    <3>9. FsInv(g1)
      BY <2>1, <2>3, <3>3, <3>7, <3>8, FileWritten DEF block
    <3>10. SameFlags(f, g1) /\ Wrote(f, g1, h, buffer, block)
      BY <2>1, <3>3 DEF SameFlags, FsType, Wrote, data, table, size, block
    <3>11. r = Result(g, Len(buffer))
      BY <1>1, <1>5, <2>6, <3>2 DEF block
    <3> HIDE DEF g1, end
    <3>12. r.fs = g1 /\ r.ret = Len(buffer) /\ r.data = <<>>
      BY <3>6, <3>11 DEF Result
    <3> QED BY <1>5, <3>2, <3>9, <3>10, <3>12 DEF r
  <2> QED BY <2>5, <2>6
<1> QED BY <1>3, <1>4, <1>5

\* A read of len with handle h took place.
ReadFrom(f, g, h, len, data) ==
  LET file == f.open_file_table[h]
      start == data_block_get(f.inode_table[file.of_inumber].i_data_block) + file.of_offset
  IN  /\ SameFlags(f, g) /\ SameFiles(f, g)
      /\ data = [k \in 1 .. len |-> f.fs_data[start + k - 1]]
      /\ g.open_file_table = [f.open_file_table EXCEPT ![h] =
           [of_inumber |-> file.of_inumber, of_offset |-> file.of_offset + len]]

\* A read fails, happens, or is of a file that never had a block and panics.
LEMMA ReadKeepsInv ==
  ASSUME NEW f, FsInv(f), NEW h, NEW len \in Nat
  PROVE  LET r == tfs_read(f, h, len)
             i == f.open_file_table[h].of_inumber
         IN  /\ FsInv(r.fs) /\ SameFiles(f, r.fs) /\ r.fs.locked = f.locked
             /\ \/ r.fs = f /\ r.ret = -1 /\ r.data = <<>> /\ ~IsOpen(f, h)
                \/ r.fs = f /\ r.ret = 0 /\ r.data = <<>> /\ IsOpen(f, h) /\ len = 0
                \/ /\ r.fs = Panic(f) /\ r.ret = -1 /\ IsOpen(f, h) /\ len # 0
                   /\ ~HasBlock(f, i)
                \/ /\ r.ret = len /\ IsOpen(f, h) /\ len # 0
                   /\ ReadFrom(f, r.fs, h, len, r.data)
<1> DEFINE r == tfs_read(f, h, len)
           i == f.open_file_table[h].of_inumber
           off == f.open_file_table[h].of_offset
           bnum == f.inode_table[i].i_data_block
           start == data_block_get(bnum) + off
           g == [f EXCEPT !.open_file_table[h].of_offset = @ + len]
           data == [k \in 1 .. len |-> f.fs_data[start + k - 1]]
<1>1. r = IF ~IsOpen(f, h) THEN Result(f, -1)
          ELSE IF len = 0 THEN Result(f, 0)
          ELSE IF bnum \notin Blocks THEN Result(Panic(f), -1)
          ELSE [fs |-> g, ret |-> len, data |-> data]
  BY DEF tfs_read
<1>2. SameFiles(f, f)
  BY DEF SameFiles
<1> HIDE DEF r, g, data
<1>3. CASE ~IsOpen(f, h)
  BY <1>1, <1>2, <1>3 DEF Result, r
<1>4. CASE IsOpen(f, h) /\ len = 0
  BY <1>1, <1>2, <1>4 DEF Result, r
<1>5. CASE IsOpen(f, h) /\ len # 0 /\ bnum \notin Blocks
  <2>1. r.fs = Panic(f) /\ r.ret = -1
    BY <1>1, <1>5 DEF Result
  <2>2. FsInv(Panic(f)) /\ SameFiles(f, Panic(f)) /\ Panic(f).locked = f.locked
    <3>1. FsInv(Panic(f))
      BY FlagsChanged DEF Panic
    <3>2. SameFiles(f, Panic(f)) /\ Panic(f).locked = f.locked
      BY DEF Panic, SameFiles, FsInv, FsType
    <3> QED BY <3>1, <3>2
  <2>3. i \in Inumbers
    BY <1>5 DEF IsOpen, FsInv, FsType, OpenFiles
  <2>4. ~HasBlock(f, i)
    BY <1>5, <2>3 DEF FsInv, BlocksOwned
  <2> QED BY <1>5, <2>1, <2>2, <2>4 DEF r
<1>6. CASE IsOpen(f, h) /\ len # 0 /\ bnum \in Blocks
  <2> DEFINE table == [f.open_file_table EXCEPT ![h] =
                         [of_inumber |-> i, of_offset |-> off + len]]
  <2>1. r.fs = g /\ r.ret = len /\ r.data = data
    BY <1>1, <1>6
  <2>2. f.open_file_table[h] \in OpenFiles /\ off \in Nat /\ i \in Inumbers
    BY <1>6 DEF IsOpen, FsInv, FsType, OpenFiles
  <2>3. DOMAIN table \subseteq Handles /\ table \in [DOMAIN table -> OpenFiles]
    <3>1. [of_inumber |-> i, of_offset |-> off + len] \in OpenFiles
      BY <2>2 DEF OpenFiles
    <3> QED BY <3>1 DEF FsInv, FsType
  <2>4. g = [f EXCEPT !.open_file_table = table]
    BY <2>2 DEF g, FsInv, FsType, OpenFiles
  <2> HIDE DEF table
  <2>5. FsInv(g)
    BY <2>3, <2>4, HandlesChanged
  <2>6. SameFlags(f, g) /\ SameFiles(f, g) /\ g.open_file_table = table
    BY <2>4 DEF SameFlags, SameFiles, FsInv, FsType
  <2>7. ReadFrom(f, g, h, len, data)
    BY <2>6 DEF ReadFrom, table, data
  <2> QED BY <1>6, <2>1, <2>5, <2>6, <2>7 DEF r, SameFlags
<1> QED BY <1>3, <1>4, <1>5, <1>6

\* A rewind moves its handle to 0, or keeps the mutex if it is there.
LEMMA RewindKeepsInv ==
  ASSUME NEW f, FsInv(f), NEW h
  PROVE  LET r == tfs_rewind_offset(f, h)
         IN  /\ FsInv(r.fs) /\ SameFiles(f, r.fs) /\ r.fs.panicked = f.panicked
             /\ r.data = <<>> /\ r.ret = IF IsOpen(f, h) THEN 0 ELSE -1
             /\ \/ r.fs = f /\ ~IsOpen(f, h)
                \/ /\ IsOpen(f, h) /\ f.open_file_table[h].of_offset = 0
                   /\ r.fs = [f EXCEPT !.locked = TRUE]
                \/ /\ IsOpen(f, h) /\ f.open_file_table[h].of_offset # 0
                   /\ r.fs.locked = f.locked
                   /\ r.fs.open_file_table = [f.open_file_table EXCEPT ![h] =
                        [of_inumber |-> f.open_file_table[h].of_inumber, of_offset |-> 0]]
<1> DEFINE r == tfs_rewind_offset(f, h)
           i == f.open_file_table[h].of_inumber
           off == f.open_file_table[h].of_offset
           g == [f EXCEPT !.open_file_table[h].of_offset = 0]
<1>1. r = IF ~IsOpen(f, h) THEN Result(f, -1)
          ELSE IF off = 0 THEN Result([f EXCEPT !.locked = TRUE], 0)
          ELSE Result(g, 0)
  BY DEF tfs_rewind_offset
<1> HIDE DEF r, g
<1>2. CASE ~IsOpen(f, h)
  <2>1. r.fs = f /\ r.ret = -1 /\ r.data = <<>>
    BY <1>1, <1>2 DEF Result
  <2> QED BY <1>2, <2>1 DEF SameFiles, r
<1>3. CASE IsOpen(f, h) /\ off = 0
  <2> DEFINE g1 == [f EXCEPT !.locked = TRUE]
  <2>1. FsInv(g1) /\ SameFiles(f, g1) /\ g1.panicked = f.panicked
    <3>1. FsInv(g1)
      BY FlagsChanged
    <3>2. SameFiles(f, g1) /\ g1.panicked = f.panicked
      BY DEF SameFiles, FsInv, FsType
    <3> QED BY <3>1, <3>2
  <2>2. r = Result(g1, 0)
    BY <1>1, <1>3
  <2> HIDE DEF g1
  <2>3. r.fs = g1 /\ r.ret = 0 /\ r.data = <<>>
    BY <2>2 DEF Result
  <2> QED BY <1>3, <2>1, <2>3 DEF r, g1
<1>4. CASE IsOpen(f, h) /\ off # 0
  <2> DEFINE table == [f.open_file_table EXCEPT ![h] = [of_inumber |-> i, of_offset |-> 0]]
  <2>1. r.fs = g /\ r.ret = 0 /\ r.data = <<>>
    BY <1>1, <1>4 DEF Result
  <2>2. f.open_file_table[h] \in OpenFiles /\ i \in Inumbers
    BY <1>4 DEF IsOpen, FsInv, FsType, OpenFiles
  <2>3. DOMAIN table \subseteq Handles /\ table \in [DOMAIN table -> OpenFiles]
    BY <1>4, <2>2 DEF FsInv, FsType, OpenFiles
  <2>4. g = [f EXCEPT !.open_file_table = table]
    BY <2>2 DEF g, FsInv, FsType, OpenFiles
  <2> HIDE DEF table
  <2>5. FsInv(g)
    BY <2>3, <2>4, HandlesChanged
  <2>6. SameFlags(f, g) /\ SameFiles(f, g) /\ g.open_file_table = table
    BY <2>4 DEF SameFlags, SameFiles, FsInv, FsType
  <2> QED BY <1>4, <2>1, <2>5, <2>6 DEF r, SameFlags, table
<1> QED BY <1>2, <1>3, <1>4

\* The tables of f without the file of entry e.
Deleted(f, e) ==
  [f EXCEPT !.inodes = f.inodes \ {f.dir[e].d_inumber},
            !.blocks = f.blocks \ BlockOf(f, f.dir[e].d_inumber),
            !.dir = [f.dir EXCEPT ![e] = DeadEntry]]

\* An unlink finds no file, or deletes the one that has the name.
LEMMA UnlinkKeepsInv ==
  ASSUME NEW f, FsInv(f), NEW n
  PROVE  LET r == tfs_unlink(f, n)
         IN  /\ FsInv(r.fs) /\ SameFlags(f, r.fs) /\ r.data = <<>>
             /\ r.fs.inode_table = f.inode_table /\ r.fs.fs_data = f.fs_data
             /\ r.fs.open_file_table = f.open_file_table
             /\ \/ r.fs = f /\ r.ret = -1 /\ \A k \in Live(f) : f.dir[k].d_name # n
                \/ \E e \in Live(f) : f.dir[e].d_name = n /\ r.ret = 0 /\ r.fs = Deleted(f, e)
<1> DEFINE r == tfs_unlink(f, n)
           inum == tfs_lookup(f, n)
<1>1. FsType(f) /\ \A k \in Live(f) : f.dir[k].d_name \in Paths
  BY DEF FsInv, NamesFindEntries
<1>2. r = IF inum = -1 THEN Result(f, -1) ELSE clear_dir_entry(inode_delete(f, inum), n)
  BY DEF tfs_unlink
<1>3. \/ inum = -1 /\ \A k \in Live(f) : f.dir[k].d_name # n
      \/ \E e \in Live(f) : f.dir[e].d_name = n /\ inum = f.dir[e].d_inumber
  BY <1>1, FoundInDir DEF tfs_lookup
<1> HIDE DEF r, inum
<1>4. CASE inum = -1 /\ \A k \in Live(f) : f.dir[k].d_name # n
  <2>1. r.fs = f /\ r.ret = -1 /\ r.data = <<>>
    BY <1>2, <1>4 DEF Result
  <2> QED BY <1>4, <2>1 DEF SameFlags, r
<1>5. CASE \E e \in Live(f) : f.dir[e].d_name = n /\ inum = f.dir[e].d_inumber
  <2>1. PICK e \in Live(f) : f.dir[e].d_name = n /\ inum = f.dir[e].d_inumber
    BY <1>5
  <2> DEFINE f1 == inode_delete(f, inum)
             g == Deleted(f, e)
  <2>2. inum \in Files(f) /\ inum \in f.inodes /\ inum \in Inumbers /\ inum # -1
    BY <2>1, <1>1 DEF Live, Files, FsInv, InodesTaken, FsType
  <2>3. f1 = [f EXCEPT !.inodes = f.inodes \ {inum}, !.blocks = f.blocks \ BlockOf(f, inum)]
    BY <1>1, <2>2, InodeDeleted DEF FsInv, BlocksOwned
  <2> HIDE DEF f1
  <2>4. FsType(f1) /\ f1.dir = f.dir
    BY <1>1, <2>3 DEF FsType
  <2>5. Live(f1) = Live(f)
    BY <2>4 DEF Live
  <2>6. DirInjective(f1) /\ NamesFindEntries(f1)
    BY <2>4, <2>5 DEF FsInv, DirInjective, NamesFindEntries
  <2>7. clear_dir_entry(f1, n) =
          Result([f1 EXCEPT !.dir = [f1.dir EXCEPT ![e] = DeadEntry]], 0)
    BY <2>1, <2>4, <2>5, <2>6, EntryCleared
  <2>8. [f1 EXCEPT !.dir = [f1.dir EXCEPT ![e] = DeadEntry]] = g
    BY <1>1, <2>1, <2>3 DEF FsType, Deleted
  <2>9. FsInv(g)
    BY FileDeleted DEF Deleted
  <2>10. /\ SameFlags(f, g) /\ g.inode_table = f.inode_table /\ g.fs_data = f.fs_data
         /\ g.open_file_table = f.open_file_table
    BY <1>1 DEF SameFlags, FsType, Deleted
  <2>11. r = Result(g, 0)
    BY <1>2, <2>2, <2>7, <2>8 DEF f1
  <2> HIDE DEF g
  <2>12. r.fs = g /\ r.ret = 0 /\ r.data = <<>>
    BY <2>11 DEF Result
  <2> QED BY <2>1, <2>9, <2>10, <2>12 DEF g, r
<1> QED BY <1>3, <1>4, <1>5

\* The empty sequence is a function without arguments.
LEMMA NoHandles == DOMAIN <<>> = {} /\ <<>> \in [{} -> OpenFiles]
<1>1. <<>> \in Seq(OpenFiles) /\ Len(<<>>) = 0
  OBVIOUS
<1>2. <<>> \in [1 .. 0 -> OpenFiles]
  BY <1>1, LenProperties
<1> QED BY <1>2

\* tfs_init, whatever names the directory's block holds, leaves no file and no handle.
LEMMA InitIsConsistent ==
  ASSUME NEW locked \in BOOLEAN, NEW names \in [Slots -> DirEntries]
  PROVE  LET g == tfs_init([state_init EXCEPT !.locked = locked, !.dir = names])
         IN  /\ FsInv(g) /\ g.locked = locked /\ ~g.panicked
             /\ Live(g) = {} /\ g.open_file_table = <<>> /\ g.blocks = {0}
<1> DEFINE s == [state_init EXCEPT !.locked = locked, !.dir = names]
           root == [i_size |-> BLOCK_SIZE, i_data_block |-> 0]
           entry(k) == [names[k] EXCEPT !.d_inumber = -1]
           g == [s EXCEPT !.inodes = {0}, !.blocks = {0},
                          !.inode_table = [s.inode_table EXCEPT ![0] = root],
                          !.dir = [k \in Slots |-> entry(k)]]
<1>1. 0 \in Inumbers /\ 0 \in Blocks /\ Inumbers \in SUBSET Nat /\ Blocks \in SUBSET Nat
  BY TfsAssumption DEF Inumbers, Blocks
<1>2. FirstOf(Inumbers) = 0 /\ FirstOf(Blocks) = 0
  <2>1. ASSUME NEW S \in SUBSET Nat, 0 \in S PROVE FirstOf(S) = 0
    <3>1. FirstOf(S) \in Nat /\ FirstOf(S) <= 0
      BY <2>1, FirstOfIsLeast
    <3> QED BY <3>1
  <2> QED BY <1>1, <2>1
<1>3. EmptyInode \in InodeRecords /\ root \in InodeRecords /\ EmptyInode.i_size = 0
  BY <1>1, TfsAssumption DEF EmptyInode, InodeRecords
<1>4. /\ FsType(s) /\ s.inodes = {} /\ s.blocks = {} /\ s.dir = names
      /\ s.inode_table = [i \in Inumbers |-> EmptyInode]
      /\ s.locked = locked /\ ~s.panicked /\ s.open_file_table = <<>>
  <2>1. /\ s.inodes = {} /\ s.blocks = {} /\ s.dir = names
        /\ s.inode_table = [i \in Inumbers |-> EmptyInode]
        /\ s.fs_data = [c \in Cells |-> Unwritten]
        /\ s.locked = locked /\ s.panicked = FALSE /\ s.open_file_table = <<>>
    BY DEF state_init, EmptyInode
  <2>2. s \in [locked : BOOLEAN, panicked : BOOLEAN,
                inodes : SUBSET Inumbers, blocks : SUBSET Blocks,
                inode_table : [Inumbers -> InodeRecords], dir : [Slots -> DirEntries],
                fs_data : {s.fs_data}, open_file_table : {s.open_file_table}]
    BY <1>3 DEF state_init, EmptyInode
  <2>3. DOMAIN s.open_file_table = {} /\ s.open_file_table \in [{} -> OpenFiles]
    BY <2>1, NoHandles
  <2> HIDE DEF s
  <2> QED BY <2>1, <2>2, <2>3 DEF FsType
<1> HIDE DEF s, root
<1>5. \A k \in Slots : entry(k) \in DirEntries /\ entry(k).d_inumber = -1
  BY DEF DirEntries
<1> HIDE DEF entry
<1>6. tfs_init(s) = g
  <2> DEFINE new == inode_alloc(s)
             empty == [new.fs EXCEPT !.inode_table[new.ret] = EmptyInode]
             block == data_block_alloc(empty)
             last == [block.fs EXCEPT !.inode_table[new.ret] = 
                                         [i_size |-> BLOCK_SIZE, i_data_block |-> block.ret],
                        !.dir = [i \in DOMAIN @ |-> [@[i] EXCEPT !.d_inumber = -1]]]
  <2>1. new = Result([s EXCEPT !.inodes = {0}], 0)
    BY <1>1, <1>2, <1>4 DEF inode_alloc
  <2>2. new.ret = 0 /\ new.fs = [s EXCEPT !.inodes = {0}]
    BY <2>1 DEF Result
  <2> HIDE DEF new
  <2>3. empty = [s EXCEPT !.inodes = {0}]
    <3>1. [s.inode_table EXCEPT ![0] = EmptyInode] = s.inode_table
      BY <1>1, <1>4
    <3>2. empty = [s EXCEPT !.inodes = {0},
                            !.inode_table = [s.inode_table EXCEPT ![0] = EmptyInode]]
      BY <1>4, <2>2 DEF FsType
    <3> QED BY <1>4, <3>1, <3>2 DEF FsType
  <2> HIDE DEF empty
  <2>4. empty.blocks = {}
    BY <1>4, <2>3 DEF FsType
  <2>5. block = Result([empty EXCEPT !.blocks = {0}], 0)
    BY <1>1, <1>2, <2>4 DEF data_block_alloc
  <2>6. block.ret = 0 /\ block.fs = [empty EXCEPT !.blocks = {0}]
    BY <2>5 DEF Result
  <2>7. inode_create(s, "DIRECTORY") =
          IF new.ret = -1 THEN new
          ELSE IF block.ret = -1 THEN Result(inode_delete(empty, new.ret), -1)
          ELSE Result(last, new.ret)
    BY DEF inode_create, new, empty, EmptyInode
  <2> HIDE DEF block
  <2>8. last = g
    <3>1. block.fs = [s EXCEPT !.inodes = {0}, !.blocks = {0}]
      BY <1>4, <2>3, <2>6 DEF FsType
    <3>2. block.fs.dir = names /\ block.fs.inode_table = s.inode_table
      BY <1>4, <3>1 DEF FsType
    <3>3. last = [block.fs EXCEPT !.inode_table = [s.inode_table EXCEPT ![0] = root],
                                  !.dir = [k \in Slots |-> entry(k)]]
      BY <2>2, <2>6, <3>2 DEF root, entry
    <3> QED BY <1>4, <3>1, <3>3 DEF FsType
  <2>9. inode_create(s, "DIRECTORY") = Result(g, 0)
    BY <2>2, <2>6, <2>7, <2>8
  <2> HIDE DEF g
  <2> QED BY <2>9 DEF tfs_init, Result
<1>7. FsType(g)
  BY <1>1, <1>3, <1>4, <1>5 DEF FsType
<1>8. /\ g.locked = locked /\ ~g.panicked /\ g.open_file_table = <<>>
      /\ g.inodes = {0} /\ g.blocks = {0}
      /\ g.dir = [k \in Slots |-> entry(k)]
      /\ g.inode_table = [s.inode_table EXCEPT ![0] = root]
  BY <1>4 DEF FsType
<1> HIDE DEF g
<1>9. Live(g) = {} /\ Files(g) = {}
  BY <1>5, <1>8 DEF Live, Files
<1>10. BlocksOwned(g)
  <2>1. \A i \in Inumbers : HasBlock(g, i) => g.inode_table[i].i_data_block \in Blocks
    BY <1>1, <1>3, <1>4, <1>8 DEF HasBlock, root
  <2> QED BY <1>9, <2>1 DEF BlocksOwned
<1>11. DirInjective(g) /\ NamesFindEntries(g) /\ InodesTaken(g)
  BY <1>8, <1>9 DEF DirInjective, NamesFindEntries, InodesTaken, ROOT_DIR_INUM
<1>12. FsInv(g)
  BY <1>7, <1>10, <1>11 DEF FsInv
<1> QED BY <1>6, <1>8, <1>9, <1>12 DEF s

\* tfs_init on a library that does not hold its mutex.
LEMMA StartsEmpty ==
  ASSUME NEW f, f = TfsInitial
  PROVE  /\ FsInv(f) /\ ~f.locked /\ ~f.panicked
         /\ Live(f) = {} /\ f.open_file_table = <<>> /\ f.blocks = {0}
<1>1. [state_init EXCEPT !.locked = FALSE, !.dir = state_init.dir] = state_init
  <2> DEFINE s == state_init
  <2>1. s \in [locked : {FALSE}, panicked : {s.panicked}, inodes : {s.inodes},
               blocks : {s.blocks}, inode_table : {s.inode_table}, dir : {s.dir},
               fs_data : {s.fs_data}, open_file_table : {s.open_file_table}]
    BY DEF state_init
  <2> HIDE DEF s
  <2>2. [s EXCEPT !.locked = FALSE, !.dir = s.dir] = s
    BY <2>1
  <2> QED BY <2>2 DEF s
<1>2. state_init.dir \in [Slots -> DirEntries]
  BY DEF state_init, Slots, DirEntries
<1>3. f = tfs_init([state_init EXCEPT !.locked = FALSE, !.dir = state_init.dir])
  BY <1>1 DEF TfsInitial
<1> QED BY ONLY <1>2, <1>3, InitIsConsistent

-----------------------------------------------------------------------------
(* How the directory changes, entry by entry. *)

\* g has the file i more than f, by the name n.
LEMMA FileAdded ==
  ASSUME NEW f, FsInv(f), NEW n \in Paths, NEW e \in Slots \ Live(f),
         NEW i \in Inumbers \ f.inodes, NEW g, SameFiles(Entered(f, n, e, i), g)
  PROVE  /\ Live(g) = Live(f) \cup {e} /\ Files(g) = Files(f) \cup {i} /\ i \notin Files(f)
         /\ g.dir[e].d_name = n /\ g.dir[e].d_inumber = i
         /\ \A k \in Live(f) : k # e /\ g.dir[k] = f.dir[k]
         /\ g.inode_table[i] = EmptyInode
         /\ \A k \in Files(f) : g.inode_table[k] = f.inode_table[k]
         /\ g.blocks = f.blocks /\ g.fs_data = f.fs_data
<1> DEFINE new == [d_name |-> n, d_inumber |-> i]
<1>1. /\ g.blocks = f.blocks /\ g.fs_data = f.fs_data
      /\ g.dir = [f.dir EXCEPT ![e] = new]
      /\ g.inode_table = [f.inode_table EXCEPT ![i] = EmptyInode]
  BY DEF SameFiles, Entered, FsInv, FsType
<1>2. new.d_name = n /\ new.d_inumber = i /\ i # -1
  BY TfsAssumption DEF Inumbers
<1> HIDE DEF new
<1>3. \A k \in Slots : g.dir[k] = IF k = e THEN new ELSE f.dir[k]
  BY <1>1 DEF FsInv, FsType
<1>4. Live(g) = Live(f) \cup {e}
  BY <1>2, <1>3 DEF Live
<1>5. \A k \in Live(f) : k # e /\ k \in Slots /\ g.dir[k] = f.dir[k]
  BY <1>3 DEF Live
<1>6. Files(g) = Files(f) \cup {i}
  BY <1>2, <1>3, <1>4, <1>5 DEF Files
<1>7. i \notin Files(f) /\ Files(f) \subseteq Inumbers
  BY DEF FsInv, InodesTaken, FsType
<1>8. /\ g.inode_table[i] = EmptyInode
      /\ \A k \in Files(f) : g.inode_table[k] = f.inode_table[k]
  BY <1>1, <1>7 DEF FsInv, FsType
<1> QED BY <1>1, <1>2, <1>3, <1>4, <1>5, <1>6, <1>7, <1>8

\* g has the file of entry e less.
LEMMA FileRemoved ==
  ASSUME NEW f, FsInv(f), NEW e \in Live(f), NEW g, g = Deleted(f, e)
  PROVE  /\ Live(g) = Live(f) \ {e} /\ Files(g) = Files(f) \ {f.dir[e].d_inumber}
         /\ \A k \in Live(g) : g.dir[k] = f.dir[k]
         /\ g.blocks = f.blocks \ BlockOf(f, f.dir[e].d_inumber)
         /\ g.inode_table = f.inode_table /\ g.fs_data = f.fs_data
         /\ g.open_file_table = f.open_file_table
<1> DEFINE i == f.dir[e].d_inumber
<1>1. /\ g.blocks = f.blocks \ BlockOf(f, i) /\ g.dir = [f.dir EXCEPT ![e] = DeadEntry]
      /\ g.inode_table = f.inode_table /\ g.fs_data = f.fs_data
      /\ g.open_file_table = f.open_file_table
  BY DEF Deleted, FsInv, FsType
<1>2. DeadEntry.d_inumber = -1
  BY DEF DeadEntry
<1>3. e \in Slots /\ \A k \in Slots : g.dir[k] = IF k = e THEN DeadEntry ELSE f.dir[k]
  BY <1>1 DEF FsInv, FsType, Live
<1>4. Live(g) = Live(f) \ {e}
  BY <1>2, <1>3 DEF Live
<1>5. Files(g) = Files(f) \ {i}
  <2>1. \A k \in Live(f) : k \in Slots /\ (f.dir[k].d_inumber = i => k = e)
    BY DEF Live, FsInv, DirInjective
  <2> QED BY <1>3, <1>4, <2>1 DEF Files
<1>6. \A k \in Live(g) : g.dir[k] = f.dir[k]
  BY <1>3, <1>4 DEF Live
<1> QED BY <1>1, <1>4, <1>5, <1>6

\* The name of a live entry is found there and nowhere else.
LEMMA FoundIs ==
  ASSUME NEW f, FsInv(f), NEW e \in Live(f)
  PROVE  find_in_dir(f.dir, f.dir[e].d_name) = f.dir[e].d_inumber
<1>1. PICK i \in Live(f) : /\ f.dir[i].d_name = f.dir[e].d_name
                           /\ find_in_dir(f.dir, f.dir[e].d_name) = f.dir[i].d_inumber
  BY FoundInDir DEF FsInv
<1> QED BY <1>1 DEF FsInv, DirInjective

\* What tfs_open does to a file that exists.
OpensFile(f, g, ret, mode, i) ==
  /\ SameFiles(IF "TRUNC" \in mode THEN truncate(f, i) ELSE f, g)
  /\ GivesHandle(f, g, ret, [of_inumber |-> i, of_offset |->
       IF "APPEND" \in mode THEN g.inode_table[i].i_size ELSE 0])

\* Nothing that a caller can see changes.
NothingSeen(f, g) ==
  /\ g.dir = f.dir /\ g.fs_data = f.fs_data /\ g.blocks = f.blocks
  /\ g.open_file_table = f.open_file_table
  /\ \A k \in f.inodes : g.inode_table[k] = f.inode_table[k]

\* The four ends of tfs_open.
LEMMA OpenEnds ==
  ASSUME NEW f, FsInv(f), NEW n, NEW mode
  PROVE  LET r == tfs_open(f, n, mode)
         IN  \/ /\ r.fs = f /\ r.ret = -1 /\ (n \notin Paths \/ "CREAT" \notin mode)
                /\ \A k \in Live(f) : f.dir[k].d_name # n
             \/ \E e \in Live(f) : /\ n \in Paths /\ f.dir[e].d_name = n
                                   /\ f.dir[e].d_inumber \in Files(f)
                                   /\ OpensFile(f, r.fs, r.ret, mode, f.dir[e].d_inumber)
             \/ /\ n \in Paths /\ "CREAT" \in mode /\ \A k \in Live(f) : f.dir[k].d_name # n
                /\ r.ret = -1 /\ NoRoomFor(f, n) /\ NothingSeen(f, r.fs)
             \/ /\ n \in Paths \ LongPaths /\ "CREAT" \in mode
                /\ \A k \in Live(f) : f.dir[k].d_name # n
                /\ \E e \in Slots \ Live(f), i \in Inumbers \ f.inodes :
                     /\ SameFiles(Entered(f, n, e, i), r.fs)
                     /\ GivesHandle(f, r.fs, r.ret, [of_inumber |-> i, of_offset |-> 0])
<1> DEFINE r == tfs_open(f, n, mode)
<1>1. CASE /\ r = Result(f, -1) /\ (n \notin Paths \/ "CREAT" \notin mode)
           /\ \A k \in Live(f) : f.dir[k].d_name # n
  <2>1. r.fs = f /\ r.ret = -1
    BY <1>1 DEF Result
  <2> QED BY <1>1, <2>1
<1>2. CASE \E e \in Live(f) : /\ n \in Paths /\ f.dir[e].d_name = n
                              /\ f.dir[e].d_inumber \in Files(f)
                              /\ r = open_existing(f, f.dir[e].d_inumber, mode)
  <2>1. PICK e \in Live(f) : /\ n \in Paths /\ f.dir[e].d_name = n
                             /\ f.dir[e].d_inumber \in Files(f)
                             /\ r = open_existing(f, f.dir[e].d_inumber, mode)
    BY <1>2
  <2> DEFINE i == f.dir[e].d_inumber
             offset == IF "APPEND" \in mode THEN r.fs.inode_table[i].i_size ELSE 0
  <2> HIDE DEF i
  <2>2. i \in Files(f) /\ r = open_existing(f, i, mode)
    BY <2>1 DEF i
  <2>3. /\ "TRUNC" \notin mode => SameFiles(f, r.fs)
        /\ "TRUNC" \in mode => SameFiles(truncate(f, i), r.fs)
        /\ GivesHandle(f, r.fs, r.ret, [of_inumber |-> i, of_offset |-> offset])
    BY <2>2, OpenExisting
  <2> HIDE DEF r
  <2>4. SameFiles(IF "TRUNC" \in mode THEN truncate(f, i) ELSE f, r.fs)
    BY <2>3
  <2>5. OpensFile(f, r.fs, r.ret, mode, i)
    BY <2>3, <2>4 DEF OpensFile
  <2> QED BY <2>1, <2>5 DEF i, r
<1>3. CASE /\ r = open_new(f, n) /\ n \in Paths /\ "CREAT" \in mode
           /\ \A k \in Live(f) : f.dir[k].d_name # n
  <2>1. /\ r.fs.fs_data = f.fs_data /\ r.fs.blocks = f.blocks
        /\ \A k \in f.inodes : r.fs.inode_table[k] = f.inode_table[k]
        /\ \/ /\ r.ret = -1 /\ NoRoomFor(f, n)
              /\ r.fs.dir = f.dir /\ r.fs.open_file_table = f.open_file_table
           \/ /\ n \notin LongPaths
              /\ \E e \in Slots \ Live(f), i \in Inumbers \ f.inodes :
                   /\ SameFiles(Entered(f, n, e, i), r.fs)
                   /\ GivesHandle(f, r.fs, r.ret, [of_inumber |-> i, of_offset |-> 0])
    BY <1>3, OpenNew
  <2> HIDE DEF r
  <2>2. \/ r.ret = -1 /\ NoRoomFor(f, n) /\ NothingSeen(f, r.fs)
        \/ /\ n \notin LongPaths
           /\ \E e \in Slots \ Live(f), i \in Inumbers \ f.inodes :
                /\ SameFiles(Entered(f, n, e, i), r.fs)
                /\ GivesHandle(f, r.fs, r.ret, [of_inumber |-> i, of_offset |-> 0])
    BY <2>1 DEF NothingSeen
  <2> QED BY <1>3, <2>2 DEF r
<1> HIDE DEF r
<1>4. \/ /\ r = Result(f, -1) /\ (n \notin Paths \/ "CREAT" \notin mode)
         /\ \A k \in Live(f) : f.dir[k].d_name # n
      \/ \E e \in Live(f) : /\ n \in Paths /\ f.dir[e].d_name = n
                            /\ f.dir[e].d_inumber \in Files(f)
                            /\ r = open_existing(f, f.dir[e].d_inumber, mode)
      \/ /\ r = open_new(f, n) /\ n \in Paths /\ "CREAT" \in mode
         /\ \A k \in Live(f) : f.dir[k].d_name # n
  BY OpenCases DEF r
<1> QED BY <1>1, <1>2, <1>3, <1>4 DEF r

-----------------------------------------------------------------------------
(* The contents of a file *)

\* The contents of inode i in the tables of f, and the cells they are in.
ContentsOf(f, i) ==
  [k \in 1 .. f.inode_table[i].i_size |->
     f.fs_data[f.inode_table[i].i_data_block * BLOCK_SIZE + k - 1]]

\* A file without contents is the empty sequence.
LEMMA NoContents ==
  ASSUME NEW f, NEW i, f.inode_table[i].i_size = 0
  PROVE  ContentsOf(f, i) = <<>>
<1>1. <<>> \in Seq({}) /\ Len(<<>>) = 0
  OBVIOUS
<1>2. DOMAIN <<>> = 1 .. 0 /\ <<>> = [k \in 1 .. 0 |-> <<>>[k]]
  BY <1>1
<1>3. 1 .. 0 = {}
  OBVIOUS
<1>4. \A k \in 1 .. 0 : FALSE
  BY <1>3
<1> QED BY <1>2, <1>4 DEF ContentsOf

\* Calls that touch neither inodes nor cells leave every file as it was.
LEMMA SameContents ==
  ASSUME NEW f, NEW g, g.inode_table = f.inode_table, g.fs_data = f.fs_data, NEW i
  PROVE  ContentsOf(g, i) = ContentsOf(f, i)
BY DEF ContentsOf

\* Cells of different blocks are different, and within fs_data.
LEMMA BlocksAreApart ==
  ASSUME NEW a \in Blocks \ {0}, NEW b \in Blocks, a # b,
         NEW x \in 0 .. BLOCK_SIZE - 1, NEW y \in 0 .. BLOCK_SIZE - 1
  PROVE  a * BLOCK_SIZE + x \in Cells /\ a * BLOCK_SIZE + x # b * BLOCK_SIZE + y
<1>1. BLOCK_SIZE \in Nat /\ DATA_BLOCKS \in Nat /\ a \in Nat /\ b \in Nat /\ x \in Nat /\ y \in Nat
  BY TfsAssumption DEF Blocks
<1>2. \A m, n, k \in Nat : m < n => m * k + k <= n * k
  OBVIOUS
<1>3. a * BLOCK_SIZE \in Nat /\ b * BLOCK_SIZE \in Nat /\ DATA_BLOCKS * BLOCK_SIZE \in Nat
  BY <1>1
<1>4. /\ BLOCK_SIZE <= a * BLOCK_SIZE
      /\ a * BLOCK_SIZE + BLOCK_SIZE <= DATA_BLOCKS * BLOCK_SIZE
  <2>1. 0 < a /\ a < DATA_BLOCKS
    BY <1>1 DEF Blocks
  <2>2. 0 * BLOCK_SIZE + BLOCK_SIZE <= a * BLOCK_SIZE
    BY <1>1, <1>2, <2>1
  <2> QED BY <1>1, <1>2, <2>1, <2>2
<1>5. \/ a * BLOCK_SIZE + BLOCK_SIZE <= b * BLOCK_SIZE
      \/ b * BLOCK_SIZE + BLOCK_SIZE <= a * BLOCK_SIZE
  BY <1>1, <1>2
<1> DEFINE A == a * BLOCK_SIZE
           B == b * BLOCK_SIZE
           D == DATA_BLOCKS * BLOCK_SIZE
<1>6. Cells = BLOCK_SIZE .. D - 1
  BY DEF Cells
<1> HIDE DEF A, B, D
<1>7. A \in Nat /\ B \in Nat /\ D \in Nat /\ BLOCK_SIZE <= A /\ A + BLOCK_SIZE <= D
      /\ (A + BLOCK_SIZE <= B \/ B + BLOCK_SIZE <= A)
  BY <1>3, <1>4, <1>5 DEF A, B, D
<1>8. A + x \in Cells /\ A + x # B + y
  BY <1>1, <1>6, <1>7
<1> QED BY <1>8 DEF A, B

\* A write that ends within its block leaves every other file that does as it was.
LEMMA WriteKeepsOthers ==
  ASSUME NEW f, FsInv(f), NEW g, NEW h \in DOMAIN f.open_file_table, NEW C,
         NEW buffer \in Seq(C), NEW block \in Blocks, Wrote(f, g, h, buffer, block),
         f.open_file_table[h].of_inumber \in Files(f),
         f.open_file_table[h].of_offset + Len(buffer) <= BLOCK_SIZE,
         NEW i \in Files(f), i # f.open_file_table[h].of_inumber,
         f.inode_table[i].i_size <= BLOCK_SIZE
  PROVE  g.inode_table[i] = f.inode_table[i] /\ ContentsOf(g, i) = ContentsOf(f, i)
<1> DEFINE k == f.open_file_table[h].of_inumber
           off == f.open_file_table[h].of_offset
           start == block * BLOCK_SIZE + off
           mine == f.inode_table[i].i_data_block
<1>1. /\ g.inode_table[i] = f.inode_table[i] /\ i \in Inumbers /\ k \in Inumbers
      /\ off \in Nat /\ Len(buffer) \in Nat /\ f.inode_table[i].i_size \in Nat
  BY DEF Wrote, FsInv, FsType, InodesTaken, InodeRecords, OpenFiles
<1>2. g.fs_data = put_cells(f.fs_data, start, buffer)
  BY DEF Wrote, data_block_get
<1>3. CASE f.inode_table[i].i_size = 0
  BY <1>1, <1>3, NoContents
<1>4. CASE f.inode_table[i].i_size > 0
  <2>1. mine \in Blocks \ {0} /\ mine \in f.blocks
    BY <1>4 DEF FsInv, FsType, BlocksOwned, HasBlock
  <2>2. mine # block
    BY <1>4, <2>1 DEF FsInv, BlocksOwned, HasBlock, Wrote
  <2>3. ASSUME NEW c \in 1 .. f.inode_table[i].i_size
        PROVE  g.fs_data[mine * BLOCK_SIZE + c - 1] = f.fs_data[mine * BLOCK_SIZE + c - 1]
    <3> DEFINE cell == mine * BLOCK_SIZE + (c - 1)
    <3>1. c - 1 \in 0 .. BLOCK_SIZE - 1 /\ mine \in Nat /\ block \in Nat /\ BLOCK_SIZE \in Nat
      BY <1>1, <2>1, TfsAssumption DEF Blocks
    <3>2. cell \in Cells /\ \A y \in 0 .. BLOCK_SIZE - 1 : cell # block * BLOCK_SIZE + y
      BY <2>1, <2>2, <3>1, BlocksAreApart
    <3>3. cell \notin start .. start + Len(buffer) - 1
      <4> SUFFICES ASSUME cell \in start .. start + Len(buffer) - 1 PROVE FALSE
        OBVIOUS
      <4> DEFINE B == block * BLOCK_SIZE
      <4>1. B \in Nat /\ cell \in Int
        BY <3>1
      <4> HIDE DEF B, cell
      <4>2. cell - B \in 0 .. BLOCK_SIZE - 1 /\ cell = B + (cell - B)
        BY <1>1, <3>1, <4>1 DEF B
      <4> QED BY <3>2, <4>2 DEF B
    <3>4. mine * BLOCK_SIZE + c - 1 = cell /\ DOMAIN f.fs_data = Cells
      BY <3>1 DEF FsInv, FsType
    <3> HIDE DEF cell, start
    <3>5. g.fs_data[cell] = f.fs_data[cell]
      BY <1>2, <3>2, <3>3, <3>4 DEF put_cells
    <3> QED BY <3>4, <3>5
  <2> QED BY <1>1, <2>3 DEF ContentsOf
<1> QED BY <1>1, <1>3, <1>4

\* A file's contents are a sequence as long as its inode says.
LEMMA ContentsLen ==
  ASSUME NEW f, NEW i, f.inode_table[i].i_size \in Nat
  PROVE  /\ Len(ContentsOf(f, i)) = f.inode_table[i].i_size
         /\ DOMAIN ContentsOf(f, i) = 1 .. f.inode_table[i].i_size
         /\ (ContentsOf(f, i) = <<>>) = (f.inode_table[i].i_size = 0)
<1> DEFINE c == ContentsOf(f, i)
           size == f.inode_table[i].i_size
           S == {c[k] : k \in 1 .. size}
<1>1. c = [k \in 1 .. size |-> c[k]]
  BY DEF ContentsOf
<1> HIDE DEF c
<1>2. c \in [1 .. size -> S]
  BY <1>1
<1>3. c \in Seq(S)
  BY <1>2, SeqDef
<1>4. Len(c) \in Nat /\ DOMAIN c = 1 .. Len(c)
  BY <1>3, LenProperties
<1>5. DOMAIN c = 1 .. size
  BY <1>1
<1> HIDE DEF size
<1>6. size \in Nat
  BY DEF size
<1>7. Len(c) = size
  <2> DEFINE n == Len(c)
  <2>1. n \in Nat /\ 1 .. n = 1 .. size
    BY <1>4, <1>5
  <2> HIDE DEF n
  <2>2. (n > 0 => n \in 1 .. size) /\ (size > 0 => size \in 1 .. n)
    BY <1>6, <2>1
  <2>3. n = size
    BY <1>6, <2>1, <2>2
  <2> QED BY <2>3 DEF n
<1>8. (c = <<>>) = (size = 0)
  BY <1>3, <1>7, EmptySeq
<1> QED BY <1>5, <1>7, <1>8 DEF c, size

\* A handle stands within a file that is in the directory.
InFile(f, h) ==
  /\ f.open_file_table[h].of_inumber \in Files(f)
  /\ f.open_file_table[h].of_offset
       <= f.inode_table[f.open_file_table[h].of_inumber].i_size

\* What a write within the block leaves in the file.
Written(f, h, buffer) ==
  LET i == f.open_file_table[h].of_inumber
      off == f.open_file_table[h].of_offset
      end == off + Len(buffer)
      size == f.inode_table[i].i_size
  IN  [k \in 1 .. (IF end > size THEN end ELSE size) |->
         IF k \in off + 1 .. end THEN buffer[k - off] ELSE ContentsOf(f, i)[k]]

\* A write appends to the contents, or replaces their beginning.
LEMMA WrittenContents ==
  ASSUME NEW f, FsInv(f), NEW g, NEW h \in DOMAIN f.open_file_table, InFile(f, h), NEW C,
         NEW buffer \in Seq(C), buffer # <<>>, NEW block \in Blocks, Wrote(f, g, h, buffer, block),
         f.inode_table[f.open_file_table[h].of_inumber].i_size <= BLOCK_SIZE,
         f.open_file_table[h].of_offset + Len(buffer) <= BLOCK_SIZE
  PROVE  ContentsOf(g, f.open_file_table[h].of_inumber) = Written(f, h, buffer)
<1> DEFINE i == f.open_file_table[h].of_inumber
           off == f.open_file_table[h].of_offset
           end == off + Len(buffer)
           size == f.inode_table[i].i_size
           grown == IF end > size THEN end ELSE size
           B == block * BLOCK_SIZE
<1>1. i \in Files(f) /\ i \in Inumbers /\ off \in Nat /\ Len(buffer) \in Nat \ {0}
  BY EmptySeq DEF InFile, FsInv, FsType, OpenFiles, InodesTaken
<1>2. size \in Nat /\ size <= BLOCK_SIZE /\ off <= size
  BY <1>1 DEF InFile, FsInv, FsType, InodeRecords
<1>3. /\ g.inode_table = [f.inode_table EXCEPT ![i] = [i_size |-> grown, i_data_block |-> block]]
      /\ g.fs_data = put_cells(f.fs_data, B + off, buffer)
      /\ \/ HasBlock(f, i) /\ block = f.inode_table[i].i_data_block
         \/ ~HasBlock(f, i) /\ block \in Blocks \ f.blocks
  BY DEF Wrote, data_block_get
<1>4. block # 0 /\ (size > 0 => block = f.inode_table[i].i_data_block)
  <2>1. 0 \in f.blocks
    BY DEF FsInv, InodesTaken
  <2>2. HasBlock(f, i) => f.inode_table[i].i_data_block # 0
    BY <1>1 DEF FsInv, BlocksOwned
  <2> QED BY <1>1, <1>3, <2>1, <2>2 DEF HasBlock
<1>5. g.inode_table[i].i_size = grown /\ g.inode_table[i].i_data_block = block
  BY <1>1, <1>3 DEF FsInv, FsType
<1>6. B \in Nat /\ BLOCK_SIZE \in Nat /\ block \in Nat
  BY TfsAssumption DEF Blocks
<1>7. grown \in Nat /\ grown <= BLOCK_SIZE /\ end \in Nat /\ off < end
  BY <1>1, <1>2
<1>8. DOMAIN f.fs_data = Cells
  BY DEF FsInv, FsType
<1> HIDE DEF i, off, end, size, grown
<1>9. ASSUME NEW k \in 1 .. grown
      PROVE  g.fs_data[B + k - 1] =
               IF k \in off + 1 .. end THEN buffer[k - off] ELSE ContentsOf(f, i)[k]
  <2>1. k - 1 \in 0 .. BLOCK_SIZE - 1
    BY <1>6, <1>7
  <2>2. B + (k - 1) \in Cells
    <3>1. \E b \in Blocks : block # b
      BY <1>4, <1>6, TfsAssumption DEF Blocks
    <3> QED BY <1>4, <2>1, <3>1, BlocksAreApart
  <2> HIDE DEF B
  <2> DEFINE c == B + (k - 1)
             last == B + off + Len(buffer) - 1
  <2>3. B + k - 1 = c /\ c \in Int /\ last \in Int /\ Len(buffer) \in Nat
    BY <1>1, <1>6
  <2> HIDE DEF c
  <2>4. g.fs_data[c] = IF c \in B + off .. last THEN buffer[c - (B + off) + 1] ELSE f.fs_data[c]
    BY <1>3, <1>8, <2>2 DEF put_cells, c
  <2>5. CASE k \in off + 1 .. end
    <3>1. c \in B + off .. last /\ c - (B + off) + 1 = k - off
      BY <1>1, <1>6, <1>7, <2>5 DEF c, end
    <3> QED BY <2>3, <2>4, <2>5, <3>1
  <2>6. CASE k \notin off + 1 .. end
    <3>1. c \notin B + off .. last
      BY <1>1, <1>6, <1>7, <2>6 DEF c, end
    <3>2. k \in 1 .. size
      BY <1>1, <1>2, <1>7, <2>6 DEF grown
    <3>3. ContentsOf(f, i)[k] = f.fs_data[B + k - 1]
      BY <1>2, <1>4, <3>2 DEF ContentsOf, size, B
    <3> QED BY <2>3, <2>4, <2>6, <3>1, <3>3
  <2> QED BY <2>5, <2>6
<1>10. ContentsOf(g, i) = [k \in 1 .. grown |->
         IF k \in off + 1 .. end THEN buffer[k - off] ELSE ContentsOf(f, i)[k]]
  BY <1>5, <1>9 DEF ContentsOf
<1> QED BY <1>10 DEF Written, i, off, end, size, grown

\* A read within the file gets what is there.
LEMMA ReadData ==
  ASSUME NEW f, FsInv(f), NEW g, NEW h \in DOMAIN f.open_file_table, InFile(f, h), NEW data,
         NEW len \in Nat, ReadFrom(f, g, h, len, data),
         f.open_file_table[h].of_offset + len
           <= f.inode_table[f.open_file_table[h].of_inumber].i_size
  PROVE  data = SubSeq(ContentsOf(f, f.open_file_table[h].of_inumber),
                       f.open_file_table[h].of_offset + 1, f.open_file_table[h].of_offset + len)
<1> DEFINE i == f.open_file_table[h].of_inumber
           off == f.open_file_table[h].of_offset
           size == f.inode_table[i].i_size
           B == f.inode_table[i].i_data_block * BLOCK_SIZE
           c == ContentsOf(f, i)
           s == SubSeq(c, off + 1, off + len)
           S == {c[k] : k \in 1 .. size}
<1>1. off \in Nat /\ size \in Nat /\ off + len <= size
  BY DEF InFile, FsInv, FsType, OpenFiles, InodesTaken, InodeRecords
<1>2. f.inode_table[i].i_data_block \in Int /\ B \in Int
  BY TfsAssumption DEF FsInv, FsType, InodesTaken, InodeRecords, OpenFiles, Blocks
<1>3. \A k \in 1 .. size : c[k] = f.fs_data[B + k - 1]
  BY DEF ContentsOf
<1>4. data = [k \in 1 .. len |-> f.fs_data[B + off + k - 1]]
  BY DEF ReadFrom, data_block_get
<1> HIDE DEF i, off, size, B, c
<1>5. \A k \in off + 1 .. off + len : k \in 1 .. size /\ c[k] \in S
  BY <1>1
<1> HIDE DEF S
<1>6. /\ s \in Seq(S) /\ Len(s) = IF off + 1 <= off + len THEN off + len - (off + 1) + 1 ELSE 0
      /\ \A k \in 1 .. off + len - (off + 1) + 1 : s[k] = c[off + 1 + k - 1]
  BY <1>1, <1>5, SubSeqProperties
<1>7. Len(s) = len /\ off + len - (off + 1) + 1 = len
  BY <1>1, <1>6
<1>8. s = [k \in 1 .. len |-> s[k]]
  BY <1>6, <1>7, LenProperties
<1>9. ASSUME NEW k \in 1 .. len
      PROVE  s[k] = f.fs_data[B + off + k - 1]
  <2>1. off + k \in 1 .. size /\ off + 1 + k - 1 = off + k /\ B + (off + k) - 1 = B + off + k - 1
    BY <1>1, <1>2
  <2> QED BY <1>3, <1>6, <1>7, <2>1
<1> HIDE DEF s
<1>10. data = s
  BY <1>4, <1>8, <1>9
<1> QED BY <1>10 DEF s, c, i, off

-----------------------------------------------------------------------------
(* The files that a caller knows by name, and their sizes                      *)

\* The file of name n has inode i.
FileHas(f, n, i) == \E e \in Live(f) : f.dir[e].d_name = n /\ f.dir[e].d_inumber = i
SizeOf(f, i) == f.inode_table[i].i_size

\* The same files of the same sizes.
FilesStay(f, g) ==
  /\ \A n, i : FileHas(g, n, i) <=> FileHas(f, n, i)
  /\ \A n, i : FileHas(f, n, i) => SizeOf(g, i) = SizeOf(f, i)

\* These, and an empty one more.
FileMade(f, g, n) ==
  \E i \in Inumbers :
    /\ FileHas(g, n, i) /\ SizeOf(g, i) = 0
    /\ \A m, k : FileHas(g, m, k) => FileHas(f, m, k) \/ (m = n /\ k = i)
    /\ \A m, k : FileHas(f, m, k) => FileHas(g, m, k) /\ SizeOf(g, k) = SizeOf(f, k)

\* The handles but those of H are open as they were.
HandlesStay(f, g, H) ==
  \A h \in DOMAIN f.open_file_table \ H :
    h \in DOMAIN g.open_file_table /\ g.open_file_table[h] = f.open_file_table[h]

\* A name has one inode, an inode has one name, and it is found by its name.
LEMMA FileIs ==
  ASSUME NEW f, FsInv(f), NEW n, NEW i, FileHas(f, n, i)
  PROVE  /\ i \in Inumbers /\ i \in Files(f) /\ n \in Paths
         /\ \A k : FileHas(f, n, k) => k = i
         /\ \A m : FileHas(f, m, i) => m = n
         /\ find_in_dir(f.dir, n) = i
         /\ SizeOf(f, i) \in Nat
<1>1. PICK e \in Live(f) : f.dir[e].d_name = n /\ f.dir[e].d_inumber = i
  BY DEF FileHas
<1>2. /\ i \in Inumbers /\ i \in Files(f) /\ n \in Paths /\ f.inode_table[i] \in InodeRecords
  BY <1>1 DEF FsInv, FsType, Live, Files, DirEntries, NamesFindEntries
<1>3. find_in_dir(f.dir, n) = i
  BY <1>1, FoundIs
<1>4. \A k \in Live(f) : k # e => f.dir[k].d_name # n /\ f.dir[k].d_inumber # i
  BY <1>1 DEF FsInv, DirInjective
<1> QED BY <1>1, <1>2, <1>3, <1>4 DEF FileHas, SizeOf, InodeRecords

\* Files that are the same have their names and sizes.
LEMMA SameFilesKept ==
  ASSUME NEW f, NEW g, SameFiles(f, g)
  PROVE  FilesStay(f, g)
BY DEF FilesStay, SameFiles, FileHas, SizeOf, Live

\* A handle more.
LEMMA HandleIsNew ==
  ASSUME NEW f, NEW g, NEW ret, NEW file, GivesHandle(f, g, ret, file)
  PROVE  /\ HandlesStay(f, g, {})
         /\ \/ ret = -1
            \/ /\ ret \in Nat /\ ret \notin DOMAIN f.open_file_table
               /\ ret \in DOMAIN g.open_file_table /\ g.open_file_table[ret] = file
<1>1. CASE ret = -1 /\ g.open_file_table = f.open_file_table
  BY <1>1 DEF HandlesStay
<1>2. CASE /\ ret \in Handles \ DOMAIN f.open_file_table
           /\ g.open_file_table = WithHandle(f.open_file_table, ret, file)
  <2>1. ret \in Nat
    BY <1>2, TfsAssumption DEF Handles
  <2> QED BY <1>2, <2>1 DEF WithHandle, HandlesStay
<1> QED BY <1>1, <1>2 DEF GivesHandle

\* TFS_O_APPEND: a handle at the end of the file, or none.
LEMMA OpenToAppend ==
  ASSUME NEW f, FsInv(f), NEW n
  PROVE  LET r == tfs_open(f, n, {"APPEND"})
         IN  /\ SameFiles(f, r.fs) /\ FilesStay(f, r.fs) /\ HandlesStay(f, r.fs, {})
             /\ \/ r.ret = -1
                \/ /\ r.ret \in Nat /\ r.ret \notin DOMAIN f.open_file_table
                   /\ r.ret \in DOMAIN r.fs.open_file_table
                   /\ FileHas(f, n, r.fs.open_file_table[r.ret].of_inumber)
                   /\ r.fs.open_file_table[r.ret].of_offset =
                        SizeOf(f, r.fs.open_file_table[r.ret].of_inumber)
<1> DEFINE r == tfs_open(f, n, {"APPEND"})
<1>0. "CREAT" \notin {"APPEND"} /\ "TRUNC" \notin {"APPEND"}
  OBVIOUS
<1>1. \/ r.fs = f /\ r.ret = -1
      \/ \E e \in Live(f) : f.dir[e].d_name = n /\ OpensFile(f, r.fs, r.ret, {"APPEND"}, f.dir[e].d_inumber)
  BY <1>0, OpenEnds
<1> HIDE DEF r
<1>2. CASE r.fs = f /\ r.ret = -1
  BY <1>2 DEF SameFiles, FilesStay, HandlesStay, r
<1>3. CASE \E e \in Live(f) :
             f.dir[e].d_name = n /\ OpensFile(f, r.fs, r.ret, {"APPEND"}, f.dir[e].d_inumber)
  <2>1. PICK e \in Live(f) :
          f.dir[e].d_name = n /\ OpensFile(f, r.fs, r.ret, {"APPEND"}, f.dir[e].d_inumber)
    BY <1>3
  <2> DEFINE i == f.dir[e].d_inumber
             file == [of_inumber |-> i, of_offset |-> r.fs.inode_table[i].i_size]
  <2>2. FileHas(f, n, i)
    BY <2>1 DEF FileHas
  <2>3. SameFiles(f, r.fs) /\ GivesHandle(f, r.fs, r.ret, file)
    BY <1>0, <2>1 DEF OpensFile
  <2>4. FilesStay(f, r.fs) /\ HandlesStay(f, r.fs, {})
    BY <2>3, SameFilesKept, HandleIsNew
  <2>5. \/ r.ret = -1
        \/ /\ r.ret \in Nat /\ r.ret \notin DOMAIN f.open_file_table
           /\ r.ret \in DOMAIN r.fs.open_file_table /\ r.fs.open_file_table[r.ret] = file
    <3> HIDE DEF file
    <3> QED BY <2>3, HandleIsNew
  <2>6. file.of_inumber = i /\ file.of_offset = SizeOf(f, i)
    BY <2>3 DEF SameFiles, SizeOf
  <2> HIDE DEF file, i
  <2> QED BY <2>2, <2>3, <2>4, <2>5, <2>6 DEF r
<1> QED BY <1>1, <1>2, <1>3

\* TFS_O_CREAT: the file was there, is made, or cannot be.
LEMMA OpenToCreate ==
  ASSUME NEW f, FsInv(f), NEW n
  PROVE  LET r == tfs_open(f, n, {"CREAT"})
         IN  /\ HandlesStay(f, r.fs, {})
             /\ \/ FilesStay(f, r.fs) /\ (r.ret = -1 \/ \E i \in Inumbers : FileHas(f, n, i))
                \/ FileMade(f, r.fs, n)
<1> DEFINE r == tfs_open(f, n, {"CREAT"})
<1>0. "CREAT" \in {"CREAT"} /\ "TRUNC" \notin {"CREAT"} /\ "APPEND" \notin {"CREAT"}
  OBVIOUS
<1>1. \/ r.fs = f /\ r.ret = -1
      \/ \E e \in Live(f) : f.dir[e].d_name = n /\ OpensFile(f, r.fs, r.ret, {"CREAT"}, f.dir[e].d_inumber)
      \/ r.ret = -1 /\ NothingSeen(f, r.fs)
      \/ /\ n \in Paths
         /\ \E e \in Slots \ Live(f), i \in Inumbers \ f.inodes :
              /\ SameFiles(Entered(f, n, e, i), r.fs)
              /\ GivesHandle(f, r.fs, r.ret, [of_inumber |-> i, of_offset |-> 0])
  BY <1>0, OpenEnds
<1> HIDE DEF r
<1>2. CASE r.fs = f /\ r.ret = -1
  BY <1>2 DEF FilesStay, HandlesStay, r
<1>3. CASE \E e \in Live(f) :
             f.dir[e].d_name = n /\ OpensFile(f, r.fs, r.ret, {"CREAT"}, f.dir[e].d_inumber)
  <2>1. PICK e \in Live(f) :
          f.dir[e].d_name = n /\ OpensFile(f, r.fs, r.ret, {"CREAT"}, f.dir[e].d_inumber)
    BY <1>3
  <2> DEFINE i == f.dir[e].d_inumber
  <2>2. FileHas(f, n, i)
    BY <2>1 DEF FileHas
  <2>3. SameFiles(f, r.fs) /\ GivesHandle(f, r.fs, r.ret, [of_inumber |-> i, of_offset |-> 0])
    BY <1>0, <2>1 DEF OpensFile
  <2>4. FilesStay(f, r.fs) /\ HandlesStay(f, r.fs, {}) /\ i \in Inumbers
    BY <2>2, <2>3, SameFilesKept, HandleIsNew, FileIs
  <2> QED BY <2>2, <2>4 DEF r
<1>4. CASE r.ret = -1 /\ NothingSeen(f, r.fs)
  <2>1. \A m, k : FileHas(r.fs, m, k) <=> FileHas(f, m, k)
    BY <1>4 DEF NothingSeen, FileHas, Live
  <2>2. ASSUME NEW m, NEW k, FileHas(f, m, k) PROVE SizeOf(r.fs, k) = SizeOf(f, k)
    <3>1. k \in f.inodes
      BY <2>2, FileIs DEF FsInv, InodesTaken
    <3> QED BY <1>4, <3>1 DEF NothingSeen, SizeOf
  <2> QED BY <1>4, <2>1, <2>2 DEF FilesStay, HandlesStay, NothingSeen, r
<1>5. CASE /\ n \in Paths
           /\ \E e \in Slots \ Live(f), i \in Inumbers \ f.inodes :
                /\ SameFiles(Entered(f, n, e, i), r.fs)
                /\ GivesHandle(f, r.fs, r.ret, [of_inumber |-> i, of_offset |-> 0])
  <2>1. PICK e \in Slots \ Live(f), i \in Inumbers \ f.inodes :
                /\ SameFiles(Entered(f, n, e, i), r.fs)
                /\ GivesHandle(f, r.fs, r.ret, [of_inumber |-> i, of_offset |-> 0])
    BY <1>5
  <2> DEFINE g == r.fs
  <2>2. /\ Live(g) = Live(f) \cup {e} /\ i \notin Files(f)
        /\ g.dir[e].d_name = n /\ g.dir[e].d_inumber = i
        /\ \A k \in Live(f) : k # e /\ g.dir[k] = f.dir[k]
        /\ g.inode_table[i] = EmptyInode
        /\ \A k \in Files(f) : g.inode_table[k] = f.inode_table[k]
    BY <1>5, <2>1, FileAdded
  <2> HIDE DEF g
  <2>3. FileHas(g, n, i) /\ SizeOf(g, i) = 0
    BY <2>2 DEF FileHas, SizeOf, EmptyInode
  <2>4. \A m, k : FileHas(g, m, k) => FileHas(f, m, k) \/ (m = n /\ k = i)
    BY <2>2 DEF FileHas
  <2>5. ASSUME NEW m, NEW k, FileHas(f, m, k)
        PROVE  FileHas(g, m, k) /\ SizeOf(g, k) = SizeOf(f, k)
    <3>1. k \in Files(f)
      BY <2>5, FileIs
    <3>2. FileHas(g, m, k)
      BY <2>2, <2>5 DEF FileHas
    <3> QED BY <2>2, <3>1, <3>2 DEF SizeOf
  <2>6. FileMade(f, g, n)
    BY <2>3, <2>4, <2>5 DEF FileMade
  <2>7. HandlesStay(f, g, {})
    BY <2>1, HandleIsNew DEF g
  <2> QED BY <2>6, <2>7 DEF g, r
<1> QED BY <1>1, <1>2, <1>3, <1>4, <1>5

\* r is what a write of len cells returns, through handle h of file i: it fails, or
\* the file has the cells more if the handle was at its end.
Grows(f, h, i, len, r) ==
  /\ r.ret = -1 => r.fs = f
  /\ r.ret = -1 \/ r.ret \in Nat
  /\ \A n, k : FileHas(r.fs, n, k) <=> FileHas(f, n, k)
  /\ \A k \in Inumbers \ {i} : SizeOf(r.fs, k) = SizeOf(f, k)
  /\ HandlesStay(f, r.fs, {h}) /\ h \in DOMAIN r.fs.open_file_table
  /\ r.ret # -1 /\ f.open_file_table[h].of_offset = SizeOf(f, i) =>
       SizeOf(r.fs, i) = SizeOf(f, i) + len

\* A write at the end of a file.
LEMMA WriteGrows ==
  ASSUME NEW f, FsInv(f), NEW h \in DOMAIN f.open_file_table, NEW C, NEW buffer \in Seq(C)
  PROVE  Grows(f, h, f.open_file_table[h].of_inumber, Len(buffer), tfs_write(f, h, buffer))
<1> DEFINE r == tfs_write(f, h, buffer)
           file == f.open_file_table[h]
           i == file.of_inumber
           size == SizeOf(f, i)
           len == Len(buffer)
           end == file.of_offset + len
<1>1. file \in OpenFiles /\ i \in Inumbers /\ f.inode_table \in [Inumbers -> InodeRecords]
  BY DEF FsInv, FsType, OpenFiles
<1>2. file.of_offset \in Nat /\ size \in Nat /\ len \in Nat
  BY <1>1, LenProperties DEF OpenFiles, InodeRecords, SizeOf
<1>3. \/ r.fs = f /\ r.ret = -1
      \/ r.fs = f /\ r.ret = 0 /\ buffer = <<>>
      \/ r.ret = len /\ \E block \in Blocks : Wrote(f, r.fs, h, buffer, block)
  BY WriteKeepsInv DEF IsOpen
<1> SUFFICES Grows(f, h, i, len, r)
  OBVIOUS
<1> HIDE DEF r
<1>4. CASE r.fs = f /\ r.ret = -1
  BY <1>4 DEF HandlesStay, Grows
<1>5. CASE r.fs = f /\ r.ret = 0 /\ buffer = <<>>
  <2>1. len = 0
    BY <1>5, EmptySeq
  <2>2. size + len = size
    BY <1>2, <2>1
  <2> QED BY <1>5, <2>2 DEF HandlesStay, Grows
<1>6. CASE r.ret = len /\ \E block \in Blocks : Wrote(f, r.fs, h, buffer, block)
  <2>1. PICK block : Wrote(f, r.fs, h, buffer, block)
    BY <1>6
  <2> DEFINE g == r.fs
             new == IF end > size THEN end ELSE size
  <2>2. /\ g.dir = f.dir
        /\ g.inode_table = [f.inode_table EXCEPT ![i] = [i_size |-> new, i_data_block |-> block]]
        /\ g.open_file_table = [f.open_file_table EXCEPT ![h] =
             [of_inumber |-> i, of_offset |-> end]]
    BY <2>1 DEF Wrote, SizeOf
  <2> HIDE DEF new, g
  <2>3. SizeOf(g, i) = new /\ \A k \in Inumbers \ {i} : SizeOf(g, k) = SizeOf(f, k)
    BY <1>1, <2>2 DEF SizeOf
  <2>4. \A n, k : FileHas(g, n, k) <=> FileHas(f, n, k)
    BY <2>2 DEF FileHas, Live
  <2>5. HandlesStay(f, g, {h}) /\ h \in DOMAIN g.open_file_table
    BY <2>2 DEF HandlesStay
  <2>6. file.of_offset = size => new = size + len
    <3> DEFINE offset == file.of_offset
    <3>1. offset \in Nat /\ new = IF offset + len > size THEN offset + len ELSE size
      BY <1>2 DEF new
    <3> HIDE DEF offset, size, len
    <3> QED BY <1>2, <3>1 DEF offset
  <2>7. r.ret \in Nat /\ r.ret # -1
    BY <1>2, <1>6
  <2> HIDE DEF i, size, len
  <2> QED BY <2>3, <2>4, <2>5, <2>6, <2>7 DEF Grows, g, size
<1> QED BY <1>3, <1>4, <1>5, <1>6

\* A close takes its own handle and nothing else.
LEMMA CloseTakes ==
  ASSUME NEW f, FsInv(f), NEW h
  PROVE  LET g == tfs_close(f, h).fs
         IN  FilesStay(f, g) /\ HandlesStay(f, g, {h})
<1> DEFINE g == tfs_close(f, h).fs
<1>1. /\ SameFiles(f, g)
      /\ g.open_file_table = [k \in DOMAIN f.open_file_table \ {h} |-> f.open_file_table[k]]
  BY CloseKeepsInv
<1> HIDE DEF g
<1>2. HandlesStay(f, g, {h})
  BY <1>1 DEF HandlesStay
<1> QED BY <1>1, <1>2, SameFilesKept DEF g

\* A read and a rewind move their own handle.
LEMMA ReadMoves ==
  ASSUME NEW f, FsInv(f), NEW h, NEW len \in Nat
  PROVE  LET g == tfs_read(f, h, len).fs
         IN  FilesStay(f, g) /\ HandlesStay(f, g, {h})
               /\ DOMAIN g.open_file_table = DOMAIN f.open_file_table
<1> DEFINE r == tfs_read(f, h, len)
<1>1. /\ SameFiles(f, r.fs)
      /\ r.fs = f \/ r.fs = Panic(f) \/ ReadFrom(f, r.fs, h, len, r.data)
  BY ReadKeepsInv
<1> HIDE DEF r
<1>2. \/ r.fs.open_file_table = f.open_file_table
      \/ \E x : r.fs.open_file_table = [f.open_file_table EXCEPT ![h] = x]
  BY <1>1 DEF Panic, FsInv, FsType, ReadFrom
<1>3. HandlesStay(f, r.fs, {h}) /\ DOMAIN r.fs.open_file_table = DOMAIN f.open_file_table
  BY <1>2 DEF HandlesStay
<1> QED BY <1>1, <1>3, SameFilesKept DEF r

\* A rewind moves one handle.
LEMMA RewindMoves ==
  ASSUME NEW f, FsInv(f), NEW h
  PROVE  LET g == tfs_rewind_offset(f, h).fs
         IN  FilesStay(f, g) /\ HandlesStay(f, g, {h})
               /\ DOMAIN g.open_file_table = DOMAIN f.open_file_table
<1> DEFINE g == tfs_rewind_offset(f, h).fs
<1>1. /\ SameFiles(f, g)
      /\ \/ g = f
         \/ g = [f EXCEPT !.locked = TRUE]
         \/ \E x : g.open_file_table = [f.open_file_table EXCEPT ![h] = x]
  <2> DEFINE file == [of_inumber |-> f.open_file_table[h].of_inumber, of_offset |-> 0]
  <2>1. /\ SameFiles(f, g)
        /\ \/ g = f
           \/ g = [f EXCEPT !.locked = TRUE]
           \/ g.open_file_table = [f.open_file_table EXCEPT ![h] = file]
    BY RewindKeepsInv
  <2> HIDE DEF g, file
  <2> QED BY <2>1
<1> HIDE DEF g
<1>2. \/ g.open_file_table = f.open_file_table
      \/ \E x : g.open_file_table = [f.open_file_table EXCEPT ![h] = x]
  BY <1>1 DEF FsInv, FsType
<1>3. HandlesStay(f, g, {h}) /\ DOMAIN g.open_file_table = DOMAIN f.open_file_table
  BY <1>2 DEF HandlesStay
<1> QED BY <1>1, <1>3, SameFilesKept DEF g

-----------------------------------------------------------------------------
(* What a caller by name finds in its files *)

\* TFS_O_CREAT leaves what is in the files; one that is made has nothing in it.
LEMMA CreateKeepsContents ==
  ASSUME NEW f, FsInv(f), NEW n
  PROVE  LET g == tfs_open(f, n, {"CREAT"}).fs
         IN  /\ \A m, k : FileHas(f, m, k) =>
                  FileHas(g, m, k) /\ ContentsOf(g, k) = ContentsOf(f, k)
             /\ \A m, k : FileHas(g, m, k) =>
                  FileHas(f, m, k) \/ (m = n /\ ContentsOf(g, k) = <<>>)
             /\ tfs_open(f, n, {"CREAT"}).ret # -1 => \E k : FileHas(g, n, k)
<1> DEFINE r == tfs_open(f, n, {"CREAT"})
           g == r.fs
<1>1. \/ FilesStay(f, g) /\ (r.ret = -1 \/ \E i \in Inumbers : FileHas(f, n, i))
      \/ FileMade(f, g, n)
  BY OpenToCreate
<1>2. \A x \in Files(f) : /\ g.fs_data = f.fs_data
                          /\ g.inode_table[x] = f.inode_table[x] \/ g.inode_table[x].i_size = 0
  BY OpenKeepsFiles
<1> HIDE DEF r
<1>3. ASSUME NEW m, NEW k, FileHas(f, m, k)
      PROVE  FileHas(g, m, k) /\ ContentsOf(g, k) = ContentsOf(f, k)
  <2>1. FileHas(g, m, k) /\ SizeOf(g, k) = SizeOf(f, k) /\ k \in Files(f)
    BY <1>1, <1>3, FileIs DEF FilesStay, FileMade
  <2>2. CASE g.inode_table[k] = f.inode_table[k]
    BY <1>2, <2>1, <2>2 DEF ContentsOf
  <2>3. CASE g.inode_table[k].i_size = 0
    BY <2>1, <2>3, NoContents DEF SizeOf
  <2> QED BY <1>2, <2>1, <2>2, <2>3
<1>4. ASSUME NEW m, NEW k, FileHas(g, m, k)
      PROVE  FileHas(f, m, k) \/ (m = n /\ ContentsOf(g, k) = <<>>)
  <2>1. CASE FilesStay(f, g)
    BY <1>4, <2>1 DEF FilesStay
  <2>2. CASE FileMade(f, g, n)
    <3>1. PICK i : /\ SizeOf(g, i) = 0
                   /\ FileHas(f, m, k) \/ (m = n /\ k = i)
      BY <1>4, <2>2 DEF FileMade
    <3> QED BY <3>1, NoContents DEF SizeOf
  <2> QED BY <1>1, <2>1, <2>2
<1>5. r.ret # -1 => \E k : FileHas(g, n, k)
  BY <1>1 DEF FilesStay, FileMade
<1> QED BY <1>3, <1>4, <1>5 DEF r

\* A write at the end of a file that does not reach the end of its block: the file
\* has these cells more, and every other file within its block has what it had.
LEMMA WriteAppends ==
  ASSUME NEW f, FsInv(f), NEW h \in DOMAIN f.open_file_table, InFile(f, h), NEW C,
         NEW buffer \in Seq(C), NEW i, i = f.open_file_table[h].of_inumber,
         f.open_file_table[h].of_offset = SizeOf(f, i), ContentsOf(f, i) \in Seq(C),
         tfs_write(f, h, buffer).ret # -1, SizeOf(f, i) + Len(buffer) <= BLOCK_SIZE
  PROVE  LET g == tfs_write(f, h, buffer).fs
         IN  /\ ContentsOf(g, i) = ContentsOf(f, i) \o buffer
             /\ \A k \in Files(f) \ {i} :
                  SizeOf(f, k) <= BLOCK_SIZE => ContentsOf(g, k) = ContentsOf(f, k)
<1> DEFINE r == tfs_write(f, h, buffer)
           g == r.fs
           c == ContentsOf(f, i)
           size == SizeOf(f, i)
           len == Len(buffer)
<1>1. i \in Files(f) /\ i \in Inumbers /\ size \in Nat /\ len \in Nat
  BY LenProperties DEF InFile, FsInv, FsType, OpenFiles, InodeRecords, SizeOf
<1>2. Len(c) = size
  BY <1>1, ContentsLen DEF SizeOf
<1>3. \/ g = f /\ buffer = <<>>
      \/ buffer # <<>> /\ \E block \in Blocks : Wrote(f, g, h, buffer, block)
  BY WriteKeepsInv
<1>4. CASE g = f /\ buffer = <<>>
  <2> HIDE DEF c, g
  <2>1. c \o buffer = c
    BY <1>4, ConcatEmptySeq DEF c
  <2> QED BY <1>4, <2>1 DEF c, g
<1>5. CASE buffer # <<>> /\ \E block \in Blocks : Wrote(f, g, h, buffer, block)
  <2>1. PICK block \in Blocks : Wrote(f, g, h, buffer, block)
    BY <1>5
  <2> HIDE DEF g, r
  <2>2. /\ f.open_file_table[h].of_offset + Len(buffer) <= BLOCK_SIZE
        /\ f.inode_table[i].i_size <= BLOCK_SIZE
    <3>1. size + len <= BLOCK_SIZE /\ BLOCK_SIZE \in Nat
      BY TfsAssumption
    <3> HIDE DEF size, len
    <3>2. size <= BLOCK_SIZE
      BY <1>1, <3>1
    <3> QED BY <3>1, <3>2 DEF size, len, SizeOf
  <2>3. ContentsOf(g, i) = Written(f, h, buffer)
    BY <1>5, <2>1, <2>2, WrittenContents
  <2>4. Written(f, h, buffer) = c \o buffer
    <3> DEFINE end == size + len
    <3>1. Written(f, h, buffer) =
            [k \in 1 .. (IF end > size THEN end ELSE size) |->
               IF k \in size + 1 .. end THEN buffer[k - size] ELSE c[k]]
      BY DEF Written, SizeOf
    <3>2. /\ c \o buffer \in Seq(C) /\ Len(c \o buffer) = size + len
          /\ \A k \in 1 .. size + len :
               (c \o buffer)[k] = IF k <= size THEN c[k] ELSE buffer[k - size]
      <4>1. c \in Seq(C) /\ Len(c) = size /\ Len(buffer) = len /\ size \in Nat /\ len \in Nat
        BY <1>1, <1>2
      <4> HIDE DEF c, size, len
      <4> QED BY <4>1, ConcatProperties
    <3> DEFINE s == c \o buffer
    <3>3. s = [k \in 1 .. end |-> s[k]]
      BY <3>2, LenProperties
    <3> HIDE DEF s, size, len, c
    <3>4. (IF end > size THEN end ELSE size) = end
      BY <1>1
    <3>5. \A k \in 1 .. end : s[k] = IF k \in size + 1 .. end THEN buffer[k - size] ELSE c[k]
      BY <1>1, <3>2 DEF s
    <3> QED BY <3>1, <3>3, <3>4, <3>5 DEF s
  <2>5. ASSUME NEW k \in Files(f) \ {i}, SizeOf(f, k) <= BLOCK_SIZE
        PROVE  ContentsOf(g, k) = ContentsOf(f, k)
    <3>1. f.inode_table[k].i_size <= BLOCK_SIZE
      BY <2>5 DEF SizeOf
    <3>2. f.open_file_table[h].of_inumber = i /\ i \in Files(f) /\ k \in Files(f) /\ k # i
      BY <1>1
    <3> QED BY <2>1, <2>2, <3>1, <3>2, WriteKeepsOthers
  <2> QED BY <2>3, <2>4, <2>5 DEF g, r
<1> QED BY <1>3, <1>4, <1>5

\* r is what a read of len cells at off returns, through handle h of file i.
Reads(f, h, i, off, len, r) ==
  /\ r.data = SubSeq(ContentsOf(f, i), off + 1, off + len)
  /\ SameFiles(f, r.fs) /\ h \in DOMAIN r.fs.open_file_table
  /\ r.fs.open_file_table[h] = [of_inumber |-> i, of_offset |-> off + len]

\* A read that does not reach past the end of the file.
LEMMA ReadGets ==
  ASSUME NEW f, FsInv(f), NEW h \in DOMAIN f.open_file_table, NEW len \in Nat, InFile(f, h),
         NEW i, i = f.open_file_table[h].of_inumber,
         NEW off, off = f.open_file_table[h].of_offset, off + len <= SizeOf(f, i)
  PROVE  Reads(f, h, i, off, len, tfs_read(f, h, len))
<1> DEFINE r == tfs_read(f, h, len)
<1> SUFFICES /\ r.data = SubSeq(ContentsOf(f, i), off + 1, off + len)
             /\ SameFiles(f, r.fs) /\ h \in DOMAIN r.fs.open_file_table
             /\ r.fs.open_file_table[h] = [of_inumber |-> i, of_offset |-> off + len]
  BY DEF Reads
<1>1. /\ SameFiles(f, r.fs)
      /\ \/ r.fs = f /\ r.data = <<>> /\ len = 0
         \/ len # 0 /\ ~HasBlock(f, i)
         \/ ReadFrom(f, r.fs, h, len, r.data)
  BY ReadKeepsInv DEF IsOpen
<1>2. off \in Nat /\ SizeOf(f, i) \in Nat /\ f.open_file_table[h] \in OpenFiles
  BY DEF FsInv, FsType, OpenFiles, InodeRecords, SizeOf
<1> HIDE DEF r
<1>3. CASE len = 0 /\ r.fs = f /\ r.data = <<>>
  <2> DEFINE c == ContentsOf(f, i)
  <2>1. off + 1 \in Int /\ off + len \in Int /\ off + len < off + 1 /\ off + len = off
    BY <1>2, <1>3
  <2> HIDE DEF c
  <2>2. SubSeq(c, off + 1, off + len) = <<>>
    BY <2>1, SubSeqEmpty
  <2>3. f.open_file_table[h] = [of_inumber |-> i, of_offset |-> off]
    BY <1>2 DEF OpenFiles
  <2> QED BY <1>1, <1>3, <2>1, <2>2, <2>3 DEF c, r
<1>4. CASE len # 0 /\ ~HasBlock(f, i)
  <2> DEFINE size == SizeOf(f, i)
  <2>1. size = 0 /\ off + len <= size
    BY <1>2, <1>4 DEF HasBlock, SizeOf
  <2> HIDE DEF size
  <2> QED BY <1>2, <1>4, <2>1
<1>5. CASE ReadFrom(f, r.fs, h, len, r.data)
  <2>1. r.data = SubSeq(ContentsOf(f, i), off + 1, off + len)
    BY <1>5, ReadData DEF SizeOf
  <2>2. r.fs.open_file_table = [f.open_file_table EXCEPT ![h] =
           [of_inumber |-> i, of_offset |-> off + len]]
    BY <1>5 DEF ReadFrom
  <2> QED BY <1>1, <2>1, <2>2 DEF r
<1> QED BY <1>1, <1>3, <1>4, <1>5

\* An unlink takes the file of its own name and leaves what is in the others.
LEMMA UnlinkKeepsContents ==
  ASSUME NEW f, FsInv(f), NEW n
  PROVE  LET g == tfs_unlink(f, n).fs
         IN  /\ \A m, k : FileHas(g, m, k) => FileHas(f, m, k)
             /\ \A m, k : FileHas(f, m, k) /\ m # n => FileHas(g, m, k)
             /\ \A k : ContentsOf(g, k) = ContentsOf(f, k)
<1> DEFINE r == tfs_unlink(f, n)
           g == r.fs
<1>1. /\ g.inode_table = f.inode_table /\ g.fs_data = f.fs_data
      /\ g = f \/ \E e \in Live(f) : f.dir[e].d_name = n /\ g = Deleted(f, e)
  BY UnlinkKeepsInv
<1> HIDE DEF r
<1>2. \A k : ContentsOf(g, k) = ContentsOf(f, k)
  BY <1>1, SameContents
<1>3. CASE g = f
  BY <1>2, <1>3 DEF r
<1>4. CASE \E e \in Live(f) : f.dir[e].d_name = n /\ g = Deleted(f, e)
  <2>1. PICK e \in Live(f) : f.dir[e].d_name = n /\ g = Deleted(f, e)
    BY <1>4
  <2>2. Live(g) = Live(f) \ {e} /\ \A k \in Live(g) : g.dir[k] = f.dir[k]
    BY <2>1, FileRemoved
  <2> QED BY <1>2, <2>1, <2>2 DEF FileHas, r
<1> QED BY <1>1, <1>3, <1>4
=============================================================================

----------------------------- MODULE FileStore -----------------------------
(***************************************************************************)
(* What TecnicoFS promises to a caller that respects its limits: a set of  *)
(* named files, each a sequence of cells, and handles that hold a file and *)
(* an offset.  There are no inodes, blocks or directory entries here, only *)
(* the three limits a caller can run into.  TecnicoFS is checked to        *)
(* implement this module, return values and data included.                 *)
(***************************************************************************)
EXTENDS Integers, Sequences, FiniteSets

CONSTANTS Paths,        \* path names a file can have
          Buffers,      \* what is written
          Lengths,      \* how much is asked for when reading
          MaxFiles, MaxNonEmpty, MaxOpen

VARIABLES contents,     \* each existing file's cells
          handles,      \* each open handle's [name, off]
          reply         \* what the last call returned

storeVars == <<contents, handles, reply>>

Reply(op, ret, data) ==
  /\ reply'.op = op
  /\ reply' = [op |-> op, ret |-> ret, data |-> data]

Init == /\ contents = <<>>
        /\ handles = <<>>
        /\ reply = [op |-> "init", ret |-> 0, data |-> <<>>]

Set(f, x, v) == [y \in DOMAIN f \cup {x} |-> IF y = x THEN v ELSE f[y]]
Drop(f, x) == [y \in DOMAIN f \ {x} |-> f[y]]

Exists(n) == n \in DOMAIN contents
Opened(n) == \E h \in DOMAIN handles : handles[h].name = n
FreeHandles == (0 .. MaxOpen - 1) \ DOMAIN handles
LowestFree == CHOOSE h \in FreeHandles : \A k \in FreeHandles : h <= k

\* The file is created or emptied even when no handle is left for it.
Open(n, mode) ==
  LET made == IF ~Exists(n) \/ "TRUNC" \in mode THEN Set(contents, n, <<>>) ELSE contents
      off == IF "APPEND" \in mode THEN Len(made[n]) ELSE 0
  IN  /\ Reply("open", IF FreeHandles = {} THEN -1 ELSE LowestFree, <<>>)
      /\ Exists(n) \/ ("CREAT" \in mode /\ Cardinality(DOMAIN contents) < MaxFiles)
      /\ contents' = made
      /\ handles' = IF FreeHandles = {} THEN handles
                    ELSE Set(handles, LowestFree, [name |-> n, off |-> off])

OpenFails(n, mode) ==
  /\ Reply("open", -1, <<>>)
  /\ ~Exists(n)
  /\ "CREAT" \notin mode \/ n \notin Paths \/ Cardinality(DOMAIN contents) >= MaxFiles
  /\ UNCHANGED <<contents, handles>>

Close(h) == /\ Reply("close", IF h \in DOMAIN handles THEN 0 ELSE -1, <<>>)
            /\ handles' = Drop(handles, h)
            /\ UNCHANGED contents

\* The cells from the offset on are replaced; the file grows if they reach
\* past its end.
Write(h, buffer) ==
  LET n == handles[h].name
      off == handles[h].off
      end == off + Len(buffer)
      old == contents[n]
      Grown == IF end > Len(old) THEN end ELSE Len(old)
  IN  /\ Reply("write", Len(buffer), <<>>)
      /\ h \in DOMAIN handles
      /\ handles' = [handles EXCEPT ![h].off = end]
      /\ contents' = [contents EXCEPT ![n] =
           [i \in 1 .. Grown |-> IF i \in off + 1 .. end THEN buffer[i - off] ELSE old[i]]]

\* No handle, or an empty file that finds every block taken by other files.
WriteFails(h, buffer) ==
  /\ Reply("write", -1, <<>>)
  /\ \/ h \notin DOMAIN handles
     \/ /\ contents[handles[h].name] = <<>> /\ buffer # <<>>
        /\ Cardinality({n \in DOMAIN contents : contents[n] # <<>>}) = MaxNonEmpty
  /\ UNCHANGED <<contents, handles>>

Read(h, len) ==
  /\ h \in DOMAIN handles
  /\ handles[h].off + len <= Len(contents[handles[h].name])
  /\ Reply("read", len, SubSeq(contents[handles[h].name],
                               handles[h].off + 1, handles[h].off + len))
  /\ handles' = [handles EXCEPT ![h].off = @ + len]
  /\ UNCHANGED contents

Rewind(h) == /\ Reply("rewind", 0, <<>>)
             /\ h \in DOMAIN handles
             /\ handles' = [handles EXCEPT ![h].off = 0]
             /\ UNCHANGED contents

BadHandle(h, op) == /\ Reply(op, -1, <<>>)
                    /\ h \notin DOMAIN handles
                    /\ UNCHANGED <<contents, handles>>

Unlink(n) == /\ Reply("unlink", IF Exists(n) THEN 0 ELSE -1, <<>>)
             /\ ~Opened(n)
             /\ contents' = Drop(contents, n)
             /\ UNCHANGED handles

Remount == /\ Reply("init", 0, <<>>)
           /\ contents' = <<>>
           /\ handles' = <<>>

Names == Paths \cup {"no such path"}
Modes == SUBSET {"CREAT", "TRUNC", "APPEND"}

Next ==
  \/ \E n \in Paths, mode \in Modes : Open(n, mode)
  \/ \E n \in Names, mode \in Modes : OpenFails(n, mode)
  \/ \E h \in 0 .. MaxOpen : Close(h) \/ Rewind(h) \/ BadHandle(h, "rewind") \/ BadHandle(h, "read")
  \/ \E h \in 0 .. MaxOpen, b \in Buffers : Write(h, b) \/ WriteFails(h, b)
  \/ \E h \in 0 .. MaxOpen, l \in Lengths : Read(h, l)
  \/ \E n \in Names : Unlink(n)
  \/ Remount

Spec == Init /\ [][Next]_storeVars
=============================================================================

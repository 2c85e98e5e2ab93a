------------------------ MODULE MbrokerThreadProofs ------------------------
(* Theorems about MbrokerThread, for any number of clients, boxes and threads. *)
EXTENDS MbrokerThread, ClientsProofs, TfsOpsProofs

-----------------------------------------------------------------------------
(* Sums of the elements of a finite function, the folds of the model.  Which    *)
(* element a fold takes next is not known; the sum does not depend on it.       *)

Pick(s) == CHOOSE x \in s : TRUE
IsTotal(sum, b) ==
  sum = [s \in SUBSET DOMAIN b |-> IF s = {} THEN 0 ELSE b[Pick(s)] + sum[s \ {Pick(s)}]]
Total(b) == CHOOSE sum : IsTotal(sum, b)

\* A finite function to numbers.
Summable(b) == IsFiniteSet(DOMAIN b) /\ b = [i \in DOMAIN b |-> b[i]]
               /\ \A i \in DOMAIN b : b[i] \in Nat

UpTo(D, k) == {s \in SUBSET D : Cardinality(s) <= k}

\* A set without one element has one element less.
LEMMA OneLess ==
  ASSUME NEW D, IsFiniteSet(D), NEW k \in Nat, NEW s \in UpTo(D, k + 1), NEW x \in s
  PROVE  s \ {x} \in UpTo(D, k)
<1>1. IsFiniteSet(s) /\ Cardinality(s) <= k + 1
  BY FS_Subset DEF UpTo
<1>2. Cardinality(s \ {x}) = Cardinality(s) - 1 /\ Cardinality(s) \in Nat
  BY <1>1, FS_RemoveElement, FS_CardinalityType
<1> QED BY <1>1, <1>2 DEF UpTo

\* What is picked of a set is in it.
LEMMA PickIsElement == ASSUME NEW s, s # {} PROVE Pick(s) \in s
BY DEF Pick

\* Every subset of a finite set is of some size.
LEMMA SomeSize ==
  ASSUME NEW D, IsFiniteSet(D)
  PROVE  /\ Cardinality(D) \in Nat /\ UpTo(D, Cardinality(D)) = SUBSET D
         /\ UpTo(D, 0) = {{}}
         /\ \A k \in Nat : UpTo(D, k) \subseteq UpTo(D, k + 1)
<1>1. Cardinality(D) \in Nat
  BY FS_CardinalityType
<1>2. \A s \in SUBSET D : /\ IsFiniteSet(s) /\ Cardinality(s) <= Cardinality(D)
                          /\ Cardinality(s) \in Nat
  BY FS_Subset, FS_CardinalityType
<1>3. \A s \in SUBSET D : Cardinality(s) = 0 <=> s = {}
  BY <1>2, FS_EmptySet
<1> QED BY <1>1, <1>2, <1>3 DEF UpTo

\* A sum of each subset exists.
LEMMA TotalExists ==
  ASSUME NEW b, Summable(b)
  PROVE  IsTotal(Total(b), b)
<1> DEFINE D == DOMAIN b
           Next1(s, g) == IF s = {} THEN 0 ELSE b[Pick(s)] + g[s \ {Pick(s)}]
           Partial(g, k) == g = [s \in UpTo(D, k) |-> Next1(s, g)]
           K == {k \in Nat : \E g : Partial(g, k)}
<1>1. 0 \in K
  <2> DEFINE g == [s \in UpTo(D, 0) |-> 0]
  <2>1. UpTo(D, 0) = {{}}
    BY SomeSize DEF Summable
  <2>2. [s \in UpTo(D, 0) |-> Next1(s, g)] = g
    BY <2>1
  <2> QED BY <2>2
<1>2. ASSUME NEW k \in Nat, k \in K PROVE k + 1 \in K
  <2>1. PICK g : Partial(g, k)
    BY <1>2
  <2> DEFINE h == [s \in UpTo(D, k + 1) |-> Next1(s, g)]
  <2>2. \A s \in UpTo(D, k) : h[s] = g[s]
    BY <2>1, SomeSize DEF Summable
  <2>3. ASSUME NEW s \in UpTo(D, k + 1) PROVE h[s] = Next1(s, h)
    <3>1. CASE s = {}
      BY <3>1
    <3>2. CASE s # {}
      <4>1. s \ {Pick(s)} \in UpTo(D, k)
        BY <3>2, PickIsElement, OneLess DEF Summable
      <4>2. h[s \ {Pick(s)}] = g[s \ {Pick(s)}]
        BY <2>2, <4>1
      <4> QED BY <3>2, <4>2
    <3> QED BY <3>1, <3>2
  <2>4. h = [s \in UpTo(D, k + 1) |-> h[s]]
    OBVIOUS
  <2> HIDE DEF h
  <2>5. Partial(h, k + 1)
    BY <2>3, <2>4
  <2> QED BY <2>5
<1> HIDE DEF K
<1>3. Cardinality(D) \in K
  BY <1>1, <1>2, CountingUp, SomeSize DEF Summable
<1>4. \E g : Partial(g, Cardinality(D))
  BY <1>3 DEF K
<1>5. \E g : IsTotal(g, b)
  <2>1. PICK g : Partial(g, Cardinality(D))
    BY <1>4
  <2>2. UpTo(D, Cardinality(D)) = SUBSET D
    BY SomeSize DEF Summable
  <2>3. g = [s \in SUBSET D |-> Next1(s, g)]
    BY <2>1, <2>2
  <2> QED BY <2>3 DEF IsTotal
<1> QED BY <1>5 DEF Total

\* A sum over a set is one element and the sum over the others.
LEMMA TotalStep ==
  ASSUME NEW b, NEW f, IsTotal(f, b)
  PROVE  /\ f[{}] = 0
         /\ \A s \in SUBSET DOMAIN b : s # {} => f[s] = b[Pick(s)] + f[s \ {Pick(s)}]
BY DEF IsTotal

\* Sums are numbers.
LEMMA TotalIsNumber ==
  ASSUME NEW b, Summable(b), NEW f, IsTotal(f, b), NEW r \in SUBSET DOMAIN b
  PROVE  f[r] \in Nat
<1> DEFINE D == DOMAIN b
           K == {k \in Nat : \A s \in UpTo(D, k) : f[s] \in Nat}
<1>0. \A s \in SUBSET DOMAIN b : s # {} => f[s] = b[Pick(s)] + f[s \ {Pick(s)}]
  BY ONLY IsTotal(f, b) DEF IsTotal
<1>1. 0 \in K
  <2>1. UpTo(D, 0) = {{}}
    BY SomeSize DEF Summable
  <2>2. f[{}] = 0
    BY TotalStep
  <2> QED BY <2>1, <2>2
<1>2. ASSUME NEW k \in Nat, k \in K PROVE k + 1 \in K
  <2>1. ASSUME NEW s \in UpTo(D, k + 1) PROVE f[s] \in Nat
    <3>1. CASE s = {}
      BY <3>1, TotalStep
    <3>2. CASE s # {}
      <4>1. Pick(s) \in s /\ s \in SUBSET DOMAIN b
        BY <3>2, PickIsElement DEF UpTo
      <4>2. s \ {Pick(s)} \in UpTo(D, k)
        BY <4>1, OneLess DEF Summable
      <4>3. f[s \ {Pick(s)}] \in Nat /\ b[Pick(s)] \in Nat
        BY <1>2, <4>1, <4>2 DEF Summable
      <4>4. f[s] = b[Pick(s)] + f[s \ {Pick(s)}]
        BY <1>0, <3>2, <4>1
      <4> QED BY <4>3, <4>4
    <3> QED BY <3>1, <3>2
  <2> QED BY <2>1
<1> HIDE DEF K
<1>3. Cardinality(D) \in K
  BY <1>1, <1>2, CountingUp, SomeSize DEF Summable
<1> QED BY <1>3, SomeSize DEF K, Summable

\* Functions that agree on a set have the same sum over it.
LEMMA TotalsAgree ==
  ASSUME NEW b, Summable(b), NEW f, IsTotal(f, b),
         NEW c, Summable(c), NEW g, IsTotal(g, c),
         NEW r, r \subseteq DOMAIN b, r \subseteq DOMAIN c, \A i \in r : b[i] = c[i]
  PROVE  f[r] = g[r]
<1> DEFINE K == {k \in Nat : \A s \in UpTo(r, k) : f[s] = g[s]}
<1>0. IsFiniteSet(r)
  BY FS_Subset DEF Summable
<1>1. 0 \in K
  <2>1. UpTo(r, 0) = {{}}
    BY <1>0, SomeSize
  <2> QED BY <2>1, TotalStep
<1>2. ASSUME NEW k \in Nat, k \in K PROVE k + 1 \in K
  <2>1. ASSUME NEW s \in UpTo(r, k + 1) PROVE f[s] = g[s]
    <3>1. CASE s = {}
      BY <3>1, TotalStep
    <3>2. CASE s # {}
      <4>1. /\ Pick(s) \in s /\ s \in SUBSET r
            /\ s \in SUBSET DOMAIN b /\ s \in SUBSET DOMAIN c
        BY <3>2, PickIsElement DEF UpTo
      <4>2. s \ {Pick(s)} \in UpTo(r, k)
        BY <1>0, <4>1, OneLess
      <4>3. f[s \ {Pick(s)}] = g[s \ {Pick(s)}] /\ b[Pick(s)] = c[Pick(s)]
        BY <1>2, <4>1, <4>2
      <4>4. f[s] = b[Pick(s)] + f[s \ {Pick(s)}] /\ g[s] = c[Pick(s)] + g[s \ {Pick(s)}]
        BY <3>2, <4>1, TotalStep
      <4> QED BY <4>3, <4>4
    <3> QED BY <3>1, <3>2
  <2> QED BY <2>1
<1> HIDE DEF K
<1>3. Cardinality(r) \in K
  BY <1>0, <1>1, <1>2, CountingUp, SomeSize
<1> QED BY <1>0, <1>3, SomeSize DEF K

\* Any element may be taken out first.
LEMMA TakeOut ==
  ASSUME NEW b, Summable(b), NEW f, IsTotal(f, b), NEW r \in SUBSET DOMAIN b, NEW i \in r
  PROVE  f[r] = b[i] + f[r \ {i}] /\ b[i] \in Nat /\ f[r \ {i}] \in Nat
<1> DEFINE D == DOMAIN b
           K == {k \in Nat : \A s \in UpTo(D, k) : \A x \in s : f[s] = b[x] + f[s \ {x}]}
<1>0. \A t \in SUBSET DOMAIN b : t # {} => f[t] = b[Pick(t)] + f[t \ {Pick(t)}]
  BY ONLY IsTotal(f, b) DEF IsTotal
<1>1. 0 \in K
  <2>1. UpTo(D, 0) = {{}}
    BY SomeSize DEF Summable
  <2> QED BY <2>1
<1>2. ASSUME NEW k \in Nat, k \in K PROVE k + 1 \in K
  <2>1. ASSUME NEW s \in UpTo(D, k + 1), NEW x \in s PROVE f[s] = b[x] + f[s \ {x}]
    <3> DEFINE p == Pick(s)
    <3>1. p \in s /\ s \in SUBSET D
      BY PickIsElement DEF UpTo
    <3>2. f[s] = b[p] + f[s \ {p}]
      <4>1. s \in SUBSET DOMAIN b /\ s # {}
        BY <3>1
      <4> QED BY <1>0, <4>1
    <3> HIDE DEF p
    <3>3. s \ {p} \in UpTo(D, k) /\ s \ {x} \in UpTo(D, k)
      BY <3>1, OneLess DEF Summable
    <3>4. CASE p = x
      BY <3>2, <3>4
    <3>5. CASE p # x
      <4>1. f[s \ {p}] = b[x] + f[(s \ {p}) \ {x}]
        BY <1>2, <3>3, <3>5
      <4>2. f[s \ {x}] = b[p] + f[(s \ {x}) \ {p}]
        BY <1>2, <3>1, <3>3, <3>5
      <4> DEFINE u == (s \ {x}) \ {p}
      <4>3. (s \ {p}) \ {x} = u /\ u \in SUBSET D
        BY <3>1
      <4>4. f[u] \in Nat /\ b[x] \in Nat /\ b[p] \in Nat
        BY <3>1, <4>3, TotalIsNumber DEF Summable
      <4> HIDE DEF u
      <4>5. f[s \ {p}] = b[x] + f[u] /\ f[s \ {x}] = b[p] + f[u]
        BY <4>1, <4>2, <4>3 DEF u
      <4> QED BY <3>2, <4>4, <4>5
    <3> QED BY <3>4, <3>5
  <2> QED BY <2>1
<1> HIDE DEF K
<1>3. Cardinality(D) \in K
  BY <1>1, <1>2, CountingUp, SomeSize DEF Summable
<1>4. f[r] = b[i] + f[r \ {i}]
  BY <1>3, SomeSize DEF K, Summable
<1>5. f[r \ {i}] \in Nat
  BY TotalIsNumber
<1> QED BY <1>4, <1>5 DEF Summable

\* The total of one number.
LEMMA TotalOfOne ==
  ASSUME NEW b, Summable(b), NEW f, IsTotal(f, b), NEW t \in DOMAIN b, DOMAIN b \ {t} = {}
  PROVE  f[DOMAIN b] = b[t]
<1> DEFINE D == DOMAIN b
           x == b[t]
           rest == f[D \ {t}]
           all == f[D]
<1>1. Pick(D) \in D
  BY PickIsElement
<1>2. D # {} /\ D \in SUBSET D /\ Pick(D) = t
  BY <1>1
<1>3. f[D] = b[Pick(D)] + f[D \ {Pick(D)}] /\ f[{}] = 0
  BY <1>2, TotalStep
<1>4. x \in Nat /\ rest = 0 /\ all = x + rest
  BY <1>2, <1>3 DEF Summable
<1> HIDE DEF x, rest, all
<1>5. all = x
  BY <1>4
<1> QED BY <1>5 DEF x, all

\* The sum over the whole domain, and that with one element more.
LEMMA OneMore ==
  ASSUME NEW b, Summable(b), NEW c, Summable(c), NEW e, e \notin DOMAIN b,
         DOMAIN c = DOMAIN b \cup {e}, \A i \in DOMAIN b : c[i] = b[i]
  PROVE  Total(c)[DOMAIN c] = c[e] + Total(b)[DOMAIN b] /\ Total(b)[DOMAIN b] \in Nat
<1> DEFINE f == Total(b)
           g == Total(c)
           D == DOMAIN b
<1>1. IsTotal(f, b) /\ IsTotal(g, c)
  BY TotalExists
<1> HIDE DEF f, g
<1>2. g[D] = f[D]
  BY <1>1, TotalsAgree
<1>3. f[D] \in Nat
  BY <1>1, TotalIsNumber
<1>4. g[DOMAIN c] = c[e] + g[DOMAIN c \ {e}]
  BY <1>1, TakeOut
<1>5. DOMAIN c \ {e} = D
  OBVIOUS
<1> QED BY <1>2, <1>3, <1>4, <1>5 DEF f, g

\* The sizes of messages that a box keeps.
Sum(s) == FoldSeq(+, 0, s)

\* Sum, a fold over the whole sequence, is such a total.
LEMMA SumIsTotal == ASSUME NEW s PROVE Sum(s) = Total(s)[DOMAIN s]
BY DEF Sum, FoldSeq, FoldFunction, FoldFunctionOnSet, MapThenFoldSet, Total, IsTotal, Pick

\* A sequence of numbers can be summed.
LEMMA SeqIsSummable == ASSUME NEW s \in Seq(Nat) PROVE Summable(s)
<1>1. DOMAIN s = 1 .. Len(s) /\ Len(s) \in Nat /\ s \in [1 .. Len(s) -> Nat]
  BY LenProperties
<1>2. IsFiniteSet(1 .. Len(s))
  BY <1>1, FS_Interval
<1> QED BY <1>1, <1>2 DEF Summable

\* One size more.
LEMMA SumAppend ==
  ASSUME NEW s \in Seq(Nat), NEW x \in Nat
  PROVE  Sum(s) \in Nat /\ Sum(Append(s, x)) = x + Sum(s)
<1> DEFINE t == Append(s, x)
           n == Len(s)
<1>1. n \in Nat /\ DOMAIN s = 1 .. n
  BY LenProperties
<1>2. t \in Seq(Nat) /\ Len(t) = n + 1 /\ t[n + 1] = x /\ \A i \in 1 .. n : t[i] = s[i]
  BY AppendProperties
<1>3. DOMAIN t = 1 .. n + 1
  BY <1>2, LenProperties
<1> HIDE DEF t, n
<1>4. Summable(s) /\ Summable(t)
  BY <1>2, SeqIsSummable
<1>5. n + 1 \notin DOMAIN s /\ DOMAIN t = DOMAIN s \cup {n + 1}
  BY <1>1, <1>3
<1>6. \A i \in DOMAIN s : t[i] = s[i]
  BY <1>1, <1>2
<1>7. Total(t)[DOMAIN t] = t[n + 1] + Total(s)[DOMAIN s] /\ Total(s)[DOMAIN s] \in Nat
  BY <1>4, <1>5, <1>6, OneMore
<1>8. Sum(s) \in Nat /\ Sum(t) = x + Sum(s)
  BY <1>2, <1>7, SumIsTotal
<1> QED BY <1>8 DEF t

\* Of no numbers the sum is 0.
LEMMA SumOfNone == Sum(<<>>) = 0
<1>1. <<>> \in Seq(Nat) /\ Len(<<>>) = 0
  BY EmptySeq
<1>2. DOMAIN <<>> = 1 .. 0
  BY <1>1, LenProperties
<1>3. DOMAIN <<>> = {}
  BY <1>2
<1>4. IsTotal(Total(<<>>), <<>>)
  BY <1>1, SeqIsSummable, TotalExists
<1> QED BY <1>3, <1>4, SumIsTotal, TotalStep

-----------------------------------------------------------------------------
(* The register pipe *)

BytesOf(q) == [i \in DOMAIN q |-> q[i].bytes]

\* The bytes of the first requests.
Upto(q, i) == SumBytes(SubSeq(q, 1, i))

\* A request has a number of bytes.
LEMMA RequestHasBytes ==
  ASSUME NEW r \in Requests
  PROVE  r.bytes \in 1 .. 289 /\ r.bytes \in Nat
<1> DEFINE n == r.bytes
<1>1. n \in 1 .. 289
  BY DEF Requests
<1> HIDE DEF n
<1>2. n \in Nat
  BY <1>1
<1> QED BY <1>1, <1>2 DEF n

\* The bytes of requests can be summed.
LEMMA BytesAreSummable == ASSUME NEW q \in Seq(Requests) PROVE Summable(BytesOf(q))
<1>1. DOMAIN q = 1 .. Len(q) /\ Len(q) \in Nat /\ q \in [1 .. Len(q) -> Requests]
  BY LenProperties
<1>2. IsFiniteSet(1 .. Len(q))
  BY <1>1, FS_Interval
<1>3. \A i \in 1 .. Len(q) : q[i].bytes \in Nat
  <2>1. \A r \in Requests : r.bytes \in Nat
    BY RequestHasBytes
  <2> QED BY <1>1, <2>1
<1> QED BY <1>1, <1>2, <1>3 DEF Summable, BytesOf

\* SumBytes, which read_pipe_input compares with what it reads, is such a total.
LEMMA SumBytesIs ==
  ASSUME NEW q \in Seq(Requests)
  PROVE  SumBytes(q) = Total(BytesOf(q))[DOMAIN q]
<1> DEFINE Adds(sum) == sum = [s \in SUBSET DOMAIN q |->
                                 IF s = {} THEN 0
                                 ELSE q[Pick(s)].bytes + sum[s \ {Pick(s)}]]
           b == BytesOf(q)
           sum0 == CHOOSE sum : Adds(sum)
<1>1. SumBytes(q) = sum0[DOMAIN q]
  BY DEF SumBytes, FoldSeq, FoldFunction, FoldFunctionOnSet, MapThenFoldSet, Pick
<1>2. DOMAIN b = DOMAIN q /\ \A i \in DOMAIN q : b[i] = q[i].bytes
  BY DEF BytesOf
<1>3. ASSUME NEW sum PROVE Adds(sum) <=> IsTotal(sum, b)
  <2>1. \A s \in SUBSET DOMAIN q : s # {} => b[Pick(s)] = q[Pick(s)].bytes
    BY <1>2, PickIsElement
  <2> HIDE DEF b
  <2> QED BY <1>2, <2>1 DEF IsTotal
<1>4. Summable(b) /\ IsTotal(Total(b), b)
  BY BytesAreSummable, TotalExists
<1> HIDE DEF b
<1>5. Adds(Total(b))
  BY <1>3, <1>4
<1> HIDE DEF Adds
<1>6. Adds(sum0)
  BY <1>5
<1>7. IsTotal(sum0, b)
  BY <1>3, <1>6
<1>8. sum0[DOMAIN q] = Total(b)[DOMAIN q]
  BY <1>2, <1>4, <1>7, TotalsAgree
<1> QED BY <1>1, <1>8 DEF b

\* The first requests of a pipe, one by one.
LEMMA FirstRequests ==
  ASSUME NEW q \in Seq(Requests), NEW i \in 0 .. Len(q)
  PROVE  /\ SubSeq(q, 1, i) \in Seq(Requests) /\ Len(SubSeq(q, 1, i)) = i
         /\ DOMAIN SubSeq(q, 1, i) = 1 .. i
         /\ \A j \in 1 .. i : SubSeq(q, 1, i)[j] = q[j] /\ j \in DOMAIN q
<1>1. Len(q) \in Nat /\ DOMAIN q = 1 .. Len(q)
  BY LenProperties
<1>2. \A j \in 1 .. i : q[j] \in Requests /\ j \in DOMAIN q
  BY <1>1, ElementOfSeq
<1>3. i \in Int /\ 1 \in Int /\ i \in Nat
  BY <1>1
<1> DEFINE p == SubSeq(q, 1, i)
<1>4. /\ p \in Seq(Requests) /\ Len(p) = (IF 1 <= i THEN i - 1 + 1 ELSE 0)
      /\ \A j \in 1 .. i - 1 + 1 : p[j] = q[1 + j - 1]
  BY <1>2, <1>3, SubSeqProperties
<1> HIDE DEF p
<1>5. Len(p) = i /\ \A j \in 1 .. i : p[j] = q[j]
  BY <1>3, <1>4
<1>6. DOMAIN p = 1 .. i
  BY <1>4, <1>5, LenProperties
<1> QED BY <1>2, <1>4, <1>5, <1>6 DEF p

\* Each request adds its bytes.
LEMMA UptoStep ==
  ASSUME NEW q \in Seq(Requests)
  PROVE  /\ Upto(q, 0) = 0
         /\ \A i \in 0 .. Len(q) : Upto(q, i) \in Nat
         /\ \A i \in 1 .. Len(q) : Upto(q, i) = Upto(q, i - 1) + q[i].bytes
<1> DEFINE b == BytesOf(q)
           f == Total(b)
<1>1. Summable(b) /\ IsTotal(f, b)
  BY BytesAreSummable, TotalExists
<1>2. Len(q) \in Nat /\ DOMAIN q = 1 .. Len(q)
  BY LenProperties
<1>3. DOMAIN b = 1 .. Len(q) /\ \A i \in 1 .. Len(q) : b[i] = q[i].bytes
  BY <1>2 DEF BytesOf
<1> HIDE DEF f, b
<1>4. ASSUME NEW i \in 0 .. Len(q) PROVE Upto(q, i) = f[1 .. i] /\ f[1 .. i] \in Nat
  <2> DEFINE p == SubSeq(q, 1, i)
             c == BytesOf(p)
  <2>1. p \in Seq(Requests) /\ DOMAIN p = 1 .. i /\ \A j \in 1 .. i : p[j] = q[j]
    BY FirstRequests
  <2>2. Upto(q, i) = Total(c)[1 .. i]
    BY <2>1, SumBytesIs DEF Upto
  <2>3. Summable(c) /\ IsTotal(Total(c), c)
    BY <2>1, BytesAreSummable, TotalExists
  <2>4. DOMAIN c = 1 .. i /\ \A j \in 1 .. i : c[j] = p[j].bytes
    BY <2>1 DEF BytesOf
  <2> HIDE DEF c, p
  <2>5. 1 .. i \subseteq DOMAIN b /\ \A j \in 1 .. i : b[j] = c[j]
    BY <1>2, <1>3, <2>1, <2>4
  <2>6. Total(c)[1 .. i] = f[1 .. i]
    BY <1>1, <2>3, <2>4, <2>5, TotalsAgree
  <2>7. f[1 .. i] \in Nat
    BY <1>1, <2>5, TotalIsNumber
  <2> QED BY <2>2, <2>6, <2>7
<1>5. Upto(q, 0) = 0
  <2>1. 1 .. 0 = {} /\ 0 \in 0 .. Len(q)
    BY <1>2
  <2>2. f[{}] = 0
    BY <1>1, TotalStep
  <2> QED BY <1>4, <2>1, <2>2
<1>6. ASSUME NEW i \in 1 .. Len(q) PROVE Upto(q, i) = Upto(q, i - 1) + q[i].bytes
  <2>1. /\ i \in 0 .. Len(q) /\ i - 1 \in 0 .. Len(q) /\ i \in 1 .. i
        /\ (1 .. i) \ {i} = 1 .. i - 1 /\ 1 .. i \subseteq 1 .. Len(q)
    BY <1>2
  <2>2. f[1 .. i] = b[i] + f[(1 .. i) \ {i}] /\ b[i] \in Nat /\ f[(1 .. i) \ {i}] \in Nat
    BY <1>1, <1>3, <2>1, TakeOut
  <2>3. f[1 .. i] = f[1 .. i - 1] + q[i].bytes
    <3> DEFINE before == f[1 .. i - 1]
    <3>1. f[1 .. i] = q[i].bytes + before /\ q[i].bytes \in Nat /\ before \in Nat
      BY <1>3, <2>1, <2>2
    <3> HIDE DEF before
    <3>2. f[1 .. i] = before + q[i].bytes
      BY <3>1
    <3> QED BY <3>2 DEF before
  <2> QED BY <1>4, <2>1, <2>3
<1> QED BY <1>4, <1>5, <1>6

\* More requests have more bytes.
LEMMA UptoGrows ==
  ASSUME NEW q \in Seq(Requests), NEW i \in 0 .. Len(q), NEW j \in 0 .. Len(q), i < j
  PROVE  Upto(q, i) < Upto(q, j)
<1> DEFINE K == {k \in Nat : k > i /\ k <= Len(q) => Upto(q, i) < Upto(q, k)}
<1>1. Len(q) \in Nat /\ i \in Nat /\ j \in Nat /\ j <= Len(q)
  <2>1. Len(q) \in Nat
    BY LenProperties
  <2> QED BY <2>1
<1>2. 0 \in K
  BY <1>1
<1>3. ASSUME NEW k \in Nat, k \in K PROVE k + 1 \in K
  <2> SUFFICES ASSUME k + 1 > i, k + 1 <= Len(q) PROVE Upto(q, i) < Upto(q, k + 1)
    OBVIOUS
  <2>1. k + 1 \in 1 .. Len(q) /\ k \in 0 .. Len(q) /\ (k + 1) - 1 = k
    BY <1>1
  <2>2. Upto(q, k + 1) = Upto(q, k) + q[k + 1].bytes /\ Upto(q, k) \in Nat /\ Upto(q, i) \in Nat
    BY <2>1, UptoStep
  <2>3. q[k + 1].bytes \in 1 .. 289
    BY <2>1, ElementOfSeq, RequestHasBytes
  <2> DEFINE x == Upto(q, i)
             y == Upto(q, k)
             more == q[k + 1].bytes
  <2> HIDE DEF more
  <2>4. Upto(q, k + 1) = y + more /\ y \in Nat /\ x \in Nat /\ more \in 1 .. 289
    BY <2>2, <2>3 DEF more
  <2> HIDE DEF x, y
  <2>5. y < y + more /\ (x < y => x < y + more)
    BY <2>4
  <2>6. CASE k = i
    BY <2>6, <2>4, <2>5 DEF x, y
  <2>7. CASE k # i
    <3>1. k > i /\ k <= Len(q)
      BY <1>1, <2>7
    <3>2. Upto(q, i) < Upto(q, k)
      BY <1>3, <3>1
    <3> QED BY <2>4, <2>5, <3>2 DEF x, y
  <2> QED BY <2>6, <2>7
<1> HIDE DEF K
<1>4. j \in K
  BY <1>1, <1>2, <1>3, CountingUp
<1> QED BY <1>1, <1>4 DEF K

\* What a read takes whole are the first requests.
LEMMA WholeIs ==
  ASSUME NEW q \in Seq(Requests)
  PROVE  /\ Whole(q) \in 0 .. Len(q)
         /\ Upto(q, Whole(q)) <= BOX_MESSAGE_SIZE
         /\ Whole(q) < Len(q) => Upto(q, Whole(q) + 1) > BOX_MESSAGE_SIZE
<1> DEFINE n == Len(q)
           fits == {i \in DOMAIN q : Upto(q, i) <= BOX_MESSAGE_SIZE}
           out == {i \in 1 .. n + 1 : i \notin fits}
<1>1. n \in Nat /\ DOMAIN q = 1 .. n
  BY LenProperties
<1>2. Whole(q) = Cardinality(fits)
  BY DEF Whole, Upto
<1>3. PICK m \in out : \A i \in out : m <= i
  <2>1. n + 1 \in out /\ out \in SUBSET Nat
    BY <1>1
  <2> HIDE DEF out
  <2> QED BY <2>1, FirstOfIsLeast
<1>4. m \in 1 .. n + 1 /\ m \in Nat /\ m - 1 \in 0 .. n /\ m - 1 \in Nat /\ m - 1 <= n
  BY <1>1, <1>3
<1>5. fits = 1 .. m - 1
  <2>1. ASSUME NEW i \in 1 .. m - 1 PROVE i \in fits
    BY <1>1, <1>3, <1>4
  <2>2. ASSUME NEW i \in fits, ~(i \in 1 .. m - 1) PROVE FALSE
    <3>1. i \in 1 .. n /\ m <= i /\ m \in 1 .. n /\ m # i
      BY <1>1, <1>3, <1>4, <2>2
    <3>2. m \in 0 .. Len(q) /\ i \in 0 .. Len(q) /\ m < i
      BY <1>1, <3>1
    <3>3. Upto(q, m) < Upto(q, i) /\ Upto(q, m) \in Nat /\ Upto(q, i) \in Nat
      BY <3>2, UptoGrows, UptoStep
    <3>4. Upto(q, i) <= 289 /\ ~(Upto(q, m) <= 289)
      BY <1>1, <1>3, <2>2, <3>1 DEF BOX_MESSAGE_SIZE
    <3> QED BY <3>3, <3>4
  <2> QED BY <2>1, <2>2
<1> HIDE DEF fits
<1>6. Whole(q) = m - 1
  BY <1>2, <1>4, <1>5, FS_Interval
<1>7. Upto(q, m - 1) <= BOX_MESSAGE_SIZE
  <2>1. CASE m - 1 = 0
    BY <2>1, UptoStep DEF BOX_MESSAGE_SIZE
  <2>2. CASE m - 1 # 0
    <3>1. m - 1 \in fits
      BY <1>4, <1>5, <2>2
    <3> QED BY <3>1 DEF fits
  <2> QED BY <2>1, <2>2
<1>8. m - 1 < n => Upto(q, m) > BOX_MESSAGE_SIZE
  <2> SUFFICES ASSUME m - 1 < n PROVE Upto(q, m) > BOX_MESSAGE_SIZE
    OBVIOUS
  <2>1. m \in DOMAIN q /\ m \in 0 .. Len(q) /\ m \notin fits
    BY <1>1, <1>3, <1>4
  <2>2. Upto(q, m) \in Nat /\ ~(Upto(q, m) <= BOX_MESSAGE_SIZE)
    BY <2>1, UptoStep DEF fits
  <2> QED BY <2>2 DEF BOX_MESSAGE_SIZE
<1>9. (m - 1) + 1 = m
  BY <1>4
<1> QED BY <1>4, <1>6, <1>7, <1>8, <1>9

\* A request that a read has left alone, or the rest of one that it has cut.
Remains(r, q, i) ==
  \/ r = q[i]
  \/ r.client = q[i].client /\ r.code = "cut" /\ i \in Touched(q)

\* A read takes at least one request; those that it takes with another are lost.
LEMMA RestIs ==
  ASSUME NEW q \in Seq(Requests), q # <<>>
  PROVE  \E d \in 1 .. Len(q) :
           /\ Rest(q) \in Seq(Requests) /\ Len(Rest(q)) = Len(q) - d
           /\ \A j \in 1 .. Len(q) - d : Remains(Rest(q)[j], q, j + d)
           /\ \A i \in 2 .. d : i \in Touched(q)
<1> DEFINE n == Len(q)
           k == Whole(q)
           over == BOX_MESSAGE_SIZE - Upto(q, k)
<1>1. n \in Nat \ {0} /\ DOMAIN q = 1 .. n
  BY EmptySeq, LenProperties
<1>2. /\ k \in 0 .. n /\ Upto(q, k) <= 289 /\ (k < n => Upto(q, k + 1) > 289)
  BY WholeIs DEF BOX_MESSAGE_SIZE
<1> HIDE DEF n, k
<1>3. k \in 1 .. n
  <2>1. CASE k = 0
    <3>1. 1 \in 1 .. Len(q) /\ 1 - 1 = 0
      BY <1>1 DEF n
    <3>2. Upto(q, 1) = 0 + q[1].bytes /\ q[1].bytes \in 1 .. 289
      BY <3>1, UptoStep, ElementOfSeq, RequestHasBytes
    <3> DEFINE x == q[1].bytes
               y == Upto(q, 1)
    <3>3. y = 0 + x /\ x \in 1 .. 289
      BY <3>2
    <3> HIDE DEF x, y
    <3>4. ~(y > 289)
      BY <3>3
    <3>5. 0 < n /\ 0 + 1 = 1
      BY <1>1
    <3> QED BY <1>2, <2>1, <3>4, <3>5 DEF y
  <2>2. CASE k # 0
    BY <1>1, <1>2, <2>2
  <2> QED BY <2>1, <2>2
<1>4. ASSUME NEW i \in 2 .. k PROVE i \in Touched(q)
  <2>1. i - 1 \in 0 .. Len(q) /\ k \in 0 .. Len(q) /\ i - 1 < k /\ i \in DOMAIN q
    BY <1>1, <1>3 DEF n
  <2>2. Upto(q, i - 1) < Upto(q, k) /\ Upto(q, i - 1) \in Nat /\ Upto(q, k) \in Nat
    BY <2>1, UptoGrows, UptoStep
  <2>3. Upto(q, i - 1) < 289
    BY <1>2, <2>2
  <2> QED BY <2>1, <2>3 DEF Touched, Upto, BOX_MESSAGE_SIZE
<1>5. Rest(q) = IF k = n THEN <<>>
                ELSE IF over = 0 THEN SubSeq(q, k + 1, n)
                ELSE <<[q[k + 1] EXCEPT !.bytes = @ - over, !.code = "cut"]>>
                     \o SubSeq(q, k + 2, n)
  BY DEF Rest, Upto, k, n
<1> SUFFICES /\ Rest(q) \in Seq(Requests) /\ Len(Rest(q)) = n - k
             /\ \A j \in 1 .. n - k : Remains(Rest(q)[j], q, j + k)
  <2>1. k \in 1 .. Len(q) /\ \A i \in 2 .. k : i \in Touched(q)
    BY <1>3, <1>4 DEF n
  <2> QED BY <2>1 DEF n
<1>6. CASE k = n
  <2>1. Rest(q) = <<>>
    BY <1>5, <1>6
  <2>2. <<>> \in Seq(Requests) /\ Len(<<>>) = 0
    BY EmptySeq
  <2>3. n - k = 0 /\ 1 .. 0 = {}
    BY <1>1, <1>6
  <2> QED BY <2>1, <2>2, <2>3
<1>7. ASSUME NEW m \in {1, 2}, k + m <= n + 1
      PROVE  LET s == SubSeq(q, k + m, n)
             IN  /\ s \in Seq(Requests) /\ Len(s) = n - (k + m) + 1
                 /\ \A j \in 1 .. n - (k + m) + 1 : s[j] = q[k + m + j - 1]
  <2>1. k + m \in Int /\ n \in Int /\ \A i \in k + m .. n : i \in 1 .. Len(q)
    BY <1>1, <1>3 DEF n
  <2>2. \A i \in k + m .. n : q[i] \in Requests
    BY <2>1, ElementOfSeq
  <2> DEFINE s == SubSeq(q, k + m, n)
             l == k + m
  <2>3. l \in Int /\ l <= n + 1
    BY <1>7, <2>1
  <2>4. /\ s \in Seq(Requests) /\ Len(s) = (IF l <= n THEN n - l + 1 ELSE 0)
        /\ \A j \in 1 .. n - l + 1 : s[j] = q[l + j - 1]
    <3> HIDE DEF l
    <3> QED BY <2>1, <2>2, <2>3, SubSeqProperties DEF l
  <2> HIDE DEF s, l
  <2>5. Len(s) = n - l + 1
    BY <1>1, <2>3, <2>4
  <2> QED BY <2>4, <2>5 DEF s, l
<1>8. CASE k # n /\ over = 0
  <2> DEFINE s == SubSeq(q, k + 1, n)
  <2>1. k + 1 <= n + 1 /\ n - (k + 1) + 1 = n - k
    BY <1>1, <1>3
  <2>2. /\ s \in Seq(Requests) /\ Len(s) = n - k
        /\ \A j \in 1 .. n - k : s[j] = q[k + 1 + j - 1]
    BY <1>7, <2>1
  <2>3. \A j \in 1 .. n - k : k + 1 + j - 1 = j + k
    BY <1>1, <1>3
  <2>4. Rest(q) = s
    BY <1>5, <1>8
  <2> HIDE DEF s
  <2> QED BY <2>2, <2>3, <2>4 DEF Remains
<1>9. CASE k # n /\ over # 0
  <2> DEFINE s == SubSeq(q, k + 2, n)
             r == q[k + 1]
             first == [r EXCEPT !.bytes = @ - over, !.code = "cut"]
             one == <<first>>
  <2>0. k # n
    BY <1>9
  <2>1. /\ k + 2 <= n + 1 /\ k \in 0 .. n /\ k + 1 \in 1 .. n /\ (k + 1) - 1 = k
        /\ n - (k + 2) + 1 = n - k - 1 /\ k < n /\ n = Len(q)
    <3>1. n = Len(q)
      BY DEF n
    <3>2. k \in Nat /\ n \in Nat /\ k < n /\ 1 <= k
      BY <1>1, <1>3, <2>0
    <3>3. k + 2 <= n + 1 /\ k \in 0 .. n /\ k + 1 \in 1 .. n
      BY <3>2
    <3>4. (k + 1) - 1 = k /\ n - (k + 2) + 1 = n - k - 1
      BY <3>2
    <3> QED BY <3>1, <3>2, <3>3, <3>4
  <2>2. /\ s \in Seq(Requests) /\ Len(s) = n - k - 1
        /\ \A j \in 1 .. n - k - 1 : s[j] = q[k + 2 + j - 1]
    BY <1>7, <2>1
  <2>3. r \in Requests
    BY <2>1, ElementOfSeq
  <2>4. over \in 1 .. 289 /\ Upto(q, k) < 289
    <3> DEFINE x == Upto(q, k)
    <3>1. x \in Nat /\ x <= 289 /\ 289 - x # 0
      BY <1>2, <1>9, <2>1, UptoStep DEF BOX_MESSAGE_SIZE
    <3> HIDE DEF x
    <3>2. 289 - x \in 1 .. 289 /\ x < 289
      BY <3>1
    <3> QED BY <3>2 DEF x, BOX_MESSAGE_SIZE
  <2>5. r.bytes - over \in 1 .. 289
    <3> DEFINE b == r.bytes
               x == Upto(q, k)
               y == Upto(q, k + 1)
    <3>1. b \in 1 .. 289 /\ x \in Nat /\ y = x + b /\ y > 289 /\ x <= 289 /\ over = 289 - x
      BY <1>2, <2>1, <2>3, RequestHasBytes, UptoStep DEF BOX_MESSAGE_SIZE
    <3> HIDE DEF b, x, y, over
    <3>2. b - over \in 1 .. 289
      BY <3>1
    <3> QED BY <3>2 DEF b
  <2>6. first \in Requests /\ first.client = r.client /\ first.code = "cut"
    <3> DEFINE left == r.bytes - over
    <3>1. left \in 1 .. 289
      BY <2>5
    <3>2. first = [r EXCEPT !.bytes = left, !.code = "cut"]
      BY <2>3 DEF Requests
    <3> HIDE DEF left, first, r
    <3> QED BY <2>3, <3>1, <3>2 DEF Requests
  <2>7. k + 1 \in Touched(q)
    BY <1>1, <2>1, <2>4 DEF Touched, Upto, BOX_MESSAGE_SIZE, n
  <2>8. Rest(q) = one \o s
    BY <1>5, <1>9
  <2> HIDE DEF s, first
  <2>9. one \in Seq(Requests) /\ Len(one) = 1 /\ one[1] = first
    BY <2>6
  <2> HIDE DEF one
  <2>10. /\ one \o s \in Seq(Requests) /\ Len(one \o s) = Len(one) + Len(s)
         /\ \A j \in 1 .. Len(one) + Len(s) :
              (one \o s)[j] = IF j <= Len(one) THEN one[j] ELSE s[j - Len(one)]
    BY <2>2, <2>9, ConcatProperties
  <2>11. ASSUME NEW j \in 1 .. n - k PROVE Remains((one \o s)[j], q, j + k)
    <3>1. (one \o s)[j] = IF j <= 1 THEN one[j] ELSE s[j - 1]
      <4>1. j \in 1 .. Len(one) + Len(s)
        BY <1>1, <1>3, <2>2, <2>9
      <4> QED BY <2>9, <2>10, <4>1
    <3>2. CASE j = 1
      <4>1. (one \o s)[j] = first /\ j + k = k + 1
        BY <1>3, <2>9, <3>1, <3>2
      <4> QED BY <2>6, <2>7, <4>1 DEF Remains, r
    <3>3. CASE j # 1
      <4>1. (one \o s)[j] = s[j - 1] /\ j - 1 \in 1 .. n - k - 1 /\ k + 2 + (j - 1) - 1 = j + k
        BY <1>1, <1>3, <3>1, <3>3
      <4> QED BY <2>2, <4>1 DEF Remains
    <3> QED BY <3>2, <3>3
  <2>12. Len(one) + Len(s) = n - k
    BY <1>1, <1>3, <2>2, <2>9
  <2> QED BY <2>8, <2>10, <2>11, <2>12
<1> QED BY <1>6, <1>8, <1>9

-----------------------------------------------------------------------------
(* What every state of the broker has *)

Serving == {"create", "remove", "answer open", "answer write", "list open", "list lock",
            "listing"}
Publishing == {"publish"} \cup InSession
Subscribing == {"subscribe", "replay open", "replay write", "flood open", "flood write"}

BoxRecords == [box_name : Boxes, publisher_named_pipe : Publishers \cup {NoClient},
               num_subscribers : Nat, messages_size : Seq(Nat)]

JobTyped(j) == j \in [client : Clients \cup {NoClient}, box : Boxes \cup {NoName},
                      todo : {j.todo}, data : {j.data}, handle : {j.handle}, reader : Nat]

\* What a thread at a label knows of the request it serves.
Fits(l, j) ==
  /\ l \in Labels /\ JobTyped(j)
  /\ l = "idle" => j = NoJob
  /\ l # "idle" => j.client \in Clients
  /\ l \in Serving => j.client \in Managers
  /\ l \in Publishing => j.client \in Publishers
  /\ l \in Subscribing => j.client \in Subscribers
  /\ l \in Publishing \cup {"create", "subscribe", "replay open", "replay write"}
       => j.box \in Boxes
  /\ l \in {"store", "close", "append"} => j.data \in Messages
  /\ l \in {"replay open", "replay write", "listing"} => j.todo \in Seq(Nat)
  /\ l \in {"list open", "list lock"} => j.todo = <<>>

ThreadsFit ==
  /\ threads \subseteq Threads
  /\ at = [t \in Threads |-> at[t]] /\ job = [t \in Threads |-> job[t]]
  /\ \A t \in Threads : Fits(at[t], job[t])
  /\ \A t \in Threads \ threads : at[t] = "idle"

\* The boxes of the list have different names and were created.
BoxesFit ==
  /\ box_list \in Seq(BoxRecords)
  /\ \A i, j \in DOMAIN box_list : box_list[i].box_name = box_list[j].box_name => i = j
  /\ created \in [Boxes -> Nat]
  /\ \A i \in DOMAIN box_list : created[box_list[i].box_name] > 0

\* Every thread that will close the pipe it has open has a descriptor for it.
Held == {"answer write", "list lock", "listing"}
Holding == {t \in Threads : at[t] \in Held}
DescriptorsFit ==
  /\ descriptors \in Nat /\ descriptors <= MaxDescriptors
  /\ IsFiniteSet(Holding) /\ Cardinality(Holding) <= descriptors

\* A request has the size of its kind, unless it was read with another.
RequestsFramed ==
  \A i \in DOMAIN register_pipe :
    LET r == register_pipe[i]
    IN  IF r.code = "cut" THEN r.client \in lost ELSE r.bytes = RequestBytes(r.code)

HistoryFits ==
  /\ process \in {"up", "exited", "killed", "crashed", "undefined"}
  /\ box_list_mutex \in Threads \cup {Nobody}
  /\ request_name \in Boxes \cup {NoName}
  /\ failed \subseteq Clients /\ lost \subseteq Clients /\ strayed \in BOOLEAN

Sane == /\ ClientsInv /\ FsInv(fs) /\ ThreadsFit /\ BoxesFit /\ DescriptorsFit
        /\ RequestsFramed /\ HistoryFits

-----------------------------------------------------------------------------
(* A step of a handler: one thread goes on or ends, with or without an error.   *)

\* In these a publisher has met the broker.
Met == InSession \ {"publisher open"}

Goes(t, l, j) ==
  /\ process = "up" /\ t \in threads /\ threads' = threads /\ at[t] # "idle"
  /\ at' = [at EXCEPT ![t] = l] /\ job' = [job EXCEPT ![t] = j] /\ Fits(l, j)
  /\ register_pipe' = register_pipe /\ lives' = lives /\ lost' = lost
  /\ request_name' = request_name
  /\ process' \in {"up", "exited", "killed", "crashed", "undefined"}
  /\ failed' \in {failed, failed \cup {job[t].client}}
  /\ IF l = "idle" THEN \/ job[t].client \in failed' \/ at[t] \in Met
                        \/ stage[job[t].client] # "signed"
                   ELSE j.client = job[t].client /\ j.box = job[t].box
  /\ \A c \in Clients : stage'[c] = stage[c] \/ stage'[c] # "signed"
  /\ l \in Met => at[t] \in Met \/ stage'[job[t].client] # "signed"

\* The other threads are where they were.
LEMMA OthersStay ==
  ASSUME Sane, NEW t, NEW l, NEW j, Goes(t, l, j)
  PROVE  /\ t \in Threads /\ at'[t] = l /\ job'[t] = j
         /\ \A u \in Threads \ {t} : at'[u] = at[u] /\ job'[u] = job[u]
         /\ threads' = threads /\ threads \subseteq Threads
BY DEF Sane, ThreadsFit, Goes

\* A handler that goes on fits, and has no part in the requests.
LEMMA GoesKeeps ==
  ASSUME Sane, NEW t, NEW l, NEW j, Goes(t, l, j)
  PROVE  ThreadsFit' /\ RequestsFramed'
<1>1. /\ t \in Threads /\ at'[t] = l /\ job'[t] = j
      /\ \A u \in Threads \ {t} : at'[u] = at[u] /\ job'[u] = job[u]
      /\ threads' = threads /\ threads \subseteq Threads
  BY OthersStay
<1>2. Fits(l, j) /\ t \in threads
  BY DEF Goes
<1>3. at' = [u \in Threads |-> at'[u]] /\ job' = [u \in Threads |-> job'[u]]
  BY DEF Sane, ThreadsFit, Goes
<1>4. \A u \in Threads : Fits(at'[u], job'[u])
  BY <1>1, <1>2 DEF Sane, ThreadsFit
<1>5. \A u \in Threads \ threads' : at'[u] = "idle"
  BY <1>1, <1>2 DEF Sane, ThreadsFit
<1>6. ThreadsFit'
  BY <1>1, <1>3, <1>4, <1>5 DEF ThreadsFit
<1>7. RequestsFramed'
  BY DEF Sane, RequestsFramed, Goes
<1> QED BY <1>6, <1>7

\* Descriptors that are given back were counted.
LEMMA DescriptorsKept ==
  ASSUME Sane, NEW t, NEW l, NEW j, Goes(t, l, j),
         \/ descriptors' = descriptors /\ (l \in Held => at[t] \in Held)
         \/ descriptors' = descriptors + 1 /\ descriptors < MaxDescriptors
         \/ descriptors' = descriptors - 1 /\ at[t] \in Held /\ l \notin Held
  PROVE  DescriptorsFit'
<1>1. /\ t \in Threads /\ at'[t] = l
      /\ \A u \in Threads \ {t} : at'[u] = at[u]
  BY OthersStay
<1>2. /\ descriptors \in Nat /\ descriptors <= MaxDescriptors /\ MaxDescriptors \in Nat
      /\ IsFiniteSet(Holding) /\ Cardinality(Holding) <= descriptors
  BY MbrokerThreadAssumption DEF Sane, DescriptorsFit
<1> DEFINE H == Holding
           G == Holding'
<1>3. Cardinality(H) \in Nat
  BY <1>2, FS_CardinalityType
<1>4. G \subseteq H \cup {t} /\ (l \notin Held => G = H \ {t})
  BY <1>1 DEF Holding
<1>5. CASE descriptors' = descriptors /\ (l \in Held => at[t] \in Held)
  <2>1. G \subseteq H
    BY <1>1, <1>5 DEF Holding
  <2> HIDE DEF G, H
  <2>2. IsFiniteSet(G) /\ Cardinality(G) <= Cardinality(H) /\ Cardinality(G) \in Nat
    BY <1>2, <2>1, FS_Subset, FS_CardinalityType DEF H
  <2>3. Cardinality(G) <= descriptors'
    BY <1>2, <1>3, <1>5, <2>2 DEF H
  <2> QED BY <1>2, <1>5, <2>2, <2>3 DEF DescriptorsFit, G
<1>6. CASE descriptors' = descriptors + 1 /\ descriptors < MaxDescriptors
  <2> HIDE DEF G, H
  <2>1. /\ IsFiniteSet(H \cup {t}) /\ Cardinality(H \cup {t}) <= Cardinality(H) + 1
        /\ Cardinality(H \cup {t}) \in Nat
    <3>1. /\ IsFiniteSet(H \cup {t})
          /\ Cardinality(H \cup {t}) = IF t \in H THEN Cardinality(H) ELSE Cardinality(H) + 1
      BY <1>2, FS_AddElement DEF H
    <3> QED BY <1>3, <3>1
  <2>2. IsFiniteSet(G) /\ Cardinality(G) <= Cardinality(H \cup {t}) /\ Cardinality(G) \in Nat
    BY <1>4, <2>1, FS_Subset, FS_CardinalityType
  <2>3. Cardinality(G) <= descriptors' /\ descriptors' \in Nat /\ descriptors' <= MaxDescriptors
    BY <1>2, <1>3, <1>6, <2>1, <2>2 DEF H
  <2> QED BY <2>2, <2>3 DEF DescriptorsFit, G
<1>7. CASE descriptors' = descriptors - 1 /\ at[t] \in Held /\ l \notin Held
  <2>1. t \in H /\ G = H \ {t}
    BY <1>1, <1>4, <1>7 DEF Holding
  <2> HIDE DEF G, H
  <2>2. IsFiniteSet(G) /\ Cardinality(G) = Cardinality(H) - 1 /\ Cardinality(G) \in Nat
    BY <1>2, <2>1, FS_RemoveElement, FS_CardinalityType DEF H
  <2>3. Cardinality(G) <= descriptors' /\ descriptors' \in Nat /\ descriptors' <= MaxDescriptors
    BY <1>2, <1>3, <1>7, <2>2 DEF H
  <2> QED BY <2>2, <2>3 DEF DescriptorsFit, G
<1> QED BY <1>5, <1>6, <1>7

\* Anything may be left hanging, and only that knows nothing of its request.
LEMMA StuckFits ==
  ASSUME NEW l, NEW j, Fits(l, j), l # "idle"
  PROVE  Fits("stuck", j)
BY DEF Fits, Labels, Serving, Publishing, Subscribing, InSession, Inside

\* A thread that serves nobody fits.
LEMMA IdleFits == Fits("idle", NoJob)
BY DEF Fits, Labels, Serving, Publishing, Subscribing, InSession, Inside, JobTyped, NoJob

\* The pipe to the client is open.
LEMMA JobReads ==
  ASSUME NEW j, JobTyped(j), NEW n \in Nat
  PROVE  LET k == [j EXCEPT !.reader = n]
         IN  /\ JobTyped(k) /\ k.client = j.client /\ k.box = j.box /\ k.todo = j.todo
             /\ k.data = j.data /\ k.handle = j.handle
BY DEF JobTyped

\* Where a thread is and what it has.
LEMMA ThreadAt ==
  ASSUME Sane, NEW t, NEW l, At(t, l), l # "idle"
  PROVE  /\ t \in Threads /\ Fits(l, job[t]) /\ JobTyped(job[t]) /\ job[t].client \in Clients
         /\ l \in Labels
         /\ FifoFits(job[t].client, stage[job[t].client], lives[job[t].client],
                     pipe[job[t].client], taken[job[t].client])
         /\ job = [job EXCEPT ![t] = job[t]] /\ at = [at EXCEPT ![t] = l]
BY DEF Sane, ThreadsFit, At, Fits, ClientsInv, FifosFit

\* A handler takes a step that the clients do not see.
LEMMA StepGoes ==
  ASSUME Sane, NEW t, NEW l, At(t, l), l # "idle", NEW next, Steps(t, next),
         NEW j, Fits(next, j), j.client = job[t].client, j.box = job[t].box,
         job' = [job EXCEPT ![t] = j], next # "idle",
         UNCHANGED <<threads, request_name, lost, register_pipe, lives>>,
         \A c \in Clients : stage'[c] = stage[c] \/ stage'[c] # "signed",
         next \in Met => l \in Met \/ stage'[job[t].client] # "signed"
  PROVE  Goes(t, next, j)
BY ThreadAt DEF At, Steps, Goes

\* A handler ends with an error.
LEMMA FailGoes ==
  ASSUME Sane, NEW t, NEW l, At(t, l), l # "idle", Fails(t),
         UNCHANGED <<threads, request_name, lost, register_pipe, lives>>,
         \A c \in Clients : stage'[c] = stage[c] \/ stage'[c] # "signed"
  PROVE  /\ Goes(t, "idle", NoJob)
         /\ failed' = failed \cup {job[t].client}
         /\ process' = "up" => t # MainThread
<1>1. "idle" \notin Met
  BY DEF Met, InSession
<1>2. process = "up"
  BY DEF At
<1>3. process' \in {"up", "exited"} /\ (process' = "up" => t # MainThread)
  BY <1>2 DEF Fails
<1> QED BY <1>1, <1>3, IdleFits DEF At, Fails, Goes

\* A handler ends well.
LEMMA ReturnGoes ==
  ASSUME Sane, NEW t, NEW l, At(t, l), l # "idle", Returns(t),
         UNCHANGED <<threads, request_name, lost, register_pipe, lives>>,
         \A c \in Clients : stage'[c] = stage[c] \/ stage'[c] # "signed",
         l \in Met \/ stage[job[t].client] # "signed"
  PROVE  Goes(t, "idle", NoJob)
<1>1. "idle" \notin Met
  BY DEF Met, InSession
<1> QED BY <1>1, IdleFits DEF At, Returns, Steps, Goes

\* The process ends.
LEMMA DeathGoes ==
  ASSUME Sane, NEW t, NEW l, At(t, l), l # "idle",
         NEW how \in {"exited", "killed", "crashed", "undefined"}, Dies(how),
         UNCHANGED <<threads, request_name, lost, register_pipe, lives>>,
         \A c \in Clients : stage'[c] = stage[c] \/ stage'[c] # "signed"
  PROVE  Goes(t, l, job[t]) /\ process' # "up"
<1>1. job' = [job EXCEPT ![t] = job[t]] /\ at' = [at EXCEPT ![t] = l] /\ Fits(l, job[t])
  BY ThreadAt DEF Dies
<1> QED BY <1>1 DEF At, Dies, Goes

\* What is left of Sane when a handler has taken its step.
LEMMA StepKeeps ==
  ASSUME Sane, NEW t, NEW l, NEW j, Goes(t, l, j), ClientsInv', FsInv(fs'), BoxesFit',
         DescriptorsFit', box_list_mutex' \in {box_list_mutex, Nobody, t},
         strayed' \in BOOLEAN
  PROVE  Sane'
<1>1. ThreadsFit' /\ RequestsFramed' /\ t \in Threads
  BY GoesKeeps, OthersStay
<1>2. job[t].client \in Clients
  BY <1>1 DEF Goes, Sane, ThreadsFit, Fits
<1>3. HistoryFits'
  BY <1>1, <1>2 DEF Goes, Sane, HistoryFits
<1> QED BY <1>1, <1>3 DEF Sane

\* The list and the files are as they were.
Quiet == UNCHANGED <<box_list, box_list_mutex, fs, created, strayed>>

\* A step that leaves boxes, files and created alone keeps the invariant.
LEMMA QuietKeeps ==
  ASSUME Sane, NEW t, NEW l, NEW j, Goes(t, l, j), ClientsInv', DescriptorsFit',
         UNCHANGED <<box_list, fs, created>>,
         box_list_mutex' \in {box_list_mutex, Nobody, t}, strayed' \in BOOLEAN
  PROVE  Sane'
<1>1. BoxesFit' /\ FsInv(fs')
  BY DEF Sane, BoxesFit
<1> QED BY <1>1, StepKeeps

-----------------------------------------------------------------------------
(* The broker's use of a client's pipe *)

\* An open leads on, hangs, or fails, and writes nothing.
Opens(t, next) ==
  /\ ClientsInv' /\ pipe' = pipe
  /\ \/ /\ Goes(t, next, [job[t] EXCEPT !.reader = lives[job[t].client]])
        /\ descriptors' = descriptors + 1 /\ descriptors < MaxDescriptors
     \/ Goes(t, "stuck", job[t]) /\ descriptors' = descriptors
     \/ /\ Goes(t, "idle", NoJob) /\ descriptors' = descriptors
        /\ failed' = failed \cup {job[t].client} /\ (process' = "up" => t # MainThread)

\* A client is met, or not.
LEMMA MeetKeeps ==
  ASSUME ClientsInv, NEW c \in Clients, NEW s \in Stages \ {"nofifo", "signed"},
         stage[c] # "nofifo", stage' = [stage EXCEPT ![c] = s],
         UNCHANGED <<register_pipe, fifoVars>>
  PROVE  /\ ClientsInv' /\ stage'[c] # "signed"
         /\ \A k \in Clients : stage'[k] = stage[k] \/ stage'[k] # "signed"
<1>1. FifosFit /\ FifoFits(c, stage[c], lives[c], pipe[c], taken[c])
  BY DEF ClientsInv, FifosFit
<1>2. register_pipe' = register_pipe /\ lives' = lives /\ pipe' = pipe /\ taken' = taken
  BY DEF fifoVars
<1>3. RequestsFit'
  BY <1>2 DEF ClientsInv, RequestsFit
<1>4. FifoFits(c, s, lives[c], pipe[c], taken[c])
  BY <1>1 DEF FifoFits
<1>5. /\ lives' = [lives EXCEPT ![c] = lives[c]]
      /\ pipe' = [pipe EXCEPT ![c] = pipe[c]] /\ taken' = [taken EXCEPT ![c] = taken[c]]
  BY <1>1, <1>2, Unchanged
<1>6. FifosFit'
  BY <1>1, <1>4, <1>5, OneFifoChanges
<1>7. stage'[c] # "signed" /\ \A k \in Clients : stage'[k] = stage[k] \/ stage'[k] # "signed"
  BY <1>1 DEF FifosFit
<1> QED BY <1>3, <1>6, <1>7 DEF ClientsInv

\* What the clients keep is kept if nothing of it changes.
LEMMA SameClients ==
  ASSUME ClientsInv, UNCHANGED <<register_pipe, clientVars>>
  PROVE  ClientsInv'
BY DEF ClientsInv, RequestsFit, FifosFit, clientVars

\* An open of a pipe to write, wherever the thread is.
LEMMA OpenOpens ==
  ASSUME Sane, NEW t, NEW l, At(t, l), l # "idle", NEW next \in Labels \ (Met \cup {"idle"}),
         \A n \in Nat : Fits(next, [job[t] EXCEPT !.reader = n]),
         OpenToWrite(t, next), OnlyPipes
  PROVE  Opens(t, next)
<1> DEFINE c == job[t].client
           j == [job[t] EXCEPT !.reader = lives[c]]
<1>1. /\ t \in Threads /\ Fits(l, job[t]) /\ JobTyped(job[t]) /\ c \in Clients
      /\ FifoFits(c, stage[c], lives[c], pipe[c], taken[c])
      /\ job = [job EXCEPT ![t] = job[t]] /\ ClientsInv
  BY ThreadAt DEF Sane
<1>2. /\ UNCHANGED <<threads, request_name, lost, register_pipe, lives>>
      /\ UNCHANGED <<register_pipe, fifoVars>> /\ pipe' = pipe
  BY DEF OnlyPipes, OpenToWrite, fifoVars, history
<1>3. lives[c] \in Nat
  BY <1>1 DEF FifoFits
<1>4. Fits(next, j) /\ j.client = job[t].client /\ j.box = job[t].box
  BY <1>1, <1>3, JobReads
<1>5. CASE /\ stage[c] \in {"signed"} \cup Reading /\ descriptors < MaxDescriptors
           /\ stage' = [stage EXCEPT ![c] = IF stage[c] = "signed" THEN "reading" ELSE stage[c]]
           /\ job' = [job EXCEPT ![t] = j]
           /\ descriptors' = descriptors + 1
           /\ Steps(t, next)
  <2> DEFINE s == IF stage[c] = "signed" THEN "reading" ELSE stage[c]
  <2>1. stage[c] # "nofifo" /\ s \in Stages \ {"nofifo", "signed"}
    BY <1>5 DEF Reading, Stages
  <2> HIDE DEF s, c, j
  <2>2. stage' = [stage EXCEPT ![c] = s]
    BY <1>5 DEF s
  <2>3. /\ ClientsInv' /\ stage'[c] # "signed"
        /\ \A k \in Clients : stage'[k] = stage[k] \/ stage'[k] # "signed"
    BY <1>1, <1>2, <2>1, <2>2, MeetKeeps
  <2>4. Goes(t, next, j)
    BY <1>2, <1>4, <1>5, <2>3, StepGoes
  <2> QED BY <1>2, <1>5, <2>3, <2>4 DEF Opens, c, j
<1>6. CASE Steps(t, "stuck") /\ UNCHANGED <<stage, job, descriptors>>
  <2>1. Fits("stuck", job[t]) /\ "stuck" \notin Met
    BY <1>1, StuckFits DEF Met, InSession
  <2>2. ClientsInv'
    BY <1>1, <1>2, <1>6, SameClients DEF clientVars, fifoVars
  <2>3. Goes(t, "stuck", job[t])
    BY <1>1, <1>2, <1>6, <2>1, StepGoes
  <2> QED BY <1>2, <1>6, <2>2, <2>3 DEF Opens
<1>7. CASE Fails(t) /\ UNCHANGED <<stage, descriptors>>
  <2>1. ClientsInv'
    BY <1>1, <1>2, <1>7, SameClients DEF clientVars, fifoVars
  <2>2. /\ Goes(t, "idle", NoJob) /\ failed' = failed \cup {job[t].client}
        /\ (process' = "up" => t # MainThread)
    BY <1>2, <1>7, FailGoes
  <2> QED BY <1>2, <1>7, <2>1, <2>2 DEF Opens
<1> QED BY <1>5, <1>6, <1>7 DEF OpenToWrite

\* Whatever the open comes to.
LEMMA OpensKeeps ==
  ASSUME Sane, NEW t, NEW next, Opens(t, next),
         UNCHANGED <<box_list, box_list_mutex, fs, created, strayed>>
  PROVE  Sane'
<1>0. strayed' \in BOOLEAN /\ box_list_mutex' \in {box_list_mutex, Nobody, t}
  BY DEF Sane, HistoryFits
<1>1. ASSUME NEW l, NEW j, Goes(t, l, j), DescriptorsFit' PROVE Sane'
  BY <1>0, <1>1, QuietKeeps DEF Opens
<1>2. "stuck" \notin Held /\ "idle" \notin Held
  BY DEF Held
<1>3. CASE Goes(t, next, [job[t] EXCEPT !.reader = lives[job[t].client]])
           /\ descriptors' = descriptors + 1 /\ descriptors < MaxDescriptors
  BY <1>1, <1>3, DescriptorsKept
<1>4. CASE Goes(t, "stuck", job[t]) /\ descriptors' = descriptors
  BY <1>1, <1>2, <1>4, DescriptorsKept
<1>5. CASE Goes(t, "idle", NoJob) /\ descriptors' = descriptors
  BY <1>1, <1>2, <1>5, DescriptorsKept
<1> QED BY <1>3, <1>4, <1>5 DEF Opens

\* What the job of a thread says does not depend on the reader it met.
LEMMA MeetFits ==
  ASSUME NEW j, NEW l, Fits(l, j), NEW next \in Labels, NEW n \in Nat, l # "idle",
         next \notin InSession \cup {"idle", "publish"},
         /\ next \in Serving => l \in Serving
         /\ next \in Subscribing => l \in Subscribing
         /\ next \in {"create", "subscribe", "replay open", "replay write"}
              => l \in {"create", "subscribe", "replay open", "replay write"}
         /\ next \in {"replay open", "replay write", "listing"}
              => l \in {"replay open", "replay write", "listing"}
         /\ next \in {"list open", "list lock"} => l \in {"list open", "list lock"}
  PROVE  Fits(next, [j EXCEPT !.reader = n])
<1> DEFINE k == [j EXCEPT !.reader = n]
<1>1. /\ JobTyped(k) /\ k.client = j.client /\ k.box = j.box /\ k.todo = j.todo
      /\ k.data = j.data
  BY JobReads DEF Fits
<1> HIDE DEF k
<1>2. next \notin {"store", "close", "append"} /\ next \notin Publishing
  BY DEF InSession, Publishing
<1> QED BY <1>1, <1>2 DEF Fits, k

\* AnswerOpen keeps the invariant.
LEMMA AnswerOpenKeeps ==
  ASSUME Sane, NEW t, AnswerOpen(t)
  PROVE  Sane' /\ Opens(t, "answer write")
<1>1. At(t, "answer open") /\ OpenToWrite(t, "answer write") /\ OnlyPipes
      /\ UNCHANGED box_list_mutex
  BY DEF AnswerOpen
<1>2. "answer write" \in Labels \ (Met \cup {"idle"})
  BY DEF Labels, Met, InSession
<1>3. \A n \in Nat : Fits("answer write", [job[t] EXCEPT !.reader = n])
  BY <1>1, <1>2, ThreadAt, MeetFits DEF Serving, Subscribing, InSession
<1>4. Opens(t, "answer write")
  BY <1>1, <1>2, <1>3, OpenOpens
<1> QED BY <1>1, <1>4, OpensKeeps DEF OnlyPipes, history

\* ListOpen keeps the invariant.
LEMMA ListOpenKeeps ==
  ASSUME Sane, NEW t, ListOpen(t)
  PROVE  Sane' /\ Opens(t, "list lock")
<1>1. At(t, "list open") /\ OpenToWrite(t, "list lock") /\ OnlyPipes
      /\ UNCHANGED box_list_mutex
  BY DEF ListOpen
<1>2. "list lock" \in Labels \ (Met \cup {"idle"})
  BY DEF Labels, Met, InSession
<1>3. \A n \in Nat : Fits("list lock", [job[t] EXCEPT !.reader = n])
  BY <1>1, <1>2, ThreadAt, MeetFits DEF Serving, Subscribing, InSession
<1>4. Opens(t, "list lock")
  BY <1>1, <1>2, <1>3, OpenOpens
<1> QED BY <1>1, <1>4, OpensKeeps DEF OnlyPipes, history

\* ReplayOpen keeps the invariant.
LEMMA ReplayOpenKeeps ==
  ASSUME Sane, NEW t, ReplayOpen(t)
  PROVE  Sane' /\ Opens(t, "replay write")
<1>1. At(t, "replay open") /\ OpenToWrite(t, "replay write") /\ OnlyPipes
      /\ UNCHANGED box_list_mutex
  BY DEF ReplayOpen
<1>2. "replay write" \in Labels \ (Met \cup {"idle"})
  BY DEF Labels, Met, InSession, Inside
<1>3. \A n \in Nat : Fits("replay write", [job[t] EXCEPT !.reader = n])
  BY <1>1, <1>2, ThreadAt, MeetFits DEF Serving, Subscribing, InSession
<1>4. Opens(t, "replay write")
  BY <1>1, <1>2, <1>3, OpenOpens
<1> QED BY <1>1, <1>4, OpensKeeps DEF OnlyPipes, history

\* FloodOpen keeps the invariant.
LEMMA FloodOpenKeeps ==
  ASSUME Sane, NEW t, FloodOpen(t)
  PROVE  Sane' /\ Opens(t, "flood write")
<1>1. At(t, "flood open") /\ OpenToWrite(t, "flood write") /\ OnlyPipes
      /\ UNCHANGED box_list_mutex
  BY DEF FloodOpen
<1>2. "flood write" \in Labels \ (Met \cup {"idle"})
  BY DEF Labels, Met, InSession, Inside
<1>3. \A n \in Nat : Fits("flood write", [job[t] EXCEPT !.reader = n])
  BY <1>1, <1>2, ThreadAt, MeetFits DEF Serving, Subscribing, InSession
<1>4. Opens(t, "flood write")
  BY <1>1, <1>2, <1>3, OpenOpens
<1> QED BY <1>1, <1>4, OpensKeeps DEF OnlyPipes, history

\* A write to a client that reads.
LEMMA SendKeeps ==
  ASSUME ClientsInv, NEW t, NEW data, job[t].client \in Clients \ Publishers, Sends(t, data)
  PROVE  /\ ClientsInv' /\ stage[job[t].client] # "signed"
         /\ register_pipe' = register_pipe /\ lives' = lives /\ stage' = stage
         /\ pipe'[job[t].client] = Append(pipe[job[t].client], data)
         /\ \A c \in Clients \ {job[t].client} : pipe'[c] = pipe[c]
<1> DEFINE c == job[t].client
           p == Append(pipe[c], data)
<1>1. FifosFit /\ FifoFits(c, stage[c], lives[c], pipe[c], taken[c])
  BY DEF ClientsInv, FifosFit
<1>2. /\ register_pipe' = register_pipe /\ lives' = lives /\ stage' = stage /\ taken' = taken
      /\ pipe' = [pipe EXCEPT ![c] = p]
  BY DEF Sends
<1>3. RequestsFit'
  BY <1>2 DEF ClientsInv, RequestsFit
<1>4. stage[c] \in Reading /\ stage[c] # "nofifo" /\ stage[c] # "signed"
  BY DEF Sends, HasReader, Reading
<1>5. IsSeq(p) /\ Len(p) = Len(pipe[c]) + 1 /\ Len(pipe[c]) \in Nat
  BY <1>1, AppendIsSeq DEF FifoFits
<1> HIDE DEF p
<1>6. FifoFits(c, stage[c], lives[c], p, taken[c])
  BY <1>1, <1>4, <1>5 DEF FifoFits
<1>7. /\ stage' = [stage EXCEPT ![c] = stage[c]] /\ lives' = [lives EXCEPT ![c] = lives[c]]
      /\ taken' = [taken EXCEPT ![c] = taken[c]]
  BY <1>1, <1>2, Unchanged
<1>8. FifosFit'
  <2>1. c \in Clients /\ pipe' = [pipe EXCEPT ![c] = p]
    BY <1>2
  <2> HIDE DEF c
  <2> QED BY <1>1, <1>6, <1>7, <2>1, OneFifoChanges
<1>9. pipe'[c] = p /\ \A k \in Clients \ {c} : pipe'[k] = pipe[k]
  BY <1>1, <1>2 DEF FifosFit
<1> QED BY <1>2, <1>3, <1>4, <1>8, <1>9 DEF ClientsInv, p

\* A write to a pipe without a reader ends the process.
LEMMA BreakKeeps ==
  ASSUME Sane, NEW t, NEW l, At(t, l), l # "idle", BrokenPipe(t),
         UNCHANGED <<threads, box_list, box_list_mutex, fs, request_name, created, lost, strayed>>
  PROVE  Sane' /\ Goes(t, l, job[t]) /\ process' # "up" /\ pipe' = pipe
<1>1. Dies("killed") /\ UNCHANGED <<descriptors, register_pipe, clientVars>>
  BY DEF BrokenPipe
<1>2. ClientsInv' /\ lives' = lives /\ stage' = stage /\ pipe' = pipe
  BY <1>1, SameClients DEF Sane, clientVars
<1>3. Goes(t, l, job[t]) /\ process' # "up"
  BY <1>1, <1>2, DeathGoes
<1>4. at[t] = l
  BY DEF At
<1>5. DescriptorsFit'
  BY <1>1, <1>3, <1>4, DescriptorsKept
<1>6. strayed' \in BOOLEAN
  BY DEF Sane, HistoryFits
<1> QED BY <1>2, <1>3, <1>5, <1>6, QuietKeeps

\* A step that leaves the list, the files and the descriptors as they were.
LEMMA CalmKeeps ==
  ASSUME Sane, NEW t, NEW l, NEW j, Goes(t, l, j), ClientsInv', l \in Held => at[t] \in Held,
         UNCHANGED <<box_list, fs, created, descriptors>>,
         box_list_mutex' \in {box_list_mutex, Nobody, t}, strayed' \in BOOLEAN
  PROVE  Sane'
BY QuietKeeps, DescriptorsKept

\* How a step uses the mutex: not at all, unless the thread fails and keeps it; or
\* it takes it, gives it back, or releases what may be another's.
Locks(t, l) ==
  \/ /\ box_list_mutex' = box_list_mutex /\ strayed' = strayed
     /\ l \in Inside => at[t] \in Inside
     /\ at[t] \in Inside \cup {"stuck"}
          => l \in Inside \cup {"stuck"} \/ failed' \cap Subscribers # {} \/ process' # "up"
  \/ /\ box_list_mutex = Nobody /\ box_list_mutex' = t /\ strayed' = strayed
     /\ l \in Inside \cup {"stuck"} \/ failed' \cap Subscribers # {}
  \/ /\ at[t] \in Inside /\ l \notin Inside
     /\ box_list_mutex' = Nobody /\ strayed' = strayed
  \/ /\ l \notin Inside
     /\ box_list_mutex' = Nobody /\ strayed' = (strayed \/ box_list_mutex # Nobody)

\* Nobody but a thread writes to a manager, and to the one that it serves.
Writes(t) == \A c \in Managers \ {job[t].client} : pipe'[c] = pipe[c]

Acts(t) == \E l, j : Goes(t, l, j) /\ Locks(t, l) /\ Writes(t)

\* The kinds of clients.
LEMMA Kinds == /\ Managers \subseteq Clients \ Publishers
               /\ Subscribers \subseteq Clients \ Publishers
               /\ Publishers \subseteq Clients
BY ClientsAssumption DEF Clients

\* An open of a pipe is a step of one thread: only subscribers' are under the mutex.
LEMMA OpensActs ==
  ASSUME Sane, NEW t, NEW l, At(t, l), NEW next, Opens(t, next),
         UNCHANGED <<box_list_mutex, strayed>>,
         next \in Inside => l \in Inside \cap Subscribing,
         l \in Inside => next \in Inside /\ l \in Subscribing, l # "stuck"
  PROVE  Acts(t)
<1>1. Writes(t) /\ at[t] = l /\ t \in Threads
  BY DEF Opens, Writes, At, Sane, ThreadsFit
<1>2. CASE Goes(t, next, [job[t] EXCEPT !.reader = lives[job[t].client]])
  BY <1>1, <1>2 DEF Acts, Locks
<1>3. CASE Goes(t, "stuck", job[t])
  BY <1>1, <1>3 DEF Acts, Locks, Inside
<1>4. CASE Goes(t, "idle", NoJob) /\ failed' = failed \cup {job[t].client}
  <2>1. l \in Inside => job[t].client \in Subscribers
    BY <1>1 DEF Sane, ThreadsFit, Fits
  <2>2. "idle" \notin Inside
    BY DEF Inside
  <2> QED BY <1>1, <1>4, <2>1, <2>2 DEF Acts, Locks
<1> QED BY <1>2, <1>3, <1>4 DEF Opens

\* Each of the four is a step of one thread.
LEMMA OpenSteps ==
  ASSUME Sane, NEW t, AnswerOpen(t) \/ ListOpen(t) \/ ReplayOpen(t) \/ FloodOpen(t)
  PROVE  Sane' /\ Acts(t)
<1>1. CASE AnswerOpen(t)
  <2>1. At(t, "answer open") /\ UNCHANGED <<box_list_mutex, strayed>>
    BY <1>1 DEF AnswerOpen, OnlyPipes, history
  <2>2. "answer write" \notin Inside /\ "answer open" \notin Inside
    BY DEF Inside, Subscribing
  <2>3. Sane' /\ Opens(t, "answer write")
    BY <1>1, AnswerOpenKeeps
  <2> QED BY <2>1, <2>2, <2>3, OpensActs
<1>2. CASE ListOpen(t)
  <2>1. At(t, "list open") /\ UNCHANGED <<box_list_mutex, strayed>>
    BY <1>2 DEF ListOpen, OnlyPipes, history
  <2>2. "list lock" \notin Inside /\ "list open" \notin Inside
    BY DEF Inside, Subscribing
  <2>3. Sane' /\ Opens(t, "list lock")
    BY <1>2, ListOpenKeeps
  <2> QED BY <2>1, <2>2, <2>3, OpensActs
<1>3. CASE ReplayOpen(t)
  <2>1. At(t, "replay open") /\ UNCHANGED <<box_list_mutex, strayed>>
    BY <1>3 DEF ReplayOpen, OnlyPipes, history
  <2>2. "replay write" \in Inside /\ "replay open" \in Inside \cap Subscribing
    BY DEF Inside, Subscribing
  <2>3. Sane' /\ Opens(t, "replay write")
    BY <1>3, ReplayOpenKeeps
  <2> QED BY <2>1, <2>2, <2>3, OpensActs
<1>4. CASE FloodOpen(t)
  <2>1. At(t, "flood open") /\ UNCHANGED <<box_list_mutex, strayed>>
    BY <1>4 DEF FloodOpen, OnlyPipes, history
  <2>2. "flood write" \in Inside /\ "flood open" \in Inside \cap Subscribing
    BY DEF Inside, Subscribing
  <2>3. Sane' /\ Opens(t, "flood write")
    BY <1>4, FloodOpenKeeps
  <2> QED BY <2>1, <2>2, <2>3, OpensActs
<1> QED BY <1>1, <1>2, <1>3, <1>4

\* The process that ends acts no more.
LEMMA BreakActs ==
  ASSUME Sane, NEW t, NEW l, At(t, l), Goes(t, l, job[t]), process' # "up", pipe' = pipe,
         UNCHANGED <<box_list_mutex, strayed>>
  PROVE  Acts(t)
<1>1. at[t] = l
  BY DEF At
<1> QED BY <1>1 DEF Acts, Locks, Writes

\* AnswerWrite keeps the invariant.
LEMMA AnswerWriteKeeps ==
  ASSUME Sane, NEW t, AnswerWrite(t)
  PROVE  Sane' /\ Acts(t)
<1>1. /\ At(t, "answer write") /\ OnlyPipes /\ UNCHANGED box_list_mutex /\ at[t] = "answer write"
      /\ UNCHANGED <<threads, box_list, fs, request_name, created, lost, strayed>>
  BY DEF AnswerWrite, OnlyPipes, history, At
<1>2. job[t].client \in Managers /\ strayed \in BOOLEAN
  BY <1>1, ThreadAt DEF Fits, Serving, Sane, HistoryFits
<1>3. CASE BrokenPipe(t)
  BY <1>1, <1>3, BreakKeeps, BreakActs
<1>4. CASE Sends(t, job[t].data) /\ descriptors' = descriptors - 1 /\ Returns(t)
  <2>1. /\ ClientsInv' /\ stage[job[t].client] # "signed"
        /\ register_pipe' = register_pipe /\ lives' = lives /\ stage' = stage
        /\ \A c \in Clients \ {job[t].client} : pipe'[c] = pipe[c]
    BY <1>2, <1>4, Kinds, SendKeeps DEF Sane
  <2>2. Goes(t, "idle", NoJob)
    BY <1>1, <1>4, <2>1, ReturnGoes
  <2>3. "answer write" \in Held /\ "idle" \notin Held
    BY DEF Held
  <2>4. DescriptorsFit'
    BY <1>1, <1>4, <2>2, <2>3, DescriptorsKept
  <2>5. Sane'
    BY <1>1, <1>2, <2>1, <2>2, <2>4, QuietKeeps
  <2>6. Locks(t, "idle") /\ Writes(t)
    BY <1>1, <2>1, Kinds DEF Locks, Writes, Inside
  <2> QED BY <2>2, <2>5, <2>6 DEF Acts
<1> QED BY <1>3, <1>4 DEF AnswerWrite

\* ListLock keeps the invariant.
LEMMA ListLockKeeps ==
  ASSUME Sane, NEW t, ListLock(t)
  PROVE  Sane' /\ Acts(t)
<1>1. /\ At(t, "list lock") /\ at[t] = "list lock" /\ box_list_mutex = Nobody
      /\ box_list_mutex' = t /\ Steps(t, "listing")
      /\ UNCHANGED <<threads, box_list, fs, request_name, created, lost, strayed, job,
                     descriptors, register_pipe, clientVars>>
  BY DEF ListLock, OnlyPipes, NoPipes, history, At
<1>2. /\ Fits("list lock", job[t]) /\ job = [job EXCEPT ![t] = job[t]]
      /\ strayed \in BOOLEAN /\ ClientsInv' /\ lives' = lives /\ stage' = stage /\ pipe' = pipe
  BY <1>1, ThreadAt, SameClients DEF Sane, HistoryFits, clientVars
<1>3. Fits("listing", job[t])
  BY <1>2, EmptyIsSeq DEF Fits, Labels, Inside, Serving, Publishing, InSession, Subscribing
<1>4. "listing" \notin Met
  BY DEF Met, InSession
<1>5. Goes(t, "listing", job[t])
  BY <1>1, <1>2, <1>3, <1>4, StepGoes
<1>6. Sane'
  BY <1>1, <1>2, <1>5, CalmKeeps DEF Held
<1>7. Locks(t, "listing") /\ Writes(t)
  BY <1>1, <1>2 DEF Locks, Inside, Writes
<1> QED BY <1>5, <1>6, <1>7 DEF Acts

\* FloodWrite keeps the invariant.
LEMMA FloodWriteKeeps ==
  ASSUME Sane, NEW t, FloodWrite(t)
  PROVE  Sane' /\ Acts(t)
<1>1. /\ At(t, "flood write") /\ OnlyPipes /\ UNCHANGED box_list_mutex /\ at[t] = "flood write"
      /\ UNCHANGED <<threads, box_list, fs, request_name, created, lost, strayed>>
  BY DEF FloodWrite, OnlyPipes, history, At
<1>2. /\ Fits("flood write", job[t]) /\ job = [job EXCEPT ![t] = job[t]]
      /\ job[t].client \in Subscribers /\ strayed \in BOOLEAN
  BY <1>1, ThreadAt DEF Fits, Subscribing, Sane, HistoryFits
<1>3. CASE BrokenPipe(t)
  BY <1>1, <1>3, BreakKeeps, BreakActs
<1>4. CASE Sends(t, <<Unwritten>>) /\ Steps(t, "flood open") /\ UNCHANGED <<job, descriptors>>
  <2>1. /\ ClientsInv' /\ stage[job[t].client] # "signed"
        /\ register_pipe' = register_pipe /\ lives' = lives /\ stage' = stage
        /\ \A c \in Clients \ {job[t].client} : pipe'[c] = pipe[c]
    BY <1>2, <1>4, Kinds, SendKeeps DEF Sane
  <2>2. Fits("flood open", job[t]) /\ "flood open" \notin Met
    BY <1>2 DEF Fits, Labels, Inside, Serving, Publishing, InSession, Subscribing, Met
  <2>3. Goes(t, "flood open", job[t])
    BY <1>1, <1>2, <1>4, <2>1, <2>2, StepGoes
  <2>4. Sane'
    BY <1>1, <1>2, <1>4, <2>1, <2>3, CalmKeeps DEF Held
  <2>5. Locks(t, "flood open") /\ Writes(t)
    BY <1>1, <2>1, Kinds DEF Locks, Writes, Inside
  <2> QED BY <2>3, <2>4, <2>5 DEF Acts
<1> QED BY <1>3, <1>4 DEF FloodWrite

\* What a handler keeps in its job.
LEMMA JobTodo ==
  ASSUME NEW j, JobTyped(j), NEW x, NEW k, k = [j EXCEPT !.todo = x]
  PROVE  /\ JobTyped(k) /\ k.client = j.client /\ k.box = j.box /\ k.todo = x
         /\ k.data = j.data /\ k.handle = j.handle
BY DEF JobTyped

\* ListWrite keeps the invariant.
LEMMA ListWriteKeeps ==
  ASSUME Sane, NEW t, ListWrite(t)
  PROVE  Sane' /\ Acts(t)
<1> DEFINE i == Len(job[t].todo) + 1
<1>1. /\ At(t, "listing") /\ OnlyPipes /\ at[t] = "listing"
      /\ UNCHANGED <<threads, box_list, fs, request_name, created, lost, strayed>>
  BY DEF ListWrite, OnlyPipes, history, At
<1>2. /\ Fits("listing", job[t]) /\ JobTyped(job[t])
      /\ job[t].client \in Managers /\ strayed \in BOOLEAN /\ job[t].todo \in Seq(Nat)
  BY <1>1, ThreadAt DEF Fits, Serving, Sane, HistoryFits
<1>3. i \in Nat
  <2> DEFINE s == job[t].todo
  <2> HIDE DEF s
  <2>1. s \in Seq(Nat)
    BY <1>2 DEF s
  <2>2. Len(s) \in Nat
    BY <2>1, LenProperties
  <2>3. Len(s) + 1 \in Nat
    BY <2>2
  <2> QED BY <2>3 DEF s
<1>4. ASSUME NEW data, Sends(t, data)
      PROVE  /\ ClientsInv' /\ stage[job[t].client] # "signed"
             /\ register_pipe' = register_pipe /\ lives' = lives /\ stage' = stage
             /\ Writes(t)
  BY <1>2, <1>4, Kinds, SendKeeps DEF Sane, Writes
<1>5. CASE BrokenPipe(t) /\ UNCHANGED box_list_mutex
  BY <1>1, <1>5, BreakKeeps, BreakActs
<1>6. CASE /\ Sends(t, create_listing_message(i))
           /\ job' = [job EXCEPT ![t].todo = Append(@, i)]
           /\ Steps(t, "listing") /\ UNCHANGED <<descriptors, box_list_mutex>>
  <2> DEFINE s == job[t].todo
             more == Append(s, i)
             j == [job[t] EXCEPT !.todo = more]
  <2>1. more \in Seq(Nat)
    <3>1. s \in Seq(Nat)
      BY <1>2
    <3> HIDE DEF s, i
    <3> QED BY <1>3, <3>1, AppendProperties
  <2>2. job' = [job EXCEPT ![t] = j]
    BY <1>6
  <2>3. /\ JobTyped(j) /\ j.client = job[t].client /\ j.box = job[t].box /\ j.todo = more
    <3> HIDE DEF more
    <3> QED BY <1>2, JobTodo
  <2> HIDE DEF j, more
  <2>4. Fits("listing", j) /\ "listing" \notin Met
    BY <1>2, <2>1, <2>3
       DEF Fits, Labels, Inside, Serving, Publishing, InSession, Subscribing, Met
  <2>5. Goes(t, "listing", j)
    BY <1>1, <1>4, <1>6, <2>2, <2>3, <2>4, StepGoes
  <2>6. Sane'
    BY <1>1, <1>2, <1>4, <1>6, <2>5, CalmKeeps DEF Held
  <2>7. Locks(t, "listing") /\ Writes(t)
    BY <1>1, <1>4, <1>6 DEF Locks, Inside
  <2> QED BY <2>5, <2>6, <2>7 DEF Acts
<1>7. CASE \E data : /\ Sends(t, data) /\ box_list_mutex' = Nobody /\ Returns(t)
                     /\ descriptors' \in {descriptors, descriptors - 1}
  <2>1. PICK data : Sends(t, data)
    BY <1>7
  <2>2. Goes(t, "idle", NoJob)
    BY <1>1, <1>4, <1>7, <2>1, ReturnGoes
  <2>3. DescriptorsFit'
    BY <1>1, <1>7, <2>2, DescriptorsKept DEF Held
  <2>4. Sane'
    BY <1>1, <1>2, <1>4, <1>7, <2>1, <2>2, <2>3, QuietKeeps
  <2>5. Locks(t, "idle") /\ Writes(t)
    BY <1>1, <1>4, <1>7, <2>1 DEF Locks, Inside
  <2> QED BY <2>2, <2>4, <2>5 DEF Acts
<1> QED BY <1>5, <1>6, <1>7 DEF ListWrite

\* PublisherOpen keeps the invariant.
LEMMA PublisherOpenKeeps ==
  ASSUME Sane, NEW t, PublisherOpen(t)
  PROVE  Sane' /\ Acts(t)
<1> DEFINE p == job[t].client
<1>1. /\ At(t, "publisher open") /\ UNCHANGED box_list_mutex /\ at[t] = "publisher open"
      /\ UNCHANGED <<threads, box_list, fs, request_name, created, lost, strayed>>
      /\ UNCHANGED <<register_pipe, fifoVars, lives, pipe, taken>>
  BY DEF PublisherOpen, OnlyPipes, history, fifoVars, At
<1>2. /\ Fits("publisher open", job[t]) /\ job = [job EXCEPT ![t] = job[t]]
      /\ p \in Clients /\ strayed \in BOOLEAN /\ ClientsInv
  BY <1>1, ThreadAt DEF Fits, Sane, HistoryFits
<1>3. Writes(t)
  BY <1>1 DEF Writes
<1>4. CASE /\ stage[p] = "signed" /\ descriptors < MaxDescriptors
           /\ stage' = [stage EXCEPT ![p] = "writing"] /\ descriptors' = descriptors + 1
           /\ Steps(t, "listening") /\ UNCHANGED job
  <2>1. "writing" \in Stages \ {"nofifo", "signed"}
    BY DEF Stages
  <2>2. /\ ClientsInv' /\ stage'[p] # "signed"
        /\ \A k \in Clients : stage'[k] = stage[k] \/ stage'[k] # "signed"
    <3> HIDE DEF p
    <3> QED BY <1>1, <1>2, <1>4, <2>1, MeetKeeps
  <2>3. Fits("listening", job[t])
    BY <1>2 DEF Fits, Labels, Inside, Serving, Publishing, InSession, Subscribing
  <2>4. Goes(t, "listening", job[t])
    BY <1>1, <1>2, <1>4, <2>2, <2>3, StepGoes
  <2>5. DescriptorsFit'
    BY <1>4, <2>4, DescriptorsKept
  <2>6. Sane'
    BY <1>1, <1>2, <2>2, <2>4, <2>5, QuietKeeps
  <2>7. Locks(t, "listening")
    BY <1>1 DEF Locks, Inside
  <2> QED BY <1>3, <2>4, <2>6, <2>7 DEF Acts
<1>5. CASE Steps(t, "stuck") /\ UNCHANGED <<stage, job, descriptors>>
  <2>1. Fits("stuck", job[t]) /\ "stuck" \notin Met
    BY <1>2, StuckFits DEF Met, InSession
  <2>2. ClientsInv'
    BY <1>1, <1>2, <1>5, SameClients DEF clientVars
  <2>3. Goes(t, "stuck", job[t])
    BY <1>1, <1>2, <1>5, <2>1, StepGoes
  <2>4. Sane'
    BY <1>1, <1>2, <1>5, <2>2, <2>3, CalmKeeps DEF Held
  <2>5. Locks(t, "stuck")
    BY <1>1 DEF Locks, Inside
  <2> QED BY <1>3, <2>3, <2>4, <2>5 DEF Acts
<1>6. CASE Fails(t) /\ UNCHANGED <<stage, descriptors>>
  <2>1. ClientsInv'
    BY <1>1, <1>2, <1>6, SameClients DEF clientVars
  <2>2. Goes(t, "idle", NoJob)
    BY <1>1, <1>6, FailGoes
  <2>3. Sane'
    BY <1>1, <1>2, <1>6, <2>1, <2>2, CalmKeeps DEF Held
  <2>4. Locks(t, "idle")
    BY <1>1 DEF Locks, Inside
  <2> QED BY <1>3, <2>2, <2>3, <2>4 DEF Acts
<1> QED BY <1>4, <1>5, <1>6 DEF PublisherOpen

\* A publisher's next message is read.
LEMMA TakeKeeps ==
  ASSUME ClientsInv, NEW p \in Publishers, Unread(p) > 0,
         taken' = [taken EXCEPT ![p] = @ + 1],
         UNCHANGED <<register_pipe, stage, lives, pipe>>
  PROVE  ClientsInv' /\ pipe[p][taken[p] + 1] \in Messages
<1>1. /\ FifosFit /\ p \in Clients /\ FifoFits(p, stage[p], lives[p], pipe[p], taken[p])
      /\ stage' = [stage EXCEPT ![p] = stage[p]] /\ lives' = [lives EXCEPT ![p] = lives[p]]
      /\ pipe' = [pipe EXCEPT ![p] = pipe[p]]
  BY Kinds, Unchanged DEF ClientsInv
<1> DEFINE n == taken[p]
           m == Len(pipe[p])
<1>2. n \in Nat /\ m \in Nat /\ m - n > 0 /\ DOMAIN pipe[p] = 1 .. m
  BY <1>1, UnreadIs
<1>3. taken' = [taken EXCEPT ![p] = n + 1]
  OBVIOUS
<1> HIDE DEF n, m
<1>4. n + 1 \in Nat /\ n + 1 <= m /\ n + 1 \in 1 .. m
  BY <1>2
<1>5. FifoFits(p, stage[p], lives[p], pipe[p], n + 1)
  BY <1>1, <1>4 DEF FifoFits, m
<1>6. FifosFit'
  <2>1. ASSUME NEW k, taken' = [taken EXCEPT ![p] = k],
               FifoFits(p, stage[p], lives[p], pipe[p], k)
        PROVE  FifosFit'
    BY ONLY <1>1, <2>1, OneFifoChanges
  <2> QED BY <1>3, <1>5, <2>1
<1>7. pipe[p] \in Seq(Messages)
  BY <1>1 DEF FifoFits
<1>8. pipe[p][n + 1] \in Messages
  BY <1>4, <1>7, ElementOfSeq DEF m
<1>9. RequestsFit'
  BY DEF ClientsInv, RequestsFit
<1> QED BY <1>6, <1>8, <1>9 DEF ClientsInv, n

\* read_publisher_pipe_input keeps the invariant.
LEMMA ReadPublisherKeeps ==
  ASSUME Sane, NEW t, read_publisher_pipe_input(t)
  PROVE  Sane' /\ Acts(t)
<1> DEFINE p == job[t].client
           opened == tfs_open(fs, job[t].box, {"APPEND"})
           d == pipe[p][taken[p] + 1]
           j == [job[t] EXCEPT !.handle = opened.ret, !.data = d]
<1>1. /\ At(t, "listening") /\ at[t] = "listening" /\ Unread(p) > 0
      /\ taken' = [taken EXCEPT ![p] = @ + 1] /\ fs' = opened.fs
      /\ UNCHANGED <<threads, box_list, box_list_mutex, request_name, descriptors,
                     created, lost, strayed, register_pipe, stage, lives, pipe>>
      /\ \/ Fails(t)
         \/ job' = [job EXCEPT ![t] = j] /\ Steps(t, "store")
  BY DEF read_publisher_pipe_input, history, At
<1>2. /\ Fits("listening", job[t]) /\ JobTyped(job[t])
      /\ p \in Publishers /\ strayed \in BOOLEAN /\ ClientsInv /\ FsInv(fs)
  BY <1>1, ThreadAt DEF Fits, Publishing, InSession, Sane, HistoryFits
<1>3. ClientsInv' /\ d \in Messages
  <2> HIDE DEF p
  <2> QED BY <1>1, <1>2, TakeKeeps
<1>4. FsInv(fs') /\ BoxesFit'
  <2>1. FsInv(opened.fs)
    BY <1>2, OpenKeepsInv
  <2> QED BY <1>1, <2>1 DEF Sane, BoxesFit
<1>5. Writes(t)
  BY <1>1 DEF Writes
<1>6. /\ JobTyped(j) /\ j.client = job[t].client /\ j.box = job[t].box /\ j.data = d
  <2> DEFINE h == opened.ret
  <2>1. j = [job[t] EXCEPT !.handle = h, !.data = d]
    OBVIOUS
  <2> DEFINE old == job[t]
  <2>2. JobTyped(old) /\ j = [old EXCEPT !.handle = h, !.data = d]
    BY <1>2, <2>1
  <2> HIDE DEF j, d, h, old
  <2>3. /\ JobTyped(j) /\ j.client = old.client /\ j.box = old.box /\ j.data = d
    BY <2>2 DEF JobTyped
  <2> QED BY <2>3 DEF old
<1> HIDE DEF j, d, opened
<1>7. Fits("store", j)
  BY <1>2, <1>3, <1>6 DEF Fits, Labels, Inside, Serving, Publishing, InSession, Subscribing
<1>8. CASE Fails(t)
  <2>1. Goes(t, "idle", NoJob)
    BY <1>1, <1>8, FailGoes
  <2>2. DescriptorsFit'
    BY <1>1, <2>1, DescriptorsKept DEF Held
  <2>3. Sane'
    BY <1>1, <1>2, <1>3, <1>4, <2>1, <2>2, StepKeeps
  <2>4. Locks(t, "idle")
    BY <1>1 DEF Locks, Inside
  <2> QED BY <1>5, <2>1, <2>3, <2>4 DEF Acts
<1>9. CASE job' = [job EXCEPT ![t] = j] /\ Steps(t, "store")
  <2>1. "listening" \in Met
    BY DEF Met, InSession
  <2>2. Goes(t, "store", j)
    BY <1>1, <1>6, <1>7, <1>9, <2>1, StepGoes
  <2>3. DescriptorsFit'
    BY <1>1, <2>2, DescriptorsKept DEF Held
  <2>4. Sane'
    BY <1>1, <1>2, <1>3, <1>4, <2>2, <2>3, StepKeeps
  <2>5. Locks(t, "store")
    BY <1>1 DEF Locks, Inside
  <2> QED BY <1>5, <2>2, <2>4, <2>5 DEF Acts
<1> QED BY <1>1, <1>8, <1>9

-----------------------------------------------------------------------------
(* Steps that no client sees *)

\* A step that no client sees keeps the invariant if its own part does.
LEMMA UnseenKeeps ==
  ASSUME Sane, NEW t, NEW l, NEW j, Goes(t, l, j), NoPipes, UNCHANGED descriptors,
         l \in Held => at[t] \in Held, FsInv(fs'), BoxesFit', strayed' \in BOOLEAN,
         box_list_mutex' \in {box_list_mutex, Nobody, t}, Locks(t, l)
  PROVE  Sane' /\ Acts(t)
<1>1. ClientsInv' /\ Writes(t)
  BY SameClients DEF Sane, NoPipes, clientVars, Writes
<1>2. DescriptorsFit'
  BY DescriptorsKept
<1>3. Sane'
  BY <1>1, <1>2, StepKeeps
<1> QED BY <1>1, <1>3 DEF Acts

\* What does not change the clients' state fits the lemmas on the steps of handlers.
LEMMA Unseen ==
  ASSUME NoPipes
  PROVE  /\ UNCHANGED <<register_pipe, lives>>
         /\ \A c \in Clients : stage'[c] = stage[c] \/ stage'[c] # "signed"
BY DEF NoPipes, clientVars

\* Store keeps the invariant.
LEMMA StoreKeeps ==
  ASSUME Sane, NEW t, Store(t)
  PROVE  Sane' /\ Acts(t)
<1> DEFINE d == job[t].data
           written == tfs_write(fs, job[t].handle, d)
<1>1. /\ At(t, "store") /\ at[t] = "store" /\ fs' = written.fs /\ NoPipes
      /\ UNCHANGED <<threads, box_list, box_list_mutex, request_name, descriptors,
                     created, lost, strayed>>
      /\ \/ Fails(t)
         \/ Steps(t, "close") /\ UNCHANGED job
  <2> DEFINE bad == written.ret < 0
  <2>1. /\ At(t, "store") /\ fs' = written.fs /\ NoPipes
        /\ UNCHANGED <<threads, box_list, box_list_mutex, request_name, descriptors, history>>
        /\ IF bad THEN Fails(t) ELSE Steps(t, "close") /\ UNCHANGED job
    BY DEF Store
  <2> HIDE DEF bad, written
  <2> QED BY <2>1 DEF history, At
<1>2. /\ Fits("store", job[t]) /\ job = [job EXCEPT ![t] = job[t]]
      /\ strayed \in BOOLEAN /\ FsInv(fs) /\ d \in Messages
  BY <1>1, ThreadAt DEF Fits, Sane, HistoryFits
<1>3. FsInv(fs') /\ BoxesFit'
  <2>1. d \in Seq({d[i] : i \in DOMAIN d})
    <3> HIDE DEF d
    <3> QED BY <1>2, ClientsAssumption
  <2>2. FsInv(written.fs)
    <3> HIDE DEF d
    <3> QED BY <1>2, <2>1, WriteKeepsInv
  <2> QED BY <1>1, <2>2 DEF Sane, BoxesFit
<1> HIDE DEF d, written
<1>4. CASE Fails(t)
  <2>1. Goes(t, "idle", NoJob)
    BY <1>1, <1>4, FailGoes, Unseen
  <2>2. Locks(t, "idle")
    BY <1>1 DEF Locks, Inside
  <2> QED BY <1>1, <1>2, <1>3, <2>1, <2>2, UnseenKeeps DEF Held
<1>5. CASE Steps(t, "close") /\ UNCHANGED job
  <2>1. Fits("close", job[t]) /\ "store" \in Met
    BY <1>2 DEF Fits, Labels, Inside, Serving, Publishing, InSession, Subscribing, Met
  <2>2. Goes(t, "close", job[t])
    BY <1>1, <1>2, <1>5, <2>1, StepGoes, Unseen
  <2>3. Locks(t, "close")
    BY <1>1 DEF Locks, Inside
  <2> QED BY <1>1, <1>2, <1>3, <2>2, <2>3, UnseenKeeps DEF Held
<1> QED BY <1>1, <1>4, <1>5

\* CloseBox keeps the invariant.
LEMMA CloseBoxKeeps ==
  ASSUME Sane, NEW t, CloseBox(t)
  PROVE  Sane' /\ Acts(t)
<1>1. /\ At(t, "close") /\ at[t] = "close" /\ fs' = tfs_close(fs, job[t].handle).fs /\ NoPipes
      /\ UNCHANGED <<threads, box_list, box_list_mutex, request_name, descriptors,
                     created, lost, strayed, job>>
      /\ Steps(t, "append")
  BY DEF CloseBox, history, At
<1>2. /\ Fits("close", job[t]) /\ job = [job EXCEPT ![t] = job[t]]
      /\ strayed \in BOOLEAN /\ FsInv(fs)
  BY <1>1, ThreadAt DEF Sane, HistoryFits
<1>3. FsInv(fs') /\ BoxesFit'
  <2>1. FsInv(tfs_close(fs, job[t].handle).fs)
    BY <1>2, CloseKeepsInv
  <2> QED BY <1>1, <2>1 DEF Sane, BoxesFit
<1>4. Fits("append", job[t]) /\ "close" \in Met
  BY <1>2 DEF Fits, Labels, Inside, Serving, Publishing, InSession, Subscribing, Met
<1>5. Goes(t, "append", job[t])
  BY <1>1, <1>2, <1>4, StepGoes, Unseen
<1>6. Locks(t, "append")
  BY <1>1 DEF Locks, Inside
<1> QED BY <1>1, <1>2, <1>3, <1>5, <1>6, UnseenKeeps DEF Held

\* A thread that dies does nothing else.
LEMMA DeathActs ==
  ASSUME Sane, NEW t, NEW l, At(t, l), l # "idle",
         NEW how \in {"exited", "killed", "crashed", "undefined"}, Dies(how), NoPipes,
         UNCHANGED <<threads, box_list, box_list_mutex, fs, request_name, descriptors,
                     created, lost, strayed>>
  PROVE  Sane' /\ Acts(t)
<1>1. Goes(t, l, job[t]) /\ process' # "up" /\ at[t] = l
  BY DeathGoes, Unseen DEF At
<1>2. Locks(t, l)
  BY <1>1 DEF Locks
<1>3. FsInv(fs') /\ BoxesFit' /\ strayed' \in BOOLEAN
  BY DEF Sane, BoxesFit, HistoryFits
<1> QED BY <1>1, <1>2, <1>3, UnseenKeeps

\* Nor does one that fails outside the list.
LEMMA FailActs ==
  ASSUME Sane, NEW t, NEW l, At(t, l), l \notin Inside \cup {"idle", "stuck"}, Fails(t), NoPipes,
         UNCHANGED <<threads, box_list, box_list_mutex, request_name, descriptors,
                     created, lost, strayed>>, FsInv(fs')
  PROVE  Sane' /\ Acts(t)
<1>1. Goes(t, "idle", NoJob) /\ at[t] = l
  BY FailGoes, Unseen DEF At
<1>2. Locks(t, "idle")
  BY <1>1 DEF Locks, Inside
<1>3. BoxesFit' /\ strayed' \in BOOLEAN
  BY DEF Sane, BoxesFit, HistoryFits
<1> QED BY <1>1, <1>2, <1>3, UnseenKeeps DEF Held

\* StrayUnlock keeps the invariant.
LEMMA StrayUnlockKeeps ==
  ASSUME Sane, NEW t, StrayUnlock(t)
  PROVE  Sane' /\ Acts(t)
<1>1. /\ At(t, "unlock") /\ at[t] = "unlock" /\ NoPipes
      /\ UNCHANGED <<threads, box_list, fs, request_name, descriptors, created, lost>>
  BY DEF StrayUnlock, At
<1>2. /\ Fits("unlock", job[t]) /\ job = [job EXCEPT ![t] = job[t]]
      /\ strayed \in BOOLEAN
  BY <1>1, ThreadAt DEF Sane, HistoryFits
<1>3. CASE /\ box_list_mutex' = Nobody /\ strayed' = (strayed \/ box_list_mutex # Nobody)
           /\ Steps(t, "listening") /\ UNCHANGED job
  <2>1. Fits("listening", job[t]) /\ "unlock" \in Met
    BY <1>2 DEF Fits, Labels, Inside, Serving, Publishing, InSession, Subscribing, Met
  <2>2. Goes(t, "listening", job[t])
    BY <1>1, <1>2, <1>3, <2>1, StepGoes, Unseen
  <2>3. Locks(t, "listening")
    BY <1>3 DEF Locks, Inside
  <2>4. FsInv(fs') /\ BoxesFit' /\ strayed' \in BOOLEAN
    BY <1>1, <1>2, <1>3 DEF Sane, BoxesFit
  <2> QED BY <1>1, <1>3, <2>2, <2>3, <2>4, UnseenKeeps DEF Held
<1>4. CASE Dies("undefined") /\ UNCHANGED <<box_list_mutex, strayed>>
  BY <1>1, <1>4, DeathActs
<1> QED BY <1>3, <1>4 DEF StrayUnlock

-----------------------------------------------------------------------------
(* The list of boxes *)

\* find_box_by_name returns where the box is, or 0 if there is none.
LEMMA FindBox ==
  ASSUME box_list \in Seq(BoxRecords), NEW n
  PROVE  \/ find_box_by_name(n) = 0 /\ \A k \in DOMAIN box_list : box_list[k].box_name # n
         \/ /\ find_box_by_name(n) \in DOMAIN box_list /\ find_box_by_name(n) # 0
            /\ box_list[find_box_by_name(n)].box_name = n
            /\ box_list[find_box_by_name(n)] \in BoxRecords
<1> DEFINE found == {i \in DOMAIN box_list : box_list[i].box_name = n}
<1>1. DOMAIN box_list = 1 .. Len(box_list) /\ Len(box_list) \in Nat
  BY LenProperties
<1>2. find_box_by_name(n) = IF found = {} THEN 0 ELSE FirstOf(found)
  BY DEF find_box_by_name
<1>3. CASE found = {}
  BY <1>2, <1>3
<1>4. CASE found # {}
  <2>1. found \in SUBSET Nat
    BY <1>1
  <2>2. FirstOf(found) \in found
    <3> HIDE DEF found
    <3> QED BY <1>4, <2>1, FirstOfIsLeast
  <2>3. find_box_by_name(n) \in found
    BY <1>2, <1>4, <2>2
  <2>4. find_box_by_name(n) \in 1 .. Len(box_list) /\ box_list[find_box_by_name(n)].box_name = n
    BY <1>1, <2>3
  <2>5. box_list[find_box_by_name(n)] \in BoxRecords /\ find_box_by_name(n) # 0
    BY <1>1, <2>4, ElementOfSeq
  <2> QED BY <1>1, <2>4, <2>5
<1> QED BY <1>3, <1>4

\* One box is changed, not its name.
OneBox(i) ==
  /\ i \in DOMAIN box_list /\ DOMAIN box_list' = DOMAIN box_list
  /\ box_list' \in Seq(BoxRecords) /\ box_list'[i].box_name = box_list[i].box_name
  /\ \A k \in DOMAIN box_list \ {i} : box_list'[k] = box_list[k]

\* One box is changed, not its name.
LEMMA BoxChanged ==
  ASSUME box_list \in Seq(BoxRecords), NEW i \in DOMAIN box_list, NEW b \in BoxRecords,
         b.box_name = box_list[i].box_name, box_list' = [box_list EXCEPT ![i] = b]
  PROVE  OneBox(i) /\ box_list'[i] = b
<1>1. /\ DOMAIN box_list = 1 .. Len(box_list) /\ Len(box_list) \in Nat
      /\ i \in 1 .. Len(box_list)
  BY LenProperties
<1>2. box_list' \in Seq(BoxRecords)
  BY <1>1, ExceptSeq
<1>3. DOMAIN box_list' = DOMAIN box_list /\ box_list'[i] = b
  OBVIOUS
<1>4. \A k \in DOMAIN box_list \ {i} : box_list'[k] = box_list[k]
  OBVIOUS
<1> QED BY <1>2, <1>3, <1>4 DEF OneBox

\* The list fits if one box at most is changed.
LEMMA OneBoxFits ==
  ASSUME BoxesFit, NEW i, OneBox(i), created' = created
  PROVE  BoxesFit'
<1>1. \A k \in DOMAIN box_list' : k \in DOMAIN box_list /\ box_list'[k].box_name = box_list[k].box_name
  BY DEF OneBox
<1> QED BY <1>1 DEF BoxesFit, OneBox

\* A record of the list.
LEMMA BoxIs ==
  ASSUME box_list \in Seq(BoxRecords), NEW i \in DOMAIN box_list
  PROVE  box_list[i] \in BoxRecords
BY LenProperties, ElementOfSeq

\* A box gets a publisher, or loses it.
LEMMA PublisherSet ==
  ASSUME BoxesFit, NEW i \in DOMAIN box_list, NEW p \in Publishers \cup {NoClient},
         box_list' = [box_list EXCEPT ![i].publisher_named_pipe = p]
  PROVE  /\ OneBox(i) /\ box_list'[i].publisher_named_pipe = p
         /\ box_list'[i].messages_size = box_list[i].messages_size
<1> DEFINE b == box_list[i]
           c == [b EXCEPT !.publisher_named_pipe = p]
<1>1. box_list \in Seq(BoxRecords) /\ b \in BoxRecords
  BY BoxIs DEF BoxesFit
<1>2. /\ c \in BoxRecords /\ c.box_name = b.box_name /\ c.publisher_named_pipe = p
      /\ c.messages_size = b.messages_size
  <2> HIDE DEF b
  <2> QED BY <1>1 DEF BoxRecords
<1>3. box_list' = [box_list EXCEPT ![i] = c]
  OBVIOUS
<1> HIDE DEF c
<1>4. OneBox(i) /\ box_list'[i] = c
  BY <1>1, <1>2, <1>3, BoxChanged
<1> QED BY <1>2, <1>4

\* A box gets a subscriber.
LEMMA SubscriberCounted ==
  ASSUME BoxesFit, NEW i \in DOMAIN box_list,
         box_list' = [box_list EXCEPT ![i].num_subscribers = @ + 1]
  PROVE  /\ OneBox(i)
         /\ box_list'[i].publisher_named_pipe = box_list[i].publisher_named_pipe
         /\ box_list'[i].messages_size = box_list[i].messages_size
<1> DEFINE b == box_list[i]
           s == b.num_subscribers + 1
           c == [b EXCEPT !.num_subscribers = s]
<1>1. box_list \in Seq(BoxRecords) /\ b \in BoxRecords
  BY BoxIs DEF BoxesFit
<1>2. s \in Nat
  <2> DEFINE old == b.num_subscribers
  <2>1. old \in Nat
    BY <1>1 DEF BoxRecords
  <2> HIDE DEF old
  <2>2. old + 1 \in Nat
    BY <2>1
  <2> QED BY <2>2 DEF old
<1>3. box_list' = [box_list EXCEPT ![i] = c]
  OBVIOUS
<1> HIDE DEF s
<1>4. /\ c \in BoxRecords /\ c.box_name = b.box_name /\ c.messages_size = b.messages_size
      /\ c.publisher_named_pipe = b.publisher_named_pipe
  <2> HIDE DEF b
  <2> QED BY <1>1, <1>2 DEF BoxRecords
<1> HIDE DEF c
<1>5. OneBox(i) /\ box_list'[i] = c
  BY <1>1, <1>3, <1>4, BoxChanged
<1> QED BY <1>4, <1>5

\* A box gets a message more.
LEMMA SizeAdded ==
  ASSUME BoxesFit, NEW i \in DOMAIN box_list, NEW n \in Nat,
         box_list' = [box_list EXCEPT ![i].messages_size = Append(@, n)]
  PROVE  /\ OneBox(i)
         /\ box_list'[i].publisher_named_pipe = box_list[i].publisher_named_pipe
         /\ box_list'[i].messages_size = Append(box_list[i].messages_size, n)
<1> DEFINE b == box_list[i]
           s == Append(b.messages_size, n)
           c == [b EXCEPT !.messages_size = s]
<1>1. box_list \in Seq(BoxRecords) /\ b \in BoxRecords
  BY BoxIs DEF BoxesFit
<1>2. s \in Seq(Nat)
  <2> HIDE DEF b
  <2> QED BY <1>1, AppendProperties DEF BoxRecords
<1>3. box_list' = [box_list EXCEPT ![i] = c]
  OBVIOUS
<1> HIDE DEF s
<1>4. /\ c \in BoxRecords /\ c.box_name = b.box_name /\ c.messages_size = s
      /\ c.publisher_named_pipe = b.publisher_named_pipe
  <2> HIDE DEF b
  <2> QED BY <1>1, <1>2 DEF BoxRecords
<1> HIDE DEF c
<1>5. OneBox(i) /\ box_list'[i] = c
  BY <1>1, <1>3, <1>4, BoxChanged
<1> QED BY <1>4, <1>5 DEF s

\* The box leaves the list, the others stay.
LEMMA BoxTakenOut ==
  ASSUME BoxesFit, NEW i \in DOMAIN box_list, box_list' = RemoveAt(box_list, i)
  PROVE  /\ box_list' \in Seq(BoxRecords)
         /\ \A k \in DOMAIN box_list' : \E m \in DOMAIN box_list \ {i} : box_list'[k] = box_list[m]
         /\ \A k, m \in DOMAIN box_list' : box_list'[k].box_name = box_list'[m].box_name => k = m
<1> DEFINE n == Len(box_list)
           first == SubSeq(box_list, 1, i - 1)
           rest == SubSeq(box_list, i + 1, n)
           shorter == first \o rest
<1>1. n \in Nat /\ DOMAIN box_list = 1 .. n /\ box_list \in Seq(BoxRecords) /\ n = Len(box_list)
  BY LenProperties DEF BoxesFit
<1>2. i \in 1 .. n /\ i \in Nat /\ i - 1 \in Int /\ i + 1 \in Int /\ n \in Int
  BY <1>1
<1>3. box_list' = shorter
  BY DEF RemoveAt
<1> HIDE DEF n
<1>4. /\ first \in Seq(BoxRecords) /\ Len(first) = i - 1
      /\ \A k \in 1 .. i - 1 : first[k] = box_list[k]
  <2>1. \A k \in 1 .. i - 1 : box_list[k] \in BoxRecords
    BY <1>1, <1>2, BoxIs
  <2> DEFINE l == i - 1
  <2>2. l \in Int /\ \A k \in 1 .. l : box_list[k] \in BoxRecords
    BY <1>2, <2>1
  <2> HIDE DEF l
  <2>3. /\ SubSeq(box_list, 1, l) \in Seq(BoxRecords)
        /\ Len(SubSeq(box_list, 1, l)) = (IF 1 <= l THEN l - 1 + 1 ELSE 0)
        /\ \A k \in 1 .. l - 1 + 1 : SubSeq(box_list, 1, l)[k] = box_list[1 + k - 1]
    BY <2>2, SubSeqProperties
  <2>4. l \in Nat
    BY <1>2 DEF l
  <2>5. Len(SubSeq(box_list, 1, l)) = l
    BY <2>3, <2>4
  <2>6. \A k \in 1 .. l : k \in 1 .. l - 1 + 1 /\ 1 + k - 1 = k
    BY <2>4
  <2> QED BY <2>3, <2>5, <2>6 DEF l
<1>5. /\ rest \in Seq(BoxRecords) /\ Len(rest) = n - i
      /\ \A k \in 1 .. n - i : rest[k] = box_list[k + i]
  <2>1. \A k \in i + 1 .. n : box_list[k] \in BoxRecords
    BY <1>1, <1>2, BoxIs
  <2> DEFINE l == i + 1
  <2>2. l \in Int /\ \A k \in l .. n : box_list[k] \in BoxRecords
    BY <1>2, <2>1
  <2> HIDE DEF l
  <2>3. /\ SubSeq(box_list, l, n) \in Seq(BoxRecords)
        /\ Len(SubSeq(box_list, l, n)) = (IF l <= n THEN n - l + 1 ELSE 0)
        /\ \A k \in 1 .. n - l + 1 : SubSeq(box_list, l, n)[k] = box_list[l + k - 1]
    BY <1>2, <2>2, SubSeqProperties
  <2>4. l \in 2 .. n + 1 /\ l = i + 1
    BY <1>2 DEF l
  <2>5. Len(SubSeq(box_list, l, n)) = n - i
    BY <1>2, <2>3, <2>4
  <2>6. \A k \in 1 .. n - i : k \in 1 .. n - l + 1 /\ l + k - 1 = k + i
    BY <1>2, <2>4
  <2> QED BY <2>3, <2>5, <2>6 DEF l
<1> HIDE DEF first, rest
<1>6. /\ shorter \in Seq(BoxRecords) /\ Len(shorter) = Len(first) + Len(rest)
      /\ \A k \in 1 .. Len(first) + Len(rest) :
           shorter[k] = IF k <= Len(first) THEN first[k] ELSE rest[k - Len(first)]
  BY <1>4, <1>5, ConcatProperties
<1> HIDE DEF shorter
<1>7. Len(first) + Len(rest) = n - 1 /\ DOMAIN shorter = 1 .. n - 1
  BY <1>2, <1>4, <1>5, <1>6, LenProperties
<1> DEFINE from(k) == IF k < i THEN k ELSE k + 1
<1>8. ASSUME NEW k \in 1 .. n - 1
      PROVE  /\ from(k) \in DOMAIN box_list \ {i} /\ shorter[k] = box_list[from(k)]
             /\ \A m \in 1 .. n - 1 : from(k) = from(m) => k = m
  <2>1. from(k) \in 1 .. n /\ from(k) # i /\ \A m \in 1 .. n - 1 : from(k) = from(m) => k = m
    BY <1>2
  <2>2. CASE k < i
    <3>1. k \in 1 .. i - 1 /\ k <= i - 1 /\ k \in 1 .. Len(first) + Len(rest)
      BY <1>2, <1>7, <2>2
    <3> QED BY <1>1, <1>4, <1>6, <2>1, <2>2, <3>1
  <2>3. CASE ~(k < i)
    <3>1. /\ k - (i - 1) \in 1 .. n - i /\ ~(k <= i - 1) /\ (k - (i - 1)) + i = k + 1
          /\ k \in 1 .. Len(first) + Len(rest)
      BY <1>2, <1>7, <2>3
    <3>2. shorter[k] = rest[k - (i - 1)]
      BY <1>4, <1>6, <3>1
    <3>3. rest[k - (i - 1)] = box_list[k + 1]
      BY <1>5, <3>1
    <3> QED BY <1>1, <2>1, <2>3, <3>2, <3>3
  <2> QED BY <2>2, <2>3
<1> HIDE DEF from
<1>9. \A k \in DOMAIN shorter : \E m \in DOMAIN box_list \ {i} : shorter[k] = box_list[m]
  BY <1>7, <1>8
<1>10. ASSUME NEW k \in DOMAIN shorter, NEW m \in DOMAIN shorter,
              shorter[k].box_name = shorter[m].box_name
       PROVE  k = m
  <2>1. box_list[from(k)].box_name = box_list[from(m)].box_name
    BY <1>7, <1>8, <1>10
  <2>2. from(k) = from(m)
    BY <1>7, <1>8, <2>1 DEF BoxesFit
  <2> QED BY <1>7, <1>8, <2>2
<1> QED BY <1>3, <1>6, <1>9, <1>10

\* The list begins as before, perhaps not as far, and ends with the new box.
LEMMA BoxInserted ==
  ASSUME BoxesFit, NEW n \in Boxes, find_box_by_name(n) = 0, box_list' = Inserted(n)
  PROVE  /\ box_list' \in Seq(BoxRecords)
         /\ \A k \in DOMAIN box_list' :
              box_list'[k] = NewBox(n) \/ \E m \in DOMAIN box_list : box_list'[k] = box_list[m]
         /\ \E k \in DOMAIN box_list' : box_list'[k] = NewBox(n)
         /\ \A k, m \in DOMAIN box_list' : box_list'[k].box_name = box_list'[m].box_name => k = m
<1> DEFINE b == NewBox(n)
           size == Len(box_list)
           stops == {i \in DOMAIN box_list : i = size \/ ~Precedes(box_list[i].box_name, n)}
<1>1. b \in BoxRecords /\ b.box_name = n
  BY EmptyIsSeq DEF NewBox, BoxRecords
<1>2. size \in Nat /\ DOMAIN box_list = 1 .. size /\ box_list \in Seq(BoxRecords)
  BY LenProperties DEF BoxesFit
<1>3. \A k \in DOMAIN box_list : box_list[k].box_name # n
  BY <1>2, FindBox
<1>4. \E d \in 0 .. size, s \in Seq(BoxRecords) :
        /\ box_list' = Append(s, b) /\ Len(s) = d
        /\ \A k \in 1 .. d : s[k] = box_list[k]
  <2>1. CASE box_list = <<>>
    <3>1. box_list' = <<b>> /\ <<b>> = Append(<<>>, b)
      BY <2>1 DEF Inserted
    <3>2. <<>> \in Seq(BoxRecords) /\ Len(<<>>) = 0 /\ 0 \in 0 .. size /\ 1 .. 0 = {}
      BY <1>2, EmptySeq
    <3> HIDE DEF b
    <3> QED BY <3>1, <3>2
  <2>2. CASE box_list # <<>>
    <3> DEFINE d == FirstOf(stops)
               s == SubSeq(box_list, 1, d)
    <3>1. box_list' = Append(s, b)
      BY <2>2 DEF Inserted
    <3>2. size # 0
      BY <1>2, <2>2, EmptySeq
    <3>3. size \in stops /\ stops \in SUBSET Nat
      BY <1>2, <3>2
    <3>4. d \in stops
      <4> HIDE DEF stops
      <4> QED BY <3>3, FirstOfIsLeast
    <3>5. d \in 1 .. size
      BY <1>2, <3>4
    <3> HIDE DEF d, size, b
    <3>6. d \in Nat /\ d \in Int /\ 1 \in Int /\ \A k \in 1 .. d : box_list[k] \in BoxRecords
      BY <1>2, <3>5, BoxIs
    <3>7. /\ s \in Seq(BoxRecords) /\ Len(s) = (IF 1 <= d THEN d - 1 + 1 ELSE 0)
          /\ \A k \in 1 .. d - 1 + 1 : s[k] = box_list[1 + k - 1]
      BY <3>6, SubSeqProperties
    <3> HIDE DEF s
    <3>8. Len(s) = d /\ \A k \in 1 .. d : k \in 1 .. d - 1 + 1 /\ 1 + k - 1 = k
      BY <3>6, <3>7
    <3>9. \A k \in 1 .. d : s[k] = box_list[k]
      BY <3>7, <3>8
    <3>10. d \in 0 .. size
      BY <1>2, <3>5
    <3> QED BY <3>1, <3>7, <3>8, <3>9, <3>10
  <2> QED BY <2>1, <2>2
<1>5. PICK d \in 0 .. size, s \in Seq(BoxRecords) :
        /\ box_list' = Append(s, b) /\ Len(s) = d
        /\ \A k \in 1 .. d : s[k] = box_list[k]
  BY <1>4
<1> HIDE DEF b, size
<1>6. /\ box_list' \in Seq(BoxRecords) /\ Len(box_list') = d + 1
      /\ \A k \in 1 .. d : box_list'[k] = s[k]
      /\ box_list'[d + 1] = b
  BY <1>1, <1>5, AppendProperties
<1>7. DOMAIN box_list' = 1 .. d + 1 /\ d \in Nat /\ d + 1 \in DOMAIN box_list'
  BY <1>2, <1>6, LenProperties
<1>8. \A k \in DOMAIN box_list' : k = d + 1 \/ k \in 1 .. d
  BY <1>7
<1>9. \A k \in 1 .. d : box_list'[k] = box_list[k] /\ k \in DOMAIN box_list
  BY <1>2, <1>5, <1>6, <1>7
<1>10. \A k, m \in DOMAIN box_list' : box_list'[k].box_name = box_list'[m].box_name => k = m
  BY <1>1, <1>3, <1>6, <1>8, <1>9 DEF BoxesFit
<1> QED BY <1>6, <1>7, <1>8, <1>9, <1>10 DEF b

\* With it the list is still one of different boxes that were created.
LEMMA InsertedFits ==
  ASSUME BoxesFit, NEW n \in Boxes, find_box_by_name(n) = 0, box_list' = Inserted(n),
         created' = [created EXCEPT ![n] = @ + 1]
  PROVE  BoxesFit' /\ created'[n] = created[n] + 1 /\ created[n] \in Nat
         /\ \A k \in Boxes \ {n} : created'[k] = created[k]
<1>1. created \in [Boxes -> Nat]
  BY DEF BoxesFit
<1> DEFINE x == created[n]
<1>2. x \in Nat /\ created' = [created EXCEPT ![n] = x + 1]
  BY <1>1
<1> HIDE DEF x
<1>3. x + 1 \in Nat /\ x + 1 > 0
  BY <1>2
<1>4. created' \in [Boxes -> Nat] /\ created'[n] = x + 1 /\ \A k \in Boxes \ {n} : created'[k] = created[k]
  BY <1>1, <1>2, <1>3
<1>5. NewBox(n).box_name = n
  BY DEF NewBox
<1>6. ASSUME NEW k \in DOMAIN box_list' PROVE created'[box_list'[k].box_name] > 0
  <2>1. CASE box_list'[k] = NewBox(n)
    BY <1>3, <1>4, <1>5, <2>1
  <2>2. CASE \E m \in DOMAIN box_list : box_list'[k] = box_list[m]
    <3>1. PICK m \in DOMAIN box_list : box_list'[k] = box_list[m]
      BY <2>2
    <3>2. box_list[m].box_name # n /\ box_list[m] \in BoxRecords /\ created[box_list[m].box_name] > 0
      BY FindBox, BoxIs DEF BoxesFit
    <3>3. box_list[m].box_name \in Boxes \ {n}
      BY <3>2 DEF BoxRecords
    <3> QED BY <1>4, <3>1, <3>2, <3>3
  <2> QED BY <2>1, <2>2, BoxInserted
<1>7. BoxesFit'
  BY <1>4, <1>6, BoxInserted DEF BoxesFit
<1> QED BY <1>2, <1>4, <1>7 DEF x

-----------------------------------------------------------------------------
(* The steps that change the list of boxes *)

\* AppendSize keeps the invariant.
LEMMA AppendSizeKeeps ==
  ASSUME Sane, NEW t, AppendSize(t)
  PROVE  Sane' /\ Acts(t)
<1> DEFINE n == job[t].box
           i == find_box_by_name(n)
           d == Len(job[t].data)
<1>1. /\ At(t, "append") /\ at[t] = "append" /\ NoPipes
      /\ UNCHANGED <<threads, box_list_mutex, fs, request_name, descriptors, created, lost, strayed>>
  BY DEF AppendSize, history, At
<1>2. /\ Fits("append", job[t]) /\ job = [job EXCEPT ![t] = job[t]]
      /\ strayed \in BOOLEAN /\ FsInv(fs) /\ BoxesFit /\ job[t].data \in Messages
  BY <1>1, ThreadAt DEF Fits, Sane, HistoryFits
<1>3. CASE Fails(t) /\ UNCHANGED box_list
  BY <1>1, <1>2, <1>3, FailActs DEF Inside
<1>4. CASE /\ i # 0 /\ box_list' = [box_list EXCEPT ![i].messages_size = Append(@, d)]
           /\ Steps(t, "unlock") /\ UNCHANGED job
  <2>1. i \in DOMAIN box_list
    BY <1>2, <1>4, FindBox DEF BoxesFit
  <2>2. d \in Nat
    BY <1>2, ClientsAssumption, LenProperties
  <2> HIDE DEF i, d
  <2>3. OneBox(i)
    BY <1>2, <1>4, <2>1, <2>2, SizeAdded
  <2>4. BoxesFit'
    BY <1>1, <1>2, <2>3, OneBoxFits
  <2>5. Fits("unlock", job[t]) /\ "append" \in Met
    BY <1>2 DEF Fits, Labels, Inside, Serving, Publishing, InSession, Subscribing, Met
  <2>6. Goes(t, "unlock", job[t])
    BY <1>1, <1>2, <1>4, <2>5, StepGoes, Unseen
  <2>7. Locks(t, "unlock")
    BY <1>1 DEF Locks, Inside
  <2> QED BY <1>1, <1>2, <2>4, <2>6, <2>7, UnseenKeeps DEF Held
<1>5. CASE Dies("undefined") /\ UNCHANGED box_list
  BY <1>1, <1>5, DeathActs
<1> QED BY <1>3, <1>4, <1>5 DEF AppendSize

\* remove_publisher_command keeps the invariant.
LEMMA RemovePublisherKeeps ==
  ASSUME Sane, NEW t, remove_publisher_command(t)
  PROVE  Sane' /\ Acts(t)
<1> DEFINE n == job[t].box
           p == job[t].client
           i == find_box_by_name(n)
           present == IF i = 0 THEN NoClient ELSE box_list[i].publisher_named_pipe
<1>1. /\ At(t, "listening") /\ at[t] = "listening" /\ NoPipes
      /\ UNCHANGED <<threads, box_list_mutex, fs, request_name, descriptors, created, lost, strayed>>
  BY DEF remove_publisher_command, history, At
<1>2. /\ Fits("listening", job[t]) /\ strayed \in BOOLEAN /\ FsInv(fs) /\ BoxesFit
      /\ p \in Publishers
  BY <1>1, ThreadAt DEF Fits, Publishing, InSession, Sane, HistoryFits
<1>3. CASE Dies("crashed") /\ UNCHANGED box_list
  BY <1>1, <1>3, DeathActs
<1>4. CASE Fails(t) /\ UNCHANGED box_list
  BY <1>1, <1>2, <1>4, FailActs DEF Inside
<1>5. CASE /\ present = p /\ box_list' = [box_list EXCEPT ![i].publisher_named_pipe = NoClient]
           /\ Returns(t)
  <2>0. p # NoClient
    BY <1>2, ClientsAssumption
  <2>1. i \in DOMAIN box_list
    BY <1>2, <1>5, <2>0, FindBox DEF BoxesFit
  <2> HIDE DEF i
  <2>3. OneBox(i)
    BY <1>2, <1>5, <2>1, PublisherSet
  <2>4. BoxesFit'
    BY <1>1, <1>2, <2>3, OneBoxFits
  <2>5. "listening" \in Met
    BY DEF InSession, Met
  <2>6. Goes(t, "idle", NoJob)
    BY <1>1, <1>2, <1>5, <2>5, ReturnGoes, Unseen
  <2>7. Locks(t, "idle")
    BY <1>1 DEF Locks, Inside
  <2> QED BY <1>1, <1>2, <2>4, <2>6, <2>7, UnseenKeeps DEF Held
<1>6. CASE Dies("undefined") /\ UNCHANGED box_list
  BY <1>1, <1>6, DeathActs
<1> QED BY <1>3, <1>4, <1>5, <1>6 DEF remove_publisher_command

\* register_publisher_command keeps the invariant.
LEMMA RegisterPublisherKeeps ==
  ASSUME Sane, NEW t, register_publisher_command(t)
  PROVE  Sane' /\ Acts(t)
<1> DEFINE i == find_box_by_name(job[t].box)
<1>1. /\ At(t, "publish") /\ at[t] = "publish" /\ NoPipes
      /\ UNCHANGED <<threads, box_list_mutex, fs, request_name, descriptors, created, lost, strayed>>
  BY DEF register_publisher_command, history, At
<1>2. /\ Fits("publish", job[t]) /\ job = [job EXCEPT ![t] = job[t]]
      /\ strayed \in BOOLEAN /\ FsInv(fs) /\ BoxesFit /\ job[t].client \in Publishers
  BY <1>1, ThreadAt DEF Fits, Publishing, Sane, HistoryFits
<1>3. CASE Fails(t) /\ UNCHANGED box_list
  BY <1>1, <1>2, <1>3, FailActs DEF Inside
<1>4. CASE /\ i # 0 /\ box_list' = [box_list EXCEPT ![i].publisher_named_pipe = job[t].client]
           /\ Steps(t, "publisher open") /\ UNCHANGED job
  <2>1. i \in DOMAIN box_list
    BY <1>2, <1>4, FindBox DEF BoxesFit
  <2> HIDE DEF i
  <2>3. OneBox(i)
    BY <1>2, <1>4, <2>1, PublisherSet
  <2>4. BoxesFit'
    BY <1>1, <1>2, <2>3, OneBoxFits
  <2>5. Fits("publisher open", job[t]) /\ "publisher open" \notin Met
    BY <1>2 DEF Fits, Labels, Inside, Serving, Publishing, InSession, Subscribing, Met
  <2>6. Goes(t, "publisher open", job[t])
    BY <1>1, <1>2, <1>4, <2>5, StepGoes, Unseen
  <2>7. Locks(t, "publisher open")
    BY <1>1 DEF Locks, Inside
  <2> QED BY <1>1, <1>2, <2>4, <2>6, <2>7, UnseenKeeps DEF Held
<1>5. CASE Dies("undefined") /\ UNCHANGED box_list
  BY <1>1, <1>5, DeathActs
<1> QED BY <1>3, <1>4, <1>5 DEF register_publisher_command

\* A manager's command is done and will be answered.
LEMMA AnswersGoes ==
  ASSUME Sane, NEW t, NEW l \in {"create", "remove"}, At(t, l), NEW op, NEW ret,
         Answers(t, op, ret), NoPipes, UNCHANGED <<threads, request_name, lost>>
  PROVE  \E j : Goes(t, "answer open", j)
<1> DEFINE answer == [op |-> op, ret |-> ret]
           j == [job[t] EXCEPT !.data = answer]
<1>1. Fits(l, job[t]) /\ JobTyped(job[t]) /\ job[t].client \in Managers
  BY ThreadAt DEF Fits, Serving
<1>2. job' = [job EXCEPT ![t] = j] /\ Steps(t, "answer open")
  BY DEF Answers
<1>3. JobTyped(j) /\ j.client = job[t].client /\ j.box = job[t].box
  <2> DEFINE old == job[t]
  <2>1. JobTyped(old)
    BY <1>1
  <2> HIDE DEF answer, old
  <2>2. LET k == [old EXCEPT !.data = answer]
        IN  JobTyped(k) /\ k.client = old.client /\ k.box = old.box
    BY <2>1 DEF JobTyped
  <2> QED BY <2>2 DEF old
<1> HIDE DEF j
<1>4. Fits("answer open", j) /\ "answer open" \notin Met
  BY <1>1, <1>3 DEF Fits, Labels, Inside, Serving, Publishing, InSession, Subscribing, Met
<1>5. Goes(t, "answer open", j)
  BY <1>1, <1>2, <1>3, <1>4, StepGoes, Unseen
<1> QED BY <1>5

\* remove_box_command keeps the invariant.
LEMMA RemoveBoxKeeps ==
  ASSUME Sane, NEW t, remove_box_command(t)
  PROVE  Sane' /\ Acts(t)
<1> DEFINE i == find_box_by_name(job[t].box)
<1>1. /\ At(t, "remove") /\ at[t] = "remove" /\ NoPipes
      /\ UNCHANGED <<threads, box_list_mutex, fs, request_name, descriptors, created, lost, strayed>>
  BY DEF remove_box_command, history, At
<1>2. strayed \in BOOLEAN /\ FsInv(fs) /\ BoxesFit
  BY DEF Sane, HistoryFits
<1>3. CASE Fails(t) /\ UNCHANGED box_list
  BY <1>1, <1>2, <1>3, FailActs DEF Inside
<1>4. CASE i # 0 /\ box_list' = RemoveAt(box_list, i) /\ Answers(t, "remove", 0)
  <2>1. i \in DOMAIN box_list
    BY <1>2, <1>4, FindBox DEF BoxesFit
  <2> HIDE DEF i
  <2>2. BoxesFit'
    <3>1. /\ box_list' \in Seq(BoxRecords)
          /\ \A k \in DOMAIN box_list' : \E m \in DOMAIN box_list : box_list'[k] = box_list[m]
          /\ \A k, m \in DOMAIN box_list' : box_list'[k].box_name = box_list'[m].box_name => k = m
      BY <1>2, <1>4, <2>1, BoxTakenOut
    <3> QED BY <1>1, <1>2, <3>1 DEF BoxesFit
  <2>3. PICK j : Goes(t, "answer open", j)
    BY <1>1, <1>4, AnswersGoes
  <2>4. Locks(t, "answer open")
    BY <1>1 DEF Locks, Inside
  <2> QED BY <1>1, <1>2, <2>2, <2>3, <2>4, UnseenKeeps DEF Held
<1>5. CASE Dies("undefined") /\ UNCHANGED box_list
  BY <1>1, <1>5, DeathActs
<1> QED BY <1>3, <1>4, <1>5 DEF remove_box_command

\* create_box_command keeps the invariant.
LEMMA CreateBoxKeeps ==
  ASSUME Sane, NEW t, create_box_command(t)
  PROVE  Sane' /\ Acts(t)
<1> DEFINE n == job[t].box
           i == find_box_by_name(n)
           opened == tfs_open(fs, n, {"CREAT"})
<1>1. /\ At(t, "create") /\ at[t] = "create" /\ NoPipes /\ box_list_mutex = Nobody
      /\ UNCHANGED <<threads, request_name, descriptors, lost, strayed>>
  BY DEF create_box_command, At
<1>2. /\ Fits("create", job[t]) /\ job = [job EXCEPT ![t] = job[t]]
      /\ strayed \in BOOLEAN /\ FsInv(fs) /\ BoxesFit /\ n \in Boxes
  BY <1>1, ThreadAt DEF Fits, Sane, HistoryFits
<1>3. FsInv(opened.fs)
  BY <1>2, OpenKeepsInv
<1>4. CASE /\ UNCHANGED <<box_list_mutex, created>>
           /\ \/ UNCHANGED <<box_list, fs>> /\ Answers(t, "create", -1)
              \/ UNCHANGED box_list /\ fs' = opened.fs /\ Answers(t, "create", -1)
  <2>1. PICK j : Goes(t, "answer open", j)
    BY <1>1, <1>4, AnswersGoes
  <2>2. Locks(t, "answer open")
    BY <1>1, <1>4 DEF Locks, Inside
  <2>3. FsInv(fs') /\ BoxesFit'
    <3> HIDE DEF opened
    <3> QED BY <1>2, <1>3, <1>4 DEF BoxesFit
  <2> QED BY <1>1, <1>2, <1>4, <2>1, <2>2, <2>3, UnseenKeeps DEF Held
<1>5. CASE StuckInside(t)
  <2>1. /\ box_list_mutex' = t /\ Steps(t, "stuck") /\ UNCHANGED <<job, box_list, fs, created>>
    BY <1>5 DEF StuckInside
  <2>2. Fits("stuck", job[t]) /\ "stuck" \notin Met
    BY <1>2, StuckFits DEF Met, InSession
  <2>3. Goes(t, "stuck", job[t])
    BY <1>1, <1>2, <2>1, <2>2, StepGoes, Unseen
  <2>4. Locks(t, "stuck")
    BY <1>1, <2>1 DEF Locks, Inside
  <2>5. FsInv(fs') /\ BoxesFit'
    BY <1>2, <2>1 DEF BoxesFit
  <2> QED BY <1>1, <1>2, <2>1, <2>3, <2>4, <2>5, UnseenKeeps DEF Held
<1>6. CASE /\ i = 0 /\ fs' = opened.fs /\ box_list' = Inserted(n)
           /\ created' = [created EXCEPT ![n] = @ + 1]
           /\ Answers(t, "create", 0) /\ UNCHANGED box_list_mutex
  <2>1. PICK j : Goes(t, "answer open", j)
    BY <1>1, <1>6, AnswersGoes
  <2>2. Locks(t, "answer open")
    BY <1>1, <1>6 DEF Locks, Inside
  <2>3. FsInv(fs') /\ BoxesFit'
    BY <1>2, <1>3, <1>6, InsertedFits
  <2> QED BY <1>1, <1>2, <1>6, <2>1, <2>2, <2>3, UnseenKeeps DEF Held
<1>7. CASE Dies("undefined") /\ UNCHANGED <<box_list, box_list_mutex, fs, created>>
  BY <1>1, <1>7, DeathActs
<1> QED BY <1>4, <1>5, <1>6, <1>7 DEF create_box_command

\* register_subscriber_command keeps the invariant.
LEMMA RegisterSubscriberKeeps ==
  ASSUME Sane, NEW t, register_subscriber_command(t)
  PROVE  Sane' /\ Acts(t)
<1> DEFINE n == job[t].box
           i == find_box_by_name(n)
           opened == tfs_open(fs, n, {"APPEND"})
           rewound == tfs_rewind_offset(opened.fs, opened.ret)
           j == [job[t] EXCEPT !.handle = opened.ret, !.data = <<Unwritten>>,
                               !.todo = box_list[i].messages_size]
<1>1. /\ At(t, "subscribe") /\ at[t] = "subscribe" /\ NoPipes /\ box_list_mutex = Nobody
      /\ UNCHANGED <<threads, request_name, descriptors, created, lost, strayed>>
  BY DEF register_subscriber_command, history, At
<1>2. /\ Fits("subscribe", job[t]) /\ JobTyped(job[t]) /\ job = [job EXCEPT ![t] = job[t]]
      /\ strayed \in BOOLEAN /\ FsInv(fs) /\ BoxesFit /\ n \in Boxes
      /\ job[t].client \in Subscribers
  BY <1>1, ThreadAt DEF Fits, Sane, HistoryFits, Subscribing
<1>3. CASE Fails(t) /\ UNCHANGED <<box_list, box_list_mutex, fs>>
  BY <1>1, <1>2, <1>3, FailActs DEF Inside
<1>4. CASE Dies("undefined") /\ UNCHANGED <<box_list, box_list_mutex, fs>>
  BY <1>1, <1>4, DeathActs
<1>5. CASE /\ i # 0 /\ box_list' = [box_list EXCEPT ![i].num_subscribers = @ + 1]
           /\ box_list_mutex' = t
           /\ \/ Steps(t, "stuck") /\ UNCHANGED <<job, fs>>
              \/ fs' = opened.fs /\ Fails(t)
              \/ fs' = rewound.fs /\ job' = [job EXCEPT ![t] = j] /\ Steps(t, "replay open")
  <2>1. i \in DOMAIN box_list /\ box_list[i] \in BoxRecords
    BY <1>2, <1>5, FindBox DEF BoxesFit
  <2>2. FsInv(opened.fs)
    BY <1>2, OpenKeepsInv
  <2>3. FsInv(rewound.fs)
    <3> HIDE DEF opened
    <3> QED BY <2>2, RewindKeepsInv
  <2>4. /\ JobTyped(j) /\ j.client = job[t].client /\ j.box = job[t].box
        /\ j.todo = box_list[i].messages_size
    <3> DEFINE old == job[t]
               h == opened.ret
               s == box_list[i].messages_size
    <3>1. JobTyped(old) /\ j = [old EXCEPT !.handle = h, !.data = <<Unwritten>>, !.todo = s]
      BY <1>2
    <3> HIDE DEF j, old, h, s
    <3>2. JobTyped(j) /\ j.client = old.client /\ j.box = old.box /\ j.todo = s
      BY <3>1 DEF JobTyped
    <3> QED BY <3>2 DEF old, s
  <2>5. j.todo \in Seq(Nat)
    BY <2>1, <2>4 DEF BoxRecords
  <2> HIDE DEF i, j, opened, rewound
  <2>6. OneBox(i)
    BY <1>2, <1>5, <2>1, SubscriberCounted
  <2>7. BoxesFit'
    BY <1>1, <1>2, <2>6, OneBoxFits
  <2>8. CASE Steps(t, "stuck") /\ UNCHANGED <<job, fs>>
    <3>1. Fits("stuck", job[t]) /\ "stuck" \notin Met
      BY <1>2, StuckFits DEF Met, InSession
    <3>2. Goes(t, "stuck", job[t])
      BY <1>1, <1>2, <2>8, <3>1, StepGoes, Unseen
    <3>3. Locks(t, "stuck")
      BY <1>1, <1>5 DEF Locks, Inside
    <3> QED BY <1>1, <1>2, <1>5, <2>7, <2>8, <3>2, <3>3, UnseenKeeps DEF Held
  <2>9. CASE fs' = opened.fs /\ Fails(t)
    <3>1. Goes(t, "idle", NoJob) /\ failed' = failed \cup {job[t].client}
      BY <1>1, <2>9, FailGoes, Unseen
    <3>2. Locks(t, "idle")
      BY <1>1, <1>2, <1>5, <3>1 DEF Locks, Inside
    <3> QED BY <1>1, <1>2, <1>5, <2>2, <2>7, <2>9, <3>1, <3>2, UnseenKeeps DEF Held
  <2>10. CASE fs' = rewound.fs /\ job' = [job EXCEPT ![t] = j] /\ Steps(t, "replay open")
    <3>1. Fits("replay open", j) /\ "replay open" \notin Met
      BY <1>2, <2>4, <2>5
         DEF Fits, Labels, Inside, Serving, Publishing, InSession, Subscribing, Met
    <3>2. Goes(t, "replay open", j)
      BY <1>1, <1>2, <2>4, <2>10, <3>1, StepGoes, Unseen
    <3>3. Locks(t, "replay open")
      BY <1>1, <1>5 DEF Locks, Inside
    <3> QED BY <1>1, <1>2, <1>5, <2>3, <2>7, <2>10, <3>2, <3>3, UnseenKeeps DEF Held
  <2> QED BY <1>5, <2>8, <2>9, <2>10
<1>6. \/ Fails(t) /\ UNCHANGED <<box_list, box_list_mutex, fs>>
      \/ Dies("undefined") /\ UNCHANGED <<box_list, box_list_mutex, fs>>
      \/ /\ i # 0 /\ box_list' = [box_list EXCEPT ![i].num_subscribers = @ + 1]
         /\ box_list_mutex' = t
         /\ \/ Steps(t, "stuck") /\ UNCHANGED <<job, fs>>
            \/ fs' = opened.fs /\ Fails(t)
            \/ fs' = rewound.fs /\ job' = [job EXCEPT ![t] = j] /\ Steps(t, "replay open")
  <2> DEFINE good == opened.ret >= 0
             bad == opened.ret < 0
             h == opened.ret
             s == box_list[i].messages_size
  <2>1. \/ Fails(t) /\ UNCHANGED <<box_list, box_list_mutex, fs>>
        \/ Dies("undefined") /\ UNCHANGED <<box_list, box_list_mutex, fs>>
        \/ /\ i # 0 /\ box_list' = [box_list EXCEPT ![i].num_subscribers = @ + 1]
           /\ box_list_mutex' = t
           /\ \/ Steps(t, "stuck") /\ UNCHANGED <<job, fs>>
              \/ bad /\ fs' = opened.fs /\ Fails(t)
              \/ /\ good /\ fs' = rewound.fs /\ Steps(t, "replay open")
                 /\ job' = [job EXCEPT ![t].handle = h, ![t].data = <<Unwritten>>,
                                       ![t].todo = s]
    BY DEF register_subscriber_command
  <2>2. t \in DOMAIN job
    BY <1>1, ThreadAt DEF Sane, ThreadsFit
  <2> HIDE DEF i, h, s, good, bad, opened, rewound
  <2>3. [job EXCEPT ![t].handle = h, ![t].data = <<Unwritten>>, ![t].todo = s]
          = [job EXCEPT ![t] = [job[t] EXCEPT !.handle = h, !.data = <<Unwritten>>, !.todo = s]]
    BY <2>2
  <2>4. j = [job[t] EXCEPT !.handle = h, !.data = <<Unwritten>>, !.todo = s]
    BY DEF h, s
  <2> HIDE DEF j
  <2> QED BY <2>1, <2>3, <2>4
<1> QED BY <1>3, <1>4, <1>5, <1>6

\* ReplayWrite keeps the invariant.
LEMMA ReplayWriteKeeps ==
  ASSUME Sane, NEW t, ReplayWrite(t)
  PROVE  Sane' /\ Acts(t)
<1> DEFINE todo == job[t].todo
           read == tfs_read(fs, job[t].handle, todo[2])
           rest == Tail(todo)
           got == read.data
           j == [job[t] EXCEPT !.todo = rest, !.data = got]
           long == Len(todo) > 1
<1>1. /\ At(t, "replay write") /\ at[t] = "replay write"
      /\ UNCHANGED <<threads, box_list, request_name, created, lost, strayed>>
  BY DEF ReplayWrite, history, At
<1>2. /\ Fits("replay write", job[t]) /\ JobTyped(job[t]) /\ job = [job EXCEPT ![t] = job[t]]
      /\ strayed \in BOOLEAN /\ FsInv(fs) /\ BoxesFit
      /\ job[t].client \in Subscribers /\ todo \in Seq(Nat)
  BY <1>1, ThreadAt DEF Fits, Sane, HistoryFits, Subscribing
<1>3. CASE BrokenPipe(t) /\ UNCHANGED <<box_list_mutex, fs>>
  BY <1>1, <1>3, BreakKeeps, BreakActs
<1>4. CASE /\ Sends(t, job[t].data) /\ UNCHANGED descriptors
           /\ \/ Dies("crashed") /\ UNCHANGED <<box_list_mutex, fs>>
              \/ Steps(t, "flood open") /\ UNCHANGED <<job, box_list_mutex, fs>>
              \/ Steps(t, "stuck") /\ UNCHANGED <<job, box_list_mutex, fs>>
              \/ /\ long /\ fs' = read.fs /\ job' = [job EXCEPT ![t] = j]
                 /\ Steps(t, "replay open") /\ UNCHANGED box_list_mutex
              \/ long /\ fs' = read.fs /\ box_list_mutex' = Nobody /\ Fails(t)
  <2>1. /\ ClientsInv' /\ stage[job[t].client] # "signed"
        /\ register_pipe' = register_pipe /\ lives' = lives /\ stage' = stage
        /\ Writes(t)
    <3>1. /\ ClientsInv' /\ stage[job[t].client] # "signed"
          /\ register_pipe' = register_pipe /\ lives' = lives /\ stage' = stage
          /\ \A c \in Clients \ {job[t].client} : pipe'[c] = pipe[c]
      BY <1>2, <1>4, Kinds, SendKeeps DEF Sane
    <3> QED BY <3>1, Kinds DEF Writes
  <2>2. long => FsInv(read.fs) /\ rest \in Seq(Nat)
    <3> SUFFICES ASSUME long PROVE FsInv(read.fs) /\ rest \in Seq(Nat)
      OBVIOUS
    <3>1. todo[2] \in Nat /\ rest \in Seq(Nat)
      <4> HIDE DEF todo
      <4>1. Len(todo) \in Nat
        BY <1>2, LenProperties
      <4>2. 2 \in 1 .. Len(todo) /\ todo # <<>>
        BY <4>1, EmptySeq
      <4> QED BY <1>2, <4>2, ElementOfSeq, HeadTailProperties
    <3> DEFINE size == todo[2]
    <3> HIDE DEF size
    <3>2. FsInv(tfs_read(fs, job[t].handle, size).fs)
      BY <1>2, <3>1, ReadKeepsInv DEF size
    <3> QED BY <3>1, <3>2 DEF size
  <2>3. /\ JobTyped(j) /\ j.client = job[t].client /\ j.box = job[t].box /\ j.todo = rest
    <3> DEFINE old == job[t]
    <3>1. JobTyped(old) /\ j = [old EXCEPT !.todo = rest, !.data = got]
      BY <1>2
    <3> HIDE DEF j, old, rest, got
    <3>2. JobTyped(j) /\ j.client = old.client /\ j.box = old.box /\ j.todo = rest
      BY <3>1 DEF JobTyped
    <3> QED BY <3>2 DEF old
  <2> HIDE DEF j, rest, got, read, todo, long
  <2>4. CASE Dies("crashed") /\ UNCHANGED <<box_list_mutex, fs>>
    <3>1. Goes(t, "replay write", job[t]) /\ process' # "up"
      BY <1>1, <2>1, <2>4, DeathGoes
    <3>2. Sane'
      BY <1>1, <1>2, <1>4, <2>1, <2>4, <3>1, CalmKeeps DEF Held
    <3>3. Locks(t, "replay write")
      BY <1>1, <2>4 DEF Locks, Inside
    <3> QED BY <2>1, <3>1, <3>2, <3>3 DEF Acts
  <2>5. CASE Steps(t, "flood open") /\ UNCHANGED <<job, box_list_mutex, fs>>
    <3>1. Fits("flood open", job[t]) /\ "flood open" \notin Met
      BY <1>2 DEF Fits, Labels, Inside, Serving, Publishing, InSession, Subscribing, Met
    <3>2. Goes(t, "flood open", job[t])
      BY <1>1, <1>2, <2>1, <2>5, <3>1, StepGoes
    <3>3. Sane'
      BY <1>1, <1>2, <1>4, <2>1, <2>5, <3>2, CalmKeeps DEF Held
    <3>4. Locks(t, "flood open")
      BY <1>1, <2>5 DEF Locks, Inside
    <3> QED BY <2>1, <3>2, <3>3, <3>4 DEF Acts
  <2>6. CASE Steps(t, "stuck") /\ UNCHANGED <<job, box_list_mutex, fs>>
    <3>1. Fits("stuck", job[t]) /\ "stuck" \notin Met
      BY <1>2, StuckFits DEF Met, InSession
    <3>2. Goes(t, "stuck", job[t])
      BY <1>1, <1>2, <2>1, <2>6, <3>1, StepGoes
    <3>3. Sane'
      BY <1>1, <1>2, <1>4, <2>1, <2>6, <3>2, CalmKeeps DEF Held
    <3>4. Locks(t, "stuck")
      BY <1>1, <2>6 DEF Locks, Inside
    <3> QED BY <2>1, <3>2, <3>3, <3>4 DEF Acts
  <2>7. CASE /\ long /\ fs' = read.fs /\ job' = [job EXCEPT ![t] = j]
             /\ Steps(t, "replay open") /\ UNCHANGED box_list_mutex
    <3>1. Fits("replay open", j) /\ "replay open" \notin Met
      BY <1>2, <2>2, <2>3, <2>7
         DEF Fits, Labels, Inside, Serving, Publishing, InSession, Subscribing, Met
    <3>2. Goes(t, "replay open", j)
      BY <1>1, <1>2, <2>1, <2>3, <2>7, <3>1, StepGoes
    <3>3. DescriptorsFit' /\ BoxesFit'
      BY <1>1, <1>2, <1>4, <3>2, DescriptorsKept DEF Held, BoxesFit
    <3>4. Sane'
      BY <1>1, <1>2, <2>1, <2>2, <2>7, <3>2, <3>3, StepKeeps
    <3>5. Locks(t, "replay open")
      BY <1>1, <2>7 DEF Locks, Inside
    <3> QED BY <2>1, <3>2, <3>4, <3>5 DEF Acts
  <2>8. CASE long /\ fs' = read.fs /\ box_list_mutex' = Nobody /\ Fails(t)
    <3>1. Goes(t, "idle", NoJob)
      BY <1>1, <2>1, <2>8, FailGoes
    <3>2. DescriptorsFit' /\ BoxesFit'
      BY <1>1, <1>2, <1>4, <3>1, DescriptorsKept DEF Held, BoxesFit
    <3>3. Sane'
      BY <1>1, <1>2, <2>1, <2>2, <2>8, <3>1, <3>2, StepKeeps
    <3>4. Locks(t, "idle")
      BY <1>1, <2>8 DEF Locks, Inside
    <3> QED BY <2>1, <3>1, <3>3, <3>4 DEF Acts
  <2> QED BY <1>4, <2>4, <2>5, <2>6, <2>7, <2>8
<1>5. \/ BrokenPipe(t) /\ UNCHANGED <<box_list_mutex, fs>>
      \/ /\ Sends(t, job[t].data) /\ UNCHANGED descriptors
         /\ \/ Dies("crashed") /\ UNCHANGED <<box_list_mutex, fs>>
            \/ Steps(t, "flood open") /\ UNCHANGED <<job, box_list_mutex, fs>>
            \/ Steps(t, "stuck") /\ UNCHANGED <<job, box_list_mutex, fs>>
            \/ /\ long /\ fs' = read.fs /\ job' = [job EXCEPT ![t] = j]
               /\ Steps(t, "replay open") /\ UNCHANGED box_list_mutex
            \/ long /\ fs' = read.fs /\ box_list_mutex' = Nobody /\ Fails(t)
  <2> DEFINE good == read.ret > 0
             bad == read.ret <= 0
             one == Len(todo) = 1
  <2>1. \/ BrokenPipe(t) /\ UNCHANGED <<box_list_mutex, fs>>
        \/ /\ Sends(t, job[t].data) /\ UNCHANGED descriptors
           /\ \/ Dies("crashed") /\ UNCHANGED <<box_list_mutex, fs>>
              \/ one /\ Steps(t, "flood open") /\ UNCHANGED <<job, box_list_mutex, fs>>
              \/ long /\ Steps(t, "stuck") /\ UNCHANGED <<job, box_list_mutex, fs>>
              \/ /\ long /\ good /\ fs' = read.fs
                 /\ job' = [job EXCEPT ![t].todo = Tail(@), ![t].data = got]
                 /\ Steps(t, "replay open") /\ UNCHANGED box_list_mutex
              \/ long /\ bad /\ fs' = read.fs /\ box_list_mutex' = Nobody /\ Fails(t)
    BY DEF ReplayWrite
  <2>2. t \in DOMAIN job
    BY <1>1, ThreadAt DEF Sane, ThreadsFit
  <2> HIDE DEF good, bad, one, long, read
  <2>3. [job EXCEPT ![t].todo = Tail(@), ![t].data = got] = [job EXCEPT ![t] = j]
    BY <2>2
  <2> HIDE DEF j, got
  <2> QED BY <2>1, <2>3
<1> QED BY <1>3, <1>4, <1>5

-----------------------------------------------------------------------------
(* The steps that change the register pipe *)

Kinds2 == {"publish", "subscribe"} \cup Commands

\* A client signs in, or leaves the register pipe alone.
LEMMA ClientStepIs ==
  ASSUME ClientsInv, ClientStep
  PROVE  \/ \E c \in Clients, code \in Kinds2, n \in Boxes :
              /\ SignIn(c, code, n) /\ FromItsKind(code, c)
              /\ c \notin Subscribers => lives[c] = 0
         \/ /\ register_pipe' = register_pipe /\ lives' = lives
            /\ \A c \in Clients : stage'[c] = stage[c] \/ stage'[c] # "signed"
<1>0. FifosFit
  BY DEF ClientsInv
<1>1. ASSUME NEW c \in Clients, NEW s, s # "signed", Becomes(c, s)
      PROVE  /\ register_pipe' = register_pipe /\ lives' = lives
             /\ \A k \in Clients : stage'[k] = stage[k] \/ stage'[k] # "signed"
  BY <1>0, <1>1 DEF Becomes, FifosFit
<1>2. ASSUME NEW m \in Managers, Manager(m)
      PROVE  \/ \E code \in Commands, n \in Boxes : ManagerSignIn(m, code, n)
             \/ Becomes(m, "nofifo")
  BY <1>2 DEF Manager, ManagerRead
<1>3. ASSUME NEW p \in Publishers, Publisher(p)
      PROVE  \/ \E n \in Boxes : PublisherSignIn(p, n)
             \/ register_pipe' = register_pipe /\ lives' = lives /\ stage' = stage
             \/ Becomes(p, "nofifo")
  BY <1>3 DEF Publisher, PublisherWrite, PublisherLeave
<1>4. ASSUME NEW s \in Subscribers, Subscriber(s)
      PROVE  \/ \E n \in Boxes : SubscriberSignIn(s, n)
             \/ \E k \in {"nofifo", "slipped", "reading", "gone"} : Becomes(s, k)
  BY <1>4 DEF Subscriber, SubscriberUnlink, SubscriberRead, SubscriberFails
<1>5. CASE \E m \in Managers : Manager(m)
  <2>1. PICK m \in Managers : Manager(m)
    BY <1>5
  <2>2. m \in Clients /\ \A code \in Commands : code \in Kinds2 /\ FromItsKind(code, m)
    BY ClientsAssumption DEF Clients, Kinds2, FromItsKind
  <2> QED BY <1>1, <1>2, <2>1, <2>2 DEF ManagerSignIn
<1>6. CASE \E p \in Publishers : Publisher(p)
  <2>1. PICK p \in Publishers : Publisher(p)
    BY <1>6
  <2>2. p \in Clients /\ "publish" \in Kinds2 /\ FromItsKind("publish", p)
    BY ClientsAssumption DEF Clients, Kinds2, FromItsKind
  <2> QED BY <1>1, <1>3, <2>1, <2>2 DEF PublisherSignIn
<1>7. CASE \E s \in Subscribers : Subscriber(s)
  <2>1. PICK s \in Subscribers : Subscriber(s)
    BY <1>7
  <2>2. s \in Clients /\ "subscribe" \in Kinds2 /\ FromItsKind("subscribe", s)
    BY ClientsAssumption DEF Clients, Kinds2, FromItsKind
  <2> QED BY <1>1, <1>4, <2>1, <2>2 DEF SubscriberSignIn
<1>8. CASE \E c \in Killable : Interrupt(c)
  BY <1>1, <1>8, ClientsAssumption DEF Interrupt, Clients
<1> QED BY <1>5, <1>6, <1>7, <1>8 DEF ClientStep

\* A request more, framed.
LEMMA SignInIs ==
  ASSUME ClientsInv, NEW c \in Clients, NEW code \in Kinds2, NEW n \in Boxes, SignIn(c, code, n),
         FromItsKind(code, c)
  PROVE  /\ stage[c] = "nofifo" /\ stage' = [stage EXCEPT ![c] = "signed"]
         /\ lives[c] \in Nat /\ lives'[c] = lives[c] + 1
         /\ \A k \in Clients \ {c} : lives'[k] = lives[k]
         /\ pipe'[c] = <<>>
         /\ Len(register_pipe) \in Nat /\ DOMAIN register_pipe = 1 .. Len(register_pipe)
         /\ DOMAIN register_pipe' = 1 .. Len(register_pipe) + 1
         /\ \A i \in DOMAIN register_pipe : register_pipe'[i] = register_pipe[i]
         /\ LET r == register_pipe'[Len(register_pipe) + 1]
            IN  r.client = c /\ r.code = code /\ r.bytes = RequestBytes(code)
<1> DEFINE request == [code |-> code, client |-> c, life |-> lives'[c], box |-> n,
                       bytes |-> RequestBytes(code)]
           x == lives[c]
<1>1. FifosFit /\ FifoFits(c, stage[c], lives[c], pipe[c], taken[c])
  BY DEF ClientsInv, FifosFit
<1>2. /\ stage[c] = "nofifo" /\ stage' = [stage EXCEPT ![c] = "signed"]
      /\ lives' = [lives EXCEPT ![c] = x + 1] /\ pipe' = [pipe EXCEPT ![c] = <<>>]
      /\ register_pipe' = Append(register_pipe, request)
  BY DEF SignIn
<1>3. x \in Nat /\ register_pipe \in Seq(Requests)
  BY <1>1 DEF FifoFits, ClientsInv, RequestsFit
<1> HIDE DEF x
<1>4. lives'[c] = x + 1 /\ pipe'[c] = <<>> /\ \A k \in Clients \ {c} : lives'[k] = lives[k]
  BY <1>1, <1>2 DEF FifosFit
<1>5. request \in Requests
  <2>1. x + 1 \in Nat \ {0}
    BY <1>3
  <2>2. lives'[c] \in Nat \ {0}
    BY <1>4, <2>1
  <2>3. RequestBytes(code) \in 1 .. 289
    BY DEF RequestBytes
  <2> QED BY <2>2, <2>3 DEF Requests, Kinds2
<1>6. request.client = c /\ request.code = code /\ request.bytes = RequestBytes(code)
  OBVIOUS
<1> HIDE DEF request
<1>7. /\ register_pipe' \in Seq(Requests) /\ Len(register_pipe') = Len(register_pipe) + 1
      /\ \A i \in 1 .. Len(register_pipe) : register_pipe'[i] = register_pipe[i]
      /\ register_pipe'[Len(register_pipe) + 1] = request
  BY <1>2, <1>3, <1>5, AppendProperties
<1>8. /\ DOMAIN register_pipe' = 1 .. Len(register_pipe) + 1
      /\ DOMAIN register_pipe = 1 .. Len(register_pipe) /\ Len(register_pipe) \in Nat
  BY <1>3, <1>7, LenProperties
<1> QED BY <1>2, <1>3, <1>4, <1>6, <1>7, <1>8 DEF x

\* A step of a client keeps the invariant and writes to no manager.
LEMMA BesideKeeps ==
  ASSUME Sane, BesideBroker /\ ClientStep
  PROVE  Sane' /\ \A m \in Managers : pipe'[m] = pipe[m]
<1>1. UNCHANGED brokerVars /\ ClientsInv
  BY DEF BesideBroker, Sane
<1>2. ClientsInv' /\ \A m \in Managers : pipe'[m] = pipe[m]
  BY <1>1, ClientStepKeeps
<1>3. UNCHANGED <<process, threads, at, job, box_list, box_list_mutex, fs, request_name,
                  descriptors, created, failed, lost, strayed>>
  BY <1>1 DEF brokerVars
<1>4. FsInv(fs)' /\ ThreadsFit' /\ BoxesFit' /\ HistoryFits'
  BY <1>3 DEF Sane, ThreadsFit, BoxesFit, HistoryFits
<1>5. DescriptorsFit'
  BY <1>3 DEF Sane, DescriptorsFit, Holding
<1>6. RequestsFramed'
  <2>1. CASE \E c \in Clients, code \in Kinds2, n \in Boxes : SignIn(c, code, n) /\ FromItsKind(code, c)
    <3>1. PICK c \in Clients, code \in Kinds2, n \in Boxes : SignIn(c, code, n) /\ FromItsKind(code, c)
      BY <2>1
    <3> DEFINE k == Len(register_pipe) + 1
               r == register_pipe'[k]
    <3>2. /\ Len(register_pipe) \in Nat /\ DOMAIN register_pipe = 1 .. Len(register_pipe)
          /\ DOMAIN register_pipe' = 1 .. k
          /\ \A i \in DOMAIN register_pipe : register_pipe'[i] = register_pipe[i]
          /\ r.code = code /\ r.bytes = RequestBytes(code)
      BY <1>1, <3>1, SignInIs
    <3>3. code # "cut"
      BY ClientsAssumption DEF Kinds2
    <3>4. \A i \in DOMAIN register_pipe' : i \in DOMAIN register_pipe \/ i = k
      BY <3>2
    <3> HIDE DEF k
    <3> QED BY <1>3, <3>2, <3>3, <3>4 DEF Sane, RequestsFramed
  <2>2. CASE register_pipe' = register_pipe
    BY <1>3, <2>2 DEF Sane, RequestsFramed
  <2> QED BY <1>1, <2>1, <2>2, ClientStepIs
<1> QED BY <1>2, <1>4, <1>5, <1>6 DEF Sane

\* What a thread begins with.
Fresh == {"create", "remove", "list open", "publish", "subscribe"}

\* A read takes the first d requests: t serves the first, unless that is the rest of
\* one that was cut; the others are lost.
Takes(t, d, l, j) ==
  /\ process = "up" /\ t \in threads /\ at[t] = "idle"
  /\ d \in 1 .. Len(register_pipe) /\ Len(register_pipe) \in Nat
  /\ DOMAIN register_pipe = 1 .. Len(register_pipe)
  /\ register_pipe' \in Seq(Requests)
  /\ DOMAIN register_pipe' = 1 .. Len(register_pipe) - d
  /\ \A i \in 1 .. Len(register_pipe) - d :
       /\ register_pipe'[i].client = register_pipe[i + d].client
       /\ \/ register_pipe'[i] = register_pipe[i + d]
          \/ register_pipe'[i].code = "cut" /\ register_pipe'[i].client \in lost'
  /\ \A i \in 2 .. d : register_pipe[i].client \in lost'
  /\ lost \subseteq lost' /\ lost' \subseteq Clients
  /\ at' = [at EXCEPT ![t] = l] /\ job' = [job EXCEPT ![t] = j] /\ Fits(l, j)
  /\ \/ l = "idle" /\ register_pipe[1].client \in lost
     \/ l \in Fresh /\ j.client = register_pipe[1].client
  /\ request_name' \in Boxes \cup {NoName} /\ process' \in {"up", "exited"}
  /\ UNCHANGED <<threads, box_list, box_list_mutex, fs, descriptors, created, strayed, failed,
                 clientVars>>

\* The first of the requests, and the name that is read for it.
LEMMA HeadIs ==
  ASSUME Sane, register_pipe # <<>>
  PROVE  LET r == register_pipe[1]
             n == NameRead(register_pipe)
         IN  /\ Head(register_pipe) = r /\ r \in Requests /\ FromItsKind(r.code, r.client)
             /\ 1 \in DOMAIN register_pipe
             /\ n \in Boxes \cup {NoName}
             /\ IF r.code = "cut" THEN r.client \in lost
                ELSE r.code \in {"publish", "subscribe", "create"} => n \in Boxes
<1> DEFINE q == register_pipe
           r == q[1]
           n == NameRead(q)
           b == r.bytes
<1>1. q \in Seq(Requests) /\ Len(q) \in Nat \ {0} /\ 1 \in DOMAIN q /\ Head(q) = r
  <2>1. q \in Seq(Requests)
    BY DEF Sane, ClientsInv, RequestsFit
  <2>2. Len(q) \in Nat /\ DOMAIN q = 1 .. Len(q) /\ Len(q) # 0 /\ Head(q) = q[1]
    BY <2>1, EmptySeq, LenProperties
  <2> QED BY <2>1, <2>2
<1>2. r \in Requests /\ FromItsKind(r.code, r.client)
  <2>1. r \in Requests
    BY <1>1, ElementOfSeq
  <2> QED BY <1>1, <2>1 DEF Sane, ClientsInv, RequestsFit
<1>3. IF r.code = "cut" THEN r.client \in lost ELSE r.bytes = RequestBytes(r.code)
  BY <1>1 DEF Sane, RequestsFramed
<1>4. r.box \in Boxes /\ request_name \in Boxes \cup {NoName}
  BY <1>2 DEF Requests, Sane, HistoryFits
<1>5. n = IF b = 289 THEN r.box
          ELSE IF SumBytes(q) <= NameOffset THEN request_name ELSE NoName
  BY <1>1 DEF NameRead, BOX_MESSAGE_SIZE
<1>6. r.code \in {"publish", "subscribe", "create"} => RequestBytes(r.code) = 289
  BY DEF RequestBytes
<1>7. r.code \in {"publish", "subscribe", "create"} => b = 289
  BY <1>3, <1>6
<1> HIDE DEF b
<1>8. n \in Boxes \cup {NoName} /\ (b = 289 => n \in Boxes)
  BY <1>4, <1>5
<1> QED BY <1>1, <1>2, <1>3, <1>7, <1>8

\* The job of a thread that has read a request.
LEMMA FreshFits ==
  ASSUME NEW r \in Requests, FromItsKind(r.code, r.client), r.code # "cut",
         NEW n \in Boxes \cup {NoName},
         r.code \in {"publish", "subscribe", "create"} => n \in Boxes
  PROVE  LET l == IF r.code = "list" THEN "list open" ELSE r.code
             j == [NoJob EXCEPT !.client = r.client, !.box = n]
         IN  l \in Fresh /\ Fits(l, j) /\ j.client = r.client
<1> DEFINE code == r.code
           l == IF code = "list" THEN "list open" ELSE code
           j == [NoJob EXCEPT !.client = r.client, !.box = n]
           c == r.client
<1>1. /\ code \in {"publish", "subscribe", "cut"} \cup Commands /\ c \in Clients
      /\ Commands \subseteq {"create", "remove", "list"}
  BY ClientsAssumption DEF Requests
<1>2. /\ code = "publish" => c \in Publishers
      /\ code = "subscribe" => c \in Subscribers
      /\ code \in Commands => c \in Managers
  BY DEF FromItsKind
<1>3. JobTyped(j) /\ j.client = c /\ j.box = n /\ j.todo = <<>>
  BY <1>1 DEF NoJob, JobTyped
<1>4. code # "cut" /\ (code \in {"publish", "subscribe", "create"} => n \in Boxes)
  OBVIOUS
<1> HIDE DEF code, j, c
<1>5. l \in Fresh /\ l \in Labels
  BY <1>1, <1>4 DEF Fresh, Labels
<1>6. /\ l \in Serving => code \in Commands
      /\ l \in Publishing => code = "publish"
      /\ l \in Subscribing => code = "subscribe"
      /\ l \in Publishing \cup {"create", "subscribe", "replay open", "replay write"}
           => code \in {"publish", "subscribe", "create"}
      /\ l \notin {"store", "close", "append", "idle", "replay open", "replay write", "listing"}
  BY <1>1, <1>4 DEF Serving, Publishing, Subscribing, InSession
<1>7. Fits(l, j)
  BY <1>1, <1>2, <1>3, <1>4, <1>5, <1>6 DEF Fits
<1> QED BY <1>3, <1>5, <1>7 DEF code, j, c

\* A step of an idle thread.
LEMMA ReadIs ==
  ASSUME Sane, NEW t, read_pipe_input(t)
  PROVE  \E d, l, j : Takes(t, d, l, j)
<1> DEFINE q == register_pipe
           r == q[1]
           n == NameRead(q)
           behind == Touched(q) \ {1}
           code == r.code
           label == IF code = "list" THEN "list open" ELSE code
           new == [NoJob EXCEPT !.client = r.client, !.box = n]
<1>1. /\ At(t, "idle") /\ q # <<>> /\ register_pipe' = Rest(q) /\ request_name' = n
      /\ lost' = lost \cup {q[i].client : i \in behind}
      /\ UNCHANGED <<threads, box_list, box_list_mutex, fs, descriptors, created, strayed,
                     clientVars>>
  BY DEF read_pipe_input
<1>2. /\ r \in Requests /\ FromItsKind(r.code, r.client) /\ n \in Boxes \cup {NoName}
      /\ Head(q) = r
      /\ IF r.code = "cut" THEN r.client \in lost
         ELSE r.code \in {"publish", "subscribe", "create"} => n \in Boxes
  BY <1>1, HeadIs
<1>3. IF r.code = "cut"
        THEN process' = (IF t = MainThread THEN "exited" ELSE process) /\ UNCHANGED <<at, job, failed>>
        ELSE Steps(t, label) /\ job' = [job EXCEPT ![t] = new]
  BY <1>2 DEF read_pipe_input
<1>4. q \in Seq(Requests) /\ Len(q) \in Nat /\ DOMAIN q = 1 .. Len(q)
  <2>1. q \in Seq(Requests)
    BY DEF Sane, ClientsInv, RequestsFit
  <2> QED BY <2>1, LenProperties
<1>5. PICK d \in 1 .. Len(q) :
        /\ Rest(q) \in Seq(Requests) /\ Len(Rest(q)) = Len(q) - d
        /\ \A j \in 1 .. Len(q) - d : Remains(Rest(q)[j], q, j + d)
        /\ \A i \in 2 .. d : i \in Touched(q)
  BY <1>1, <1>4, RestIs
<1>6. register_pipe' \in Seq(Requests) /\ DOMAIN register_pipe' = 1 .. Len(q) - d
  BY <1>1, <1>5, LenProperties
<1>7. /\ process = "up" /\ t \in threads /\ at[t] = "idle" /\ t \in Threads
      /\ job[t] = NoJob
      /\ at = [at EXCEPT ![t] = "idle"] /\ job = [job EXCEPT ![t] = NoJob]
  BY <1>1 DEF At, Sane, ThreadsFit, Fits
<1>8. \A i \in DOMAIN q : q[i].client \in Clients
  <2>1. \A i \in DOMAIN q : q[i] \in Requests
    BY <1>4, ElementOfSeq
  <2> QED BY <2>1 DEF Requests
<1>9. \A i \in Touched(q) : i \in DOMAIN q
  BY DEF Touched
<1>10. /\ lost \subseteq lost' /\ lost' \subseteq Clients
       /\ \A i \in Touched(q) : i # 1 => q[i].client \in lost'
  <2>1. lost \subseteq Clients
    BY DEF Sane, HistoryFits
  <2> HIDE DEF q
  <2> QED BY <1>1, <1>8, <1>9, <2>1
<1>11. \A i \in 2 .. d : q[i].client \in lost'
  BY <1>5, <1>10
<1>12. ASSUME NEW i \in 1 .. Len(q) - d
       PROVE  /\ register_pipe'[i].client = q[i + d].client
              /\ \/ register_pipe'[i] = q[i + d]
                 \/ register_pipe'[i].code = "cut" /\ register_pipe'[i].client \in lost'
  <2> DEFINE k == i + d
             s == register_pipe'[i]
  <2>1. Remains(s, q, k)
    BY <1>1, <1>5
  <2>2. k # 1
    BY <1>4, <1>5
  <2>3. s = q[k] \/ (s.client = q[k].client /\ s.code = "cut" /\ k \in Touched(q))
    BY ONLY <2>1 DEF Remains
  <2> HIDE DEF k, s, q
  <2>4. s.client = q[k].client /\ (s = q[k] \/ (s.code = "cut" /\ s.client \in lost'))
    BY <1>10, <2>2, <2>3
  <2> QED BY <2>4 DEF k, s, q
<1>13. process \in {"up", "exited"}
  BY <1>7
<1>14. CASE r.code = "cut"
  <2>1. process' \in {"up", "exited"} /\ UNCHANGED <<at, job, failed>> /\ r.client \in lost
    BY <1>2, <1>3, <1>13, <1>14
  <2>2. Takes(t, d, "idle", NoJob)
    BY <1>1, <1>2, <1>4, <1>5, <1>6, <1>7, <1>10, <1>11, <1>12, <2>1, IdleFits DEF Takes
  <2> QED BY <2>2
<1>15. CASE r.code # "cut"
  <2>1. label \in Fresh /\ Fits(label, new) /\ new.client = r.client
    BY <1>2, <1>15, FreshFits
  <2>2. Steps(t, label) /\ job' = [job EXCEPT ![t] = new]
    BY <1>3, <1>15
  <2> HIDE DEF label, new
  <2>3. Takes(t, d, label, new)
    BY <1>1, <1>2, <1>4, <1>5, <1>6, <1>7, <1>10, <1>11, <1>12, <1>13, <2>1, <2>2 DEF Takes, Steps
  <2> QED BY <2>3
<1> QED BY <1>14, <1>15

\* A thread that takes a request, whole or in part, keeps the invariant.
LEMMA TakesKeeps ==
  ASSUME Sane, NEW t, NEW d, NEW l, NEW j, Takes(t, d, l, j)
  PROVE  Sane'
<1>1. /\ t \in Threads /\ at'[t] = l /\ job'[t] = j
      /\ \A u \in Threads \ {t} : at'[u] = at[u] /\ job'[u] = job[u]
  BY DEF Takes, Sane, ThreadsFit
<1>2. /\ UNCHANGED <<threads, box_list, box_list_mutex, fs, descriptors, created, strayed, failed,
                     stage, lives, pipe, taken>>
  BY DEF Takes, clientVars
<1>3. ThreadsFit'
  <2>1. at' = [u \in Threads |-> at'[u]] /\ job' = [u \in Threads |-> job'[u]]
    BY DEF Sane, ThreadsFit, Takes
  <2>2. \A u \in Threads : Fits(at'[u], job'[u])
    BY <1>1 DEF Sane, ThreadsFit, Takes
  <2>3. \A u \in Threads \ threads' : at'[u] = "idle"
    BY <1>1, <1>2 DEF Sane, ThreadsFit, Takes
  <2>4. threads' \subseteq Threads
    BY <1>2 DEF Sane, ThreadsFit
  <2> QED BY <2>1, <2>2, <2>3, <2>4 DEF ThreadsFit
<1>4. ClientsInv'
  <2>1. FifosFit'
    BY <1>2 DEF Sane, ClientsInv, FifosFit
  <2>2. ASSUME NEW i \in DOMAIN register_pipe'
        PROVE  FromItsKind(register_pipe'[i].code, register_pipe'[i].client)
    <3>1. i + d \in DOMAIN register_pipe
      BY DEF Takes
    <3>2. FromItsKind(register_pipe[i + d].code, register_pipe[i + d].client)
      BY <3>1 DEF Sane, ClientsInv, RequestsFit
    <3>3. \A c : FromItsKind("cut", c)
      BY ClientsAssumption DEF FromItsKind
    <3>4. \/ register_pipe'[i] = register_pipe[i + d]
          \/ register_pipe'[i].code = "cut"
      BY DEF Takes
    <3> QED BY <3>2, <3>3, <3>4
  <2>3. register_pipe' \in Seq(Requests)
    BY DEF Takes
  <2> QED BY <2>1, <2>2, <2>3 DEF ClientsInv, RequestsFit
<1>5. RequestsFramed'
  <2>1. ASSUME NEW i \in DOMAIN register_pipe'
        PROVE  IF register_pipe'[i].code = "cut" THEN register_pipe'[i].client \in lost'
               ELSE register_pipe'[i].bytes = RequestBytes(register_pipe'[i].code)
    <3> DEFINE r == register_pipe[i + d]
    <3>1. i + d \in DOMAIN register_pipe /\ lost \subseteq lost'
      BY DEF Takes
    <3>2. IF r.code = "cut" THEN r.client \in lost ELSE r.bytes = RequestBytes(r.code)
      BY <3>1 DEF Sane, RequestsFramed
    <3>3. \/ register_pipe'[i] = r
          \/ register_pipe'[i].code = "cut" /\ register_pipe'[i].client \in lost'
      BY DEF Takes
    <3> HIDE DEF r
    <3> QED BY <3>1, <3>2, <3>3
  <2> QED BY <2>1 DEF RequestsFramed
<1>6. DescriptorsFit'
  <2>1. Holding' = Holding
    <3>1. "idle" \notin Held /\ l \notin Held
      BY DEF Held, Fresh, Takes
    <3> QED BY <1>1, <3>1 DEF Takes, Holding
  <2> QED BY <1>2, <2>1 DEF Sane, DescriptorsFit
<1>7. BoxesFit' /\ FsInv(fs')
  BY <1>2 DEF Sane, BoxesFit
<1>8. HistoryFits'
  BY <1>2 DEF Sane, HistoryFits, Takes
<1> QED BY <1>3, <1>4, <1>5, <1>6, <1>7, <1>8 DEF Sane

-----------------------------------------------------------------------------
(* Every step, and what holds for ever *)

\* A handler goes on, or a request is read.
LEMMA ThreadActs ==
  ASSUME Sane, NEW t, Thread(t)
  PROVE  Sane' /\ (Acts(t) \/ \E d, l, j : Takes(t, d, l, j))
<1>1. CASE read_pipe_input(t)
  BY <1>1, ReadIs, TakesKeeps
<1>2. CASE create_box_command(t)
  BY <1>2, CreateBoxKeeps
<1>3. CASE remove_box_command(t)
  BY <1>3, RemoveBoxKeeps
<1>4. CASE AnswerOpen(t) \/ ListOpen(t) \/ ReplayOpen(t) \/ FloodOpen(t)
  BY <1>4, OpenSteps
<1>5. CASE AnswerWrite(t)
  BY <1>5, AnswerWriteKeeps
<1>6. CASE ListLock(t)
  BY <1>6, ListLockKeeps
<1>7. CASE ListWrite(t)
  BY <1>7, ListWriteKeeps
<1>8. CASE register_publisher_command(t)
  BY <1>8, RegisterPublisherKeeps
<1>9. CASE PublisherOpen(t)
  BY <1>9, PublisherOpenKeeps
<1>10. CASE read_publisher_pipe_input(t)
  BY <1>10, ReadPublisherKeeps
<1>11. CASE Store(t)
  BY <1>11, StoreKeeps
<1>12. CASE CloseBox(t)
  BY <1>12, CloseBoxKeeps
<1>13. CASE AppendSize(t)
  BY <1>13, AppendSizeKeeps
<1>14. CASE StrayUnlock(t)
  BY <1>14, StrayUnlockKeeps
<1>15. CASE remove_publisher_command(t)
  BY <1>15, RemovePublisherKeeps
<1>16. CASE register_subscriber_command(t)
  BY <1>16, RegisterSubscriberKeeps
<1>17. CASE ReplayWrite(t)
  BY <1>17, ReplayWriteKeeps
<1>18. CASE FloodWrite(t)
  BY <1>18, FloodWriteKeeps
<1> QED BY <1>1, <1>2, <1>3, <1>4, <1>5, <1>6, <1>7, <1>8, <1>9, <1>10, <1>11, <1>12, <1>13,
           <1>14, <1>15, <1>16, <1>17, <1>18 DEF Thread

\* Every step keeps the invariant.
LEMMA SaneSteps ==
  ASSUME Sane, [Next]_vars
  PROVE  Sane'
<1>1. CASE \E t \in Threads : Thread(t)
  BY <1>1, ThreadActs
<1>2. CASE BesideBroker /\ ClientStep
  BY <1>2, BesideKeeps
<1>3. CASE UNCHANGED vars
  <2>1. UNCHANGED <<process, threads, at, job, box_list, box_list_mutex, fs, request_name,
                    descriptors, created, failed, lost, strayed, register_pipe,
                    stage, lives, pipe, taken>>
    BY <1>3 DEF vars, brokerVars, clientVars
  <2>2. ClientsInv' /\ ThreadsFit' /\ RequestsFramed' /\ HistoryFits' /\ BoxesFit' /\ FsInv(fs')
    BY <2>1 DEF Sane, ClientsInv, RequestsFit, FifosFit, ThreadsFit, RequestsFramed, HistoryFits,
                BoxesFit
  <2>3. DescriptorsFit'
    BY <2>1 DEF Sane, DescriptorsFit, Holding
  <2> QED BY <2>2, <2>3 DEF Sane
<1> QED BY <1>1, <1>2, <1>3 DEF Next

\* The broker starts in the invariant.
LEMMA SaneInit == Init => Sane
<1> SUFFICES ASSUME Init PROVE Sane
  OBVIOUS
<1>1. /\ process = "up" /\ threads \in {{MainThread}, SessionThreads}
      /\ at = [t \in Threads |-> "idle"] /\ job = [t \in Threads |-> NoJob]
      /\ box_list = <<>> /\ box_list_mutex = Nobody /\ fs = TfsInitial
      /\ request_name = NoName /\ descriptors = 0
      /\ created = [n \in Boxes |-> 0] /\ failed = {} /\ lost = {} /\ strayed = FALSE
      /\ ClientsInit
  BY DEF Init
<1>2. ClientsInv /\ FsInv(fs) /\ register_pipe = <<>>
  BY <1>1, ClientsStart, StartsEmpty DEF ClientsInit
<1>3. ThreadsFit
  <2>1. threads \subseteq Threads
    BY <1>1 DEF Threads
  <2> QED BY <1>1, <2>1, IdleFits DEF ThreadsFit
<1>4. \A S : <<>> \in Seq(S) /\ DOMAIN <<>> = {}
  BY EmptySeq, LenProperties
<1>5. BoxesFit
  <2>1. created \in [Boxes -> Nat]
    BY <1>1
  <2> QED BY <1>1, <1>4, <2>1 DEF BoxesFit
<1>6. DescriptorsFit
  <2>1. Holding = {}
    BY <1>1 DEF Holding, Held
  <2>2. IsFiniteSet(Holding) /\ Cardinality(Holding) = 0
    BY <2>1, FS_EmptySet
  <2> QED BY <1>1, <2>2, MbrokerThreadAssumption DEF DescriptorsFit
<1>7. RequestsFramed
  BY <1>2, <1>4 DEF RequestsFramed
<1>8. HistoryFits
  BY <1>1 DEF HistoryFits
<1> QED BY <1>2, <1>3, <1>5, <1>6, <1>7, <1>8 DEF Sane

\* The invariant holds in every behaviour.
LEMMA AlwaysSane == Spec => []Sane
<1>1. Init => Sane
  BY SaneInit
<1>2. Sane /\ [Next]_vars => Sane'
  BY SaneSteps
<1> QED BY <1>1, <1>2, PTL DEF Spec

\* TypeOK is part of it.
LEMMA SaneTyped == Sane => TypeOK
<1> SUFFICES ASSUME Sane PROVE TypeOK
  OBVIOUS
<1>1. ClientsTypeOK
  BY ClientsTyped DEF Sane
<1>2. at \in [Threads -> Labels] /\ \A t \in Threads : job[t].client \in Clients \cup {NoClient}
  BY DEF Sane, ThreadsFit, Fits, JobTyped
<1>3. \A i \in DOMAIN box_list : box_list[i] \in BoxRecords
  BY ElementOfSeq, LenProperties DEF Sane, BoxesFit
<1>4. \A i \in DOMAIN box_list :
        /\ box_list[i].box_name \in Boxes
        /\ box_list[i].publisher_named_pipe \in Publishers \cup {NoClient}
        /\ box_list[i].messages_size \in Seq(Nat) /\ box_list[i].num_subscribers \in Nat
  BY <1>3 DEF BoxRecords
<1>5. descriptors \in 0 .. MaxDescriptors
  BY MbrokerThreadAssumption DEF Sane, DescriptorsFit
<1> QED BY <1>1, <1>2, <1>4, <1>5 DEF TypeOK, Sane, ThreadsFit, BoxesFit, HistoryFits

\* Every variable keeps its type; in particular no descriptor is given back that
\* was not open, and no more are open than a process may have.
THEOREM TypeCorrect == Spec => []TypeOK
BY AlwaysSane, SaneTyped, PTL

-----------------------------------------------------------------------------
(* The mutex *)

\* Who has the mutex, and who uses the list across several steps.
LEMMA ActsOnMutex ==
  ASSUME Sane, MutexAccounted, NEW t, Acts(t)
  PROVE  MutexAccounted'
<1> SUFFICES ASSUME process' = "up" PROVE MutexAccounted'
  BY DEF MutexAccounted
<1>1. PICK l, j : Goes(t, l, j) /\ Locks(t, l)
  BY DEF Acts
<1>2. /\ t \in Threads /\ t \in threads /\ at'[t] = l /\ threads' = threads /\ threads \subseteq Threads
      /\ \A u \in Threads \ {t} : at'[u] = at[u]
      /\ process = "up"
  BY <1>1, OthersStay DEF Goes
<1>3. failed \subseteq failed' /\ Nobody \notin Threads
  BY <1>1, MbrokerThreadAssumption DEF Goes, Threads
<1>4. /\ \A u \in threads : box_list_mutex = u =>
           at[u] \in Inside \cup {"stuck"} \/ failed \cap Subscribers # {}
      /\ ~strayed => \A u \in threads : at[u] \in Inside => box_list_mutex = u
  BY <1>2 DEF MutexAccounted
<1>5. ASSUME NEW u \in threads, box_list_mutex' = u
      PROVE  at'[u] \in Inside \cup {"stuck"} \/ failed' \cap Subscribers # {}
  BY <1>1, <1>2, <1>3, <1>4, <1>5 DEF Locks
<1>6. ASSUME NEW u \in threads, ~strayed', at'[u] \in Inside
      PROVE  box_list_mutex' = u
  <2>1. ~strayed /\ \A w \in threads : at[w] \in Inside => box_list_mutex = w
    <3>1. strayed' = strayed \/ strayed' = (strayed \/ box_list_mutex # Nobody)
      BY <1>1 DEF Locks
    <3>2. ~strayed
      BY ONLY <1>6, <3>1
    <3> QED BY <1>4, <3>2
  <2>2. u # t => at[u] \in Inside
    BY <1>2, <1>6
  <2>3. u = t => l \in Inside
    BY <1>2, <1>6
  <2>4. u \in Threads
    BY <1>2
  <2>5. CASE /\ box_list_mutex' = box_list_mutex /\ (l \in Inside => at[t] \in Inside)
    BY <1>2, <2>1, <2>2, <2>3, <2>5
  <2>6. CASE box_list_mutex = Nobody /\ box_list_mutex' = t
    BY <1>3, <2>1, <2>2, <2>4, <2>6
  <2>7. CASE at[t] \in Inside /\ l \notin Inside
    BY <1>2, <2>1, <2>2, <2>3, <2>7
  <2>8. CASE l \notin Inside /\ strayed' = (strayed \/ box_list_mutex # Nobody)
    BY <1>3, <1>6, <2>1, <2>2, <2>3, <2>4, <2>8
  <2> QED BY <1>1, <2>5, <2>6, <2>7, <2>8 DEF Locks
<1> QED BY <1>2, <1>5, <1>6 DEF MutexAccounted

\* Every step keeps the account of the mutex.
LEMMA MutexSteps ==
  ASSUME Sane, MutexAccounted, [Next]_vars
  PROVE  MutexAccounted'
<1>1. CASE \E t \in Threads : Thread(t)
  <2>1. PICK t \in Threads : Thread(t)
    BY <1>1
  <2>2. ASSUME NEW d, NEW l, NEW j, Takes(t, d, l, j)
        PROVE  MutexAccounted'
    <3>1. /\ \A u \in Threads \ {t} : at'[u] = at[u]
          /\ at'[t] = l /\ l \notin Inside /\ at[t] = "idle" /\ "idle" \notin Inside \cup {"stuck"}
          /\ UNCHANGED <<threads, box_list_mutex, strayed, failed>> /\ process = "up"
      BY <2>2 DEF Takes, Sane, ThreadsFit, Fresh, Inside
    <3> QED BY <3>1 DEF MutexAccounted, Sane, ThreadsFit
  <2> QED BY <2>1, <2>2, ThreadActs, ActsOnMutex
<1>2. CASE BesideBroker \/ UNCHANGED vars
  <2>1. UNCHANGED <<process, threads, at, box_list_mutex, failed, strayed>>
    BY <1>2 DEF BesideBroker, vars, brokerVars
  <2> QED BY <2>1 DEF MutexAccounted
<1> QED BY <1>1, <1>2 DEF Next

\* The mutex is held by a thread inside the list or hanging there, or was kept by a
\* subscriber's failed session; a thread inside the list holds it, unless a
\* publisher's thread has released it.
THEOREM MutexIsAccounted == Spec => []MutexAccounted
<1>1. Init => MutexAccounted
  <2> SUFFICES ASSUME Init PROVE MutexAccounted
    OBVIOUS
  <2>1. threads \subseteq Threads /\ Nobody \notin Threads /\ box_list_mutex = Nobody
    BY MbrokerThreadAssumption DEF Init, Threads
  <2>2. \A t \in threads : at[t] = "idle"
    BY <2>1 DEF Init
  <2> QED BY <2>1, <2>2 DEF MutexAccounted, Inside
<1>2. Sane /\ MutexAccounted /\ [Next]_vars => MutexAccounted'
  BY MutexSteps
<1> QED BY <1>1, <1>2, AlwaysSane, PTL DEF Spec

\* Every other change of the list is made with the mutex, and nobody who has it by
\* right races.
LEMMA RacesAreStray ==
  ASSUME Sane, MutexAccounted, NEW t \in Threads, Thread(t), process = "up", process' = "undefined"
  PROVE  strayed \/ StrayUnlock(t)
<1>1. CASE \/ create_box_command(t) \/ remove_box_command(t) \/ register_publisher_command(t)
           \/ AppendSize(t) \/ remove_publisher_command(t) \/ register_subscriber_command(t)
  <2>1. box_list_mutex = Nobody
    BY <1>1 DEF create_box_command, remove_box_command, register_publisher_command, AppendSize,
                remove_publisher_command, register_subscriber_command
  <2>2. Races
    <3>1. CASE create_box_command(t)
      BY <3>1 DEF create_box_command, Answers, Steps, StuckInside, Dies
    <3>2. CASE remove_box_command(t)
      BY <3>2 DEF remove_box_command, Fails, Answers, Steps, Dies
    <3>3. CASE register_publisher_command(t)
      BY <3>3 DEF register_publisher_command, Fails, Steps, Dies
    <3>4. CASE AppendSize(t)
      BY <3>4 DEF AppendSize, Fails, Steps, Dies
    <3>5. CASE remove_publisher_command(t)
      BY <3>5 DEF remove_publisher_command, Fails, Returns, Steps, Dies
    <3>6. CASE register_subscriber_command(t)
      BY <3>6 DEF register_subscriber_command, Fails, Steps, Dies
    <3> QED BY <1>1, <3>1, <3>2, <3>3, <3>4, <3>5, <3>6
  <2>3. Nobody \notin Threads /\ threads \subseteq Threads
    BY MbrokerThreadAssumption DEF Threads, Sane, ThreadsFit
  <2> QED BY <2>1, <2>2, <2>3 DEF Races, MutexAccounted, Inside
<1>2. CASE read_pipe_input(t)
  <2>1. process' \in {"up", "exited"}
    BY <1>2, ReadIs DEF Takes
  <2> QED BY <2>1
<1>3. CASE AnswerOpen(t) \/ ListOpen(t) \/ ReplayOpen(t) \/ FloodOpen(t) \/ PublisherOpen(t)
  BY <1>3 DEF AnswerOpen, ListOpen, ReplayOpen, FloodOpen, OpenToWrite, PublisherOpen, Steps, Fails
<1>4. CASE \/ AnswerWrite(t) \/ ListLock(t) \/ ListWrite(t) \/ read_publisher_pipe_input(t)
           \/ Store(t) \/ CloseBox(t) \/ ReplayWrite(t) \/ FloodWrite(t)
  BY <1>4 DEF AnswerWrite, ListLock, ListWrite, read_publisher_pipe_input, Store, CloseBox,
              ReplayWrite, FloodWrite, Returns, Steps, Fails, BrokenPipe, Dies
<1> QED BY <1>1, <1>2, <1>3, <1>4 DEF Thread

\* No two threads ever touch the list at once unless a publisher's thread releases
\* a mutex that it does not hold: every other race is behind such a release.
THEOREM RacesNeedStrayUnlock ==
  Spec => [][process = "up" /\ process' = "undefined" =>
               strayed \/ \E t \in Threads : StrayUnlock(t)]_vars
<1>1. Sane /\ MutexAccounted /\ [Next]_vars =>
        [process = "up" /\ process' = "undefined" =>
           strayed \/ \E t \in Threads : StrayUnlock(t)]_vars
  <2> SUFFICES ASSUME Sane, MutexAccounted, [Next]_vars, process = "up", process' = "undefined"
               PROVE  strayed \/ \E t \in Threads : StrayUnlock(t)
    OBVIOUS
  <2>1. CASE \E t \in Threads : Thread(t)
    BY <2>1, RacesAreStray
  <2>2. CASE BesideBroker \/ UNCHANGED vars
    BY <2>2 DEF BesideBroker, vars, brokerVars
  <2> QED BY <2>1, <2>2 DEF Next
<1> QED BY <1>1, AlwaysSane, MutexIsAccounted, PTL DEF Spec

-----------------------------------------------------------------------------
(* Requests: at most one of each client that is started once                   *)

Asked(c) == {i \in DOMAIN register_pipe : register_pipe[i].client = c}
Minds(c) == {t \in threads : job[t].client = c}

\* A client that was started once has one request at most, read or unread.
Single(c) == /\ \A i, k \in Asked(c) : i = k
             /\ \A t, u \in Minds(c) : t = u
             /\ Asked(c) = {} \/ Minds(c) = {}

Singles ==
  /\ \A c \in Clients \ Subscribers : lives[c] <= 1
  /\ \A c \in Clients : lives[c] = 0 => Asked(c) = {} /\ Minds(c) = {}
  /\ \A c \in Clients : lives[c] = 1 => Single(c)
  /\ \A t \in threads : at[t] \in Met => stage[job[t].client] # "signed"

\* The request of a client that waits is somewhere.
Remembered == \A c \in Clients : Waiting(c) => Asked(c) # {} \/ Minds(c) # {}

\* A handler keeps its client until it ends.
LEMMA GoesMinds ==
  ASSUME Sane, NEW t, NEW l, NEW j, Goes(t, l, j), NEW c \in Clients
  PROVE  /\ Asked(c)' = Asked(c) /\ Minds(c)' \subseteq Minds(c)
         /\ \A u \in Minds(c) : (u = t /\ l = "idle") \/ u \in Minds(c)'
<1>1. /\ t \in Threads /\ t \in threads /\ job'[t] = j /\ threads' = threads
      /\ threads \subseteq Threads /\ \A u \in Threads \ {t} : job'[u] = job[u]
      /\ register_pipe' = register_pipe /\ Fits(l, j)
  BY OthersStay DEF Goes
<1>2. CASE l = "idle"
  <2>1. j.client \notin Clients
    <3>1. j = NoJob /\ NoJob.client = NoClient
      BY <1>1, <1>2 DEF Fits, NoJob
    <3> QED BY <3>1, ClientsAssumption DEF Clients
  <2> QED BY <1>1, <1>2, <2>1 DEF Asked, Minds
<1>3. CASE l # "idle"
  <2>1. j.client = job[t].client
    BY <1>3 DEF Goes
  <2> QED BY <1>1, <2>1 DEF Asked, Minds
<1> QED BY <1>2, <1>3

\* A step of a handler.
LEMMA ActsSingle ==
  ASSUME Sane, Singles, NEW t, Acts(t)
  PROVE  Singles' /\ (Remembered => Remembered')
<1>1. PICK l, j : Goes(t, l, j)
  BY DEF Acts
<1>2. /\ t \in Threads /\ t \in threads /\ at'[t] = l /\ job'[t] = j /\ threads' = threads
      /\ threads \subseteq Threads
      /\ \A u \in Threads \ {t} : at'[u] = at[u] /\ job'[u] = job[u]
      /\ lives' = lives /\ lost' = lost
      /\ \A c \in Clients : stage'[c] = stage[c] \/ stage'[c] # "signed"
      /\ failed \subseteq failed'
  BY <1>1, OthersStay DEF Goes
<1>3. \A c \in Clients : /\ Asked(c)' = Asked(c) /\ Minds(c)' \subseteq Minds(c)
                         /\ \A u \in Minds(c) : (u = t /\ l = "idle") \/ u \in Minds(c)'
  BY <1>1, GoesMinds
<1>4. \A c \in Clients : lives[c] = 1 => Single(c)'
  <2> SUFFICES ASSUME NEW c \in Clients, lives[c] = 1 PROVE Single(c)'
    OBVIOUS
  <2>1. Single(c)
    BY DEF Singles
  <2> QED BY <1>3, <2>1 DEF Single
<1>5. ASSUME NEW u \in threads', at'[u] \in Met
      PROVE  stage'[job'[u].client] # "signed"
  <2>1. job'[u].client \in Clients
    <3>1. Fits(at'[u], job'[u])
      BY <1>1, <1>2, GoesKeeps DEF ThreadsFit
    <3>2. at'[u] # "idle"
      BY <1>5 DEF Met, InSession
    <3> QED BY <3>1, <3>2 DEF Fits
  <2>2. CASE u # t
    <3>1. at[u] \in Met /\ job'[u] = job[u]
      BY <1>2, <1>5, <2>2
    <3> QED BY <1>2, <2>1, <3>1 DEF Singles
  <2>3. CASE u = t
    <3>1. l \in Met /\ l # "idle"
      BY <1>2, <1>5, <2>3 DEF Met, InSession
    <3>2. job'[t].client = job[t].client /\ (at[t] \in Met \/ stage'[job[t].client] # "signed")
      BY <1>1, <1>2, <3>1 DEF Goes
    <3> QED BY <1>2, <2>1, <2>3, <3>2 DEF Singles
  <2> QED BY <2>2, <2>3
<1>6. Singles'
  BY <1>2, <1>3, <1>4, <1>5 DEF Singles
<1>7. ASSUME Remembered, NEW c \in Clients, Waiting(c)'
      PROVE  Asked(c)' # {} \/ Minds(c)' # {}
  <2>1. stage'[c] = "signed" /\ stage[c] = "signed" /\ c \notin failed' /\ Waiting(c)
    BY <1>2, <1>7 DEF Waiting
  <2>2. Asked(c) # {} \/ Minds(c) # {}
    BY <1>7, <2>1 DEF Remembered
  <2>3. CASE Minds(c) # {}
    <3>1. PICK u \in Minds(c) : TRUE
      BY <2>3
    <3>2. CASE u = t /\ l = "idle"
      <4>1. job[t].client = c
        BY <3>2 DEF Minds
      <4>2. at[t] \in Met
        BY <1>1, <2>1, <3>2, <4>1 DEF Goes
      <4> QED BY <1>2, <2>1, <4>1, <4>2 DEF Singles
    <3> QED BY <1>3, <3>1, <3>2
  <2> QED BY <1>3, <2>2, <2>3
<1> QED BY <1>6, <1>7 DEF Remembered

\* A request is read.
LEMMA TakesSingle ==
  ASSUME Sane, Singles, NEW t, NEW d, NEW l, NEW j, Takes(t, d, l, j)
  PROVE  Singles' /\ (Remembered => Remembered')
<1>1. /\ t \in Threads /\ at'[t] = l /\ job'[t] = j /\ t \in threads
      /\ \A u \in Threads \ {t} : at'[u] = at[u] /\ job'[u] = job[u]
      /\ threads' = threads /\ threads \subseteq Threads /\ job[t] = NoJob
      /\ failed' = failed /\ stage' = stage /\ lives' = lives /\ lost \subseteq lost'
  BY DEF Takes, Sane, ThreadsFit, Fits, clientVars
<1> DEFINE n == Len(register_pipe)
           first == register_pipe[1].client
<1>2. /\ n \in Nat /\ d \in 1 .. n /\ DOMAIN register_pipe = 1 .. n
      /\ DOMAIN register_pipe' = 1 .. n - d
      /\ \A i \in 1 .. n - d : register_pipe'[i].client = register_pipe[i + d].client
      /\ \A i \in 2 .. d : register_pipe[i].client \in lost'
  BY DEF Takes
<1>3. \/ l = "idle" /\ first \in lost
      \/ l \in Fresh /\ j.client = first
  BY DEF Takes
<1>4. NoJob.client \notin Clients
  BY ClientsAssumption DEF NoJob, Clients
<1> HIDE DEF n
<1>5. ASSUME NEW c \in Clients
      PROVE  /\ \A i \in Asked(c)' : i + d \in Asked(c) /\ i \in 1 .. n - d
             /\ \A i \in Asked(c) : i - d \in Asked(c)' \/ i = 1 \/ c \in lost'
             /\ 1 \in Asked(c) <=> first = c
             /\ \A i \in Asked(c) : i \in 1 .. n
  <2>1. ASSUME NEW i \in Asked(c)' PROVE i + d \in Asked(c) /\ i \in 1 .. n - d
    BY <1>2, <2>1 DEF Asked
  <2>2. ASSUME NEW i \in Asked(c), i # 1 PROVE i - d \in Asked(c)' \/ c \in lost'
    <3>1. i \in 2 .. n /\ register_pipe[i].client = c
      BY <1>2, <2>2 DEF Asked
    <3>2. CASE i <= d
      BY <1>2, <3>1, <3>2
    <3>3. CASE ~(i <= d)
      <4>1. i - d \in 1 .. n - d /\ (i - d) + d = i
        BY <1>2, <3>1, <3>3
      <4> QED BY <1>2, <3>1, <4>1 DEF Asked
    <3> QED BY <3>2, <3>3
  <2>3. 1 \in 1 .. n
    BY <1>2
  <2> QED BY <1>2, <2>1, <2>2, <2>3 DEF Asked
<1>6. ASSUME NEW c \in Clients
      PROVE  /\ Minds(c)' \subseteq Minds(c) \cup {t} /\ Minds(c) \subseteq Minds(c)'
             /\ (t \in Minds(c)' => first = c)
             /\ (first = c => t \in Minds(c)' \/ c \in lost)
  <2>1. t \notin Minds(c)
    BY <1>1, <1>4 DEF Minds
  <2>2. l = "idle" => j.client \notin Clients
    BY <1>4 DEF Takes, Fits
  <2>3. t \in Minds(c)' <=> j.client = c
    BY <1>1 DEF Minds
  <2>4. ASSUME NEW u, u # t PROVE u \in Minds(c)' <=> u \in Minds(c)
    BY <1>1, <2>4 DEF Minds
  <2> QED BY <1>3, <2>1, <2>2, <2>3, <2>4
<1>7. ASSUME NEW c \in Clients, lives[c] = 0
      PROVE  Asked(c)' = {} /\ Minds(c)' = {}
  <2>1. Asked(c) = {} /\ Minds(c) = {}
    BY <1>7 DEF Singles
  <2> QED BY <1>5, <1>6, <2>1
<1>8. ASSUME NEW c \in Clients, lives[c] = 1
      PROVE  Single(c)'
  <2>1. Single(c)
    BY <1>8 DEF Singles
  <2>2. ASSUME NEW i \in Asked(c)', NEW k \in Asked(c)' PROVE i = k
    <3>1. i + d = k + d /\ i \in Nat /\ k \in Nat /\ d \in Nat
      BY <1>2, <1>5, <2>1 DEF Single
    <3> QED BY <3>1
  <2>3. CASE t \in Minds(c)'
    <3>1. 1 \in Asked(c) /\ Minds(c) = {}
      BY <1>5, <1>6, <2>1, <2>3 DEF Single
    <3>2. ASSUME NEW i \in Asked(c)' PROVE FALSE
      <4>1. i + d = 1 /\ i \in Nat /\ i >= 1 /\ d \in Nat /\ d >= 1
        BY <1>2, <1>5, <2>1, <3>1 DEF Single
      <4> QED BY <4>1
    <3> QED BY <1>6, <3>1, <3>2 DEF Single
  <2>4. CASE t \notin Minds(c)'
    <3>1. Minds(c)' = Minds(c)
      BY <1>6, <2>4
    <3> QED BY <1>5, <2>1, <2>2, <3>1 DEF Single
  <2> QED BY <2>3, <2>4
<1>9. ASSUME NEW u \in threads', at'[u] \in Met
      PROVE  stage'[job'[u].client] # "signed"
  <2>1. l \notin Met
    BY DEF Met, InSession, Fresh, Takes
  <2> QED BY <1>1, <1>9, <2>1 DEF Singles
<1>10. Singles'
  BY <1>1, <1>7, <1>8, <1>9 DEF Singles
<1>11. ASSUME Remembered, NEW c \in Clients, Waiting(c)'
       PROVE  Asked(c)' # {} \/ Minds(c)' # {}
  <2>1. c \notin lost' /\ Waiting(c)
    BY <1>1, <1>11 DEF Waiting
  <2>2. Asked(c) # {} \/ Minds(c) # {}
    BY <1>11, <2>1 DEF Remembered
  <2> QED BY <1>1, <1>5, <1>6, <2>1, <2>2
<1> QED BY <1>10, <1>11 DEF Remembered

\* A client signs in.
LEMMA SignInSingle ==
  ASSUME Sane, Singles, NEW c \in Clients, NEW code \in Kinds2, NEW n \in Boxes, SignIn(c, code, n),
         FromItsKind(code, c), c \notin Subscribers => lives[c] = 0, UNCHANGED brokerVars
  PROVE  Singles' /\ (Remembered => Remembered')
<1> DEFINE k == Len(register_pipe) + 1
<1>1. /\ stage[c] = "nofifo" /\ stage' = [stage EXCEPT ![c] = "signed"]
      /\ lives[c] \in Nat /\ lives'[c] = lives[c] + 1
      /\ \A b \in Clients \ {c} : lives'[b] = lives[b]
      /\ Len(register_pipe) \in Nat /\ DOMAIN register_pipe = 1 .. Len(register_pipe)
      /\ DOMAIN register_pipe' = 1 .. k
      /\ \A i \in DOMAIN register_pipe : register_pipe'[i] = register_pipe[i]
      /\ register_pipe'[k].client = c
  BY SignInIs DEF Sane
<1>2. k \notin DOMAIN register_pipe /\ DOMAIN register_pipe' = DOMAIN register_pipe \cup {k}
  BY <1>1
<1> HIDE DEF k
<1>3. UNCHANGED <<threads, at, job, failed, lost>>
  BY DEF brokerVars
<1>4. \A b \in Clients \ {c} : stage'[b] = stage[b]
  BY <1>1 DEF Sane, ClientsInv, FifosFit
<1>5. /\ \A b \in Clients \ {c} : Asked(b)' = Asked(b)
      /\ Asked(c)' = Asked(c) \cup {k}
  BY <1>1, <1>2 DEF Asked
<1>6. \A b : Minds(b)' = Minds(b)
  BY <1>3 DEF Minds
<1>7. lives'[c] # 0 /\ (lives'[c] = 1 => lives[c] = 0) /\ (c \notin Subscribers => lives'[c] <= 1)
  <2> DEFINE x == lives[c]
             y == lives'[c]
  <2>1. x \in Nat /\ y = x + 1 /\ (c \notin Subscribers => x = 0)
    BY <1>1
  <2> HIDE DEF x, y
  <2>2. y # 0 /\ (y = 1 => x = 0) /\ (c \notin Subscribers => y <= 1)
    BY <2>1
  <2> QED BY <2>2 DEF x, y
<1>8. \A b \in Clients \ Subscribers : lives'[b] <= 1
  BY <1>1, <1>7 DEF Singles
<1>9. \A b \in Clients : lives'[b] = 0 => Asked(b)' = {} /\ Minds(b)' = {}
  BY <1>1, <1>5, <1>6, <1>7 DEF Singles
<1>10. ASSUME NEW b \in Clients, lives'[b] = 1
       PROVE  Single(b)'
  <2>1. CASE b = c
    <3>1. Asked(c) = {} /\ Minds(c) = {}
      BY <1>7, <1>10, <2>1 DEF Singles
    <3> QED BY <1>5, <1>6, <2>1, <3>1 DEF Single
  <2>2. CASE b # c
    BY <1>1, <1>5, <1>6, <1>10, <2>2 DEF Singles, Single
  <2> QED BY <2>1, <2>2
<1>11. ASSUME NEW u \in threads', at'[u] \in Met
       PROVE  stage'[job'[u].client] # "signed"
  <2> DEFINE b == job[u].client
  <2>1. b \in Publishers /\ b \in Clients /\ b \notin Subscribers
    <3>1. Fits(at[u], job[u]) /\ at[u] \in Publishing
      BY <1>3, <1>11 DEF Sane, ThreadsFit, Met, Publishing
    <3> QED BY <3>1, ClientsAssumption DEF Fits, Clients
  <2>2. u \in Minds(b)
    BY <1>3, <1>11 DEF Minds
  <2>3. b # c
    BY <1>7, <2>1, <2>2 DEF Singles
  <2>4. stage[b] # "signed" /\ job'[u].client = b
    BY <1>3, <1>11 DEF Singles
  <2> HIDE DEF b
  <2> QED BY <1>4, <2>1, <2>3, <2>4
<1>12. Singles'
  BY <1>8, <1>9, <1>10, <1>11 DEF Singles
<1>13. ASSUME Remembered, NEW b \in Clients, Waiting(b)'
       PROVE  Asked(b)' # {} \/ Minds(b)' # {}
  <2>1. CASE b = c
    BY <1>5, <2>1
  <2>2. CASE b # c
    <3>1. Waiting(b)
      BY <1>1, <1>3, <1>4, <1>13, <2>2 DEF Waiting
    <3> QED BY <1>5, <1>6, <1>13, <2>2, <3>1 DEF Remembered
  <2> QED BY <2>1, <2>2
<1> QED BY <1>12, <1>13 DEF Remembered

\* Every step keeps clients at one request each.
LEMMA SingleSteps ==
  ASSUME Sane, Singles, [Next]_vars
  PROVE  Singles' /\ (Remembered => Remembered')
<1>1. CASE \E t \in Threads : Thread(t)
  BY <1>1, ThreadActs, ActsSingle, TakesSingle
<1>2. CASE BesideBroker /\ ClientStep
  <2>1. UNCHANGED brokerVars /\ ClientsInv
    BY <1>2 DEF BesideBroker, Sane
  <2>2. CASE /\ register_pipe' = register_pipe /\ lives' = lives
             /\ \A c \in Clients : stage'[c] = stage[c] \/ stage'[c] # "signed"
    <3>1. UNCHANGED <<threads, at, job, failed, lost>>
      BY <2>1 DEF brokerVars
    <3>2. \A c \in Clients : Asked(c)' = Asked(c) /\ Minds(c)' = Minds(c)
      BY <2>2, <3>1 DEF Asked, Minds
    <3>3. \A c \in Clients : Waiting(c)' => Waiting(c)
      BY <2>2, <3>1 DEF Waiting
    <3>4. ASSUME NEW u \in threads, at[u] \in Met
          PROVE  stage'[job[u].client] # "signed"
      <4>1. job[u].client \in Clients
        BY <3>4 DEF Sane, ThreadsFit, Fits, Met, InSession
      <4> QED BY <2>2, <3>4, <4>1 DEF Singles
    <3>5. Singles'
      BY <2>2, <3>1, <3>2, <3>4 DEF Singles, Single
    <3> QED BY <3>2, <3>3, <3>5 DEF Remembered
  <2> QED BY <1>2, <2>1, <2>2, ClientStepIs, SignInSingle
<1>3. CASE UNCHANGED vars
  <2>1. UNCHANGED <<threads, at, job, failed, lost, register_pipe, stage, lives>>
    BY <1>3 DEF vars, brokerVars, clientVars
  <2>2. \A c \in Clients : Asked(c)' = Asked(c) /\ Minds(c)' = Minds(c) /\ Waiting(c)' = Waiting(c)
    BY <2>1 DEF Asked, Minds, Waiting
  <2> QED BY <2>1, <2>2 DEF Singles, Single, Remembered
<1> QED BY <1>1, <1>2, <1>3 DEF Next

\* Nobody was started, and nobody asks.
LEMMA SingleInit == Init => Singles /\ Remembered
<1> SUFFICES ASSUME Init PROVE Singles /\ Remembered
  OBVIOUS
<1>1. /\ lives = [c \in Clients |-> 0] /\ stage = [c \in Clients |-> "nofifo"]
      /\ register_pipe = <<>> /\ at = [t \in Threads |-> "idle"]
      /\ job = [t \in Threads |-> NoJob] /\ threads \subseteq Threads
  BY DEF Init, ClientsInit, Threads
<1>2. \A c \in Clients : Asked(c) = {} /\ Minds(c) = {}
  <2>1. DOMAIN <<>> = {} /\ NoJob.client \notin Clients
    BY EmptySeq, LenProperties, ClientsAssumption DEF NoJob, Clients
  <2> QED BY <1>1, <2>1 DEF Asked, Minds
<1>3. \A t \in threads : at[t] \notin Met
  BY <1>1 DEF Met, InSession
<1>4. \A c \in Clients : lives[c] = 0 /\ ~Waiting(c)
  BY <1>1 DEF Waiting
<1>5. \A c \in Clients \ Subscribers : lives[c] <= 1
  <2>1. \A n : n = 0 => n <= 1
    OBVIOUS
  <2> QED BY <1>4, <2>1
<1> QED BY <1>2, <1>3, <1>4, <1>5 DEF Singles, Remembered

\* No client is ever served by two threads, or served and waiting.
LEMMA AlwaysSingle == Spec => [](Singles /\ Remembered)
<1>1. Init => Singles /\ Remembered
  BY SingleInit
<1>2. Sane /\ Singles /\ Remembered /\ [Next]_vars => Singles' /\ Remembered'
  BY SingleSteps
<1> QED BY <1>1, <1>2, AlwaysSane, PTL DEF Spec

\* What the property says of numbers.
LEMMA SinglesCount ==
  ASSUME Singles, Remembered
  PROVE  RequestsAccounted
<1> SUFFICES ASSUME NEW c \in Clients, Waiting(c)
             PROVE  1 = Cardinality(Asked(c)) + Cardinality(Minds(c))
  BY DEF RequestsAccounted, Asked, Minds
<1>1. Single(c) /\ (Asked(c) # {} \/ Minds(c) # {})
  BY DEF Singles, Remembered, Waiting
<1> DEFINE A == Asked(c)
           M == Minds(c)
<1>2. /\ \A i, k \in A : i = k
      /\ \A t, u \in M : t = u
      /\ A = {} \/ M = {}
      /\ A # {} \/ M # {}
  BY <1>1 DEF Single
<1> HIDE DEF A, M
<1>6. \/ A = {} /\ \E t : M = {t}
      \/ M = {} /\ \E i : A = {i}
  <2>1. ASSUME NEW S, S # {}, \A i, k \in S : i = k PROVE \E i : S = {i}
    <3>1. PICK i \in S : TRUE
      BY <2>1
    <3>2. S = {i}
      BY <2>1, <3>1
    <3> QED BY <3>2
  <2> QED BY <1>2, <2>1
<1>3. Cardinality({}) = 0 /\ \A x : Cardinality({x}) = 1
  BY FS_EmptySet, FS_Singleton
<1>4. \/ Cardinality(A) = 0 /\ Cardinality(M) = 1
      \/ Cardinality(M) = 0 /\ Cardinality(A) = 1
  BY <1>3, <1>6
<1>5. 1 = Cardinality(A) + Cardinality(M)
  BY <1>4
<1> QED BY <1>5 DEF A, M

\* No request disappears: a client that waits has exactly one, in the register pipe
\* or in the hands of a thread, unless its handler failed or it was read with
\* another's.
THEOREM RequestsAreAccounted == Spec => []RequestsAccounted
BY AlwaysSingle, SinglesCount, PTL

-----------------------------------------------------------------------------
(* What each handler does to the list of boxes                                 *)

\* The list is as it was, and a publisher's session goes on, hangs or fails.
ListKept(t) ==
  /\ box_list' = box_list /\ created' = created
  /\ at[t] \in InSession =>
       at'[t] \in InSession \cup {"stuck"} \/ job[t].client \in failed' \/ process' # "up"
  /\ at'[t] \in InSession => at[t] \in InSession

BoxCreated(t) ==
  /\ at[t] = "create" /\ at'[t] = "answer open" /\ find_box_by_name(job[t].box) = 0
  /\ job[t].box \in Boxes
  /\ box_list' = Inserted(job[t].box)
  /\ created' = [created EXCEPT ![job[t].box] = @ + 1]

BoxRemoved(t) ==
  /\ at[t] = "remove" /\ at'[t] = "answer open" /\ created' = created
  /\ \E i \in DOMAIN box_list : box_list' = RemoveAt(box_list, i)

\* The box of the request is changed, of which the publisher and the sizes matter.
BoxUsed(t, i) ==
  /\ OneBox(i) /\ created' = created
  /\ i = find_box_by_name(job[t].box) /\ box_list[i].box_name = job[t].box
  /\ LET b == box_list[i]
         c == box_list'[i]
         sameSizes == c.messages_size = b.messages_size
     IN  \/ /\ at[t] = "publish" /\ at'[t] = "publisher open" /\ sameSizes
            /\ b.publisher_named_pipe = NoClient /\ c.publisher_named_pipe = job[t].client
         \/ /\ at[t] = "listening" /\ at'[t] = "idle" /\ sameSizes
            /\ b.publisher_named_pipe = job[t].client /\ c.publisher_named_pipe = NoClient
         \/ /\ at[t] = "append" /\ at'[t] = "unlock"
            /\ c.messages_size = Append(b.messages_size, Len(job[t].data))
            /\ c.publisher_named_pipe = b.publisher_named_pipe
         \/ /\ at[t] = "subscribe" /\ at'[t] \in {"stuck", "idle", "replay open"} /\ sameSizes
            /\ c.publisher_named_pipe = b.publisher_named_pipe

\* The list is only changed when nobody is in the middle of it.
Lists(t) ==
  /\ at[t] # "stuck"
  /\ \/ ListKept(t)
     \/ ~Races /\ (BoxCreated(t) \/ BoxRemoved(t) \/ \E i : BoxUsed(t, i))

\* Where a thread is after each way to end a step.
LEMMA Moves ==
  ASSUME Sane, NEW t, NEW l, At(t, l)
  PROVE  /\ t \in Threads /\ at[t] = l /\ process = "up"
         /\ \A next : Steps(t, next) => at'[t] = next
         /\ Fails(t) => at'[t] = "idle" /\ job[t].client \in failed'
         /\ Returns(t) => at'[t] = "idle"
         /\ \A how : Dies(how) => at' = at /\ process' = how
BY DEF At, Sane, ThreadsFit, Steps, Fails, Returns, Dies

\* A handler that does not use the list.
LEMMA ListUnused ==
  ASSUME Sane, NEW t, NEW l, At(t, l), l \notin InSession \cup {"stuck"}, at'[t] \notin InSession,
         UNCHANGED <<box_list, created>>
  PROVE  Lists(t)
BY DEF At, Lists, ListKept

\* A failure or the end of the process changes no list.
LEMMA EndKeepsList ==
  ASSUME Sane, NEW t, NEW l, At(t, l), l # "stuck", UNCHANGED <<box_list, created>>,
         Fails(t) \/ \E how \in {"killed", "crashed", "undefined"} : Dies(how)
  PROVE  Lists(t)
<1>1. "idle" \notin InSession
  BY DEF InSession
<1> QED BY <1>1, Moves DEF Lists, ListKept

\* The answers and the listing.
LEMMA AnswersList ==
  ASSUME Sane, NEW t, AnswerOpen(t) \/ AnswerWrite(t) \/ ListOpen(t) \/ ListLock(t) \/ ListWrite(t)
  PROVE  Lists(t)
<1>1. UNCHANGED <<box_list, created>>
  BY DEF AnswerOpen, AnswerWrite, ListOpen, ListLock, ListWrite, OnlyPipes, history
<1>2. PICK l \in {"answer open", "answer write", "list open", "list lock", "listing"} : At(t, l)
  BY DEF AnswerOpen, AnswerWrite, ListOpen, ListLock, ListWrite
<1>3. \/ \E next \in {"answer write", "list lock", "listing", "stuck"} : Steps(t, next)
      \/ Fails(t) \/ Returns(t) \/ Dies("killed")
  BY DEF AnswerOpen, AnswerWrite, ListOpen, ListLock, ListWrite, OpenToWrite, BrokenPipe
<1>4. \A n \in {"answer open", "answer write", "list open", "list lock", "listing", "stuck", "idle"} :
        n \notin InSession
  BY DEF InSession
<1>5. at'[t] \notin InSession /\ l # "stuck"
  BY <1>2, <1>3, <1>4, Moves
<1> QED BY <1>1, <1>2, <1>4, <1>5, ListUnused

\* A subscriber's session after its beginning.
LEMMA ReplayLists ==
  ASSUME Sane, NEW t, ReplayOpen(t) \/ ReplayWrite(t) \/ FloodOpen(t) \/ FloodWrite(t)
  PROVE  Lists(t)
<1>1. UNCHANGED <<box_list, created>>
  BY DEF ReplayOpen, ReplayWrite, FloodOpen, FloodWrite, OnlyPipes, history
<1>2. PICK l \in {"replay open", "replay write", "flood open", "flood write"} : At(t, l)
  BY DEF ReplayOpen, ReplayWrite, FloodOpen, FloodWrite
<1>3. \/ \E next \in {"replay open", "replay write", "flood open", "flood write", "stuck"} :
           Steps(t, next)
      \/ Fails(t) \/ Dies("killed") \/ Dies("crashed")
  BY DEF ReplayOpen, ReplayWrite, FloodOpen, FloodWrite, OpenToWrite, BrokenPipe
<1>4. \A n \in {"replay open", "replay write", "flood open", "flood write", "stuck", "idle"} :
        n \notin InSession
  BY DEF InSession
<1>5. at'[t] \notin InSession /\ l # "stuck"
  BY <1>2, <1>3, <1>4, Moves
<1> QED BY <1>1, <1>2, <1>4, <1>5, ListUnused

\* A publisher's session, but for its beginning, its end and the sizes.
LEMMA SessionLists ==
  ASSUME Sane, NEW t,
         \/ PublisherOpen(t) \/ read_publisher_pipe_input(t) \/ Store(t) \/ CloseBox(t)
         \/ StrayUnlock(t)
  PROVE  Lists(t)
<1>1. UNCHANGED <<box_list, created>>
  BY DEF PublisherOpen, read_publisher_pipe_input, Store, CloseBox, StrayUnlock, OnlyPipes, history
<1>2. PICK l \in {"publisher open", "listening", "store", "close", "unlock"} : At(t, l)
  BY DEF PublisherOpen, read_publisher_pipe_input, Store, CloseBox, StrayUnlock
<1>3. \/ \E next \in {"listening", "stuck", "store", "close", "append"} : Steps(t, next)
      \/ Fails(t) \/ Dies("undefined")
  BY DEF PublisherOpen, read_publisher_pipe_input, Store, CloseBox, StrayUnlock
<1>4. \A n \in {"publisher open", "listening", "store", "close", "append", "unlock"} :
        n \in InSession /\ n # "stuck"
  BY DEF InSession
<1>5. CASE \E next \in {"listening", "stuck", "store", "close", "append"} : Steps(t, next)
  BY <1>1, <1>2, <1>4, <1>5, Moves DEF Lists, ListKept
<1>6. CASE Fails(t) \/ Dies("undefined")
  BY <1>1, <1>2, <1>4, <1>6, EndKeepsList
<1> QED BY <1>3, <1>5, <1>6

\* register_box and unregister_box.
LEMMA ManagerLists ==
  ASSUME Sane, NEW t, create_box_command(t) \/ remove_box_command(t)
  PROVE  Lists(t)
<1> DEFINE n == job[t].box
           i == find_box_by_name(n)
           opened == tfs_open(fs, n, {"CREAT"})
           made == opened.ret >= 0
<1>1. /\ \A k \in {"create", "remove", "answer open", "stuck", "idle"} : k \notin InSession
      /\ box_list \in Seq(BoxRecords)
  BY DEF InSession, Sane, BoxesFit
<1>2. CASE create_box_command(t)
  <2>1. At(t, "create") /\ n \in Boxes
    <3>1. At(t, "create")
      BY <1>2 DEF create_box_command
    <3> QED BY <3>1, ThreadAt DEF Fits
  <2>2. \/ UNCHANGED <<box_list, created>> /\ Answers(t, "create", -1)
        \/ UNCHANGED <<box_list, created>> /\ Steps(t, "stuck")
        \/ /\ i = 0 /\ ~Races /\ box_list' = Inserted(n)
           /\ created' = [created EXCEPT ![n] = @ + 1] /\ Answers(t, "create", 0)
        \/ UNCHANGED <<box_list, created>> /\ Dies("undefined")
    <3> DEFINE failing == opened.ret < 0
    <3>1. \/ UNCHANGED <<box_list, created>> /\ Answers(t, "create", -1)
          \/ StuckInside(t)
          \/ failing /\ UNCHANGED <<box_list, created>> /\ Answers(t, "create", -1)
          \/ /\ i = 0 /\ ~Races /\ made /\ box_list' = Inserted(n)
             /\ created' = [created EXCEPT ![n] = @ + 1] /\ Answers(t, "create", 0)
          \/ UNCHANGED <<box_list, created>> /\ Dies("undefined")
      BY <1>2 DEF create_box_command
    <3> HIDE DEF failing, made, i, n
    <3> QED BY <3>1 DEF StuckInside
  <2>3. \A op, ret : Answers(t, op, ret) => at'[t] = "answer open"
    BY <2>1, Moves DEF Answers
  <2>4. CASE UNCHANGED <<box_list, created>> /\ Answers(t, "create", -1)
    BY <1>1, <2>1, <2>3, <2>4, ListUnused
  <2>5. CASE UNCHANGED <<box_list, created>> /\ Steps(t, "stuck")
    BY <1>1, <2>1, <2>5, Moves, ListUnused
  <2>6. CASE /\ i = 0 /\ ~Races /\ box_list' = Inserted(n)
             /\ created' = [created EXCEPT ![n] = @ + 1] /\ Answers(t, "create", 0)
    <3>1. at[t] = "create" /\ at'[t] = "answer open" /\ at[t] # "stuck"
      <4>1. at[t] = "create"
        BY <2>1, Moves
      <4>2. at'[t] = "answer open"
        BY <2>3, <2>6
      <4> QED BY <4>1, <4>2
    <3>2. BoxCreated(t)
      BY <2>1, <2>6, <3>1 DEF BoxCreated
    <3> QED BY <2>6, <3>1, <3>2 DEF Lists
  <2>7. CASE UNCHANGED <<box_list, created>> /\ Dies("undefined")
    BY <2>1, <2>7, EndKeepsList
  <2> QED BY <2>2, <2>4, <2>5, <2>6, <2>7
<1>3. CASE remove_box_command(t)
  <2>1. At(t, "remove") /\ created' = created
    BY <1>3 DEF remove_box_command, history
  <2>2. \/ UNCHANGED box_list /\ (Fails(t) \/ Dies("undefined"))
        \/ i # 0 /\ ~Races /\ box_list' = RemoveAt(box_list, i) /\ Answers(t, "remove", 0)
    BY <1>3 DEF remove_box_command
  <2>3. CASE i # 0 /\ ~Races /\ box_list' = RemoveAt(box_list, i) /\ Answers(t, "remove", 0)
    <3>1. i \in DOMAIN box_list
      BY <1>1, <2>3, FindBox
    <3>2. at'[t] = "answer open"
      BY <2>1, <2>3, Moves DEF Answers
    <3>3. at[t] = "remove" /\ at[t] # "stuck"
      BY <2>1, Moves
    <3> HIDE DEF i
    <3>4. BoxRemoved(t)
      BY <2>1, <2>3, <3>1, <3>2, <3>3 DEF BoxRemoved
    <3> QED BY <2>3, <3>3, <3>4 DEF Lists
  <2> QED BY <2>1, <2>2, <2>3, EndKeepsList
<1> QED BY <1>2, <1>3

\* The beginning and the end of a publisher's session.
LEMMA PublisherLists ==
  ASSUME Sane, NEW t, register_publisher_command(t) \/ remove_publisher_command(t)
  PROVE  Lists(t)
<1> DEFINE n == job[t].box
           i == find_box_by_name(n)
           p == job[t].client
           present == IF i = 0 THEN NoClient ELSE box_list[i].publisher_named_pipe
<1>1. BoxesFit /\ box_list \in Seq(BoxRecords)
  BY DEF Sane, BoxesFit
<1>2. CASE register_publisher_command(t)
  <2>1. At(t, "publish") /\ created' = created /\ p \in Publishers
    <3>1. At(t, "publish") /\ created' = created
      BY <1>2 DEF register_publisher_command, history
    <3> QED BY <3>1, ThreadAt DEF Fits, Publishing
  <2>2. \/ UNCHANGED box_list /\ (Fails(t) \/ Dies("undefined"))
        \/ /\ i # 0 /\ box_list[i].publisher_named_pipe = NoClient /\ ~Races
           /\ box_list' = [box_list EXCEPT ![i].publisher_named_pipe = p]
           /\ Steps(t, "publisher open")
    BY <1>2 DEF register_publisher_command
  <2>3. CASE /\ i # 0 /\ box_list[i].publisher_named_pipe = NoClient /\ ~Races
             /\ box_list' = [box_list EXCEPT ![i].publisher_named_pipe = p]
             /\ Steps(t, "publisher open")
    <3>1. i \in DOMAIN box_list /\ box_list[i].box_name = n
      BY <1>1, <2>3, FindBox
    <3>2. at'[t] = "publisher open" /\ at[t] = "publish"
      BY <2>1, <2>3, Moves
    <3>3. /\ OneBox(i) /\ box_list'[i].publisher_named_pipe = p
          /\ box_list'[i].messages_size = box_list[i].messages_size
      <4> HIDE DEF i
      <4> QED BY <1>1, <2>1, <2>3, <3>1, PublisherSet
    <3>4. BoxUsed(t, i)
      BY <2>1, <2>3, <3>1, <3>2, <3>3 DEF BoxUsed
    <3> HIDE DEF i
    <3> QED BY <2>3, <3>2, <3>4 DEF Lists
  <2> QED BY <2>1, <2>2, <2>3, EndKeepsList
<1>3. CASE remove_publisher_command(t)
  <2>1. At(t, "listening") /\ created' = created /\ p \in Publishers /\ p # NoClient
    <3>1. At(t, "listening") /\ created' = created
      BY <1>3 DEF remove_publisher_command, history
    <3>2. Fits("listening", job[t])
      BY <3>1, ThreadAt
    <3>3. p \in Publishers
      BY <3>2 DEF Fits, Publishing, InSession
    <3>4. NoClient \notin Publishers
      BY ClientsAssumption
    <3> HIDE DEF p
    <3> QED BY <3>1, <3>3, <3>4
  <2>2. \/ UNCHANGED box_list /\ (Fails(t) \/ Dies("undefined") \/ Dies("crashed"))
        \/ /\ present = p /\ ~Races
           /\ box_list' = [box_list EXCEPT ![i].publisher_named_pipe = NoClient]
           /\ Returns(t)
    BY <1>3 DEF remove_publisher_command
  <2>3. CASE /\ present = p /\ ~Races
             /\ box_list' = [box_list EXCEPT ![i].publisher_named_pipe = NoClient]
             /\ Returns(t)
    <3>1. i \in DOMAIN box_list /\ box_list[i].box_name = n
      BY <1>1, <2>1, <2>3, FindBox
    <3>2. at'[t] = "idle" /\ at[t] = "listening"
      BY <2>1, <2>3, Moves
    <3>3. /\ OneBox(i) /\ box_list'[i].publisher_named_pipe = NoClient
          /\ box_list'[i].messages_size = box_list[i].messages_size
      <4> HIDE DEF i
      <4> QED BY <1>1, <2>1, <2>3, <3>1, PublisherSet
    <3>4. box_list[i].publisher_named_pipe = p
      BY <2>1, <2>3
    <3>5. BoxUsed(t, i)
      BY <2>1, <3>1, <3>2, <3>3, <3>4 DEF BoxUsed
    <3> HIDE DEF i
    <3> QED BY <2>3, <3>2, <3>5 DEF Lists
  <2> QED BY <2>1, <2>2, <2>3, EndKeepsList
<1> QED BY <1>2, <1>3

\* The size of a message.
LEMMA AppendUses ==
  ASSUME Sane, NEW t, AppendSize(t)
  PROVE  /\ At(t, "append") /\ created' = created
         /\ \/ /\ UNCHANGED box_list /\ Fails(t)
               /\ \A k \in DOMAIN box_list : box_list[k].box_name # job[t].box
            \/ UNCHANGED box_list /\ Dies("undefined")
            \/ ~Races /\ \E i : BoxUsed(t, i)
<1> DEFINE i == find_box_by_name(job[t].box)
           d == Len(job[t].data)
<1>1. BoxesFit /\ box_list \in Seq(BoxRecords)
  BY DEF Sane, BoxesFit
<1>2. At(t, "append") /\ created' = created /\ d \in Nat
  <2>1. At(t, "append") /\ created' = created
    BY DEF AppendSize, history
  <2>2. job[t].data \in Messages
    BY <2>1, ThreadAt DEF Fits
  <2> QED BY <2>1, <2>2, ClientsAssumption, LenProperties
<1> HIDE DEF d
<1>3. \/ i = 0 /\ UNCHANGED box_list /\ Fails(t)
      \/ UNCHANGED box_list /\ Dies("undefined")
      \/ /\ i # 0 /\ ~Races /\ Steps(t, "unlock")
         /\ box_list' = [box_list EXCEPT ![i].messages_size = Append(@, d)]
  BY DEF AppendSize, d
<1>4. CASE /\ i # 0 /\ ~Races /\ Steps(t, "unlock")
           /\ box_list' = [box_list EXCEPT ![i].messages_size = Append(@, d)]
  <2>1. i \in DOMAIN box_list /\ box_list[i].box_name = job[t].box
    BY <1>1, <1>4, FindBox
  <2>2. at'[t] = "unlock" /\ at[t] = "append"
    BY <1>2, <1>4, Moves
  <2>3. /\ OneBox(i) /\ box_list'[i].publisher_named_pipe = box_list[i].publisher_named_pipe
        /\ box_list'[i].messages_size = Append(box_list[i].messages_size, d)
    <3> HIDE DEF i
    <3> QED BY <1>1, <1>2, <1>4, <2>1, SizeAdded
  <2>4. BoxUsed(t, i)
    BY <1>2, <2>1, <2>2, <2>3 DEF BoxUsed, d
  <2> HIDE DEF i
  <2> QED BY <1>2, <1>4, <2>4
<1>5. i = 0 => \A k \in DOMAIN box_list : box_list[k].box_name # job[t].box
  BY <1>1, FindBox
<1> QED BY <1>2, <1>3, <1>4, <1>5

\* AppendSize changes one box, unless the thread races or ends.
LEMMA AppendLists ==
  ASSUME Sane, NEW t, AppendSize(t)
  PROVE  Lists(t)
<1>1. CASE UNCHANGED box_list /\ (Fails(t) \/ Dies("undefined"))
  BY <1>1, AppendUses, EndKeepsList
<1>2. CASE ~Races /\ \E i : BoxUsed(t, i)
  BY <1>2, AppendUses DEF Lists, At
<1> QED BY <1>1, <1>2, AppendUses

\* The beginning of a subscriber's session.
LEMMA SubscriberLists ==
  ASSUME Sane, NEW t, register_subscriber_command(t)
  PROVE  Lists(t)
<1> DEFINE n == job[t].box
           i == find_box_by_name(n)
           opened == tfs_open(fs, n, {"APPEND"})
           good == opened.ret >= 0
           bad == opened.ret < 0
<1>1. BoxesFit /\ box_list \in Seq(BoxRecords)
  BY DEF Sane, BoxesFit
<1>2. At(t, "subscribe") /\ created' = created
  BY DEF register_subscriber_command, history
<1>3. \/ UNCHANGED box_list /\ (Fails(t) \/ Dies("undefined"))
      \/ /\ i # 0 /\ ~Races /\ box_list' = [box_list EXCEPT ![i].num_subscribers = @ + 1]
         /\ Steps(t, "stuck") \/ Fails(t) \/ Steps(t, "replay open")
  <2>1. \/ i = 0 /\ Fails(t) /\ UNCHANGED <<box_list, box_list_mutex, fs>>
        \/ /\ i # 0 /\ ~Races
           /\ box_list' = [box_list EXCEPT ![i].num_subscribers = @ + 1]
           /\ \/ Steps(t, "stuck")
              \/ bad /\ Fails(t)
              \/ good /\ Steps(t, "replay open")
        \/ i # 0 /\ Races /\ Dies("undefined") /\ UNCHANGED <<box_list, box_list_mutex, fs>>
    BY DEF register_subscriber_command
  <2> HIDE DEF good, bad, i
  <2> QED BY <2>1
<1>4. CASE /\ i # 0 /\ ~Races /\ box_list' = [box_list EXCEPT ![i].num_subscribers = @ + 1]
           /\ Steps(t, "stuck") \/ Fails(t) \/ Steps(t, "replay open")
  <2>1. i \in DOMAIN box_list /\ box_list[i].box_name = n
    BY <1>1, <1>4, FindBox
  <2>2. at'[t] \in {"stuck", "idle", "replay open"} /\ at[t] = "subscribe"
    BY <1>2, <1>4, Moves
  <2>3. /\ OneBox(i) /\ box_list'[i].publisher_named_pipe = box_list[i].publisher_named_pipe
        /\ box_list'[i].messages_size = box_list[i].messages_size
    <3> HIDE DEF i
    <3> QED BY <1>1, <1>4, <2>1, SubscriberCounted
  <2>4. BoxUsed(t, i)
    BY <1>2, <2>1, <2>2, <2>3 DEF BoxUsed
  <2> HIDE DEF i
  <2> QED BY <1>4, <2>2, <2>4 DEF Lists
<1> QED BY <1>2, <1>3, <1>4, EndKeepsList

\* A handler goes on and changes the list in one of these ways, or a request is read.
LEMMA ThreadLists ==
  ASSUME Sane, NEW t, Thread(t)
  PROVE  (Acts(t) /\ Lists(t)) \/ (\E d, l, j : Takes(t, d, l, j))
<1>1. CASE read_pipe_input(t)
  BY <1>1, ReadIs
<1>2. CASE ~read_pipe_input(t)
  <2>1. Lists(t)
    BY <1>2, AnswersList, ReplayLists, SessionLists, ManagerLists, PublisherLists, AppendLists,
       SubscriberLists DEF Thread
  <2>2. Acts(t)
    BY <1>2, CreateBoxKeeps, RemoveBoxKeeps, OpenSteps, AnswerWriteKeeps, ListLockKeeps,
       ListWriteKeeps, RegisterPublisherKeeps, PublisherOpenKeeps, ReadPublisherKeeps, StoreKeeps,
       CloseBoxKeeps, AppendSizeKeeps, StrayUnlockKeeps, RemovePublisherKeeps,
       RegisterSubscriberKeeps, ReplayWriteKeeps, FloodWriteKeeps DEF Thread
  <2> QED BY <2>1, <2>2
<1> QED BY <1>1, <1>2

-----------------------------------------------------------------------------
(* Publishers and their boxes                                                  *)

\* Where the publisher is that the box is kept for.
ServesBox(t, p, n) == /\ job[t].client = p /\ job[t].box = n
                      /\ at[t] \in InSession \cup {"stuck"}

\* Of a box of name n that is kept for p.
KnownBox(p, n) ==
  /\ p # NoClient => p \in failed \/ \E t \in threads : ServesBox(t, p, n)
  /\ created[n] = 1 =>
       \A t \in threads : at[t] \in InSession /\ job[t].box = n => job[t].client = p

PublishersKnown ==
  process = "up" =>
    /\ \A i \in DOMAIN box_list :
         KnownBox(box_list[i].publisher_named_pipe, box_list[i].box_name)
    /\ \A t \in threads : at[t] \in InSession => created[job[t].box] > 0

\* A publisher is served by one thread.
LEMMA OneServes ==
  ASSUME Sane, Singles, NEW t \in threads, NEW u \in threads, job[t].client = job[u].client,
         job[t].client \in Clients \ Subscribers
  PROVE  t = u
<1> DEFINE c == job[t].client
<1>1. t \in Minds(c) /\ u \in Minds(c)
  BY DEF Minds
<1>2. lives[c] \in Nat /\ lives[c] <= 1 /\ lives[c] # 0
  BY <1>1 DEF Singles, Sane, ClientsInv, FifosFit, FifoFits
<1>3. lives[c] = 1
  BY <1>2
<1>4. Single(c)
  BY <1>3 DEF Singles
<1> QED BY <1>1, <1>4 DEF Single

\* Who is in a session publishes.
LEMMA SessionClient ==
  ASSUME Sane, NEW t \in threads, at[t] \in InSession
  PROVE  /\ job[t].client \in Publishers /\ job[t].client \in Clients \ Subscribers
         /\ job[t].box \in Boxes /\ job[t].client # NoClient
<1>1. Fits(at[t], job[t]) /\ at[t] \in Publishing
  BY DEF Sane, ThreadsFit, Publishing
<1>2. job[t].client \in Publishers /\ job[t].box \in Boxes
  BY <1>1 DEF Fits
<1> QED BY <1>2, ClientsAssumption DEF Clients

\* Boxes, as far as their publishers and names go, that were in the list before.
FromBefore(k) == \E m \in DOMAIN box_list :
                   /\ box_list'[k].box_name = box_list[m].box_name
                   /\ box_list'[k].publisher_named_pipe = box_list[m].publisher_named_pipe

\* What a step of a handler means for its own session and for those of others.
Continues(t) ==
  /\ at[t] \in InSession => at'[t] \in InSession \cup {"stuck"} \/ job[t].client \in failed'
  /\ at'[t] \in InSession => at[t] \in InSession

\* A thread that goes on keeps the client and the box of its session.
LEMMA SessionsGoOn ==
  ASSUME Sane, NEW t, NEW l, NEW j, Goes(t, l, j), at[t] # "stuck"
  PROVE  /\ \A u \in threads : at'[u] \in InSession =>
               job'[u].client = job[u].client /\ job'[u].box = job[u].box
         /\ \A u \in threads \ {t} : at'[u] = at[u]
         /\ \A p, n : \A u \in threads \ {t} : ServesBox(u, p, n) => ServesBox(u, p, n)'
         /\ Continues(t) =>
              \A p, n : p \in failed \/ (\E u \in threads : ServesBox(u, p, n))
                => p \in failed' \/ (\E u \in threads' : ServesBox(u, p, n)')
<1>1. /\ t \in Threads /\ t \in threads /\ at'[t] = l /\ job'[t] = j /\ threads' = threads
      /\ threads \subseteq Threads /\ \A u \in Threads \ {t} : at'[u] = at[u] /\ job'[u] = job[u]
      /\ failed \subseteq failed'
      /\ l # "idle" => j.client = job[t].client /\ j.box = job[t].box
  BY OthersStay DEF Goes
<1>2. "idle" \notin InSession \cup {"stuck"}
  BY DEF InSession
<1>3. \A u \in threads : at'[u] \in InSession =>
        job'[u].client = job[u].client /\ job'[u].box = job[u].box
  BY <1>1, <1>2
<1>4. \A p, n : \A u \in threads \ {t} : ServesBox(u, p, n) => ServesBox(u, p, n)'
  BY <1>1 DEF ServesBox
<1>5. ASSUME Continues(t), NEW p, NEW n, p \in failed \/ \E u \in threads : ServesBox(u, p, n)
      PROVE  p \in failed' \/ \E u \in threads' : ServesBox(u, p, n)'
  <2>1. CASE p \in failed
    BY <1>1, <2>1
  <2>2. CASE p \notin failed
    <3>1. PICK u \in threads : ServesBox(u, p, n)
      BY <1>5, <2>2
    <3>2. CASE u = t
      <4>1. at[t] \in InSession /\ job[t].client = p /\ job[t].box = n
        BY <3>1, <3>2 DEF ServesBox
      <4>2. l \in InSession \cup {"stuck"} => ServesBox(t, p, n)'
        BY <1>1, <1>2, <4>1 DEF ServesBox
      <4> QED BY <1>1, <1>5, <4>1, <4>2 DEF Continues
    <3> QED BY <1>1, <1>4, <3>1, <3>2
  <2> QED BY <2>1, <2>2
<1> QED BY <1>1, <1>3, <1>4, <1>5

\* A step that puts no box and no publisher into the list.
LEMMA OldBoxesKnown ==
  ASSUME Sane, PublishersKnown, NEW t, NEW l, NEW j, Goes(t, l, j), at[t] # "stuck", Continues(t),
         created' = created, \A k \in DOMAIN box_list' : FromBefore(k)
  PROVE  PublishersKnown'
<1>1. process = "up" /\ threads' = threads /\ t \in threads
  BY DEF Goes
<1>2. \A u \in threads : at'[u] \in InSession =>
        at[u] \in InSession /\ job'[u].client = job[u].client /\ job'[u].box = job[u].box
  <2>1. /\ \A u \in threads : at'[u] \in InSession =>
             job'[u].client = job[u].client /\ job'[u].box = job[u].box
        /\ \A u \in threads \ {t} : at'[u] = at[u]
    BY SessionsGoOn
  <2> QED BY <2>1 DEF Continues
<1>5. \A p, n : p \in failed \/ (\E u \in threads : ServesBox(u, p, n))
                  => p \in failed' \/ (\E u \in threads' : ServesBox(u, p, n)')
  BY SessionsGoOn
<1>6. ASSUME NEW p, NEW n, KnownBox(p, n)
      PROVE  KnownBox(p, n)'
  BY <1>1, <1>2, <1>5, <1>6 DEF KnownBox
<1>4. ASSUME NEW k \in DOMAIN box_list'
      PROVE  KnownBox(box_list[k].publisher_named_pipe, box_list[k].box_name)'
  <2>1. PICK m \in DOMAIN box_list :
          /\ box_list'[k].box_name = box_list[m].box_name
          /\ box_list'[k].publisher_named_pipe = box_list[m].publisher_named_pipe
    BY <1>4 DEF FromBefore
  <2>2. PICK p, n : p = box_list[m].publisher_named_pipe /\ n = box_list[m].box_name
    OBVIOUS
  <2>3. KnownBox(p, n)
    BY <1>1, <2>2 DEF PublishersKnown
  <2>4. KnownBox(p, n)'
    BY <1>6, <2>3
  <2>5. box_list'[k].publisher_named_pipe = p /\ box_list'[k].box_name = n
    BY <2>1, <2>2
  <2> QED BY <2>4, <2>5 DEF KnownBox, ServesBox
<1>3. \A u \in threads' : at'[u] \in InSession => created'[job'[u].box] > 0
  BY <1>1, <1>2 DEF PublishersKnown
<1> QED BY <1>3, <1>4 DEF PublishersKnown

\* A box is created: nobody is in a session on it.
LEMMA NewBoxKnown ==
  ASSUME Sane, PublishersKnown, NEW t, NEW l, NEW j, Goes(t, l, j), BoxCreated(t)
  PROVE  PublishersKnown'
<1> DEFINE new == job[t].box
<1>1. process = "up" /\ threads' = threads /\ t \in threads /\ BoxesFit
  BY DEF Goes, Sane
<1>2. at[t] # "stuck" /\ Continues(t)
  BY DEF BoxCreated, Continues, InSession
<1>3. \A u \in threads : at'[u] \in InSession =>
        at[u] \in InSession /\ job'[u].client = job[u].client /\ job'[u].box = job[u].box
  <2>1. /\ \A u \in threads : at'[u] \in InSession =>
             job'[u].client = job[u].client /\ job'[u].box = job[u].box
        /\ \A u \in threads \ {t} : at'[u] = at[u]
    BY <1>2, SessionsGoOn
  <2> QED BY <1>2, <2>1 DEF Continues
<1>4. \A p, n : p \in failed \/ (\E u \in threads : ServesBox(u, p, n))
                  => p \in failed' \/ (\E u \in threads' : ServesBox(u, p, n)')
  BY <1>2, SessionsGoOn
<1>5. /\ new \in Boxes /\ find_box_by_name(new) = 0 /\ box_list' = Inserted(new)
      /\ created' = [created EXCEPT ![new] = @ + 1]
  BY DEF BoxCreated
<1> HIDE DEF new
<1>6. /\ created'[new] = created[new] + 1 /\ created[new] \in Nat
      /\ \A n \in Boxes \ {new} : created'[n] = created[n]
      /\ \A n \in Boxes : created[n] \in Nat
  BY <1>1, <1>5, InsertedFits DEF BoxesFit
<1>7. /\ \A k \in DOMAIN box_list' :
           box_list'[k] = NewBox(new) \/ \E m \in DOMAIN box_list : box_list'[k] = box_list[m]
      /\ \A m \in DOMAIN box_list : box_list[m].box_name \in Boxes \ {new}
  <2>1. \A m \in DOMAIN box_list : box_list[m].box_name # new
    BY <1>1, <1>5, FindBox DEF BoxesFit
  <2>2. \A m \in DOMAIN box_list : box_list[m].box_name \in Boxes
    <3>1. \A m \in DOMAIN box_list : box_list[m] \in BoxRecords
      BY <1>1, BoxIs DEF BoxesFit
    <3> QED BY <3>1 DEF BoxRecords
  <2> QED BY <1>1, <1>5, <2>1, <2>2, BoxInserted
<1>8. ASSUME NEW u \in threads, at[u] \in InSession PROVE created[job[u].box] > 0 /\ job[u].box \in Boxes
  <2>1. job[u].box \in Boxes
    BY <1>8, SessionClient
  <2> QED BY <1>1, <1>8, <2>1 DEF PublishersKnown
<1>9. ASSUME NEW p, NEW n \in Boxes \ {new}, KnownBox(p, n)
      PROVE  KnownBox(p, n)'
  BY <1>1, <1>3, <1>4, <1>6, <1>9 DEF KnownBox
<1>10. ASSUME NEW n, n = new PROVE KnownBox(NoClient, n)'
  <2>1. ASSUME created'[new] = 1, NEW u \in threads, at'[u] \in InSession, job'[u].box = new
        PROVE  FALSE
    <3> DEFINE x == created[new]
    <3>1. x > 0
      BY <1>3, <1>8, <2>1
    <3>2. x + 1 = 1 /\ x \in Nat
      BY <1>6, <2>1
    <3> HIDE DEF x
    <3> QED BY <3>1, <3>2
  <2> QED BY <1>1, <1>10, <2>1 DEF KnownBox
<1>11. ASSUME NEW k \in DOMAIN box_list'
       PROVE  KnownBox(box_list[k].publisher_named_pipe, box_list[k].box_name)'
  <2>1. CASE box_list'[k] = NewBox(new)
    <3>1. box_list'[k].publisher_named_pipe = NoClient /\ box_list'[k].box_name = new
      BY <2>1 DEF NewBox
    <3>2. PICK n : n = new
      OBVIOUS
    <3>3. KnownBox(NoClient, n)'
      BY <1>10, <3>2
    <3> QED BY <3>1, <3>2, <3>3 DEF KnownBox, ServesBox
  <2>2. CASE \E m \in DOMAIN box_list : box_list'[k] = box_list[m]
    <3>1. PICK m \in DOMAIN box_list : box_list'[k] = box_list[m]
      BY <2>2
    <3>2. PICK p, n : p = box_list[m].publisher_named_pipe /\ n = box_list[m].box_name
      OBVIOUS
    <3>3. KnownBox(p, n) /\ n \in Boxes \ {new}
      BY <1>1, <1>7, <3>2 DEF PublishersKnown
    <3>4. KnownBox(p, n)'
      BY <1>9, <3>3
    <3>5. box_list'[k].publisher_named_pipe = p /\ box_list'[k].box_name = n
      BY <3>1, <3>2
    <3> QED BY <3>4, <3>5 DEF KnownBox, ServesBox
  <2> QED BY <1>7, <2>1, <2>2
<1>12. ASSUME NEW u \in threads, at'[u] \in InSession PROVE created'[job'[u].box] > 0
  <2> DEFINE n == job[u].box
             x == created[n]
             y == created'[n]
  <2>1. x > 0 /\ n \in Boxes /\ job'[u].box = n
    BY <1>3, <1>8, <1>12
  <2>2. y = x \/ y = x + 1
    BY <1>6, <2>1
  <2>3. x \in Nat
    BY <1>6, <2>1
  <2> HIDE DEF x, y, n
  <2>4. y > 0
    BY <2>1, <2>2, <2>3
  <2> QED BY <2>1, <2>4 DEF y
<1> QED BY <1>1, <1>11, <1>12 DEF PublishersKnown

\* A publisher's session begins, on a box that has none.
LEMMA BeginKnown ==
  ASSUME Sane, PublishersKnown, NEW t, NEW l, NEW j, Goes(t, l, j), NEW i, OneBox(i),
         created' = created, box_list[i].box_name = job[t].box,
         at[t] = "publish", at'[t] = "publisher open",
         box_list[i].publisher_named_pipe = NoClient,
         box_list'[i].publisher_named_pipe = job[t].client
  PROVE  PublishersKnown'
<1> DEFINE c == job[t].client
           new == job[t].box
<1>1. /\ process = "up" /\ threads' = threads /\ t \in threads /\ BoxesFit /\ t \in Threads
      /\ threads \subseteq Threads
      /\ \A u \in Threads \ {t} : at'[u] = at[u] /\ job'[u] = job[u]
      /\ job'[t].client = c /\ job'[t].box = new /\ failed \subseteq failed'
  <2>1. l = "publisher open" /\ job'[t] = j /\ \A u \in Threads \ {t} : at'[u] = at[u] /\ job'[u] = job[u]
    BY OthersStay
  <2> QED BY <2>1, OthersStay DEF Goes, Sane
<1>2. /\ i \in DOMAIN box_list /\ DOMAIN box_list' = DOMAIN box_list
      /\ box_list'[i].box_name = new
      /\ \A k \in DOMAIN box_list \ {i} : box_list'[k] = box_list[k] /\ box_list[k].box_name # new
  BY <1>1 DEF OneBox, BoxesFit
<1>3. "publisher open" \in InSession /\ "publish" \notin InSession /\ "publish" # "stuck"
  BY DEF InSession
<1>4. ASSUME NEW p, NEW n, KnownBox(p, n), n # new
      PROVE  KnownBox(p, n)'
  <2>1. \A u \in threads : ServesBox(u, p, n) => ServesBox(u, p, n)'
    BY <1>1, <1>4 DEF ServesBox
  <2>2. \A u \in threads' : at'[u] \in InSession /\ job'[u].box = n
                              => at[u] \in InSession /\ job[u].box = n /\ job'[u].client = job[u].client
    BY <1>1, <1>4
  <2> QED BY <1>1, <1>4, <2>1, <2>2 DEF KnownBox
<1>5. KnownBox(NoClient, new)
  BY <1>1, <1>2 DEF PublishersKnown
<1> HIDE DEF c, new
<1>6. ASSUME NEW p, NEW n, p = c, n = new PROVE KnownBox(p, n)'
  <2>1. ServesBox(t, p, n)'
    BY <1>1, <1>3, <1>6 DEF ServesBox
  <2>2. ASSUME created'[n] = 1, NEW u \in threads', at'[u] \in InSession, job'[u].box = n
        PROVE  job'[u].client = p
    <3>1. CASE u = t
      BY <1>1, <1>6, <3>1
    <3>2. CASE u # t
      <4>1. at[u] \in InSession /\ job[u].box = new /\ u \in threads /\ created[new] = 1
        BY <1>1, <1>6, <2>2, <3>2
      <4>2. job[u].client = NoClient
        BY <1>5, <4>1 DEF KnownBox
      <4> QED BY <4>1, <4>2, SessionClient
    <3> QED BY <3>1, <3>2
  <2> QED BY <1>1, <2>1, <2>2 DEF KnownBox
<1>7. ASSUME NEW k \in DOMAIN box_list'
      PROVE  KnownBox(box_list[k].publisher_named_pipe, box_list[k].box_name)'
  <2>1. PICK p, n : p = box_list'[k].publisher_named_pipe /\ n = box_list'[k].box_name
    OBVIOUS
  <2>2. KnownBox(p, n)'
    <3>1. CASE k = i
      BY <1>2, <1>6, <2>1, <3>1 DEF c
    <3>2. CASE k # i
      <4>1. KnownBox(p, n) /\ n # new
        BY <1>1, <1>2, <1>7, <2>1, <3>2 DEF PublishersKnown
      <4> QED BY <1>4, <4>1
    <3> QED BY <3>1, <3>2
  <2> QED BY <2>1, <2>2 DEF KnownBox, ServesBox
<1>8. ASSUME NEW u \in threads, at'[u] \in InSession PROVE created'[job'[u].box] > 0
  <2>1. CASE u = t
    BY <1>1, <1>2, <2>1 DEF BoxesFit, new
  <2>2. CASE u # t
    BY <1>1, <1>8, <2>2 DEF PublishersKnown
  <2> QED BY <2>1, <2>2
<1> QED BY <1>1, <1>7, <1>8 DEF PublishersKnown

\* A publisher's session ends, and the box is free.
LEMMA EndKnown ==
  ASSUME Sane, Singles, PublishersKnown, NEW t, NEW l, NEW j, Goes(t, l, j), NEW i, OneBox(i),
         created' = created, box_list[i].box_name = job[t].box,
         at[t] = "listening", at'[t] = "idle",
         box_list[i].publisher_named_pipe = job[t].client,
         box_list'[i].publisher_named_pipe = NoClient
  PROVE  PublishersKnown'
<1> DEFINE c == job[t].client
           new == job[t].box
<1>1. /\ process = "up" /\ threads' = threads /\ t \in threads /\ BoxesFit /\ t \in Threads
      /\ threads \subseteq Threads
      /\ \A u \in Threads \ {t} : at'[u] = at[u] /\ job'[u] = job[u]
      /\ failed \subseteq failed'
  BY OthersStay DEF Goes, Sane
<1>2. /\ i \in DOMAIN box_list /\ DOMAIN box_list' = DOMAIN box_list
      /\ box_list'[i].box_name = new
      /\ \A k \in DOMAIN box_list \ {i} : box_list'[k] = box_list[k] /\ box_list[k].box_name # new
  BY <1>1 DEF OneBox, BoxesFit
<1>3. "listening" \in InSession /\ "idle" \notin InSession
  BY DEF InSession
<1>4. \A u \in threads : at'[u] \in InSession => u # t /\ at[u] \in InSession /\ job'[u] = job[u]
  BY <1>1, <1>3
<1>5. ASSUME NEW p, NEW n, KnownBox(p, n), n # new
      PROVE  KnownBox(p, n)'
  <2>1. \A u \in threads : ServesBox(u, p, n) => ServesBox(u, p, n)'
    BY <1>1, <1>5 DEF ServesBox
  <2> QED BY <1>1, <1>4, <1>5, <2>1 DEF KnownBox
<1>6. KnownBox(c, new) /\ c \in Clients \ Subscribers
  BY <1>1, <1>2, <1>3, SessionClient DEF PublishersKnown
<1> HIDE DEF new
<1>7. ASSUME NEW n, n = new PROVE KnownBox(NoClient, n)'
  <2>1. ASSUME created'[n] = 1, NEW u \in threads', at'[u] \in InSession, job'[u].box = n
        PROVE  FALSE
    <3>1. u \in threads /\ u # t /\ at[u] \in InSession /\ job[u].box = new /\ created[new] = 1
      BY <1>1, <1>4, <1>7, <2>1
    <3>2. job[u].client = c
      BY <1>6, <3>1 DEF KnownBox
    <3> QED BY <1>1, <1>6, <3>1, <3>2, OneServes
  <2> QED BY <1>1, <2>1 DEF KnownBox
<1>8. ASSUME NEW k \in DOMAIN box_list'
      PROVE  KnownBox(box_list[k].publisher_named_pipe, box_list[k].box_name)'
  <2>1. PICK p, n : p = box_list'[k].publisher_named_pipe /\ n = box_list'[k].box_name
    OBVIOUS
  <2>2. KnownBox(p, n)'
    <3>1. CASE k = i
      <4>1. p = NoClient /\ n = new
        BY <1>2, <2>1, <3>1
      <4> QED BY <1>7, <4>1
    <3>2. CASE k # i
      <4>1. KnownBox(p, n) /\ n # new
        BY <1>1, <1>2, <1>8, <2>1, <3>2 DEF PublishersKnown
      <4> QED BY <1>5, <4>1
    <3> QED BY <3>1, <3>2
  <2> QED BY <2>1, <2>2 DEF KnownBox, ServesBox
<1>9. \A u \in threads' : at'[u] \in InSession => created'[job'[u].box] > 0
  BY <1>1, <1>4 DEF PublishersKnown
<1> QED BY <1>8, <1>9 DEF PublishersKnown

\* A step of a handler.
LEMMA ActsPublishers ==
  ASSUME Sane, Singles, PublishersKnown, NEW t, Acts(t), Lists(t), process' = "up"
  PROVE  PublishersKnown'
<1>1. PICK l, j : Goes(t, l, j)
  BY DEF Acts
<1>2. at[t] # "stuck" /\ BoxesFit /\ DOMAIN box_list' = DOMAIN box_list'
  BY DEF Lists, Sane
<1>3. CASE ListKept(t)
  <2>1. Continues(t) /\ created' = created
    BY <1>3 DEF ListKept, Continues
  <2>2. \A k \in DOMAIN box_list' : FromBefore(k)
    BY <1>3 DEF ListKept, FromBefore
  <2> QED BY <1>1, <1>2, <2>1, <2>2, OldBoxesKnown
<1>4. CASE BoxCreated(t)
  BY <1>1, <1>4, NewBoxKnown
<1>5. CASE BoxRemoved(t)
  <2>1. Continues(t) /\ created' = created
    BY <1>5 DEF BoxRemoved, Continues, InSession
  <2>2. \A k \in DOMAIN box_list' : FromBefore(k)
    <3>1. PICK i \in DOMAIN box_list : box_list' = RemoveAt(box_list, i)
      BY <1>5 DEF BoxRemoved
    <3>2. \A k \in DOMAIN box_list' : \E m \in DOMAIN box_list : box_list'[k] = box_list[m]
      BY <1>2, <3>1, BoxTakenOut
    <3> QED BY <3>2 DEF FromBefore
  <2> QED BY <1>1, <1>2, <2>1, <2>2, OldBoxesKnown
<1>6. ASSUME NEW i, BoxUsed(t, i)
      PROVE  PublishersKnown'
  <2>1. OneBox(i) /\ created' = created /\ box_list[i].box_name = job[t].box
    BY <1>6 DEF BoxUsed
  <2>2. CASE at[t] = "publish"
    <3>1. /\ at'[t] = "publisher open" /\ box_list[i].publisher_named_pipe = NoClient
          /\ box_list'[i].publisher_named_pipe = job[t].client
      BY <1>6, <2>2 DEF BoxUsed
    <3> QED BY <1>1, <2>1, <2>2, <3>1, BeginKnown
  <2>3. CASE at[t] = "listening"
    <3>1. /\ at'[t] = "idle" /\ box_list[i].publisher_named_pipe = job[t].client
          /\ box_list'[i].publisher_named_pipe = NoClient
      BY <1>6, <2>3 DEF BoxUsed
    <3> QED BY <1>1, <2>1, <2>3, <3>1, EndKnown
  <2>4. CASE at[t] \in {"append", "subscribe"}
    <3>1. /\ \/ at[t] = "append" /\ at'[t] = "unlock"
             \/ at[t] = "subscribe" /\ at'[t] \in {"stuck", "idle", "replay open"}
          /\ box_list'[i].publisher_named_pipe = box_list[i].publisher_named_pipe
      BY <1>6, <2>4 DEF BoxUsed
    <3>2. Continues(t)
      BY <3>1 DEF Continues, InSession
    <3>3. \A k \in DOMAIN box_list' : FromBefore(k)
      BY <2>1, <3>1 DEF OneBox, FromBefore
    <3> QED BY <1>1, <1>2, <2>1, <3>2, <3>3, OldBoxesKnown
  <2> QED BY <1>6, <2>2, <2>3, <2>4 DEF BoxUsed
<1> QED BY <1>3, <1>4, <1>5, <1>6 DEF Lists

\* Every step keeps publishers and boxes in agreement.
LEMMA PublisherSteps ==
  ASSUME Sane, Singles, PublishersKnown, [Next]_vars
  PROVE  PublishersKnown'
<1>1. CASE \E t \in Threads : Thread(t)
  <2>1. PICK t \in Threads : Thread(t)
    BY <1>1
  <2>2. ASSUME NEW d, NEW l, NEW j, Takes(t, d, l, j)
        PROVE  PublishersKnown'
    <3>1. /\ process = "up" /\ t \in threads /\ at[t] = "idle" /\ t \in Threads
          /\ UNCHANGED <<threads, box_list, created, failed>> /\ threads \subseteq Threads
          /\ \A u \in Threads \ {t} : at'[u] = at[u] /\ job'[u] = job[u]
          /\ at'[t] = l /\ l \notin InSession
      BY <2>2 DEF Takes, Sane, ThreadsFit, Fresh, InSession
    <3>2. \A p, n : \A u \in threads : ServesBox(u, p, n) => ServesBox(u, p, n)'
      BY <3>1 DEF ServesBox, InSession
    <3>3. \A u \in threads : at'[u] \in InSession => at[u] \in InSession /\ job'[u] = job[u]
      BY <3>1
    <3>4. ASSUME NEW p, NEW n, KnownBox(p, n) PROVE KnownBox(p, n)'
      BY <3>1, <3>2, <3>3, <3>4 DEF KnownBox
    <3>5. ASSUME NEW k \in DOMAIN box_list'
          PROVE  KnownBox(box_list[k].publisher_named_pipe, box_list[k].box_name)'
      <4>1. PICK p, n : p = box_list[k].publisher_named_pipe /\ n = box_list[k].box_name
        OBVIOUS
      <4>2. KnownBox(p, n)'
        BY <3>1, <3>4, <3>5, <4>1 DEF PublishersKnown
      <4> QED BY <3>1, <4>1, <4>2 DEF KnownBox, ServesBox
    <3> QED BY <3>1, <3>3, <3>5 DEF PublishersKnown
  <2>3. process' # "up" => PublishersKnown'
    BY DEF PublishersKnown
  <2> QED BY <2>1, <2>2, <2>3, ThreadLists, ActsPublishers
<1>2. CASE BesideBroker \/ UNCHANGED vars
  <2>1. UNCHANGED <<process, threads, at, job, box_list, created, failed>>
    BY <1>2 DEF BesideBroker, vars, brokerVars
  <2> QED BY <2>1 DEF PublishersKnown, KnownBox, ServesBox
<1> QED BY <1>1, <1>2 DEF Next

\* They always agree.
LEMMA AlwaysKnown == Spec => []PublishersKnown
<1>1. Init => PublishersKnown
  <2> SUFFICES ASSUME Init PROVE PublishersKnown
    OBVIOUS
  <2>1. box_list = <<>> /\ DOMAIN <<>> = {} /\ \A t \in threads : at[t] \notin InSession
    <3>1. threads \subseteq Threads /\ at = [t \in Threads |-> "idle"] /\ "idle" \notin InSession
      BY DEF Init, Threads, InSession
    <3> QED BY <3>1, EmptySeq, LenProperties DEF Init
  <2> QED BY <2>1 DEF PublishersKnown
<1>2. Sane /\ Singles /\ PublishersKnown /\ [Next]_vars => PublishersKnown'
  BY PublisherSteps
<1> QED BY <1>1, <1>2, AlwaysSane, AlwaysSingle, PTL DEF Spec

\* PublishersAccounted is part of that.
LEMMA KnownPublishers ==
  ASSUME PublishersKnown
  PROVE  PublishersAccounted
<1> SUFFICES ASSUME process = "up", NEW i \in DOMAIN box_list
             PROVE  LET p == box_list[i].publisher_named_pipe
                        n == box_list[i].box_name
                        serving == {t \in threads : at[t] \in InSession /\ job[t].box = n}
                    IN  /\ p # NoClient =>
                             \/ p \in failed
                             \/ \E t \in threads : job[t].client = p /\ at[t] \in InSession \cup {"stuck"}
                        /\ created[n] = 1 => \A t \in serving : job[t].client = p
  BY DEF PublishersAccounted
<1>1. KnownBox(box_list[i].publisher_named_pipe, box_list[i].box_name)
  BY DEF PublishersKnown
<1> QED BY <1>1 DEF KnownBox, ServesBox

\* A box has a publisher exactly while a thread is in that one's session, or the
\* session failed or hangs, unless the box was removed and created again.
THEOREM PublishersAreAccounted == Spec => []PublishersAccounted
BY AlwaysKnown, KnownPublishers, PTL

-----------------------------------------------------------------------------
(* Listings                                                                    *)

\* What a listing has sent when it has sent n boxes.
Sent(n) == [i \in 1 .. n |-> create_listing_message(i)]

\* What a handler that lists boxes does to the pipe of its client.
Tells(t) ==
  LET c == job[t].client
      i == Len(job[t].todo) + 1
  IN  \/ process' # "up"
      \/ at'[t] \notin {"list open", "list lock", "listing"}
      \/ at[t] = "list open" /\ at'[t] = "list lock" /\ pipe' = pipe
      \/ at[t] = "list lock" /\ at'[t] = "listing" /\ pipe' = pipe /\ job' = job
      \/ /\ at[t] = "listing" /\ at'[t] = "listing"
         /\ pipe'[c] = Append(pipe[c], create_listing_message(i))
         /\ job'[t].todo = Append(job[t].todo, i)

\* Managers' pipes are empty before the listing; then they have the boxes it is at.
ListingsKnown ==
  process = "up" =>
    /\ \A m \in Managers : Asked(m) # {} => pipe[m] = <<>>
    /\ \A t \in threads : at[t] \in {"list open", "list lock"} => pipe[job[t].client] = <<>>
    /\ \A t \in threads : at[t] = "listing" =>
         \A n \in {Len(job[t].todo)} : pipe[job[t].client] = Sent(n)

\* The messages are those of the list.
LEMMA SameList ==
  ASSUME UNCHANGED box_list, NEW n
  PROVE  Sent(n)' = Sent(n)
BY DEF Sent, create_listing_message

\* One more message.
LEMMA OneMoreSent ==
  ASSUME NEW n \in Nat, NEW f, NEW p, p = [i \in 1 .. n |-> f[i]]
  PROVE  Append(p, f[n + 1]) = [i \in 1 .. n + 1 |-> f[i]]
<1> DEFINE S == {f[i] : i \in 1 .. n + 1}
           x == f[n + 1]
           q == Append(p, x)
           r == [i \in 1 .. n + 1 |-> f[i]]
<1>1. p \in [1 .. n -> S] /\ x \in S /\ r \in [1 .. n + 1 -> S]
  OBVIOUS
<1>2. \A i \in 1 .. n + 1 : r[i] = f[i]
  OBVIOUS
<1>3. \A i \in 1 .. n : p[i] = f[i]
  OBVIOUS
<1> HIDE DEF S
<1>4. p \in Seq(S) /\ Len(p) = n
  BY <1>1, SeqDef, LenProperties
<1>5. /\ q \in Seq(S) /\ Len(q) = n + 1
      /\ \A i \in 1 .. n : q[i] = p[i]
      /\ q[n + 1] = x
  BY <1>1, <1>4, AppendProperties
<1> HIDE DEF q, r
<1>6. \A i \in 1 .. n + 1 : q[i] = r[i]
  <2>1. \A i \in 1 .. n + 1 : i \in 1 .. n \/ i = n + 1
    OBVIOUS
  <2> QED BY <1>2, <1>3, <1>5, <2>1
<1>7. q \in [1 .. n + 1 -> S] /\ r \in [1 .. n + 1 -> S]
  BY <1>1, <1>5, LenProperties
<1> QED BY <1>6, <1>7 DEF q, r

\* Nothing is sent at first.
LEMMA NoneSent == Sent(0) = <<>>
<1> DEFINE s == Sent(0)
<1>1. s \in [1 .. 0 -> {}]
  BY DEF Sent
<1> HIDE DEF s
<1>2. s \in Seq({}) /\ Len(s) = 0
  BY <1>1, SeqDef, LenProperties
<1>3. s = <<>>
  BY <1>2, EmptySeq
<1> QED BY <1>3 DEF s

\* A listing that goes on sends the next box.
LEMMA SentGrows ==
  ASSUME NEW n \in Nat
  PROVE  Append(Sent(n), create_listing_message(n + 1)) = Sent(n + 1)
<1> DEFINE f == [i \in Nat |-> create_listing_message(i)]
           p == Sent(n)
<1>1. p = [i \in 1 .. n |-> f[i]] /\ f[n + 1] = create_listing_message(n + 1)
  BY DEF Sent
<1>2. Sent(n + 1) = [i \in 1 .. n + 1 |-> f[i]]
  BY DEF Sent
<1> HIDE DEF f, p
<1>3. Append(p, f[n + 1]) = [i \in 1 .. n + 1 |-> f[i]]
  BY <1>1, OneMoreSent
<1> QED BY <1>1, <1>2, <1>3 DEF p

\* Handlers that have nothing to do with listings.
LEMMA OthersTell ==
  ASSUME Sane, NEW t, NEW l, At(t, l),
         \/ \E next \in Labels \ {"list open", "list lock", "listing"} : Steps(t, next)
         \/ Fails(t) \/ Returns(t)
         \/ \E how \in {"killed", "crashed", "undefined"} : Dies(how)
  PROVE  Tells(t)
BY Moves DEF Tells

\* The steps that answer managers, and those that only change the list.
LEMMA ManagersTell ==
  ASSUME Sane, NEW t,
         \/ create_box_command(t) \/ remove_box_command(t) \/ AnswerOpen(t) \/ AnswerWrite(t)
         \/ register_publisher_command(t) \/ remove_publisher_command(t) \/ AppendSize(t)
         \/ register_subscriber_command(t)
  PROVE  Tells(t)
<1>1. /\ "stuck" \in Labels /\ "answer open" \in Labels /\ "answer write" \in Labels
      /\ "publisher open" \in Labels /\ "unlock" \in Labels /\ "replay open" \in Labels
  BY DEF Labels, Inside, InSession
<1>2. \E l \in Labels : At(t, l)
  BY DEF Labels, Inside, InSession, create_box_command, remove_box_command, AnswerOpen,
         AnswerWrite, register_publisher_command, remove_publisher_command, AppendSize,
         register_subscriber_command
<1>3. CASE create_box_command(t) \/ remove_box_command(t)
  <2>1. (\E op, ret : Answers(t, op, ret)) \/ Steps(t, "stuck") \/ Fails(t) \/ Dies("undefined")
    BY <1>3 DEF create_box_command, remove_box_command, StuckInside
  <2> QED BY <1>1, <1>2, <2>1, OthersTell DEF Answers
<1>4. CASE AnswerOpen(t) \/ AnswerWrite(t)
  <2>1. \/ Steps(t, "answer write") \/ Steps(t, "stuck") \/ Fails(t) \/ Returns(t)
        \/ Dies("killed")
    BY <1>4 DEF AnswerOpen, AnswerWrite, OpenToWrite, BrokenPipe
  <2> QED BY <1>1, <1>2, <2>1, OthersTell
<1>5. CASE register_publisher_command(t) \/ remove_publisher_command(t) \/ AppendSize(t)
  <2>1. \/ Steps(t, "publisher open") \/ Steps(t, "unlock") \/ Fails(t) \/ Returns(t)
        \/ Dies("undefined") \/ Dies("crashed")
    BY <1>5 DEF register_publisher_command, remove_publisher_command, AppendSize
  <2> QED BY <1>1, <1>2, <2>1, OthersTell
<1>6. CASE register_subscriber_command(t)
  <2>1. Fails(t) \/ Steps(t, "stuck") \/ Steps(t, "replay open") \/ Dies("undefined")
    BY <1>6 DEF register_subscriber_command
  <2> QED BY <1>1, <1>2, <2>1, OthersTell
<1> QED BY <1>3, <1>4, <1>5, <1>6

\* The steps of sessions tell managers nothing.
LEMMA SessionsTell ==
  ASSUME Sane, NEW t,
         \/ PublisherOpen(t) \/ read_publisher_pipe_input(t) \/ Store(t) \/ CloseBox(t)
         \/ StrayUnlock(t) \/ ReplayOpen(t) \/ ReplayWrite(t) \/ FloodOpen(t) \/ FloodWrite(t)
  PROVE  Tells(t)
<1>1. \A n \in {"listening", "stuck", "store", "close", "append", "replay open", "replay write",
                "flood open", "flood write"} :
        n \in Labels \ {"list open", "list lock", "listing"}
  BY DEF Labels, Inside, InSession
<1>2. \E l : At(t, l)
  BY DEF PublisherOpen, read_publisher_pipe_input, Store, CloseBox, StrayUnlock, ReplayOpen,
         ReplayWrite, FloodOpen, FloodWrite
<1>3. \/ \E next \in {"listening", "stuck", "store", "close", "append", "replay open",
                      "replay write", "flood open", "flood write"} : Steps(t, next)
      \/ Fails(t) \/ Dies("undefined") \/ Dies("killed") \/ Dies("crashed")
  <2>1. CASE PublisherOpen(t) \/ read_publisher_pipe_input(t) \/ Store(t) \/ CloseBox(t) \/ StrayUnlock(t)
    BY <2>1 DEF PublisherOpen, read_publisher_pipe_input, Store, CloseBox, StrayUnlock
  <2>2. CASE ReplayOpen(t) \/ ReplayWrite(t) \/ FloodOpen(t) \/ FloodWrite(t)
    BY <2>2 DEF ReplayOpen, ReplayWrite, FloodOpen, FloodWrite, OpenToWrite, BrokenPipe
  <2> QED BY <2>1, <2>2
<1> QED BY <1>1, <1>2, <1>3, OthersTell

\* The steps of a listing tell one manager one box at a time.
LEMMA ListingTells ==
  ASSUME Sane, NEW t, ListOpen(t) \/ ListLock(t) \/ ListWrite(t)
  PROVE  Tells(t)
<1> DEFINE c == job[t].client
           i == Len(job[t].todo) + 1
           message == create_listing_message(i)
<1>1. CASE ListOpen(t)
  <2>1. At(t, "list open") /\ pipe' = pipe
    BY <1>1 DEF ListOpen, OpenToWrite, fifoVars
  <2>2. Steps(t, "list lock") \/ Steps(t, "stuck") \/ Fails(t)
    BY <1>1 DEF ListOpen, OpenToWrite
  <2> QED BY <2>1, <2>2, Moves DEF Tells
<1>2. CASE ListLock(t)
  <2>1. At(t, "list lock") /\ Steps(t, "listing") /\ job' = job /\ pipe' = pipe
    BY <1>2 DEF ListLock, NoPipes, clientVars
  <2> QED BY <2>1, Moves DEF Tells
<1>3. CASE ListWrite(t)
  <2>1. At(t, "listing") /\ c \in Clients
    <3>1. At(t, "listing")
      BY <1>3 DEF ListWrite
    <3> QED BY <3>1, ThreadAt
  <2>2. \/ Dies("killed") \/ Returns(t)
        \/ /\ Sends(t, message) /\ job' = [job EXCEPT ![t].todo = Append(@, i)]
           /\ Steps(t, "listing")
    BY <1>3 DEF ListWrite, BrokenPipe
  <2>3. CASE /\ Sends(t, message) /\ job' = [job EXCEPT ![t].todo = Append(@, i)]
             /\ Steps(t, "listing")
    <3>1. pipe' = [pipe EXCEPT ![c] = Append(@, message)]
      BY <2>3 DEF Sends
    <3>2. at[t] = "listing" /\ at'[t] = "listing" /\ t \in Threads
      BY <2>1, <2>3, Moves
    <3> HIDE DEF message, i
    <3>3. pipe'[c] = Append(pipe[c], message)
      BY <2>1, <3>1 DEF Sane, ClientsInv, FifosFit
    <3>4. job'[t].todo = Append(job[t].todo, i)
      <4>1. JobTyped(job[t]) /\ t \in DOMAIN job
        BY <2>1, <3>2, ThreadAt DEF Sane, ThreadsFit
      <4>2. job'[t] = [job[t] EXCEPT !.todo = Append(@, i)]
        BY <2>3, <4>1
      <4> DEFINE old == job[t]
      <4>3. JobTyped(old) /\ job'[t] = [old EXCEPT !.todo = Append(@, i)]
        BY <4>1, <4>2
      <4> HIDE DEF old
      <4>4. job'[t].todo = Append(old.todo, i)
        BY <4>3 DEF JobTyped
      <4> QED BY <4>4 DEF old
    <3> QED BY <3>2, <3>3, <3>4 DEF Tells, message, i
  <2>4. CASE Dies("killed") \/ Returns(t)
    BY <2>1, <2>4, OthersTell
  <2> QED BY <2>2, <2>3, <2>4
<1> QED BY <1>1, <1>2, <1>3

\* Whatever a thread does but read the register pipe.
LEMMA ThreadTells ==
  ASSUME Sane, NEW t, Thread(t), ~read_pipe_input(t)
  PROVE  Tells(t)
BY ManagersTell, SessionsTell, ListingTells DEF Thread

\* Who asks or lists is a manager that is served by one thread, or none yet.
LEMMA Asking ==
  ASSUME Sane, Singles, NEW t \in threads, job[t].client \in Managers
  PROVE  /\ Asked(job[t].client) = {}
         /\ \A u \in threads \ {t} : job[u].client # job[t].client
<1> DEFINE c == job[t].client
<1>1. c \in Clients \ Subscribers /\ t \in Minds(c)
  BY ClientsAssumption DEF Clients, Minds
<1>2. lives[c] \in Nat /\ lives[c] <= 1 /\ lives[c] # 0
  BY <1>1 DEF Singles, Sane, ClientsInv, FifosFit, FifoFits
<1>3. lives[c] = 1
  BY <1>2
<1>4. Single(c)
  BY <1>1, <1>3 DEF Singles
<1>5. Asked(c) = {}
  BY <1>1, <1>4 DEF Single
<1>6. \A u \in threads \ {t} : job[u].client # c
  <2>1. ASSUME NEW u \in threads, u # t, job[u].client = c PROVE FALSE
    <3>1. u \in Minds(c)
      BY <2>1 DEF Minds
    <3> QED BY <1>1, <1>4, <2>1, <3>1 DEF Single
  <2> QED BY <2>1
<1> QED BY <1>5, <1>6

\* Where a manager's listing is.
LEMMA ListerIs ==
  ASSUME Sane, NEW t \in threads, at[t] \in {"list open", "list lock", "listing"}
  PROVE  /\ job[t].client \in Managers /\ job[t].client \in Clients
         /\ at[t] \in {"list open", "list lock"} => job[t].todo = <<>>
         /\ at[t] = "listing" => job[t].todo \in Seq(Nat)
<1>1. Fits(at[t], job[t]) /\ at[t] \in Serving
  BY DEF Sane, ThreadsFit, Serving
<1>2. job[t].client \in Managers
  BY <1>1 DEF Fits
<1>3. /\ at[t] \in {"list open", "list lock"} => job[t].todo = <<>>
      /\ at[t] = "listing" => job[t].todo \in Seq(Nat)
  BY <1>1 DEF Fits
<1> QED BY <1>2, <1>3, Kinds

\* A step of a handler.
LEMMA ActsListings ==
  ASSUME Sane, Singles, ListingsKnown, NEW t, Acts(t), Lists(t), Tells(t), process' = "up"
  PROVE  ListingsKnown'
<1> DEFINE c == job[t].client
           n == Len(job[t].todo)
           message == create_listing_message(n + 1)
<1>1. PICK l, j : Goes(t, l, j) /\ Writes(t)
  BY DEF Acts
<1>2. /\ t \in Threads /\ t \in threads /\ threads' = threads
      /\ threads \subseteq Threads /\ \A u \in Threads \ {t} : at'[u] = at[u] /\ job'[u] = job[u]
      /\ process = "up" /\ at'[t] = l /\ job'[t] = j
      /\ l # "idle" => job'[t].client = c
  <2>1. Goes(t, l, j)
    BY <1>1
  <2>2. /\ t \in Threads /\ at'[t] = l /\ job'[t] = j
        /\ \A u \in Threads \ {t} : at'[u] = at[u] /\ job'[u] = job[u]
        /\ threads' = threads /\ threads \subseteq Threads
    BY <2>1, OthersStay
  <2>3. process = "up" /\ t \in threads
    BY <2>1 DEF Goes
  <2>4. l # "idle" => j.client = c
    BY <2>1 DEF Goes
  <2> QED BY <2>2, <2>3, <2>4
<1>3. /\ \A m \in Managers : Asked(m) # {} => pipe[m] = <<>>
      /\ \A u \in threads : at[u] \in {"list open", "list lock"} => pipe[job[u].client] = <<>>
      /\ \A u \in threads : at[u] = "listing" => pipe[job[u].client] = Sent(Len(job[u].todo))
  BY <1>2 DEF ListingsKnown
<1>4. \A m \in Managers \ {c} : pipe'[m] = pipe[m]
  BY <1>1 DEF Writes
<1>5. (\E u \in threads : at[u] = "listing") => box_list' = box_list
  BY DEF Lists, ListKept, Races
<1>6. box_list' = box_list => \A k : Sent(k)' = Sent(k)
  BY SameList
<1>11. \/ at'[t] \notin {"list open", "list lock", "listing"}
       \/ at[t] = "list open" /\ at'[t] = "list lock" /\ pipe' = pipe
       \/ at[t] = "list lock" /\ at'[t] = "listing" /\ pipe' = pipe /\ job' = job
       \/ /\ at[t] = "listing" /\ at'[t] = "listing"
          /\ pipe'[c] = Append(pipe[c], message)
          /\ job'[t].todo = Append(job[t].todo, n + 1)
  BY DEF Tells
<1> HIDE DEF c, n, message
<1>7. ASSUME NEW m \in Managers, Asked(m)' # {}
      PROVE  pipe'[m] = <<>>
  <2>1. Asked(m) # {}
    <3>1. m \in Clients
      BY Kinds
    <3> QED BY <1>1, <1>7, <3>1, GoesMinds
  <2>2. m # c
    BY <1>2, <2>1, Asking DEF c
  <2> QED BY <1>3, <1>4, <2>1, <2>2
<1>8. ASSUME NEW u \in threads, u # t, at[u] \in {"list open", "list lock", "listing"}
      PROVE  pipe'[job[u].client] = pipe[job[u].client]
  <2>1. job[u].client \in Managers
    BY <1>8, ListerIs
  <2>2. job[u].client # c
    BY <1>2, <1>8, <2>1, Asking DEF c
  <2> QED BY <1>4, <2>1, <2>2
<1>9. ASSUME NEW u \in threads, at'[u] \in {"list open", "list lock"}
      PROVE  pipe'[job'[u].client] = <<>>
  <2>1. CASE u # t
    <3>1. at'[u] = at[u] /\ job'[u] = job[u]
      BY <1>2, <2>1
    <3> QED BY <1>3, <1>8, <1>9, <2>1, <3>1
  <2>2. CASE u = t
    <3>1. at[t] = "list open" /\ pipe' = pipe /\ job'[t].client = c
      BY <1>2, <1>9, <1>11, <2>2
    <3> QED BY <1>2, <1>3, <2>2, <3>1 DEF c
  <2> QED BY <2>1, <2>2
<1>10. ASSUME NEW u \in threads, at'[u] = "listing", NEW k, k = Len(job'[u].todo)
       PROVE  pipe'[job'[u].client] = Sent(k)'
  <2>1. CASE u # t
    <3>1. at'[u] = at[u] /\ job'[u] = job[u]
      BY <1>2, <2>1
    <3>2. Sent(k)' = Sent(k)
      BY <1>5, <1>6, <1>10, <3>1
    <3>3. pipe'[job'[u].client] = Sent(k)
      BY <1>3, <1>8, <1>10, <2>1, <3>1
    <3> QED BY <3>2, <3>3
  <2>2. CASE u = t /\ at[t] = "list lock"
    <3>1. pipe' = pipe /\ job' = job
      BY <1>10, <1>11, <2>2
    <3>2. pipe[job[t].client] = <<>> /\ job[t].todo = <<>>
      BY <1>2, <1>3, <2>2, ListerIs
    <3>3. k = 0
      BY <1>10, <2>2, <3>1, <3>2, EmptySeq
    <3>4. Sent(0)' = <<>>
      <4>1. Sent(0) = <<>>
        BY NoneSent
      <4>2. 1 .. 0 = {}
        OBVIOUS
      <4>3. Sent(0)' = Sent(0)
        BY <4>2 DEF Sent
      <4> QED BY <4>1, <4>3
    <3> QED BY <2>2, <3>1, <3>2, <3>3, <3>4
  <2>3. CASE u = t /\ at[t] = "listing"
    <3>1. /\ pipe'[c] = Append(pipe[c], message) /\ job'[t].todo = Append(job[t].todo, n + 1)
          /\ job'[t].client = c
      <4>1. l # "idle"
        BY <1>2, <1>10, <2>3
      <4> QED BY <1>2, <1>10, <1>11, <2>3, <4>1
    <3>2. pipe[c] = Sent(n) /\ n \in Nat /\ k = n + 1
      <4>1. job[t].todo \in Seq(Nat)
        BY <1>2, <2>3, ListerIs
      <4>2. n \in Nat
        BY <4>1, LenProperties DEF n
      <4>3. n + 1 \in Nat /\ n = Len(job[t].todo)
        BY <4>2 DEF n
      <4>4. Len(job'[t].todo) = n + 1
        BY <3>1, <4>1, <4>3, AppendProperties
      <4> QED BY <1>2, <1>3, <1>10, <2>3, <4>2, <4>4 DEF c, n
    <3>3. pipe'[c] = Sent(k)
      BY <3>1, <3>2, SentGrows DEF message
    <3>4. Sent(k)' = Sent(k)
      BY <1>2, <1>5, <1>6, <2>3
    <3> QED BY <2>3, <3>1, <3>3, <3>4
  <2>4. u = t => at[t] = "list lock" \/ at[t] = "listing"
    BY <1>10, <1>11
  <2> QED BY <2>1, <2>2, <2>3, <2>4
<1> QED BY <1>2, <1>7, <1>9, <1>10 DEF ListingsKnown

\* A request is read: that of a manager was the only one.
LEMMA TakesListings ==
  ASSUME Sane, Singles, ListingsKnown, NEW t, NEW d, NEW l, NEW j, Takes(t, d, l, j), Singles'
  PROVE  ListingsKnown'
<1>1. /\ t \in threads /\ at[t] = "idle" /\ t \in Threads
      /\ process = "up" /\ UNCHANGED <<threads, box_list, pipe>> /\ threads \subseteq Threads
      /\ \A u \in Threads \ {t} : at'[u] = at[u] /\ job'[u] = job[u]
      /\ at'[t] = l /\ job'[t] = j /\ l \notin {"list lock", "listing"}
  BY DEF Takes, Sane, ThreadsFit, Fresh, clientVars
<1>2. /\ \A m \in Managers : Asked(m) # {} => pipe[m] = <<>>
      /\ \A u \in threads : at[u] \in {"list open", "list lock"} => pipe[job[u].client] = <<>>
      /\ \A u \in threads : at[u] = "listing" => pipe[job[u].client] = Sent(Len(job[u].todo))
  BY <1>1 DEF ListingsKnown
<1>3. /\ Len(register_pipe) \in Nat /\ d \in 1 .. Len(register_pipe)
      /\ DOMAIN register_pipe = 1 .. Len(register_pipe)
      /\ DOMAIN register_pipe' = 1 .. Len(register_pipe) - d
      /\ \A i \in 1 .. Len(register_pipe) - d :
           register_pipe'[i].client = register_pipe[i + d].client
  BY DEF Takes
<1>4. ASSUME NEW m \in Managers, Asked(m)' # {}
      PROVE  pipe'[m] = <<>>
  <2>1. PICK i \in DOMAIN register_pipe' : register_pipe'[i].client = m
    BY <1>4 DEF Asked
  <2> DEFINE n == Len(register_pipe)
  <2>2. n \in Nat /\ d \in 1 .. n /\ i \in 1 .. n - d
    BY <1>3, <2>1
  <2>3. i + d \in 1 .. n
    BY <2>2
  <2>4. register_pipe[i + d].client = m
    BY <1>3, <2>1, <2>2
  <2>5. i + d \in Asked(m)
    BY <1>3, <2>3, <2>4 DEF Asked
  <2> QED BY <1>1, <1>2, <2>5
<1>5. ASSUME l = "list open"
      PROVE  pipe[j.client] = <<>>
  <2>1. j.client = register_pipe[1].client
    BY <1>5 DEF Takes
  <2>2. j.client \in Managers
    <3>1. Fits(l, j) /\ l \in Serving
      BY <1>5 DEF Takes, Serving
    <3> QED BY <3>1 DEF Fits
  <2>3. 1 \in DOMAIN register_pipe
    <3> DEFINE n == Len(register_pipe)
    <3>1. n \in Nat /\ d \in 1 .. n
      BY <1>3
    <3> HIDE DEF n
    <3>2. 1 \in 1 .. n
      BY <3>1
    <3> QED BY <1>3, <3>2 DEF n
  <2>4. 1 \in Asked(j.client)
    BY <2>1, <2>3 DEF Asked
  <2> QED BY <1>2, <2>2, <2>4
<1>6. ASSUME NEW u \in threads, at'[u] \in {"list open", "list lock"}
      PROVE  pipe'[job'[u].client] = <<>>
  <2>1. CASE u = t
    BY <1>1, <1>5, <1>6, <2>1
  <2>2. CASE u # t
    BY <1>1, <1>2, <1>6, <2>2
  <2> QED BY <2>1, <2>2
<1>7. ASSUME NEW u \in threads, at'[u] = "listing", NEW n \in {Len(job'[u].todo)}
      PROVE  pipe'[job'[u].client] = Sent(n)'
  <2>1. u # t /\ at[u] = "listing" /\ job'[u] = job[u]
    BY <1>1, <1>7
  <2>2. Sent(n)' = Sent(n)
    BY <1>1, SameList
  <2> QED BY <1>1, <1>2, <1>7, <2>1, <2>2
<1> QED BY <1>1, <1>4, <1>6, <1>7 DEF ListingsKnown

\* A client's step: a manager that asks has an empty pipe, and nobody else changes
\* what is in a manager's.
LEMMA BesideListings ==
  ASSUME Sane, ListingsKnown, BesideBroker /\ ClientStep
  PROVE  ListingsKnown'
<1>1. process = "up" /\ UNCHANGED <<process, threads, at, job, box_list>> /\ ClientsInv
  BY DEF BesideBroker, brokerVars, Sane
<1>2. \A m \in Managers : pipe'[m] = pipe[m]
  BY BesideKeeps
<1>3. ASSUME NEW m \in Managers, Asked(m)' # {}
      PROVE  pipe'[m] = <<>>
  <2>1. CASE register_pipe' = register_pipe
    BY <1>1, <1>2, <1>3, <2>1 DEF Asked, ListingsKnown
  <2>2. CASE \E c \in Clients, code \in Kinds2, n \in Boxes :
               SignIn(c, code, n) /\ FromItsKind(code, c)
    <3>1. PICK c \in Clients, code \in Kinds2, n \in Boxes :
                 SignIn(c, code, n) /\ FromItsKind(code, c)
      BY <2>2
    <3> DEFINE k == Len(register_pipe) + 1
    <3>2. /\ pipe'[c] = <<>>
          /\ Len(register_pipe) \in Nat /\ DOMAIN register_pipe = 1 .. Len(register_pipe)
          /\ DOMAIN register_pipe' = 1 .. k
          /\ \A i \in DOMAIN register_pipe : register_pipe'[i] = register_pipe[i]
          /\ register_pipe'[k].client = c
      BY <1>1, <3>1, SignInIs
    <3>3. DOMAIN register_pipe' = DOMAIN register_pipe \cup {k}
      BY <3>2
    <3> HIDE DEF k
    <3>4. m = c \/ Asked(m) # {}
      BY <1>3, <3>2, <3>3 DEF Asked
    <3> QED BY <1>1, <1>2, <3>2, <3>4 DEF ListingsKnown
  <2> QED BY <1>1, <2>1, <2>2, ClientStepIs
<1>4. ASSUME NEW u \in threads, at[u] \in {"list open", "list lock", "listing"}
      PROVE  pipe'[job[u].client] = pipe[job[u].client]
  BY <1>2, <1>4, ListerIs
<1>5. \A n : Sent(n)' = Sent(n)
  BY <1>1, SameList
<1> QED BY <1>1, <1>3, <1>4, <1>5 DEF ListingsKnown

\* Every step keeps what managers know of their listings.
LEMMA ListingSteps ==
  ASSUME Sane, Singles, ListingsKnown, [Next]_vars, Sane', Singles'
  PROVE  ListingsKnown'
<1>1. CASE \E t \in Threads : Thread(t)
  <2>1. PICK t \in Threads : Thread(t)
    BY <1>1
  <2>2. CASE \E d, l, j : Takes(t, d, l, j)
    BY <2>2, TakesListings
  <2>3. CASE Acts(t) /\ Lists(t) /\ ~read_pipe_input(t)
    BY <2>1, <2>3, ThreadTells, ActsListings DEF ListingsKnown
  <2>4. read_pipe_input(t) => \E d, l, j : Takes(t, d, l, j)
    BY ReadIs
  <2> QED BY <2>1, <2>2, <2>3, <2>4, ThreadLists
<1>2. CASE BesideBroker /\ ClientStep
  BY <1>2, BesideListings
<1>3. CASE UNCHANGED vars
  <2>1. UNCHANGED <<process, threads, at, job, box_list, pipe, register_pipe>>
    BY <1>3 DEF vars, brokerVars, clientVars, fifoVars
  <2>2. \A n : Sent(n)' = Sent(n)
    BY <2>1, SameList
  <2> QED BY <2>1, <2>2 DEF ListingsKnown, Asked
<1> QED BY <1>1, <1>2, <1>3 DEF Next

\* It always holds.
LEMMA AlwaysListings == Spec => []ListingsKnown
<1>1. Init => ListingsKnown
  <2> SUFFICES ASSUME Init PROVE ListingsKnown
    OBVIOUS
  <2>1. register_pipe = <<>> /\ at = [t \in Threads |-> "idle"] /\ threads \subseteq Threads
    BY DEF Init, ClientsInit, Threads
  <2>2. \A m : Asked(m) = {}
    <3>1. DOMAIN <<>> = {}
      BY EmptySeq, LenProperties
    <3> QED BY <2>1, <3>1 DEF Asked
  <2> QED BY <2>1, <2>2 DEF ListingsKnown
<1>2. Sane /\ Singles /\ ListingsKnown /\ [Next]_vars /\ Sane' /\ Singles' => ListingsKnown'
  BY ListingSteps
<1> QED BY <1>1, <1>2, AlwaysSane, AlwaysSingle, PTL DEF Spec

\* What a manager has been sent is the beginning of the list as it is now: nobody
\* changes the list while it is sent (ListWrite holds box_list_mutex across all its
\* writes), nor sends to the same manager.
THEOREM ListingsAgree == Spec => []ListingAgrees
<1>1. Sane /\ ListingsKnown => ListingAgrees
  <2> SUFFICES ASSUME Sane, ListingsKnown, process = "up", NEW t \in threads, at[t] = "listing"
               PROVE  pipe[job[t].client] =
                        [i \in DOMAIN job[t].todo |-> create_listing_message(i)]
    BY DEF ListingAgrees
  <2>1. DOMAIN job[t].todo = 1 .. Len(job[t].todo)
    BY ListerIs, LenProperties
  <2>2. pipe[job[t].client] = Sent(Len(job[t].todo))
    BY DEF ListingsKnown
  <2> QED BY <2>1, <2>2 DEF Sent
<1> QED BY <1>1, AlwaysSane, AlwaysListings, PTL-----------------------------------------------------------------------------
(* Sizes: those kept for a box and the file of its name                        *)

\* Where a thread uses a handle that it has opened.
Handled == {"store", "close", "replay open", "replay write"}

\* Nobody else has the handle of a thread, which is open.
HandlesKnown ==
  process = "up" =>
    /\ \A t \in threads : at[t] \in Handled => job[t].handle \in DOMAIN fs.open_file_table
    /\ \A t, u \in threads :
         (at[t] \in Handled /\ at[u] \in Handled /\ job[t].handle = job[u].handle) => t = u

\* A listed box that was created once.
First(n) == created[n] = 1 /\ \E k \in DOMAIN box_list : box_list[k].box_name = n

\* The message that is between the file and the list, and the file of a box with
\* sizes s.
FileFits(n, i, s) ==
  /\ \A t \in OnItsWay(n) : SizeOf(fs, i) = Sum(s) + Len(job[t].data)
  /\ OnItsWay(n) = {} => SizeOf(fs, i) = Sum(s)

SizesKnown ==
  process = "up" =>
    /\ \A n \in Boxes, i \in Inumbers : FileHas(fs, n, i) /\ created[n] = 0 => SizeOf(fs, i) = 0
    /\ \A n \in Boxes : created[n] > 0 => \E i \in Inumbers : FileHas(fs, n, i)
    /\ \A t \in threads : at[t] = "store" =>
         LET file == fs.open_file_table[job[t].handle]
         IN  /\ FileHas(fs, job[t].box, file.of_inumber)
             /\ First(job[t].box) => file.of_offset = SizeOf(fs, file.of_inumber)
    /\ \A k \in DOMAIN box_list, i \in Inumbers :
         created[box_list[k].box_name] = 1 /\ FileHas(fs, box_list[k].box_name, i) =>
           FileFits(box_list[k].box_name, i, box_list[k].messages_size)

\* What a handler does to the files and to its handle: nothing,
KeepsFiles(t) ==
  /\ FilesStay(fs, fs') /\ HandlesStay(fs, fs', {})
  /\ at'[t] \notin {"store", "close", "append"} /\ at[t] # "close"
  /\ at'[t] \in Handled => at[t] = "replay open" /\ job'[t].handle = job[t].handle
  /\ at[t] = "append" =>
       (\A k \in DOMAIN box_list : box_list[k].box_name # job[t].box) \/ \E i : BoxUsed(t, i)
  /\ ~BoxCreated(t)

\* it finds or makes the file of a new box,
MakesFile(t) ==
  /\ at[t] = "create" /\ at'[t] = "answer open" /\ HandlesStay(fs, fs', {})
  /\ \/ /\ FilesStay(fs, fs')
        /\ BoxCreated(t) => \E i \in Inumbers : FileHas(fs, job[t].box, i)
     \/ FileMade(fs, fs', job[t].box)

\* it opens a box,
OpensBox(t) ==
  LET h == job'[t].handle
      file == fs'.open_file_table[h]
  IN  /\ FilesStay(fs, fs') /\ HandlesStay(fs, fs', {})
      /\ h \notin DOMAIN fs.open_file_table /\ h \in DOMAIN fs'.open_file_table
      /\ \/ at[t] = "subscribe" /\ at'[t] = "replay open"
         \/ /\ at[t] = "listening" /\ at'[t] = "store"
            /\ FileHas(fs, job[t].box, file.of_inumber)
            /\ file.of_offset = SizeOf(fs, file.of_inumber)

\* writes a message to it,
StoresMessage(t) ==
  LET h == job[t].handle
      i == fs.open_file_table[h].of_inumber
  IN  /\ at[t] = "store" /\ at'[t] = "close" /\ job' = job
      /\ \A n, k : FileHas(fs', n, k) <=> FileHas(fs, n, k)
      /\ \A k \in Inumbers \ {i} : SizeOf(fs', k) = SizeOf(fs, k)
      /\ HandlesStay(fs, fs', {h}) /\ h \in DOMAIN fs'.open_file_table
      /\ fs.open_file_table[h].of_offset = SizeOf(fs, i) =>
           SizeOf(fs', i) = SizeOf(fs, i) + Len(job[t].data)

\* closes it,
ClosesBox(t) ==
  /\ at[t] = "close" /\ at'[t] = "append" /\ job' = job
  /\ FilesStay(fs, fs') /\ HandlesStay(fs, fs', {job[t].handle})

\* or reads from it.
ReadsBox(t) ==
  /\ at[t] = "replay write" /\ at'[t] \in {"replay open", "idle"}
  /\ at'[t] = "replay open" => job'[t].handle = job[t].handle
  /\ FilesStay(fs, fs') /\ HandlesStay(fs, fs', {job[t].handle})
  /\ DOMAIN fs'.open_file_table = DOMAIN fs.open_file_table

UsesFiles(t) == \/ process' # "up"
                \/ KeepsFiles(t) \/ MakesFile(t) \/ OpensBox(t)
                \/ StoresMessage(t) \/ ClosesBox(t) \/ ReadsBox(t)

\* Neither files nor handles move when the file system does not.
LEMMA NothingMoves ==
  ASSUME UNCHANGED fs
  PROVE  FilesStay(fs, fs') /\ HandlesStay(fs, fs', {})
BY DEF FilesStay, HandlesStay, FileHas, SizeOf, Live

\* A handler that does not call the file system.
LEMMA FilesUnused ==
  ASSUME Sane, NEW t, NEW l, At(t, l), l \notin {"close", "append", "create"}, UNCHANGED fs,
         \/ \E next : Steps(t, next) /\ next \notin Handled \cup {"append"}
         \/ Fails(t) \/ Returns(t) \/ \E how \in {"killed", "crashed", "undefined"} : Dies(how)
  PROVE  UsesFiles(t)
<1>1. FilesStay(fs, fs') /\ HandlesStay(fs, fs', {}) /\ at[t] = l
  BY NothingMoves DEF At
<1>2. CASE \E how \in {"killed", "crashed", "undefined"} : Dies(how)
  BY <1>2 DEF Dies, UsesFiles
<1>3. CASE at'[t] \notin Handled \cup {"append"}
  <2>1. KeepsFiles(t)
    BY <1>1, <1>3 DEF KeepsFiles, Handled, BoxCreated
  <2> QED BY <2>1 DEF UsesFiles
<1>4. \/ \E how \in {"killed", "crashed", "undefined"} : Dies(how)
      \/ at'[t] \notin Handled \cup {"append"}
  <2>1. "idle" \notin Handled \cup {"append"}
    BY DEF Handled
  <2> QED BY <2>1, Moves
<1> QED BY <1>2, <1>3, <1>4

\* Most handlers.
LEMMA OthersUseNone ==
  ASSUME Sane, NEW t,
         \/ remove_box_command(t) \/ AnswerOpen(t) \/ AnswerWrite(t) \/ ListOpen(t) \/ ListLock(t)
         \/ ListWrite(t) \/ register_publisher_command(t) \/ PublisherOpen(t) \/ StrayUnlock(t)
         \/ remove_publisher_command(t) \/ FloodOpen(t) \/ FloodWrite(t)
  PROVE  UsesFiles(t)
<1>1. UNCHANGED fs
  <2>1. CASE \/ remove_box_command(t) \/ AnswerOpen(t) \/ AnswerWrite(t) \/ ListOpen(t)
             \/ ListLock(t) \/ ListWrite(t)
    BY <2>1 DEF remove_box_command, AnswerOpen, AnswerWrite, ListOpen, ListLock, ListWrite, OnlyPipes
  <2>2. CASE \/ register_publisher_command(t) \/ PublisherOpen(t) \/ StrayUnlock(t)
             \/ remove_publisher_command(t) \/ FloodOpen(t) \/ FloodWrite(t)
    BY <2>2 DEF register_publisher_command, PublisherOpen, StrayUnlock, remove_publisher_command,
                FloodOpen, FloodWrite, OnlyPipes
  <2> QED BY <2>1, <2>2
<1>2. \E l : At(t, l) /\ l \notin {"close", "append", "create"}
  <2>1. CASE \/ remove_box_command(t) \/ AnswerOpen(t) \/ AnswerWrite(t) \/ ListOpen(t)
             \/ ListLock(t) \/ ListWrite(t)
    <3>1. \E l \in {"remove", "answer open", "answer write", "list open", "list lock", "listing"} :
            At(t, l)
      BY <2>1 DEF remove_box_command, AnswerOpen, AnswerWrite, ListOpen, ListLock, ListWrite
    <3> QED BY <3>1
  <2>2. CASE \/ register_publisher_command(t) \/ PublisherOpen(t) \/ StrayUnlock(t)
             \/ remove_publisher_command(t) \/ FloodOpen(t) \/ FloodWrite(t)
    <3>1. \E l \in {"publish", "publisher open", "unlock", "listening", "flood open",
                    "flood write"} : At(t, l)
      BY <2>2 DEF register_publisher_command, PublisherOpen, StrayUnlock, remove_publisher_command,
                  FloodOpen, FloodWrite
    <3> QED BY <3>1
  <2> QED BY <2>1, <2>2
<1>3. \/ \E next \in {"answer open", "answer write", "list lock", "listing", "publisher open",
                      "listening", "stuck", "flood open", "flood write"} : Steps(t, next)
      \/ Fails(t) \/ Returns(t) \/ \E how \in {"killed", "crashed", "undefined"} : Dies(how)
  <2>1. CASE remove_box_command(t)
    BY <2>1 DEF remove_box_command, Answers
  <2>2. CASE AnswerOpen(t) \/ ListOpen(t) \/ FloodOpen(t)
    BY <2>2 DEF AnswerOpen, ListOpen, FloodOpen, OpenToWrite
  <2>3. CASE AnswerWrite(t) \/ ListLock(t) \/ FloodWrite(t)
    BY <2>3 DEF AnswerWrite, ListLock, FloodWrite, BrokenPipe
  <2>4. CASE ListWrite(t)
    BY <2>4 DEF ListWrite, BrokenPipe
  <2>5. CASE register_publisher_command(t) \/ remove_publisher_command(t)
    BY <2>5 DEF register_publisher_command, remove_publisher_command
  <2>6. CASE PublisherOpen(t) \/ StrayUnlock(t)
    BY <2>6 DEF PublisherOpen, StrayUnlock
  <2> QED BY <2>1, <2>2, <2>3, <2>4, <2>5, <2>6
<1>4. \A next \in {"answer open", "answer write", "list lock", "listing", "publisher open",
                   "listening", "stuck", "flood open", "flood write"} :
        next \notin Handled \cup {"append"}
  BY DEF Handled
<1> QED BY <1>1, <1>2, <1>3, <1>4, FilesUnused

\* The file of a box.
LEMMA CreateUses ==
  ASSUME Sane, NEW t, create_box_command(t)
  PROVE  UsesFiles(t)
<1> DEFINE n == job[t].box
           i == find_box_by_name(n)
           opened == tfs_open(fs, n, {"CREAT"})
           bad == opened.ret < 0
           made == opened.ret >= 0
<1>1. At(t, "create") /\ FsInv(fs)
  BY DEF create_box_command, Sane
<1>2. /\ HandlesStay(fs, opened.fs, {})
      /\ \/ FilesStay(fs, opened.fs) /\ (opened.ret = -1 \/ \E k \in Inumbers : FileHas(fs, n, k))
         \/ FileMade(fs, opened.fs, n)
  BY <1>1, OpenToCreate
<1>3. opened.ret = -1 => ~made
  OBVIOUS
<1>4. \/ UNCHANGED <<fs, created>> /\ (Answers(t, "create", -1) \/ Steps(t, "stuck"))
      \/ fs' = opened.fs /\ Answers(t, "create", -1) /\ created' = created
      \/ made /\ fs' = opened.fs /\ Answers(t, "create", 0)
      \/ Dies("undefined")
  <2>1. \/ UNCHANGED <<box_list, box_list_mutex, fs, created>> /\ Answers(t, "create", -1)
        \/ StuckInside(t)
        \/ /\ bad /\ fs' = opened.fs /\ Answers(t, "create", -1)
           /\ UNCHANGED <<box_list, box_list_mutex, created>>
        \/ made /\ fs' = opened.fs /\ Answers(t, "create", 0)
        \/ Dies("undefined")
    BY DEF create_box_command
  <2> HIDE DEF opened, bad, made
  <2> QED BY <2>1 DEF StuckInside
<1>5. \A op, ret : Answers(t, op, ret) => at'[t] = "answer open"
  BY <1>1, Moves DEF Answers
<1> HIDE DEF opened, made, n
<1>6. CASE Dies("undefined")
  BY <1>6 DEF Dies, UsesFiles
<1>7. CASE UNCHANGED fs /\ Steps(t, "stuck")
  <2>1. at'[t] = "stuck" /\ at[t] = "create"
    BY <1>1, <1>7, Moves
  <2>2. KeepsFiles(t)
    BY <1>7, <2>1, NothingMoves DEF KeepsFiles, Handled, BoxCreated
  <2> QED BY <2>2 DEF UsesFiles
<1>8. CASE /\ at'[t] = "answer open"
           /\ \/ UNCHANGED fs /\ created' = created
              \/ fs' = opened.fs /\ created' = created
              \/ made /\ fs' = opened.fs
  <2>1. at[t] = "create" /\ n \in Boxes /\ BoxesFit
    BY <1>1, ThreadAt DEF Fits, n, At, Sane
  <2>2. created' = created => ~BoxCreated(t)
    <3> SUFFICES ASSUME created' = created, BoxCreated(t) PROVE FALSE
      OBVIOUS
    <3> DEFINE x == created[n]
    <3>1. x \in Nat /\ created'[n] = x + 1
      BY <2>1 DEF BoxesFit, BoxCreated, n
    <3>2. x = x + 1
      BY <3>1
    <3> HIDE DEF x
    <3> QED BY <3>1, <3>2
  <2>3. MakesFile(t)
    <3>1. CASE UNCHANGED fs /\ created' = created
      BY <1>8, <2>1, <2>2, <3>1, NothingMoves DEF MakesFile, n
    <3>2. CASE fs' = opened.fs /\ created' = created
      BY <1>2, <1>8, <2>1, <2>2, <3>2 DEF MakesFile, n
    <3>3. CASE made /\ fs' = opened.fs
      BY <1>2, <1>3, <1>8, <2>1, <3>3 DEF MakesFile, n
    <3> QED BY <1>8, <3>1, <3>2, <3>3
  <2> QED BY <2>3 DEF UsesFiles
<1> QED BY <1>4, <1>5, <1>6, <1>7, <1>8

\* A publisher's session opens the box for each message.
LEMMA ReadUses ==
  ASSUME Sane, NEW t, read_publisher_pipe_input(t)
  PROVE  UsesFiles(t)
<1> DEFINE opened == tfs_open(fs, job[t].box, {"APPEND"})
           h == opened.ret
           g == opened.fs
           d == pipe[job[t].client][taken[job[t].client] + 1]
           bad == h < 0
<1>1. At(t, "listening") /\ FsInv(fs) /\ at[t] = "listening"
  BY DEF read_publisher_pipe_input, Sane, At
<1>2. /\ FilesStay(fs, g) /\ HandlesStay(fs, g, {})
      /\ \/ h = -1
         \/ /\ h \in Nat /\ h \notin DOMAIN fs.open_file_table /\ h \in DOMAIN g.open_file_table
            /\ FileHas(fs, job[t].box, g.open_file_table[h].of_inumber)
            /\ g.open_file_table[h].of_offset = SizeOf(fs, g.open_file_table[h].of_inumber)
  BY <1>1, OpenToAppend
<1>3. h = -1 => bad
  OBVIOUS
<1>4. /\ fs' = g
      /\ IF bad THEN Fails(t)
         ELSE job' = [job EXCEPT ![t] = [job[t] EXCEPT !.handle = h, !.data = d]] /\ Steps(t, "store")
  BY DEF read_publisher_pipe_input
<1> HIDE DEF opened, bad, d, h, g
<1>5. CASE Fails(t)
  <2>1. at'[t] = "idle"
    BY <1>1, <1>5, Moves
  <2>2. KeepsFiles(t)
    BY <1>1, <1>2, <1>4, <2>1 DEF KeepsFiles, Handled, BoxCreated
  <2> QED BY <2>2 DEF UsesFiles
<1>6. CASE /\ ~bad /\ Steps(t, "store")
           /\ job' = [job EXCEPT ![t] = [job[t] EXCEPT !.handle = h, !.data = d]]
  <2>1. at'[t] = "store" /\ t \in DOMAIN job /\ JobTyped(job[t])
    BY <1>1, <1>6, Moves, ThreadAt DEF Sane, ThreadsFit
  <2>2. job'[t].handle = h
    <3> DEFINE old == job[t]
               new == job'[t]
    <3>1. new = [old EXCEPT !.handle = h, !.data = d] /\ JobTyped(old)
      BY <1>6, <2>1
    <3> HIDE DEF old, new
    <3>2. new.handle = h
      BY <3>1 DEF JobTyped
    <3> QED BY <3>2 DEF new
  <2>3. OpensBox(t)
    BY <1>1, <1>2, <1>3, <1>4, <1>6, <2>1, <2>2 DEF OpensBox
  <2> QED BY <2>3 DEF UsesFiles
<1> QED BY <1>4, <1>5, <1>6

\* A session writes the message,
LEMMA StoreUses ==
  ASSUME Sane, HandlesKnown, NEW t, Store(t)
  PROVE  UsesFiles(t)
<1> DEFINE d == job[t].data
           h == job[t].handle
           r == tfs_write(fs, h, d)
           bad == r.ret < 0
<1>1. At(t, "store") /\ FsInv(fs) /\ at[t] = "store" /\ t \in threads
  BY DEF Store, Sane, At
<1>2. h \in DOMAIN fs.open_file_table
  BY <1>1 DEF HandlesKnown, Handled, At
<1>3. d \in Seq({d[i] : i \in DOMAIN d})
  <2>1. d \in Messages
    BY <1>1, ThreadAt DEF Fits
  <2> HIDE DEF d
  <2> QED BY <2>1, ClientsAssumption
<1> DEFINE i == fs.open_file_table[h].of_inumber
<1>4. /\ r.ret = -1 => r.fs = fs
      /\ r.ret = -1 \/ r.ret \in Nat
      /\ \A n, k : FileHas(r.fs, n, k) <=> FileHas(fs, n, k)
      /\ \A k \in Inumbers \ {i} : SizeOf(r.fs, k) = SizeOf(fs, k)
      /\ HandlesStay(fs, r.fs, {h}) /\ h \in DOMAIN r.fs.open_file_table
      /\ r.ret # -1 /\ fs.open_file_table[h].of_offset = SizeOf(fs, i) =>
           SizeOf(r.fs, i) = SizeOf(fs, i) + Len(d)
  <2>1. Grows(fs, h, i, Len(d), r)
    <3>1. FsInv(fs)
      BY <1>1
    <3> HIDE DEF d, h
    <3> QED BY ONLY <1>2, <1>3, <3>1, WriteGrows DEF r, i
  <2> HIDE DEF d, r, i
  <2> QED BY <2>1 DEF Grows
<1>5. fs' = r.fs /\ (IF bad THEN Fails(t) ELSE Steps(t, "close") /\ UNCHANGED job)
  BY DEF Store
<1>6. (r.ret = -1 <=> bad)
  BY <1>4
<1> HIDE DEF bad, r
<1>7. CASE bad /\ Fails(t)
  <2>1. at'[t] = "idle" /\ UNCHANGED fs
    BY <1>1, <1>4, <1>5, <1>6, <1>7, Moves
  <2>2. KeepsFiles(t)
    BY <1>1, <2>1, NothingMoves DEF KeepsFiles, Handled, BoxCreated
  <2> QED BY <2>2 DEF UsesFiles
<1>8. CASE ~bad /\ Steps(t, "close") /\ UNCHANGED job
  <2>1. at'[t] = "close"
    BY <1>1, <1>8, Moves
  <2>2. StoresMessage(t)
    BY <1>1, <1>4, <1>5, <1>6, <1>8, <2>1 DEF StoresMessage
  <2> QED BY <2>2 DEF UsesFiles
<1> QED BY <1>5, <1>7, <1>8

\* closes the box,
LEMMA CloseUses ==
  ASSUME Sane, NEW t, CloseBox(t)
  PROVE  UsesFiles(t)
<1>1. /\ At(t, "close") /\ at[t] = "close" /\ fs' = tfs_close(fs, job[t].handle).fs
      /\ job' = job /\ Steps(t, "append") /\ FsInv(fs)
  BY DEF CloseBox, At, Sane
<1>2. FilesStay(fs, fs') /\ HandlesStay(fs, fs', {job[t].handle})
  BY <1>1, CloseTakes
<1>3. at'[t] = "append"
  BY <1>1, Moves
<1> QED BY <1>1, <1>2, <1>3 DEF ClosesBox, UsesFiles

\* and counts the message.
LEMMA AppendKeepsFiles ==
  ASSUME Sane, NEW t, AppendSize(t)
  PROVE  UsesFiles(t)
<1>1. /\ At(t, "append") /\ UNCHANGED fs /\ at[t] = "append"
      /\ Fails(t) \/ Steps(t, "unlock") \/ Dies("undefined")
  BY DEF AppendSize, At
<1>2. \/ Dies("undefined")
      \/ \A k \in DOMAIN box_list : box_list[k].box_name # job[t].box
      \/ \E i : BoxUsed(t, i)
  BY AppendUses
<1>3. CASE Dies("undefined")
  BY <1>3 DEF Dies, UsesFiles
<1>4. CASE ~Dies("undefined")
  <2>1. at'[t] \in {"idle", "unlock"}
    BY <1>1, <1>4, Moves
  <2>2. KeepsFiles(t)
    BY <1>1, <1>2, <1>4, <2>1, NothingMoves DEF KeepsFiles, Handled, BoxCreated
  <2> QED BY <2>2 DEF UsesFiles
<1> QED BY <1>3, <1>4

\* A subscriber's session opens the box and goes back to its beginning,
LEMMA SubscribeUses ==
  ASSUME Sane, NEW t, register_subscriber_command(t)
  PROVE  UsesFiles(t)
<1> DEFINE n == job[t].box
           i == find_box_by_name(n)
           opened == tfs_open(fs, n, {"APPEND"})
           h == opened.ret
           g == opened.fs
           rewound == tfs_rewind_offset(g, h)
           s == box_list[i].messages_size
           good == opened.ret >= 0
           bad == opened.ret < 0
<1>1. At(t, "subscribe") /\ FsInv(fs) /\ at[t] = "subscribe"
  BY DEF register_subscriber_command, Sane, At
<1>2. /\ FilesStay(fs, g) /\ HandlesStay(fs, g, {})
      /\ h = -1 \/ (h \in Nat /\ h \notin DOMAIN fs.open_file_table /\ h \in DOMAIN g.open_file_table)
  BY <1>1, OpenToAppend
<1>3. h = -1 => ~good
  OBVIOUS
<1>4. \/ UNCHANGED fs /\ Fails(t)
      \/ Dies("undefined")
      \/ UNCHANGED fs /\ Steps(t, "stuck")
      \/ fs' = g /\ Fails(t)
      \/ /\ good /\ fs' = rewound.fs /\ Steps(t, "replay open")
         /\ job' = [job EXCEPT ![t].handle = h, ![t].data = <<Unwritten>>, ![t].todo = s]
  <2>1. \/ Fails(t) /\ UNCHANGED <<box_list, box_list_mutex, fs>>
        \/ Dies("undefined")
        \/ Steps(t, "stuck") /\ UNCHANGED <<job, fs>>
        \/ bad /\ fs' = g /\ Fails(t)
        \/ /\ good /\ fs' = rewound.fs /\ Steps(t, "replay open")
           /\ job' = [job EXCEPT ![t].handle = h, ![t].data = <<Unwritten>>, ![t].todo = s]
    BY DEF register_subscriber_command
  <2> HIDE DEF i, h, s, good, bad, opened, g, rewound
  <2> QED BY <2>1
<1>5. FsInv(g)
  BY <1>1, OpenKeepsInv
<1> HIDE DEF opened, h, g, good, s, i
<1>6. CASE Dies("undefined")
  BY <1>6 DEF Dies, UsesFiles
<1>7. CASE UNCHANGED fs /\ (Fails(t) \/ Steps(t, "stuck"))
  <2>1. "stuck" \notin Handled \cup {"append"} /\ "subscribe" \notin {"close", "append", "create"}
    BY DEF Handled
  <2> QED BY <1>1, <1>7, <2>1, FilesUnused
<1>8. CASE fs' = g /\ Fails(t)
  <2>1. at'[t] = "idle"
    BY <1>1, <1>8, Moves
  <2>2. KeepsFiles(t)
    BY <1>1, <1>2, <1>8, <2>1 DEF KeepsFiles, Handled, BoxCreated
  <2> QED BY <2>2 DEF UsesFiles
<1>9. CASE /\ good /\ fs' = rewound.fs /\ Steps(t, "replay open")
           /\ job' = [job EXCEPT ![t].handle = h, ![t].data = <<Unwritten>>, ![t].todo = s]
  <2>1. at'[t] = "replay open" /\ t \in DOMAIN job /\ JobTyped(job[t])
    BY <1>1, <1>9, Moves, ThreadAt DEF Sane, ThreadsFit
  <2>2. job'[t].handle = h
    <3> DEFINE old == job[t]
               new == job'[t]
    <3>1. new = [old EXCEPT !.handle = h, !.data = <<Unwritten>>, !.todo = s] /\ JobTyped(old)
      BY <1>9, <2>1
    <3> HIDE DEF old, new
    <3>2. new.handle = h
      BY <3>1 DEF JobTyped
    <3> QED BY <3>2 DEF new
  <2>3. /\ FilesStay(g, fs') /\ HandlesStay(g, fs', {h})
        /\ DOMAIN fs'.open_file_table = DOMAIN g.open_file_table
    BY <1>5, <1>9, RewindMoves
  <2>4. FilesStay(fs, fs') /\ HandlesStay(fs, fs', {})
    BY <1>2, <1>3, <1>9, <2>3 DEF FilesStay, HandlesStay
  <2>5. OpensBox(t)
    BY <1>1, <1>2, <1>3, <1>9, <2>1, <2>2, <2>3, <2>4 DEF OpensBox
  <2> QED BY <2>5 DEF UsesFiles
<1> QED BY <1>4, <1>6, <1>7, <1>8, <1>9

\* meets the client,
LEMMA ReplayOpenUses ==
  ASSUME Sane, NEW t, ReplayOpen(t)
  PROVE  UsesFiles(t)
<1>1. At(t, "replay open") /\ UNCHANGED fs /\ at[t] = "replay open"
  BY DEF ReplayOpen, OnlyPipes, At
<1>2. \/ Steps(t, "replay write") /\ job' = [job EXCEPT ![t].reader = lives[job[t].client]]
      \/ Steps(t, "stuck") \/ Fails(t)
  BY DEF ReplayOpen, OpenToWrite
<1>3. CASE Steps(t, "stuck") \/ Fails(t)
  <2>1. /\ "stuck" \notin Handled \cup {"append"}
        /\ "replay open" \notin {"close", "append", "create"}
    BY DEF Handled
  <2> QED BY <1>1, <1>3, <2>1, FilesUnused
<1>4. CASE Steps(t, "replay write") /\ job' = [job EXCEPT ![t].reader = lives[job[t].client]]
  <2>1. at'[t] = "replay write" /\ t \in DOMAIN job /\ JobTyped(job[t])
    BY <1>1, <1>4, Moves, ThreadAt DEF Sane, ThreadsFit
  <2>2. job'[t].handle = job[t].handle
    <3> DEFINE old == job[t]
               new == job'[t]
               life == lives[job[t].client]
    <3>1. new = [old EXCEPT !.reader = life] /\ JobTyped(old)
      BY <1>4, <2>1
    <3> HIDE DEF old, new, life
    <3>2. new.handle = old.handle
      BY <3>1 DEF JobTyped
    <3> QED BY <3>2 DEF new, old
  <2>3. KeepsFiles(t)
    BY <1>1, <2>1, <2>2, NothingMoves DEF KeepsFiles, BoxCreated
  <2> QED BY <2>3 DEF UsesFiles
<1> QED BY <1>2, <1>3, <1>4

\* and reads the messages.
LEMMA ReplayWriteUses ==
  ASSUME Sane, NEW t, ReplayWrite(t)
  PROVE  UsesFiles(t)
<1> DEFINE todo == job[t].todo
           h == job[t].handle
           read == tfs_read(fs, h, todo[2])
           got == read.data
           long == Len(todo) > 1
<1>1. At(t, "replay write") /\ FsInv(fs) /\ at[t] = "replay write" /\ todo \in Seq(Nat)
  <2>1. At(t, "replay write")
    BY DEF ReplayWrite
  <2>2. Fits("replay write", job[t])
    BY <2>1, ThreadAt
  <2> QED BY <2>1, <2>2 DEF Sane, At, Fits
<1>2. \/ UNCHANGED fs /\ \E how \in {"killed", "crashed", "undefined"} : Dies(how)
      \/ UNCHANGED fs /\ \E next \in {"flood open", "stuck"} : Steps(t, next)
      \/ /\ long /\ fs' = read.fs /\ Steps(t, "replay open")
         /\ job' = [job EXCEPT ![t].todo = Tail(@), ![t].data = got]
      \/ long /\ fs' = read.fs /\ Fails(t)
  <2> DEFINE good == read.ret > 0
             bad == read.ret <= 0
             one == Len(todo) = 1
  <2>1. \/ BrokenPipe(t) /\ UNCHANGED fs
        \/ Dies("crashed") /\ UNCHANGED fs
        \/ one /\ Steps(t, "flood open") /\ UNCHANGED fs
        \/ long /\ Steps(t, "stuck") /\ UNCHANGED fs
        \/ /\ long /\ good /\ fs' = read.fs /\ Steps(t, "replay open")
           /\ job' = [job EXCEPT ![t].todo = Tail(@), ![t].data = got]
        \/ long /\ bad /\ fs' = read.fs /\ Fails(t)
    BY DEF ReplayWrite
  <2> HIDE DEF good, bad, one, long, read, got
  <2> QED BY <2>1 DEF BrokenPipe
<1>3. /\ long => /\ FilesStay(fs, read.fs) /\ HandlesStay(fs, read.fs, {h})
                 /\ DOMAIN read.fs.open_file_table = DOMAIN fs.open_file_table
  <2> SUFFICES ASSUME long
               PROVE  /\ FilesStay(fs, read.fs) /\ HandlesStay(fs, read.fs, {h})
                      /\ DOMAIN read.fs.open_file_table = DOMAIN fs.open_file_table
    OBVIOUS
  <2> DEFINE size == todo[2]
  <2>1. size \in Nat
    <3> HIDE DEF todo
    <3>1. Len(todo) \in Nat
      BY <1>1, LenProperties
    <3>2. 2 \in 1 .. Len(todo)
      BY <3>1
    <3> QED BY <1>1, <3>2, ElementOfSeq
  <2> HIDE DEF size
  <2>2. LET g == tfs_read(fs, h, size).fs
        IN  FilesStay(fs, g) /\ HandlesStay(fs, g, {h})
              /\ DOMAIN g.open_file_table = DOMAIN fs.open_file_table
    BY <1>1, <2>1, ReadMoves
  <2> QED BY <2>2 DEF size
<1> HIDE DEF long, read, got, todo
<1>4. CASE UNCHANGED fs /\ \E how \in {"killed", "crashed", "undefined"} : Dies(how)
  BY <1>4 DEF Dies, UsesFiles
<1>5. CASE UNCHANGED fs /\ \E next \in {"flood open", "stuck"} : Steps(t, next)
  <2>1. /\ \A next \in {"flood open", "stuck"} : next \notin Handled \cup {"append"}
        /\ "replay write" \notin {"close", "append", "create"}
    BY DEF Handled
  <2> QED BY <1>1, <1>5, <2>1, FilesUnused
<1>6. CASE /\ long /\ fs' = read.fs /\ Steps(t, "replay open")
           /\ job' = [job EXCEPT ![t].todo = Tail(@), ![t].data = got]
  <2>1. at'[t] = "replay open" /\ t \in DOMAIN job /\ JobTyped(job[t])
    BY <1>1, <1>6, Moves, ThreadAt DEF Sane, ThreadsFit
  <2>2. job'[t].handle = job[t].handle
    <3> DEFINE old == job[t]
               new == job'[t]
               rest == Tail(job[t].todo)
    <3>1. new = [old EXCEPT !.todo = rest, !.data = got] /\ JobTyped(old)
      BY <1>6, <2>1
    <3> HIDE DEF old, new, rest
    <3>2. new.handle = old.handle
      BY <3>1 DEF JobTyped
    <3> QED BY <3>2 DEF new, old
  <2> QED BY <1>1, <1>3, <1>6, <2>1, <2>2 DEF ReadsBox, UsesFiles
<1>7. CASE long /\ fs' = read.fs /\ Fails(t)
  <2>1. at'[t] = "idle"
    BY <1>1, <1>7, Moves
  <2> QED BY <1>1, <1>3, <1>7, <2>1 DEF ReadsBox, UsesFiles
<1> QED BY <1>2, <1>4, <1>5, <1>6, <1>7

\* What a handler does to the files is one of these.
LEMMA ThreadUses ==
  ASSUME Sane, HandlesKnown, NEW t, Thread(t), ~read_pipe_input(t)
  PROVE  UsesFiles(t)
<1>1. \/ create_box_command(t) \/ read_publisher_pipe_input(t) \/ Store(t) \/ CloseBox(t)
      \/ AppendSize(t) \/ register_subscriber_command(t) \/ ReplayOpen(t) \/ ReplayWrite(t)
      \/ \/ remove_box_command(t) \/ AnswerOpen(t) \/ AnswerWrite(t) \/ ListOpen(t) \/ ListLock(t)
         \/ ListWrite(t) \/ register_publisher_command(t) \/ PublisherOpen(t) \/ StrayUnlock(t)
         \/ remove_publisher_command(t) \/ FloodOpen(t) \/ FloodWrite(t)
  BY DEF Thread
<1> QED BY <1>1, CreateUses, ReadUses, StoreUses, CloseUses, AppendKeepsFiles, SubscribeUses,
           ReplayOpenUses, ReplayWriteUses, OthersUseNone
\* Nobody loses a handle to another, and a handle that is opened was free.
LEMMA HandleMoves ==
  ASSUME HandlesKnown, NEW t \in threads, process = "up", UsesFiles(t), process' = "up"
  PROVE  /\ \A h \in DOMAIN fs.open_file_table :
              ~(at[t] \in Handled /\ h = job[t].handle) =>
                h \in DOMAIN fs'.open_file_table
                  /\ fs'.open_file_table[h] = fs.open_file_table[h]
         /\ at'[t] \in Handled =>
              /\ job'[t].handle \in DOMAIN fs'.open_file_table
              /\ \/ at[t] \in Handled /\ job'[t].handle = job[t].handle
                 \/ job'[t].handle \notin DOMAIN fs.open_file_table
<1>0. at[t] \in Handled => job[t].handle \in DOMAIN fs.open_file_table
  BY DEF HandlesKnown
<1>1. CASE KeepsFiles(t)
  <2>1. "replay open" \in Handled
    BY DEF Handled
  <2> QED BY <1>0, <1>1, <2>1 DEF KeepsFiles, HandlesStay
<1>2. CASE MakesFile(t)
  <2>1. "answer open" \notin Handled
    BY DEF Handled
  <2> QED BY <1>2, <2>1 DEF MakesFile, HandlesStay
<1>3. CASE OpensBox(t)
  BY <1>3 DEF OpensBox, HandlesStay
<1>4. CASE StoresMessage(t)
  <2>1. "store" \in Handled
    BY DEF Handled
  <2> QED BY <1>4, <2>1 DEF StoresMessage, HandlesStay
<1>5. CASE ClosesBox(t)
  <2>1. "close" \in Handled /\ "append" \notin Handled
    BY DEF Handled
  <2> QED BY <1>5, <2>1 DEF ClosesBox, HandlesStay
<1>6. CASE ReadsBox(t)
  <2>1. "replay write" \in Handled /\ "idle" \notin Handled
    BY DEF Handled
  <2> QED BY <1>0, <1>6, <2>1 DEF ReadsBox, HandlesStay
<1> QED BY <1>1, <1>2, <1>3, <1>4, <1>5, <1>6 DEF UsesFiles

\* A step of one thread keeps track of the handles.
LEMMA ActsHandles ==
  ASSUME Sane, HandlesKnown, NEW t, Acts(t), UsesFiles(t), process' = "up"
  PROVE  HandlesKnown'
<1>1. PICK l, j : Goes(t, l, j)
  BY DEF Acts
<1>2. /\ t \in threads /\ process = "up" /\ threads' = threads
      /\ \A u \in threads \ {t} : at'[u] = at[u] /\ job'[u] = job[u]
  BY <1>1, OthersStay DEF Goes
<1>3. /\ \A h \in DOMAIN fs.open_file_table :
           ~(at[t] \in Handled /\ h = job[t].handle) => h \in DOMAIN fs'.open_file_table
      /\ at'[t] \in Handled =>
           /\ job'[t].handle \in DOMAIN fs'.open_file_table
           /\ \/ at[t] \in Handled /\ job'[t].handle = job[t].handle
              \/ job'[t].handle \notin DOMAIN fs.open_file_table
  BY <1>2, HandleMoves
<1>4. ASSUME NEW u \in threads, at'[u] \in Handled
      PROVE  job'[u].handle \in DOMAIN fs'.open_file_table
  <2>1. CASE u = t
    BY <1>3, <1>4, <2>1
  <2>2. CASE u # t
    <3>1. at[u] \in Handled /\ job'[u].handle = job[u].handle
      BY <1>2, <1>4, <2>2
    <3>2. job[u].handle \in DOMAIN fs.open_file_table
      BY <1>2, <3>1 DEF HandlesKnown
    <3>3. ~(at[t] \in Handled /\ job[u].handle = job[t].handle)
      BY <1>2, <2>2, <3>1 DEF HandlesKnown
    <3> QED BY <1>3, <3>1, <3>2, <3>3
  <2> QED BY <2>1, <2>2
<1>5. ASSUME NEW u \in threads \ {t}, at'[u] \in Handled, at'[t] \in Handled
      PROVE  job'[u].handle # job'[t].handle
  <2>1. at[u] \in Handled /\ job'[u].handle = job[u].handle
    BY <1>2, <1>5
  <2>2. job[u].handle \in DOMAIN fs.open_file_table
    BY <1>2, <2>1 DEF HandlesKnown
  <2>3. at[t] \in Handled => job[u].handle # job[t].handle
    BY <1>2, <2>1 DEF HandlesKnown
  <2> QED BY <1>3, <1>5, <2>1, <2>2, <2>3
<1>6. \A u, v \in threads :
        (at'[u] \in Handled /\ at'[v] \in Handled /\ job'[u].handle = job'[v].handle) => u = v
  <2> SUFFICES ASSUME NEW u \in threads, NEW v \in threads, u # v,
                      at'[u] \in Handled, at'[v] \in Handled
               PROVE  job'[u].handle # job'[v].handle
    OBVIOUS
  <2>1. CASE v = t
    BY <1>5, <2>1
  <2>2. CASE u = t
    BY <1>5, <2>2
  <2>3. CASE u # t /\ v # t
    BY <1>2, <2>3 DEF HandlesKnown
  <2> QED BY <2>1, <2>2, <2>3
<1>7. Handled' = Handled
  BY DEF Handled
<1> QED BY <1>2, <1>4, <1>6, <1>7 DEF HandlesKnown

\* A box that was created once and is listed has one session at most.
LEMMA OneSession ==
  ASSUME Sane, Singles, PublishersKnown, process = "up", NEW n, First(n),
         NEW t \in threads, NEW u \in threads, at[t] \in InSession, at[u] \in InSession,
         job[t].box = n, job[u].box = n
  PROVE  t = u
<1>1. PICK k \in DOMAIN box_list : box_list[k].box_name = n
  BY DEF First
<1>2. KnownBox(box_list[k].publisher_named_pipe, n) /\ created[n] = 1
  BY <1>1 DEF PublishersKnown, First
<1>3. job[t].client = job[u].client
  BY <1>2 DEF KnownBox
<1> QED BY <1>3, SessionClient, OneServes

\* Which boxes there are after a step, and how often they were created.
LEMMA BoxesMove ==
  ASSUME Sane, NEW t, Lists(t)
  PROVE  \/ /\ ~BoxCreated(t) /\ created' = created
            /\ \A k \in DOMAIN box_list' :
                 \E m \in DOMAIN box_list : box_list'[k].box_name = box_list[m].box_name
         \/ /\ BoxCreated(t) /\ job[t].box \in Boxes
            /\ created[job[t].box] \in Nat /\ created'[job[t].box] = created[job[t].box] + 1
            /\ \A n \in Boxes \ {job[t].box} : created'[n] = created[n]
            /\ \A k \in DOMAIN box_list' :
                 \/ box_list'[k] = NewBox(job[t].box)
                 \/ \E m \in DOMAIN box_list :
                      box_list'[k] = box_list[m] /\ box_list[m].box_name # job[t].box
<1> DEFINE new == job[t].box
<1>1. BoxesFit
  BY DEF Sane
<1>2. CASE BoxCreated(t)
  <2>1. /\ new \in Boxes /\ find_box_by_name(new) = 0 /\ box_list' = Inserted(new)
        /\ created' = [created EXCEPT ![new] = @ + 1]
    BY <1>2 DEF BoxCreated
  <2> HIDE DEF new
  <2>2. /\ created'[new] = created[new] + 1 /\ created[new] \in Nat
        /\ \A n \in Boxes \ {new} : created'[n] = created[n]
    BY <1>1, <2>1 DEF BoxesFit
  <2>3. \A k \in DOMAIN box_list' :
          box_list'[k] = NewBox(new) \/ \E m \in DOMAIN box_list : box_list'[k] = box_list[m]
    BY <1>1, <2>1, BoxInserted
  <2>4. \A m \in DOMAIN box_list : box_list[m].box_name # new
    BY <1>1, <2>1, FindBox DEF BoxesFit
  <2> QED BY <1>2, <2>1, <2>2, <2>3, <2>4 DEF new
<1>3. CASE ~BoxCreated(t)
  <2>1. CASE ListKept(t)
    BY <1>3, <2>1 DEF ListKept
  <2>2. CASE BoxRemoved(t)
    <3>1. PICK i \in DOMAIN box_list : box_list' = RemoveAt(box_list, i)
      BY <2>2 DEF BoxRemoved
    <3>2. \A k \in DOMAIN box_list' : \E m \in DOMAIN box_list : box_list'[k] = box_list[m]
      BY <1>1, <3>1, BoxTakenOut
    <3> QED BY <1>3, <2>2, <3>2 DEF BoxRemoved
  <2>3. CASE \E i : BoxUsed(t, i)
    <3>1. PICK i : BoxUsed(t, i)
      BY <2>3
    <3>2. OneBox(i) /\ created' = created
      BY <3>1 DEF BoxUsed
    <3> QED BY <1>3, <3>2 DEF OneBox
  <2> QED BY <1>3, <2>1, <2>2, <2>3 DEF Lists
<1> QED BY <1>2, <1>3

\* A box that has been created is the first of its name after a step only if it was.
LEMMA FirstBefore ==
  ASSUME Sane, NEW t, Lists(t), NEW n \in Boxes, created[n] > 0,
         created'[n] = 1, \E k \in DOMAIN box_list' : box_list'[k].box_name = n
  PROVE  First(n)
<1> DEFINE x == created[n]
<1>1. PICK k \in DOMAIN box_list' : box_list'[k].box_name = n
  OBVIOUS
<1>2. CASE /\ created' = created
           /\ \E m \in DOMAIN box_list : box_list'[k].box_name = box_list[m].box_name
  BY <1>1, <1>2 DEF First
<1>3. CASE /\ job[t].box \in Boxes
           /\ created[job[t].box] \in Nat /\ created'[job[t].box] = created[job[t].box] + 1
           /\ \A m \in Boxes \ {job[t].box} : created'[m] = created[m]
           /\ \/ box_list'[k] = NewBox(job[t].box)
              \/ \E m \in DOMAIN box_list :
                   box_list'[k] = box_list[m] /\ box_list[m].box_name # job[t].box
  <2>1. n # job[t].box
    <3> SUFFICES ASSUME n = job[t].box PROVE FALSE
      OBVIOUS
    <3>1. x \in Nat /\ x > 0 /\ 1 = x + 1
      BY <1>3
    <3> HIDE DEF x
    <3> QED BY <3>1
  <2>2. box_list'[k] # NewBox(job[t].box)
    BY <1>1, <2>1 DEF NewBox
  <2> QED BY <1>1, <1>3, <2>1, <2>2 DEF First
<1> QED BY <1>1, <1>2, <1>3, BoxesMove

\* The file of a box that has been created is found where it was, of the same size
\* unless a message is stored.
LEMMA FilesBefore ==
  ASSUME SizesKnown, process = "up", NEW t, UsesFiles(t), process' = "up", FsInv(fs'),
         NEW n \in Boxes, NEW i, FileHas(fs', n, i)
  PROVE  /\ created[n] > 0 => FileHas(fs, n, i)
         /\ ~FileHas(fs, n, i) => n = job[t].box /\ SizeOf(fs', i) = 0 /\ MakesFile(t)
         /\ FileHas(fs, n, i) /\ ~StoresMessage(t) => SizeOf(fs', i) = SizeOf(fs, i)
<1>1. i \in Inumbers
  BY FileIs
<1>2. CASE FilesStay(fs, fs')
  <2>1. FileHas(fs, n, i) /\ SizeOf(fs', i) = SizeOf(fs, i)
    BY <1>2 DEF FilesStay
  <2> QED BY <2>1
<1>3. CASE MakesFile(t) /\ FileMade(fs, fs', job[t].box)
  <2>1. PICK new \in Inumbers :
          /\ FileHas(fs', job[t].box, new) /\ SizeOf(fs', new) = 0
          /\ \A m, k : FileHas(fs', m, k) => FileHas(fs, m, k) \/ (m = job[t].box /\ k = new)
          /\ \A m, k : FileHas(fs, m, k) => FileHas(fs', m, k) /\ SizeOf(fs', k) = SizeOf(fs, k)
    BY <1>3 DEF FileMade
  <2>2. created[n] > 0 => FileHas(fs, n, i)
    <3> SUFFICES ASSUME created[n] > 0 PROVE FileHas(fs, n, i)
      OBVIOUS
    <3>1. PICK k \in Inumbers : FileHas(fs, n, k)
      BY DEF SizesKnown
    <3>2. FileHas(fs', n, k)
      BY <2>1, <3>1
    <3>3. k = i
      BY <3>2, FileIs
    <3> QED BY <3>1, <3>3
  <2> QED BY <1>3, <2>1, <2>2
<1>4. CASE StoresMessage(t)
  BY <1>4 DEF StoresMessage
<1> QED BY <1>2, <1>3, <1>4
        DEF UsesFiles, KeepsFiles, MakesFile, OpensBox, ClosesBox, ReadsBox
\* The sizes of a box that was listed: a session appends one.
LEMMA SizesMove ==
  ASSUME Sane, NEW t, Lists(t), UsesFiles(t), process' = "up", ~BoxCreated(t),
         NEW k \in DOMAIN box_list'
  PROVE  \E m \in DOMAIN box_list :
           /\ box_list'[k].box_name = box_list[m].box_name
           /\ box_list'[k].messages_size =
                IF at[t] = "append" /\ box_list[m].box_name = job[t].box
                  THEN Append(box_list[m].messages_size, Len(job[t].data))
                  ELSE box_list[m].messages_size
<1>1. BoxesFit
  BY DEF Sane
<1>2. CASE at[t] = "append"
  <2>1. /\ KeepsFiles(t)
        /\ \/ \A m \in DOMAIN box_list : box_list[m].box_name # job[t].box
           \/ \E i : BoxUsed(t, i)
    BY <1>2 DEF UsesFiles, KeepsFiles, MakesFile, OpensBox, StoresMessage, ClosesBox, ReadsBox
  <2>2. CASE \E i : BoxUsed(t, i)
    <3>1. PICK i : BoxUsed(t, i)
      BY <2>2
    <3>2. /\ OneBox(i) /\ box_list[i].box_name = job[t].box
          /\ box_list'[i].messages_size = Append(box_list[i].messages_size, Len(job[t].data))
      BY <1>2, <3>1 DEF BoxUsed
    <3>3. CASE k = i
      BY <1>2, <3>2, <3>3 DEF OneBox
    <3>4. CASE k # i
      <4>1. k \in DOMAIN box_list /\ box_list'[k] = box_list[k] /\ i \in DOMAIN box_list
        BY <3>2, <3>4 DEF OneBox
      <4>2. box_list[k].box_name # job[t].box
        BY <1>1, <3>2, <3>4, <4>1 DEF BoxesFit
      <4> QED BY <4>1, <4>2
    <3> QED BY <3>3, <3>4
  <2>3. CASE /\ ~\E i : BoxUsed(t, i)
             /\ \A m \in DOMAIN box_list : box_list[m].box_name # job[t].box
    <3>1. box_list' = box_list
      BY <1>2, <2>3 DEF Lists, ListKept, BoxCreated, BoxRemoved
    <3> QED BY <2>3, <3>1
  <2> QED BY <2>1, <2>2, <2>3
<1>3. CASE at[t] # "append"
  <2>1. CASE ListKept(t)
    BY <1>3, <2>1 DEF ListKept
  <2>2. CASE BoxRemoved(t)
    <3>1. PICK i \in DOMAIN box_list : box_list' = RemoveAt(box_list, i)
      BY <2>2 DEF BoxRemoved
    <3>2. PICK m \in DOMAIN box_list : box_list'[k] = box_list[m]
      BY <1>1, <3>1, BoxTakenOut
    <3> QED BY <1>3, <3>2
  <2>3. CASE \E i : BoxUsed(t, i)
    <3>1. PICK i : BoxUsed(t, i)
      BY <2>3
    <3>2. OneBox(i) /\ box_list'[i].messages_size = box_list[i].messages_size
      BY <1>3, <3>1 DEF BoxUsed
    <3>3. k \in DOMAIN box_list /\ (k # i => box_list'[k] = box_list[k])
      BY <3>2 DEF OneBox
    <3> QED BY <1>3, <3>2, <3>3 DEF OneBox
  <2> QED BY <2>1, <2>2, <2>3 DEF Lists
<1> QED BY <1>2, <1>3

\* Which messages are between a file and the list.
LEMMA WaysMove ==
  ASSUME Sane, NEW t, NEW l, NEW j, Goes(t, l, j), UsesFiles(t), process' = "up", NEW n
  PROVE  /\ \A u \in OnItsWay(n)' : job'[u].data = job[u].data
         /\ StoresMessage(t) /\ job[t].box = n => OnItsWay(n)' = OnItsWay(n) \cup {t}
         /\ at[t] = "append" /\ job[t].box = n => OnItsWay(n)' = OnItsWay(n) \ {t}
         /\ ~(job[t].box = n /\ (StoresMessage(t) \/ at[t] = "append"))
              => OnItsWay(n)' = OnItsWay(n)
<1>1. /\ t \in threads /\ threads' = threads
      /\ \A u \in threads \ {t} : at'[u] = at[u] /\ job'[u] = job[u]
  BY OthersStay DEF Goes
<1>2. CASE StoresMessage(t)
  <2>1. at[t] = "store" /\ at'[t] = "close" /\ job' = job
    BY <1>2 DEF StoresMessage
  <2>2. \A u : u \in OnItsWay(n)' <=> u \in OnItsWay(n) \/ (u = t /\ job[t].box = n)
    BY <1>1, <2>1 DEF OnItsWay
  <2> QED BY <1>1, <1>2, <2>1, <2>2
<1>3. CASE ClosesBox(t)
  <2>1. at[t] = "close" /\ at'[t] = "append" /\ job' = job /\ ~StoresMessage(t)
    BY <1>3 DEF ClosesBox, StoresMessage
  <2>2. \A u : u \in OnItsWay(n)' <=> u \in OnItsWay(n)
    BY <1>1, <2>1 DEF OnItsWay
  <2> QED BY <1>1, <2>1, <2>2
<1>4. CASE ~StoresMessage(t) /\ ~ClosesBox(t)
  <2>1. at'[t] \notin {"close", "append"} /\ at[t] # "close"
    BY <1>4 DEF UsesFiles, KeepsFiles, MakesFile, OpensBox, ReadsBox
  <2>2. \A u : u \in OnItsWay(n)' <=> u \in OnItsWay(n) /\ u # t
    BY <1>1, <2>1 DEF OnItsWay
  <2>3. t \in OnItsWay(n) <=> at[t] = "append" /\ job[t].box = n
    BY <1>1, <2>1 DEF OnItsWay
  <2>4. \A u \in OnItsWay(n)' : job'[u].data = job[u].data
    BY <1>1, <2>2 DEF OnItsWay
  <2>5. OnItsWay(n)' = OnItsWay(n) \ {t}
    BY <2>2
  <2> QED BY <1>4, <2>3, <2>4, <2>5
<1> QED BY <1>2, <1>3, <1>4

\* A session that has opened its box is at the end of the file.
LEMMA StoredStays ==
  ASSUME Sane, Singles, PublishersKnown, HandlesKnown, SizesKnown,
         NEW t, NEW l, NEW j, Goes(t, l, j), Lists(t), UsesFiles(t), process' = "up", FsInv(fs'),
         NEW u \in threads, at'[u] = "store"
  PROVE  LET file == fs'.open_file_table[job'[u].handle]
             n == job'[u].box
         IN  /\ FileHas(fs', n, file.of_inumber)
             /\ created'[n] = 1 /\ (\E k \in DOMAIN box_list' : box_list'[k].box_name = n)
                  => file.of_offset = SizeOf(fs', file.of_inumber)
<1>1. /\ t \in threads /\ threads' = threads /\ process = "up" /\ FsInv(fs)
      /\ \A v \in threads \ {t} : at'[v] = at[v] /\ job'[v] = job[v]
      /\ at'[t] = l /\ job'[t] = j /\ (l # "idle" => j.box = job[t].box)
  <2>1. /\ threads' = threads /\ threads \subseteq Threads /\ at'[t] = l /\ job'[t] = j
        /\ \A v \in Threads \ {t} : at'[v] = at[v] /\ job'[v] = job[v]
    BY OthersStay
  <2>2. t \in threads /\ process = "up" /\ (l # "idle" => j.box = job[t].box)
    BY DEF Goes
  <2>3. FsInv(fs)
    BY DEF Sane
  <2> QED BY <2>1, <2>2, <2>3
<1>2. CASE u = t
  <2>1. OpensBox(t) /\ at[t] = "listening"
    BY <1>2 DEF UsesFiles, KeepsFiles, MakesFile, OpensBox, StoresMessage, ClosesBox, ReadsBox
  <2> DEFINE file == fs'.open_file_table[job'[t].handle]
  <2>2. /\ FileHas(fs, job[t].box, file.of_inumber) /\ FilesStay(fs, fs')
        /\ file.of_offset = SizeOf(fs, file.of_inumber)
    BY <2>1 DEF OpensBox
  <2> HIDE DEF file
  <2>3. /\ FileHas(fs', job[t].box, file.of_inumber)
        /\ file.of_offset = SizeOf(fs', file.of_inumber)
    BY <2>2 DEF FilesStay
  <2>4. job'[t].box = job[t].box
    BY <1>1, <1>2
  <2> QED BY <1>2, <2>3, <2>4 DEF file
<1>3. CASE u # t
  <2>1. at[u] = "store" /\ job'[u] = job[u] /\ at[u] \in InSession /\ at[u] \in Handled
    BY <1>1, <1>3 DEF InSession, Handled
  <2> DEFINE n == job[u].box
             h == job[u].handle
             file == fs.open_file_table[h]
             i == file.of_inumber
  <2>2. FileHas(fs, n, i) /\ (First(n) => file.of_offset = SizeOf(fs, i))
    BY <1>1, <2>1 DEF SizesKnown
  <2>3. n \in Boxes /\ created[n] > 0
    BY <1>1, <2>1, SessionClient DEF PublishersKnown
  <2>4. h \in DOMAIN fs.open_file_table /\ ~(at[t] \in Handled /\ h = job[t].handle)
    BY <1>1, <1>3, <2>1 DEF HandlesKnown
  <2>5. fs'.open_file_table[h] = file
    BY <1>1, <2>4, HandleMoves
  <2> HIDE DEF n, h, i, file
  <2>6. FileHas(fs', n, i)
    BY <2>2 DEF UsesFiles, KeepsFiles, MakesFile, OpensBox, StoresMessage, ClosesBox, ReadsBox,
                FilesStay, FileMade
  <2>7. ~StoresMessage(t) => SizeOf(fs', i) = SizeOf(fs, i)
    BY <1>1, <2>2, <2>3, <2>6, FilesBefore
  <2>8. First(n) /\ StoresMessage(t) => SizeOf(fs', i) = SizeOf(fs, i)
    <3> SUFFICES ASSUME First(n), StoresMessage(t) PROVE SizeOf(fs', i) = SizeOf(fs, i)
      OBVIOUS
    <3> DEFINE k == fs.open_file_table[job[t].handle].of_inumber
    <3>1. /\ at[t] = "store" /\ at[t] \in InSession
          /\ \A m \in Inumbers \ {k} : SizeOf(fs', m) = SizeOf(fs, m)
      BY DEF StoresMessage, InSession
    <3>2. FileHas(fs, job[t].box, k)
      BY <1>1, <3>1 DEF SizesKnown
    <3> HIDE DEF k
    <3>3. job[t].box # n
      BY <1>1, <1>3, <2>1, <3>1, OneSession DEF n
    <3>4. i # k /\ i \in Inumbers
      BY <1>1, <2>2, <3>2, <3>3, FileIs
    <3> QED BY <3>1, <3>4
  <2>9. created'[n] = 1 /\ (\E k \in DOMAIN box_list' : box_list'[k].box_name = n) => First(n)
    BY <2>3, FirstBefore
  <2>10. /\ created'[n] = 1 /\ (\E k \in DOMAIN box_list' : box_list'[k].box_name = n)
              => file.of_offset = SizeOf(fs', i)
    BY <2>2, <2>7, <2>8, <2>9
  <2> QED BY <2>1, <2>5, <2>6, <2>10 DEF n, h, i, file
<1> QED BY <1>2, <1>3

\* The files of listed boxes after a step: when a session has counted its message,
LEMMA CountedFits ==
  ASSUME Sane, Singles, PublishersKnown, NEW t, NEW l, NEW j, Goes(t, l, j),
         UsesFiles(t), process' = "up", at[t] = "append",
         NEW n, First(n), job[t].box = n, NEW i, SizeOf(fs', i) = SizeOf(fs, i),
         NEW s \in Seq(Nat), FileFits(n, i, s), NEW r, r = Append(s, Len(job[t].data))
  PROVE  FileFits(n, i, r)'
<1> DEFINE x == Len(job[t].data)
           size == SizeOf(fs, i)
           total == Sum(s)
<1>1. process = "up" /\ t \in threads /\ t \in Threads
  BY OthersStay DEF Goes
<1>2. x \in Nat
  <2>1. Fits("append", job[t])
    BY <1>1 DEF Sane, ThreadsFit
  <2>2. job[t].data \in Messages
    BY <2>1 DEF Fits
  <2> QED BY <2>2, ClientsAssumption, LenProperties
<1>3. t \in OnItsWay(n)
  BY <1>1 DEF OnItsWay
<1>4. size = total + x
  BY <1>3 DEF FileFits
<1>5. OnItsWay(n) = {t}
  <2>1. ASSUME NEW u \in OnItsWay(n) PROVE u = t
    <3>1. u \in threads /\ at[u] \in InSession /\ at[t] \in InSession /\ job[u].box = n
      BY DEF OnItsWay, InSession
    <3> QED BY <1>1, <3>1, OneSession
  <2> QED BY <1>3, <2>1
<1>6. OnItsWay(n)' = {}
  BY <1>5, WaysMove
<1>7. total \in Nat /\ Sum(r) = x + total
  BY <1>2, SumAppend
<1> HIDE DEF x, total
<1>8. SizeOf(fs', i) = Sum(r)
  BY <1>2, <1>4, <1>7
<1> QED BY <1>6, <1>8 DEF FileFits

\* when it has written it,
LEMMA StoredFits ==
  ASSUME Sane, Singles, PublishersKnown, SizesKnown, NEW t, NEW l, NEW j, Goes(t, l, j),
         StoresMessage(t), process' = "up",
         NEW n, First(n), NEW i \in Inumbers, FileHas(fs, n, i), NEW s, FileFits(n, i, s)
  PROVE  FileFits(n, i, s)'
<1> DEFINE k == fs.open_file_table[job[t].handle].of_inumber
           x == Len(job[t].data)
           size == SizeOf(fs, i)
<1>1. /\ process = "up" /\ t \in threads /\ FsInv(fs) /\ UsesFiles(t)
      /\ at[t] = "store" /\ at[t] \in InSession /\ job' = job
      /\ \A m \in Inumbers \ {k} : SizeOf(fs', m) = SizeOf(fs, m)
  BY DEF StoresMessage, InSession, Goes, Sane, UsesFiles
<1>2. FileHas(fs, job[t].box, k)
  BY <1>1 DEF SizesKnown
<1>3. CASE job[t].box # n
  <2>1. SizeOf(fs', i) = SizeOf(fs, i)
    <3> HIDE DEF k
    <3>1. i # k
      BY <1>1, <1>2, <1>3, FileIs
    <3> QED BY <1>1, <3>1
  <2>2. OnItsWay(n)' = OnItsWay(n)
    BY <1>1, <1>3, WaysMove
  <2> QED BY <1>1, <2>1, <2>2 DEF FileFits
<1>4. CASE job[t].box = n
  <2>1. i = k
    <3> HIDE DEF k
    <3> QED BY <1>1, <1>2, <1>4, FileIs
  <2>2. fs.open_file_table[job[t].handle].of_offset = SizeOf(fs, k)
    BY <1>1, <1>4 DEF SizesKnown
  <2>3. SizeOf(fs', i) = size + x
    BY <2>1, <2>2 DEF StoresMessage
  <2>4. OnItsWay(n) = {}
    <3> SUFFICES ASSUME NEW u \in OnItsWay(n) PROVE FALSE
      OBVIOUS
    <3>1. u \in threads /\ at[u] \in {"close", "append"} /\ at[u] \in InSession /\ job[u].box = n
      BY DEF OnItsWay, InSession
    <3>2. u = t
      BY <1>1, <1>4, <3>1, OneSession
    <3> QED BY <1>1, <3>1, <3>2
  <2>5. OnItsWay(n)' = {t}
    BY <1>1, <1>4, <2>4, WaysMove
  <2>6. size = Sum(s)
    BY <2>4 DEF FileFits
  <2> QED BY <1>1, <2>3, <2>5, <2>6 DEF FileFits
<1> QED BY <1>3, <1>4

\* and when it does neither.
LEMMA ListedFits ==
  ASSUME Sane, Singles, PublishersKnown, SizesKnown, NEW t, NEW l, NEW j, Goes(t, l, j),
         Lists(t), UsesFiles(t), process' = "up", FsInv(fs'), ~BoxCreated(t),
         NEW k \in DOMAIN box_list', NEW n, n = box_list'[k].box_name, created[n] = 1,
         NEW i \in Inumbers, FileHas(fs', n, i), NEW r, r = box_list'[k].messages_size
  PROVE  FileFits(n, i, r)'
<1>1. process = "up" /\ t \in threads /\ BoxesFit
  BY DEF Goes, Sane
<1>2. PICK m \in DOMAIN box_list :
        /\ n = box_list[m].box_name
        /\ r = IF at[t] = "append" /\ box_list[m].box_name = job[t].box
                 THEN Append(box_list[m].messages_size, Len(job[t].data))
                 ELSE box_list[m].messages_size
  BY SizesMove
<1>3. box_list[m] \in BoxRecords
  BY <1>1, BoxIs DEF BoxesFit
<1>4. PICK s \in Seq(Nat) : s = box_list[m].messages_size
  BY <1>3 DEF BoxRecords
<1>5. n \in Boxes /\ First(n)
  BY <1>2, <1>3 DEF First, BoxRecords
<1>6. created[n] > 0
  <2> DEFINE x == created[n]
  <2>1. x = 1
    OBVIOUS
  <2> HIDE DEF x
  <2>2. x > 0
    BY <2>1
  <2> QED BY <2>2 DEF x
<1>7. FileHas(fs, n, i) /\ (~StoresMessage(t) => SizeOf(fs', i) = SizeOf(fs, i))
  BY <1>1, <1>5, <1>6, FilesBefore
<1>8. FileFits(n, i, s)
  BY <1>1, <1>2, <1>4, <1>7 DEF SizesKnown
<1>9. CASE StoresMessage(t)
  <2>1. r = s
    BY <1>2, <1>4, <1>9 DEF StoresMessage
  <2> QED BY <1>5, <1>7, <1>8, <1>9, <2>1, StoredFits
<1>10. CASE ~StoresMessage(t) /\ at[t] = "append" /\ job[t].box = n
  <2>1. r = Append(s, Len(job[t].data))
    BY <1>2, <1>4, <1>10
  <2> QED BY <1>5, <1>7, <1>8, <1>10, <2>1, CountedFits
<1>11. CASE ~StoresMessage(t) /\ ~(at[t] = "append" /\ job[t].box = n)
  <2>1. r = s
    BY <1>2, <1>4, <1>11
  <2>2. OnItsWay(n)' = OnItsWay(n) /\ \A u \in OnItsWay(n)' : job'[u].data = job[u].data
    BY <1>11, WaysMove
  <2> QED BY <1>7, <1>8, <1>11, <2>1, <2>2 DEF FileFits
<1> QED BY <1>9, <1>10, <1>11

\* A new box has an empty file if it is the first of its name.
LEMMA NewFits ==
  ASSUME Sane, Singles, PublishersKnown, SizesKnown, NEW t, NEW l, NEW j, Goes(t, l, j),
         Lists(t), UsesFiles(t), process' = "up", FsInv(fs'), BoxCreated(t),
         NEW k \in DOMAIN box_list', NEW n, n = box_list'[k].box_name, created'[n] = 1,
         NEW i \in Inumbers, FileHas(fs', n, i), NEW r, r = box_list'[k].messages_size
  PROVE  FileFits(n, i, r)'
<1> DEFINE new == job[t].box
           x == created[new]
<1>1. process = "up" /\ t \in threads /\ BoxesFit /\ at[t] = "create"
  BY DEF Goes, Sane, BoxCreated
<1>2. /\ new \in Boxes /\ x \in Nat /\ created'[new] = x + 1
      /\ \A m \in Boxes \ {new} : created'[m] = created[m]
      /\ \/ box_list'[k] = NewBox(new)
         \/ \E m \in DOMAIN box_list : box_list'[k] = box_list[m] /\ box_list[m].box_name # new
  BY BoxesMove
<1>3. OnItsWay(n)' = OnItsWay(n) /\ \A u \in OnItsWay(n)' : job'[u].data = job[u].data
  BY <1>1, WaysMove DEF StoresMessage
<1>4. ~StoresMessage(t)
  BY <1>1 DEF StoresMessage
<1>5. CASE box_list'[k] = NewBox(new)
  <2>1. n = new /\ r = <<>>
    BY <1>5 DEF NewBox
  <2>2. x = 0
    <3>1. 1 = x + 1
      BY <1>2, <2>1
    <3> HIDE DEF x
    <3> QED BY <1>2, <3>1
  <2>3. SizeOf(fs', i) = 0
    <3>1. FileHas(fs, n, i) => SizeOf(fs, i) = 0
      BY <1>1, <1>2, <2>1, <2>2 DEF SizesKnown
    <3> QED BY <1>1, <1>2, <1>4, <2>1, <3>1, FilesBefore
  <2>4. OnItsWay(n) = {}
    <3> SUFFICES ASSUME NEW u \in OnItsWay(n) PROVE FALSE
      OBVIOUS
    <3>1. u \in threads /\ at[u] \in InSession /\ job[u].box = new
      BY <2>1 DEF OnItsWay, InSession
    <3>2. x > 0
      BY <1>1, <3>1 DEF PublishersKnown
    <3> HIDE DEF x
    <3> QED BY <2>2, <3>2
  <2> QED BY <1>3, <2>1, <2>3, <2>4, SumOfNone DEF FileFits
<1>6. CASE \E m \in DOMAIN box_list : box_list'[k] = box_list[m] /\ box_list[m].box_name # new
  <2>1. PICK m \in DOMAIN box_list : box_list'[k] = box_list[m] /\ box_list[m].box_name # new
    BY <1>6
  <2>2. box_list[m] \in BoxRecords
    BY <1>1, BoxIs DEF BoxesFit
  <2>3. n \in Boxes \ {new} /\ n = box_list[m].box_name
    BY <2>1, <2>2 DEF BoxRecords
  <2>4. created[n] = 1 /\ created[n] > 0
    <3> DEFINE y == created[n]
    <3>1. y = 1
      BY <1>2, <2>3
    <3> HIDE DEF y
    <3>2. y > 0
      BY <3>1
    <3> QED BY <3>1, <3>2 DEF y
  <2>5. FileHas(fs, n, i) /\ SizeOf(fs', i) = SizeOf(fs, i)
    BY <1>1, <1>4, <2>3, <2>4, FilesBefore
  <2>6. FileFits(n, i, r)
    BY <1>1, <2>1, <2>3, <2>4, <2>5 DEF SizesKnown
  <2> QED BY <1>3, <2>5, <2>6 DEF FileFits
<1> QED BY <1>2, <1>5, <1>6

\* A step of one thread keeps track of the sizes.
LEMMA ActsSizes ==
  ASSUME Sane, Singles, PublishersKnown, HandlesKnown, SizesKnown, FsInv(fs'),
         NEW t, Acts(t), Lists(t), UsesFiles(t), process' = "up"
  PROVE  SizesKnown'
<1>1. PICK l, j : Goes(t, l, j)
  BY DEF Acts
<1>2. process = "up" /\ t \in threads /\ threads' = threads /\ FsInv(fs) /\ BoxesFit
  BY <1>1 DEF Goes, Sane
<1>3. ASSUME NEW n \in Boxes
      PROVE  /\ created[n] \in Nat
             /\ created'[n] = 0 => created[n] = 0
             /\ created'[n] > 0 => created[n] > 0 \/ (BoxCreated(t) /\ n = job[t].box)
  <2> DEFINE x == created[n]
             y == created'[n]
  <2>1. x \in Nat
    BY <1>2 DEF BoxesFit
  <2>2. \/ y = x
        \/ y = x + 1 /\ BoxCreated(t) /\ n = job[t].box
    BY BoxesMove
  <2> HIDE DEF x, y
  <2>3. (y = 0 => x = 0) /\ (y > 0 => x > 0 \/ (BoxCreated(t) /\ n = job[t].box))
    BY <2>1, <2>2
  <2> QED BY <2>1, <2>3 DEF x, y
<1>4. ASSUME NEW n \in Boxes, NEW i \in Inumbers, FileHas(fs', n, i), created'[n] = 0
      PROVE  SizeOf(fs', i) = 0
  <2> DEFINE k == fs.open_file_table[job[t].handle].of_inumber
  <2>1. created[n] = 0
    BY <1>3, <1>4
  <2>2. CASE ~FileHas(fs, n, i)
    BY <1>2, <1>4, <2>2, FilesBefore
  <2>3. CASE FileHas(fs, n, i) /\ ~StoresMessage(t)
    BY <1>2, <1>4, <2>1, <2>3, FilesBefore DEF SizesKnown
  <2>4. CASE FileHas(fs, n, i) /\ StoresMessage(t)
    <3>1. /\ at[t] = "store" /\ at[t] \in InSession
          /\ \A m \in Inumbers \ {k} : SizeOf(fs', m) = SizeOf(fs, m)
      BY <2>4 DEF StoresMessage, InSession
    <3>2. FileHas(fs, job[t].box, k) /\ created[job[t].box] > 0
      BY <1>2, <3>1 DEF SizesKnown, PublishersKnown
    <3> HIDE DEF k
    <3>3. n # job[t].box
      <4> SUFFICES ASSUME n = job[t].box PROVE FALSE
        OBVIOUS
      <4> DEFINE x == created[n]
      <4>1. x = 0 /\ x > 0
        BY <2>1, <3>2
      <4> HIDE DEF x
      <4> QED BY <4>1
    <3>4. i # k
      BY <1>2, <2>4, <3>2, <3>3, FileIs
    <3>5. SizeOf(fs, i) = 0
      BY <1>2, <2>1, <2>4 DEF SizesKnown
    <3> QED BY <3>1, <3>4, <3>5
  <2> QED BY <2>2, <2>3, <2>4
<1>5. ASSUME NEW n \in Boxes, created'[n] > 0
      PROVE  \E i \in Inumbers : FileHas(fs', n, i)
  <2>1. CASE \E i \in Inumbers : FileHas(fs, n, i)
    <3>1. PICK i \in Inumbers : FileHas(fs, n, i)
      BY <2>1
    <3>2. FileHas(fs', n, i)
      BY <3>1 DEF UsesFiles, KeepsFiles, MakesFile, OpensBox, StoresMessage, ClosesBox, ReadsBox,
                  FilesStay, FileMade
    <3> QED BY <3>2
  <2>2. CASE BoxCreated(t) /\ n = job[t].box /\ ~\E i \in Inumbers : FileHas(fs, n, i)
    <3>1. MakesFile(t)
      BY <2>2 DEF UsesFiles, KeepsFiles, OpensBox, StoresMessage, ClosesBox, ReadsBox, BoxCreated
    <3>2. FileMade(fs, fs', n)
      BY <2>2, <3>1 DEF MakesFile
    <3> QED BY <3>2 DEF FileMade
  <2> QED BY <1>2, <1>3, <1>5, <2>1, <2>2 DEF SizesKnown
<1>6. ASSUME NEW k \in DOMAIN box_list', NEW i \in Inumbers,
             created'[box_list'[k].box_name] = 1, FileHas(fs', box_list'[k].box_name, i)
      PROVE  FileFits(box_list[k].box_name, i, box_list[k].messages_size)'
  <2>1. PICK n, r : n = box_list'[k].box_name /\ r = box_list'[k].messages_size
    OBVIOUS
  <2>2. created'[n] = 1 /\ FileHas(fs', n, i)
    BY <1>6, <2>1
  <2>3. FileFits(n, i, r)'
    <3>1. CASE BoxCreated(t)
      BY <1>1, <2>1, <2>2, <3>1, NewFits
    <3>2. CASE ~BoxCreated(t)
      <4>1. created[n] = 1
        BY <2>2, <3>2, BoxesMove
      <4> QED BY <1>1, <2>1, <2>2, <3>2, <4>1, ListedFits
    <3> QED BY <3>1, <3>2
  <2> QED BY <2>1, <2>3 DEF FileFits, OnItsWay
<1>7. ASSUME NEW u \in threads', at'[u] = "store"
      PROVE  LET file == fs'.open_file_table[job'[u].handle]
             IN  /\ FileHas(fs', job'[u].box, file.of_inumber)
                 /\ First(job[u].box)' => file.of_offset = SizeOf(fs', file.of_inumber)
  <2>1. LET file == fs'.open_file_table[job'[u].handle]
            n == job'[u].box
        IN  /\ FileHas(fs', n, file.of_inumber)
            /\ created'[n] = 1 /\ (\E k \in DOMAIN box_list' : box_list'[k].box_name = n)
                  => file.of_offset = SizeOf(fs', file.of_inumber)
    BY <1>1, <1>2, <1>7, StoredStays
  <2> QED BY <2>1 DEF First
<1> QED BY <1>2, <1>4, <1>5, <1>6, <1>7 DEF SizesKnown

\* When a request is read, nobody has a file open that did not.
LEMMA TakesSizes ==
  ASSUME Sane, HandlesKnown, SizesKnown, NEW t, NEW d, NEW l, NEW j, Takes(t, d, l, j)
  PROVE  HandlesKnown' /\ SizesKnown'
<1>1. /\ process = "up" /\ t \in threads /\ at[t] = "idle"
      /\ \A u \in Threads \ {t} : at'[u] = at[u] /\ job'[u] = job[u]
      /\ at'[t] = l /\ threads \subseteq Threads
      /\ UNCHANGED <<threads, box_list, fs, created>>
      /\ l \in Fresh \cup {"idle"}
  BY DEF Takes, Sane, ThreadsFit
<1>2. l \notin Handled \cup {"close", "append", "store"}
  BY <1>1 DEF Fresh, Handled
<1>3. Handled' = Handled /\ at[t] \notin Handled
  BY <1>1 DEF Handled
<1>4. HandlesKnown'
  BY <1>1, <1>2, <1>3 DEF HandlesKnown
<1>5. \A n : OnItsWay(n)' = OnItsWay(n) /\ \A u \in OnItsWay(n) : job'[u].data = job[u].data
  <2> SUFFICES ASSUME NEW n
               PROVE  OnItsWay(n)' = OnItsWay(n)
                        /\ \A u \in OnItsWay(n) : job'[u].data = job[u].data
    OBVIOUS
  <2>1. \A u : u \in OnItsWay(n)' <=> u \in OnItsWay(n)
    BY <1>1, <1>2 DEF OnItsWay
  <2> QED BY <1>1, <2>1 DEF OnItsWay
<1>6. ASSUME NEW k \in DOMAIN box_list, NEW i \in Inumbers,
             created[box_list[k].box_name] = 1, FileHas(fs, box_list[k].box_name, i)
      PROVE  FileFits(box_list[k].box_name, i, box_list[k].messages_size)'
  <2>1. PICK n, r : n = box_list[k].box_name /\ r = box_list[k].messages_size
    OBVIOUS
  <2>2. FileFits(n, i, r)
    BY <1>1, <1>6, <2>1 DEF SizesKnown
  <2>3. FileFits(n, i, r)'
    BY <1>1, <1>5, <2>2 DEF FileFits
  <2>4. n = box_list'[k].box_name /\ r = box_list'[k].messages_size
    BY <1>1, <2>1
  <2> QED BY <2>3, <2>4 DEF FileFits, OnItsWay
<1>7. \A u \in threads : at'[u] = "store" => at[u] = "store" /\ job'[u] = job[u]
  BY <1>1, <1>2
<1>8. SizesKnown'
  BY <1>1, <1>6, <1>7 DEF SizesKnown, First
<1> QED BY <1>4, <1>8

\* The fold of the property, over the messages that are on their way.
LEMMA OnItsWayAdds ==
  ASSUME NEW W, IsFiniteSet(W), \A t \in W : Len(job[t].data) \in Nat
  PROVE  LET sum == FoldSet(LAMBDA t, s : Len(job[t].data) + s, 0, W)
         IN  /\ W = {} => sum = 0
             /\ \A t \in W : W = {t} => sum = Len(job[t].data)
<1> DEFINE size(t) == Len(job[t].data)
           Adds(sum) == sum = [s \in SUBSET W |->
                                 IF s = {} THEN 0 ELSE size(Pick(s)) + sum[s \ {Pick(s)}]]
           b == [t \in W |-> size(t)]
           sum0 == CHOOSE sum : Adds(sum)
<1>1. FoldSet(LAMBDA t, s : Len(job[t].data) + s, 0, W) = sum0[W]
  BY DEF FoldSet, MapThenFoldSet, Pick
<1>2. DOMAIN b = W /\ \A t \in W : b[t] = size(t) /\ b[t] \in Nat
  OBVIOUS
<1>3. Summable(b)
  BY <1>2 DEF Summable
<1> HIDE DEF size
<1>4. ASSUME NEW sum PROVE Adds(sum) <=> IsTotal(sum, b)
  <2>1. \A s \in SUBSET W : s # {} => b[Pick(s)] = size(Pick(s))
    BY <1>2, PickIsElement
  <2> HIDE DEF b
  <2> QED BY <1>2, <2>1 DEF IsTotal
<1>5. IsTotal(Total(b), b)
  BY <1>3, TotalExists
<1> HIDE DEF b
<1>6. Adds(Total(b))
  BY <1>4, <1>5
<1> HIDE DEF Adds
<1>7. Adds(sum0)
  BY <1>6
<1>8. IsTotal(sum0, b)
  BY <1>4, <1>7
<1> HIDE DEF sum0
<1>9. sum0[{}] = 0
  BY <1>8, TotalStep
<1>10. \A t \in W : W = {t} => sum0[W] = b[t]
  BY <1>2, <1>3, <1>8, TotalOfOne
<1> QED BY <1>1, <1>2, <1>9, <1>10 DEF size

\* Nothing moves that handles and sizes depend on.
LEMMA SameSizes ==
  ASSUME HandlesKnown, SizesKnown, UNCHANGED <<process, threads, at, job, box_list, fs, created>>
  PROVE  HandlesKnown' /\ SizesKnown'
<1>1. HandlesKnown'
  BY DEF HandlesKnown, Handled
<1>2. SizesKnown'
  <2>1. \A n : (First(n)' <=> First(n)) /\ OnItsWay(n)' = OnItsWay(n)
    BY DEF First, OnItsWay
  <2>2. \A n, i, s : FileFits(n, i, s)' <=> FileFits(n, i, s)
    BY <2>1 DEF FileFits
  <2> QED BY <2>1, <2>2 DEF SizesKnown
<1> QED BY <1>1, <1>2

\* Every step keeps track of handles and sizes.
LEMMA SizeSteps ==
  ASSUME Sane, Singles, PublishersKnown, HandlesKnown, SizesKnown, [Next]_vars, Sane'
  PROVE  HandlesKnown' /\ SizesKnown'
<1>1. CASE \E t \in Threads : Thread(t)
  <2>1. PICK t \in Threads : Thread(t)
    BY <1>1
  <2>2. CASE \E d, l, j : Takes(t, d, l, j)
    BY <2>2, TakesSizes
  <2>3. CASE Acts(t) /\ Lists(t) /\ ~read_pipe_input(t)
    <3>1. FsInv(fs') /\ UsesFiles(t)
      BY <2>1, <2>3, ThreadUses DEF Sane
    <3>2. CASE process' = "up"
      BY <2>3, <3>1, <3>2, ActsHandles, ActsSizes
    <3>3. CASE process' # "up"
      BY <3>3 DEF HandlesKnown, SizesKnown
    <3> QED BY <3>2, <3>3
  <2>4. read_pipe_input(t) => \E d, l, j : Takes(t, d, l, j)
    BY ReadIs
  <2> QED BY <2>1, <2>2, <2>3, <2>4, ThreadLists
<1>2. CASE BesideBroker
  BY <1>2, SameSizes DEF BesideBroker, brokerVars
<1>3. CASE UNCHANGED vars
  BY <1>3, SameSizes DEF vars, brokerVars
<1> QED BY <1>1, <1>2, <1>3 DEF Next

\* Both are always known.
LEMMA AlwaysSizes == Spec => [](HandlesKnown /\ SizesKnown)
<1>1. Init => HandlesKnown /\ SizesKnown
  <2> SUFFICES ASSUME Init PROVE HandlesKnown /\ SizesKnown
    OBVIOUS
  <2>1. /\ box_list = <<>> /\ at = [t \in Threads |-> "idle"] /\ threads \subseteq Threads
        /\ fs = TfsInitial /\ created = [n \in Boxes |-> 0]
    BY DEF Init, Threads
  <2>2. \A n, i : ~FileHas(fs, n, i)
    BY <2>1, StartsEmpty DEF FileHas
  <2>3. DOMAIN box_list = {}
    BY <2>1, EmptySeq, LenProperties
  <2>4. \A n \in Boxes : ~(created[n] > 0)
    BY <2>1
  <2> HIDE DEF Handled
  <2>5. "idle" \notin Handled
    BY DEF Handled
  <2>6. HandlesKnown
    BY <2>1, <2>5 DEF HandlesKnown
  <2> QED BY <2>1, <2>2, <2>3, <2>4, <2>6 DEF SizesKnown
<1>2. Sane /\ Singles /\ PublishersKnown /\ HandlesKnown /\ SizesKnown /\ [Next]_vars /\ Sane'
        => (HandlesKnown /\ SizesKnown)'
  BY SizeSteps
<1> QED BY <1>1, <1>2, AlwaysSane, AlwaysSingle, AlwaysKnown, PTL DEF Spec

\* The sizes that the broker keeps for a box and the messages on their way add up to
\* the size of its file, as long as the box is the first of its name: register_publisher
\* lets one publisher at a time write to it, and each message is stored whole, at the
\* end of the file, before its size is appended.
THEOREM SizesAlwaysAgree == Spec => []SizesAgree
<1>1. Sane /\ Singles /\ PublishersKnown /\ SizesKnown => SizesAgree
  <2> SUFFICES ASSUME Sane, Singles, PublishersKnown, SizesKnown, process = "up", NEW n \in Boxes,
                      find_box_by_name(n) # 0, created[n] = 1
               PROVE  fs.inode_table[find_in_dir(fs.dir, n)].i_size =
                        Bytes(n) + FoldSet(LAMBDA t, sum : Len(job[t].data) + sum, 0, OnItsWay(n))
    BY DEF SizesAgree
  <2> DEFINE k == find_box_by_name(n)
             s == box_list[k].messages_size
             total == Sum(s)
             way == FoldSet(LAMBDA t, sum : Len(job[t].data) + sum, 0, OnItsWay(n))
  <2>1. k \in DOMAIN box_list /\ box_list[k].box_name = n /\ box_list[k] \in BoxRecords
    BY FindBox DEF Sane, BoxesFit
  <2>2. s \in Seq(Nat) /\ Bytes(n) = total
    BY <2>1 DEF BoxRecords, Bytes, Sum
  <2>3. First(n)
    BY <2>1 DEF First
  <2>4. total \in Nat
    <3> HIDE DEF s
    <3>1. 0 \in Nat
      OBVIOUS
    <3> QED BY <2>2, <3>1, SumAppend
  <2>5. PICK i \in Inumbers : FileHas(fs, n, i)
    <3> DEFINE x == created[n]
    <3>1. x = 1
      OBVIOUS
    <3> HIDE DEF x
    <3>2. x > 0
      BY <3>1
    <3> QED BY <3>2 DEF x, SizesKnown
  <2>6. /\ find_in_dir(fs.dir, n) = i
        /\ fs.inode_table[find_in_dir(fs.dir, n)].i_size = SizeOf(fs, i)
    BY <2>5, FileIs DEF Sane, SizeOf
  <2>7. FileFits(n, i, s)
    BY <2>1, <2>5 DEF SizesKnown
  <2>8. ASSUME NEW t \in OnItsWay(n) PROVE Len(job[t].data) \in Nat /\ OnItsWay(n) = {t}
    <3>1. /\ t \in threads /\ at[t] \in {"close", "append"} /\ at[t] \in InSession
          /\ job[t].box = n
      BY DEF OnItsWay, InSession
    <3>2. job[t].data \in Messages
      BY <3>1 DEF Sane, ThreadsFit, Fits
    <3>3. \A u \in OnItsWay(n) : u = t
      <4> SUFFICES ASSUME NEW u \in OnItsWay(n) PROVE u = t
        OBVIOUS
      <4>1. u \in threads /\ at[u] \in InSession /\ job[u].box = n
        BY DEF OnItsWay, InSession
      <4> QED BY <2>3, <3>1, <4>1, OneSession
    <3>4. Len(job[t].data) \in Nat
      BY <3>2, ClientsAssumption, LenProperties
    <3> QED BY <3>3, <3>4
  <2>9. /\ OnItsWay(n) = {} => way = 0
        /\ \A t \in OnItsWay(n) : way = Len(job[t].data)
    <3>1. IsFiniteSet(OnItsWay(n))
      <4>1. CASE OnItsWay(n) = {}
        BY <4>1, FS_EmptySet
      <4>2. CASE OnItsWay(n) # {}
        <5>1. PICK t : t \in OnItsWay(n)
          BY <4>2
        <5>2. OnItsWay(n) = {t}
          BY <2>8, <5>1
        <5> QED BY <5>2, FS_Singleton
      <4> QED BY <4>1, <4>2
    <3> QED BY <2>8, <3>1, OnItsWayAdds
  <2> HIDE DEF k, s, way, total
  <2>10. SizeOf(fs, i) = total + way
    <3>1. CASE OnItsWay(n) = {}
      <4>1. SizeOf(fs, i) = total /\ way = 0
        BY <2>7, <2>9, <3>1 DEF FileFits, total
      <4> QED BY <2>4, <4>1
    <3>2. CASE OnItsWay(n) # {}
      <4>1. PICK t : t \in OnItsWay(n)
        BY <3>2
      <4> QED BY <2>7, <2>9, <4>1 DEF FileFits, total
    <3> QED BY <3>1, <3>2
  <2> QED BY <2>2, <2>6, <2>10 DEF way
<1> QED BY <1>1, AlwaysSane, AlwaysSingle, AlwaysKnown, AlwaysSizes, PTL
=============================================================================

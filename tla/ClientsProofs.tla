--------------------------- MODULE ClientsProofs ---------------------------
(* What the clients keep, for any broker: lemmas for the proofs about brokers. *)
EXTENDS Clients, SequenceTheorems, TLAPS

Requests == [code : {"publish", "subscribe", "cut"} \cup Commands, client : Clients,
             life : Nat \ {0}, box : Boxes, bytes : 1 .. 289]

\* A request comes from a client of the kind that makes it.
FromItsKind(code, c) ==
  /\ code = "publish" => c \in Publishers
  /\ code = "subscribe" => c \in Subscribers
  /\ code \in Commands => c \in Managers

RequestsFit ==
  /\ register_pipe \in Seq(Requests)
  /\ \A i \in DOMAIN register_pipe :
       FromItsKind(register_pipe[i].code, register_pipe[i].client)

IsSeq(s) == s \in Seq({s[i] : i \in DOMAIN s})

\* A client and its FIFO.  Publishers write messages.  A client that was never
\* started has no FIFO, and nothing was written to one.
FifoFits(c, progress, life, written, read) ==
  /\ progress \in Stages /\ life \in Nat /\ read \in Nat
  /\ IsSeq(written) /\ read <= Len(written)
  /\ c \in Publishers => written \in Seq(Messages)
  /\ life = 0 => progress = "nofifo" /\ written = <<>>

FifosFit ==
  /\ stage = [c \in Clients |-> stage[c]] /\ lives = [c \in Clients |-> lives[c]]
  /\ pipe = [c \in Clients |-> pipe[c]] /\ taken = [c \in Clients |-> taken[c]]
  /\ \A c \in Clients : FifoFits(c, stage[c], lives[c], pipe[c], taken[c])

ClientsInv == RequestsFit /\ FifosFit

-----------------------------------------------------------------------------

\* One element more.
LEMMA AppendIsSeq ==
  ASSUME NEW s, IsSeq(s), NEW e
  PROVE  /\ IsSeq(Append(s, e)) /\ Len(s) \in Nat /\ DOMAIN s = 1 .. Len(s)
         /\ Len(Append(s, e)) = Len(s) + 1
         /\ \A i \in 1 .. Len(s) : Append(s, e)[i] = s[i]
         /\ Append(s, e)[Len(s) + 1] = e
<1> DEFINE S == {s[i] : i \in DOMAIN s}
           T == S \cup {e}
           t == Append(s, e)
<1>1. s \in Seq(T) /\ e \in T
  <2>1. s \in Seq(S)
    BY DEF IsSeq
  <2> HIDE DEF S
  <2> QED BY <2>1, LenProperties, SeqDef
<1> HIDE DEF T
<1>2. /\ t \in Seq(T) /\ Len(t) = Len(s) + 1
      /\ \A i \in 1 .. Len(s) : t[i] = s[i]
      /\ t[Len(s) + 1] = e
  BY <1>1, AppendProperties
<1>3. Len(s) \in Nat /\ DOMAIN s = 1 .. Len(s)
  BY <1>1, LenProperties
<1> HIDE DEF t
<1>4. IsSeq(t)
  <2> DEFINE U == {t[i] : i \in DOMAIN t}
  <2>1. t \in [1 .. Len(t) -> U] /\ Len(t) \in Nat
    <3>1. DOMAIN t = 1 .. Len(t) /\ Len(t) \in Nat /\ t = [i \in 1 .. Len(t) |-> t[i]]
      BY <1>2, LenProperties
    <3> QED BY <3>1
  <2> HIDE DEF U
  <2>2. t \in Seq(U)
    BY <2>1, SeqDef
  <2> QED BY <2>2 DEF IsSeq, U
<1> QED BY <1>2, <1>3, <1>4 DEF t

\* The empty sequence.
LEMMA EmptyIsSeq == IsSeq(<<>>) /\ Len(<<>>) = 0 /\ \A S : <<>> \in Seq(S)
<1>1. \A S : <<>> \in Seq(S)
  BY EmptySeq
<1>2. Len(<<>>) = 0
  BY EmptySeq
<1> QED BY <1>1, <1>2 DEF IsSeq

\* A step that concerns one client.
LEMMA OneFifoChanges ==
  ASSUME FifosFit, NEW c \in Clients, NEW s, NEW l, NEW p, NEW t, FifoFits(c, s, l, p, t),
         stage' = [stage EXCEPT ![c] = s], lives' = [lives EXCEPT ![c] = l],
         pipe' = [pipe EXCEPT ![c] = p], taken' = [taken EXCEPT ![c] = t]
  PROVE  FifosFit'
<1>1. /\ stage' = [k \in Clients |-> stage'[k]] /\ lives' = [k \in Clients |-> lives'[k]]
      /\ pipe' = [k \in Clients |-> pipe'[k]] /\ taken' = [k \in Clients |-> taken'[k]]
  BY DEF FifosFit
<1>2. stage'[c] = s /\ lives'[c] = l /\ pipe'[c] = p /\ taken'[c] = t
  BY DEF FifosFit
<1>3. \A k \in Clients \ {c} : /\ stage'[k] = stage[k] /\ lives'[k] = lives[k]
                               /\ pipe'[k] = pipe[k] /\ taken'[k] = taken[k]
  BY DEF FifosFit
<1>4. \A k \in Clients : FifoFits(k, stage[k], lives[k], pipe[k], taken[k])
  BY DEF FifosFit
<1>5. ASSUME NEW k \in Clients PROVE FifoFits(k, stage'[k], lives'[k], pipe'[k], taken'[k])
  <2>1. CASE k = c
    BY <1>2, <2>1
  <2>2. CASE k # c
    BY <1>3, <1>4, <2>2
  <2> QED BY <2>1, <2>2
<1> QED BY <1>1, <1>5 DEF FifosFit

\* What does not change is changed to itself.
LEMMA Unchanged ==
  ASSUME FifosFit, NEW c \in Clients
  PROVE  /\ stage = [stage EXCEPT ![c] = stage[c]] /\ lives = [lives EXCEPT ![c] = lives[c]]
         /\ pipe = [pipe EXCEPT ![c] = pipe[c]] /\ taken = [taken EXCEPT ![c] = taken[c]]
         /\ FifoFits(c, stage[c], lives[c], pipe[c], taken[c])
BY DEF FifosFit

-----------------------------------------------------------------------------
(* Every step of a client *)

\* A client begins another life: its FIFO is empty, its request is the last.
SignsIn(c) ==
  /\ lives' = [lives EXCEPT ![c] = lives[c] + 1] /\ pipe' = [pipe EXCEPT ![c] = <<>>]
  /\ \E request \in Requests : /\ request.client = c /\ request.life = lives[c] + 1
                               /\ register_pipe' = Append(register_pipe, request)

\* A client that signs in does so.
LEMMA SignInKeeps ==
  ASSUME ClientsInv, NEW c \in Clients, NEW n \in Boxes,
         NEW code \in {"publish", "subscribe"} \cup Commands, FromItsKind(code, c),
         SignIn(c, code, n)
  PROVE  ClientsInv' /\ SignsIn(c)
<1>1. FifoFits(c, stage[c], lives[c], pipe[c], taken[c])
  BY DEF ClientsInv, FifosFit
<1>2. /\ stage' = [stage EXCEPT ![c] = "signed"] /\ lives' = [lives EXCEPT ![c] = lives[c] + 1]
      /\ pipe' = [pipe EXCEPT ![c] = <<>>] /\ taken' = [taken EXCEPT ![c] = 0]
  BY DEF SignIn
<1>3. FifoFits(c, "signed", lives[c] + 1, <<>>, 0)
  <2>1. lives[c] + 1 \in Nat /\ lives[c] + 1 # 0
    BY <1>1 DEF FifoFits
  <2> QED BY <2>1, EmptyIsSeq DEF FifoFits, Stages
<1>4. FifosFit
  BY DEF ClientsInv
<1>5. FifosFit'
  BY <1>2, <1>3, <1>4, OneFifoChanges
<1> DEFINE request == [code |-> code, client |-> c, life |-> lives'[c], box |-> n,
                       bytes |-> RequestBytes(code)]
<1>6. request \in Requests
  <2>1. lives'[c] \in Nat \ {0}
    BY <1>1, <1>2, <1>4 DEF FifosFit, FifoFits
  <2>2. RequestBytes(code) \in 1 .. 289
    BY DEF RequestBytes
  <2> QED BY <2>1, <2>2 DEF Requests
<1>7. register_pipe \in Seq(Requests) /\ register_pipe' = Append(register_pipe, request)
  BY DEF SignIn, ClientsInv, RequestsFit
<1>8. request.code = code /\ request.client = c /\ request.life = lives'[c]
  OBVIOUS
<1> HIDE DEF request
<1>9. RequestsFit'
  <2>1. /\ register_pipe' \in Seq(Requests) /\ Len(register_pipe') = Len(register_pipe) + 1
        /\ \A i \in 1 .. Len(register_pipe) : register_pipe'[i] = register_pipe[i]
        /\ register_pipe'[Len(register_pipe) + 1] = request
    BY <1>6, <1>7, AppendProperties
  <2>2. /\ DOMAIN register_pipe' = 1 .. Len(register_pipe')
        /\ DOMAIN register_pipe = 1 .. Len(register_pipe) /\ Len(register_pipe) \in Nat
    BY <1>7, <2>1, LenProperties
  <2>3. ASSUME NEW i \in DOMAIN register_pipe'
        PROVE  FromItsKind(register_pipe'[i].code, register_pipe'[i].client)
    <3>1. CASE i \in DOMAIN register_pipe
      BY <2>1, <2>2, <3>1 DEF ClientsInv, RequestsFit
    <3>2. CASE i \notin DOMAIN register_pipe
      <4>1. i = Len(register_pipe) + 1
        BY <2>1, <2>2, <3>2
      <4> QED BY <1>8, <2>1, <4>1
    <3> QED BY <3>1, <3>2
  <2> QED BY <2>1, <2>3 DEF RequestsFit
<1>10. SignsIn(c)
  <2>1. lives'[c] = lives[c] + 1
    BY <1>2, <1>4 DEF FifosFit
  <2> QED BY <1>2, <1>6, <1>7, <1>8, <2>1 DEF SignsIn
<1> QED BY <1>5, <1>9, <1>10 DEF ClientsInv

\* A client that goes on, and may have read something.
LEMMA BecomesKeeps ==
  ASSUME ClientsInv, NEW c \in Clients, NEW s \in Stages, stage[c] # "nofifo", Becomes(c, s),
         NEW t \in Nat, t <= Len(pipe[c]), taken' = [taken EXCEPT ![c] = t]
  PROVE  ClientsInv'
<1>1. FifosFit
  BY DEF ClientsInv
<1>2. /\ lives' = [lives EXCEPT ![c] = lives[c]] /\ pipe' = [pipe EXCEPT ![c] = pipe[c]]
      /\ stage' = [stage EXCEPT ![c] = s] /\ register_pipe' = register_pipe
  BY <1>1, Unchanged DEF Becomes
<1>3. FifoFits(c, s, lives[c], pipe[c], t)
  <2>1. FifoFits(c, stage[c], lives[c], pipe[c], taken[c])
    BY <1>1, Unchanged
  <2> QED BY <2>1 DEF FifoFits
<1>4. FifosFit'
  BY <1>1, <1>2, <1>3, OneFifoChanges
<1>5. RequestsFit'
  BY <1>2 DEF ClientsInv, RequestsFit
<1> QED BY <1>4, <1>5 DEF ClientsInv

\* A client that goes on and reads nothing.
LEMMA BecomesOnlyKeeps ==
  ASSUME ClientsInv, NEW c \in Clients, NEW s \in Stages, stage[c] # "nofifo", Becomes(c, s),
         UNCHANGED taken
  PROVE  ClientsInv'
<1>1. FifosFit
  BY DEF ClientsInv
<1>2. FifoFits(c, stage[c], lives[c], pipe[c], taken[c]) /\ taken' = [taken EXCEPT ![c] = taken[c]]
  BY <1>1, Unchanged
<1>3. taken[c] \in Nat /\ taken[c] <= Len(pipe[c])
  BY <1>2 DEF FifoFits
<1> QED BY <1>2, <1>3, BecomesKeeps

\* What is unread is what was written and not taken.
LEMMA UnreadIs ==
  ASSUME ClientsInv, NEW c \in Clients
  PROVE  /\ taken[c] \in Nat /\ Len(pipe[c]) \in Nat /\ DOMAIN pipe[c] = 1 .. Len(pipe[c])
         /\ taken[c] <= Len(pipe[c]) /\ Unread(c) = Len(pipe[c]) - taken[c]
<1>1. FifoFits(c, stage[c], lives[c], pipe[c], taken[c])
  BY DEF ClientsInv, FifosFit
<1>2. Len(pipe[c]) \in Nat /\ DOMAIN pipe[c] = 1 .. Len(pipe[c])
  BY <1>1, AppendIsSeq DEF FifoFits
<1> QED BY <1>1, <1>2 DEF FifoFits, Unread

\* Nobody but the broker writes to a manager.
LEMMA ManagerKeeps ==
  ASSUME ClientsInv, NEW m \in Managers, Manager(m)
  PROVE  ClientsInv' /\ pipe' = pipe
<1>1. m \in Clients /\ FifosFit
  BY DEF Clients, ClientsInv
<1>2. CASE \E code \in Commands, n \in Boxes : ManagerSignIn(m, code, n)
  <2>1. PICK code \in Commands, n \in Boxes : ManagerSignIn(m, code, n)
    BY <1>2
  <2>2. SignIn(m, code, n) /\ lives[m] = 0
    BY <2>1 DEF ManagerSignIn
  <2>3. FromItsKind(code, m)
    BY ClientsAssumption DEF FromItsKind
  <2>4. ClientsInv'
    BY <1>1, <2>2, <2>3, SignInKeeps
  <2>5. pipe[m] = <<>>
    BY <1>1, <2>2 DEF FifosFit, FifoFits
  <2>6. pipe' = pipe
    BY <1>1, <2>2, <2>5 DEF SignIn, FifosFit
  <2> QED BY <2>4, <2>6
<1>3. CASE ManagerRead(m)
  <2>1. Len(pipe[m]) \in Nat /\ Len(pipe[m]) <= Len(pipe[m])
    BY <1>1, UnreadIs
  <2>2. /\ stage[m] # "nofifo" /\ Becomes(m, "nofifo")
        /\ taken' = [taken EXCEPT ![m] = Len(pipe[m])]
    BY <1>3 DEF ManagerRead
  <2>3. "nofifo" \in Stages
    BY DEF Stages
  <2>4. ClientsInv'
    BY <1>1, <2>1, <2>2, <2>3, BecomesKeeps
  <2> QED BY <2>2, <2>4 DEF Becomes
<1> QED BY <1>2, <1>3 DEF Manager

\* A step of a publisher.
LEMMA PublisherKeeps ==
  ASSUME ClientsInv, NEW p \in Publishers, Publisher(p)
  PROVE  ClientsInv' /\ \A m \in Managers : pipe'[m] = pipe[m]
<1>1. p \in Clients /\ FifosFit /\ Managers \subseteq Clients /\ p \notin Managers
  BY ClientsAssumption DEF Clients, ClientsInv
<1>2. CASE \E n \in Boxes : PublisherSignIn(p, n)
  <2>1. PICK n \in Boxes : PublisherSignIn(p, n)
    BY <1>2
  <2>2. SignIn(p, "publish", n)
    BY <2>1 DEF PublisherSignIn
  <2>3. FromItsKind("publish", p)
    BY ClientsAssumption DEF FromItsKind
  <2>4. ClientsInv'
    BY <1>1, <2>2, <2>3, SignInKeeps
  <2> QED BY <1>1, <2>2, <2>4 DEF SignIn, FifosFit
<1>3. CASE \E message \in Messages : PublisherWrite(p, message)
  <2>1. PICK message \in Messages : PublisherWrite(p, message)
    BY <1>3
  <2>2. /\ stage[p] = "writing" /\ pipe' = [pipe EXCEPT ![p] = Append(pipe[p], message)]
        /\ UNCHANGED <<register_pipe, stage, lives, taken>>
    BY <2>1 DEF PublisherWrite
  <2>3. FifoFits(p, stage[p], lives[p], pipe[p], taken[p])
    BY <1>1, Unchanged
  <2>4. /\ IsSeq(Append(pipe[p], message)) /\ Len(pipe[p]) \in Nat
        /\ Len(Append(pipe[p], message)) = Len(pipe[p]) + 1
    BY <2>3, AppendIsSeq DEF FifoFits
  <2>5. Append(pipe[p], message) \in Seq(Messages)
    BY <2>3, AppendProperties DEF FifoFits
  <2>6. FifoFits(p, stage[p], lives[p], Append(pipe[p], message), taken[p])
    BY <2>2, <2>3, <2>4, <2>5 DEF FifoFits
  <2>7. FifosFit'
    <3>1. /\ stage' = [stage EXCEPT ![p] = stage[p]] /\ lives' = [lives EXCEPT ![p] = lives[p]]
          /\ taken' = [taken EXCEPT ![p] = taken[p]]
      BY <1>1, <2>2, Unchanged
    <3> DEFINE written == Append(pipe[p], message)
    <3>2. pipe' = [pipe EXCEPT ![p] = written] /\ FifoFits(p, stage[p], lives[p], written, taken[p])
      BY <2>2, <2>6
    <3> HIDE DEF written
    <3> QED BY <1>1, <3>1, <3>2, OneFifoChanges
  <2>8. RequestsFit'
    BY <2>2 DEF ClientsInv, RequestsFit
  <2> QED BY <1>1, <2>2, <2>7, <2>8 DEF ClientsInv, FifosFit
<1>4. CASE PublisherLeave(p)
  <2>1. stage[p] # "nofifo" /\ Becomes(p, "nofifo") /\ UNCHANGED taken
    BY <1>4 DEF PublisherLeave
  <2>2. "nofifo" \in Stages
    BY DEF Stages
  <2>3. ClientsInv'
    BY <1>1, <2>1, <2>2, BecomesOnlyKeeps
  <2> QED BY <2>1, <2>3 DEF Becomes
<1> QED BY <1>2, <1>3, <1>4 DEF Publisher

\* A step of a subscriber.
LEMMA SubscriberKeeps ==
  ASSUME ClientsInv, NEW s \in Subscribers, Subscriber(s)
  PROVE  ClientsInv' /\ \A m \in Managers : pipe'[m] = pipe[m]
<1>1. s \in Clients /\ FifosFit /\ Managers \subseteq Clients /\ s \notin Managers
  BY ClientsAssumption DEF Clients, ClientsInv
<1>2. "nofifo" \in Stages /\ "gone" \in Stages /\ "slipped" \in Stages /\ "reading" \in Stages
  BY DEF Stages
<1>3. CASE \E n \in Boxes : SubscriberSignIn(s, n)
  <2>1. PICK n \in Boxes : SubscriberSignIn(s, n)
    BY <1>3
  <2>2. SignIn(s, "subscribe", n)
    BY <2>1 DEF SubscriberSignIn
  <2>3. FromItsKind("subscribe", s)
    BY ClientsAssumption DEF FromItsKind
  <2>4. ClientsInv'
    BY <1>1, <2>2, <2>3, SignInKeeps
  <2> QED BY <1>1, <2>2, <2>4 DEF SignIn, FifosFit
<1>4. CASE SubscriberUnlink(s) \/ SubscriberFails(s)
  <2>1. PICK k \in {"nofifo", "gone"} : stage[s] # "nofifo" /\ Becomes(s, k) /\ UNCHANGED taken
    BY <1>4 DEF SubscriberUnlink, SubscriberFails
  <2>2. ClientsInv'
    BY <1>1, <1>2, <2>1, BecomesOnlyKeeps
  <2> QED BY <2>1, <2>2 DEF Becomes
<1>5. CASE SubscriberRead(s)
  <2>1. PICK k \in {"slipped", "reading"} :
          /\ stage[s] # "nofifo" /\ Becomes(s, k) /\ Unread(s) > 0
          /\ taken' = [taken EXCEPT ![s] = taken[s] + 1]
    BY <1>5 DEF SubscriberRead
  <2>2. taken[s] + 1 \in Nat /\ taken[s] + 1 <= Len(pipe[s])
    BY <1>1, <2>1, UnreadIs
  <2>3. ClientsInv'
    BY <1>1, <1>2, <2>1, <2>2, BecomesKeeps
  <2> QED BY <2>1, <2>3 DEF Becomes
<1> QED BY <1>3, <1>4, <1>5 DEF Subscriber

\* A client is killed.
LEMMA InterruptKeeps ==
  ASSUME ClientsInv, NEW c \in Killable, Interrupt(c)
  PROVE  ClientsInv' /\ pipe' = pipe
<1>1. stage[c] # "nofifo" /\ Becomes(c, "gone") /\ UNCHANGED taken
  BY DEF Interrupt, Reading
<1>2. "gone" \in Stages
  BY DEF Stages
<1>3. c \in Clients
  BY ClientsAssumption DEF Clients
<1>4. ClientsInv'
  BY <1>1, <1>2, <1>3, BecomesOnlyKeeps
<1> QED BY <1>1, <1>4 DEF Becomes

\* Whatever client goes on.
LEMMA ClientStepKeeps ==
  ASSUME ClientsInv, ClientStep
  PROVE  ClientsInv' /\ \A m \in Managers : pipe'[m] = pipe[m]
BY ManagerKeeps, PublisherKeeps, SubscriberKeeps, InterruptKeeps DEF ClientStep

\* The FIFOs and the requests of all others are as they were: only publishers write.
GoesOn == /\ UNCHANGED <<register_pipe, lives>>
        /\ \A c \in Clients \ Publishers : pipe'[c] = pipe[c]

\* A client begins another life or goes on with its own.
LEMMA ClientStepCases ==
  ASSUME ClientsInv, ClientStep
  PROVE  (\E c \in Clients : SignsIn(c)) \/ GoesOn
<1>1. ASSUME NEW c \in Clients, NEW code \in {"publish", "subscribe"} \cup Commands,
             NEW n \in Boxes, SignIn(c, code, n), FromItsKind(code, c)
      PROVE  \E d \in Clients : SignsIn(d)
  BY <1>1, SignInKeeps
<1>2. CASE \E m \in Managers : Manager(m)
  <2>1. PICK m \in Managers : Manager(m)
    BY <1>2
  <2>2. CASE \E code \in Commands, n \in Boxes : ManagerSignIn(m, code, n)
    <3>1. PICK code \in Commands, n \in Boxes : SignIn(m, code, n)
      BY <2>2 DEF ManagerSignIn
    <3>2. FromItsKind(code, m) /\ m \in Clients
      BY ClientsAssumption DEF FromItsKind, Clients
    <3> QED BY <1>1, <3>1, <3>2
  <2>3. CASE ManagerRead(m)
    BY <2>3 DEF ManagerRead, Becomes, GoesOn
  <2> QED BY <2>1, <2>2, <2>3 DEF Manager
<1>3. CASE \E p \in Publishers : Publisher(p)
  <2>1. PICK p \in Publishers : Publisher(p)
    BY <1>3
  <2>2. CASE \E n \in Boxes : PublisherSignIn(p, n)
    <3>1. PICK n \in Boxes : SignIn(p, "publish", n)
      BY <2>2 DEF PublisherSignIn
    <3>2. FromItsKind("publish", p) /\ p \in Clients
      BY ClientsAssumption DEF FromItsKind, Clients
    <3> QED BY <1>1, <3>1, <3>2
  <2>3. CASE \E message \in Messages : PublisherWrite(p, message)
    <3>1. PICK x : /\ pipe' = [pipe EXCEPT ![p] = x] /\ UNCHANGED <<register_pipe, lives>>
      BY <2>3 DEF PublisherWrite
    <3>2. pipe = [c \in Clients |-> pipe[c]] /\ p \in Clients
      BY DEF ClientsInv, FifosFit, Clients
    <3> QED BY <3>1, <3>2 DEF GoesOn
  <2>4. CASE PublisherLeave(p)
    BY <2>4 DEF PublisherLeave, Becomes, GoesOn
  <2> QED BY <2>1, <2>2, <2>3, <2>4 DEF Publisher
<1>4. CASE \E s \in Subscribers : Subscriber(s)
  <2>1. PICK s \in Subscribers : Subscriber(s)
    BY <1>4
  <2>2. CASE \E n \in Boxes : SubscriberSignIn(s, n)
    <3>1. PICK n \in Boxes : SignIn(s, "subscribe", n)
      BY <2>2 DEF SubscriberSignIn
    <3>2. FromItsKind("subscribe", s) /\ s \in Clients
      BY ClientsAssumption DEF FromItsKind, Clients
    <3> QED BY <1>1, <3>1, <3>2
  <2>3. CASE SubscriberUnlink(s) \/ SubscriberRead(s) \/ SubscriberFails(s)
    BY <2>3 DEF SubscriberUnlink, SubscriberRead, SubscriberFails, Becomes, GoesOn
  <2> QED BY <2>1, <2>2, <2>3 DEF Subscriber
<1>5. CASE \E c \in Killable : Interrupt(c)
  BY <1>5 DEF Interrupt, Becomes, GoesOn
<1> QED BY <1>2, <1>3, <1>4, <1>5 DEF ClientStep

\* No publisher sends more than MaxMessages.
PublishersWithin == \A p \in Publishers : Len(pipe[p]) <= MaxMessages

\* What clients do keeps it, and takes nothing out of the FIFO of a publisher.
LEMMA ClientStepWithin ==
  ASSUME ClientsInv, PublishersWithin, ClientStep
  PROVE  PublishersWithin' /\ \A p \in Publishers : taken'[p] = taken[p]
<1>1. /\ pipe = [c \in Clients |-> pipe[c]] /\ taken = [c \in Clients |-> taken[c]]
      /\ Managers \cup Subscribers \subseteq Clients \ Publishers /\ Publishers \subseteq Clients
  BY ClientsAssumption DEF ClientsInv, FifosFit, Clients
<1>2. ASSUME NEW c \in Clients \ Publishers, NEW x, NEW y,
             pipe' = [pipe EXCEPT ![c] = x] \/ pipe' = pipe,
             taken' = [taken EXCEPT ![c] = y] \/ taken' = taken
      PROVE  PublishersWithin' /\ \A p \in Publishers : taken'[p] = taken[p]
  <2>1. \A p \in Publishers : pipe'[p] = pipe[p] /\ taken'[p] = taken[p]
    BY <1>1, <1>2
  <2> QED BY <2>1 DEF PublishersWithin
<1>3. CASE \E m \in Managers : Manager(m)
  <2>1. PICK m \in Managers : Manager(m)
    BY <1>3
  <2>2. CASE \E code \in Commands, n \in Boxes : ManagerSignIn(m, code, n)
    BY <1>1, <1>2, <2>1, <2>2 DEF ManagerSignIn, SignIn
  <2>3. CASE ManagerRead(m)
    BY <1>1, <1>2, <2>1, <2>3 DEF ManagerRead, Becomes
  <2> QED BY <2>1, <2>2, <2>3 DEF Manager
<1>4. CASE \E p \in Publishers : Publisher(p)
  <2>1. PICK p \in Publishers : Publisher(p)
    BY <1>4
  <2>2. FifoFits(p, stage[p], lives[p], pipe[p], taken[p]) /\ p \in Clients
    BY <1>1 DEF ClientsInv, FifosFit
  <2>3. CASE \E n \in Boxes : PublisherSignIn(p, n)
    <3>1. /\ pipe' = [pipe EXCEPT ![p] = <<>>] /\ taken' = [taken EXCEPT ![p] = 0]
          /\ lives[p] = 0
      BY <2>3 DEF PublisherSignIn, SignIn
    <3>2. Len(<<>>) = 0
      BY EmptyIsSeq
    <3>3. pipe[p] = <<>> /\ taken[p] = 0
      BY <2>2, <3>1, <3>2 DEF FifoFits
    <3>4. pipe' = pipe /\ taken' = taken
      BY <1>1, <2>2, <3>1, <3>3
    <3> QED BY <3>4 DEF PublishersWithin
  <2>4. CASE \E message \in Messages : PublisherWrite(p, message)
    <3>1. PICK message \in Messages : PublisherWrite(p, message)
      BY <2>4
    <3>2. /\ pipe' = [pipe EXCEPT ![p] = Append(pipe[p], message)] /\ taken' = taken
          /\ Len(pipe[p]) < MaxMessages
      BY <3>1 DEF PublisherWrite
    <3>3. Len(pipe[p]) \in Nat /\ Len(Append(pipe[p], message)) = Len(pipe[p]) + 1
      BY <2>2, AppendIsSeq DEF FifoFits
    <3> DEFINE x == Append(pipe[p], message)
    <3>4. pipe' = [pipe EXCEPT ![p] = x] /\ Len(x) = Len(pipe[p]) + 1
      BY <3>2, <3>3
    <3> HIDE DEF x
    <3>5. Len(x) <= MaxMessages
      BY <3>2, <3>3, <3>4, ClientsAssumption
    <3>6. \A q \in Publishers : pipe'[q] = IF q = p THEN x ELSE pipe[q]
      BY <1>1, <2>2, <3>4
    <3>7. \A q \in Publishers : Len(pipe'[q]) <= MaxMessages
      BY <3>5, <3>6 DEF PublishersWithin
    <3> QED BY <3>2, <3>7 DEF PublishersWithin
  <2>5. CASE PublisherLeave(p)
    BY <2>5 DEF PublisherLeave, Becomes, PublishersWithin
  <2> QED BY <2>1, <2>3, <2>4, <2>5 DEF Publisher
<1>5. CASE \E s \in Subscribers : Subscriber(s)
  <2>1. PICK s \in Subscribers : Subscriber(s)
    BY <1>5
  <2>2. CASE \E n \in Boxes : SubscriberSignIn(s, n)
    BY <1>1, <1>2, <2>1, <2>2 DEF SubscriberSignIn, SignIn
  <2>3. CASE SubscriberUnlink(s) \/ SubscriberFails(s)
    BY <2>3 DEF SubscriberUnlink, SubscriberFails, Becomes, PublishersWithin
  <2>4. CASE SubscriberRead(s)
    BY <1>1, <1>2, <2>1, <2>4 DEF SubscriberRead, Becomes
  <2> QED BY <2>1, <2>2, <2>3, <2>4 DEF Subscriber
<1>6. CASE \E c \in Killable : Interrupt(c)
  BY <1>6 DEF Interrupt, Becomes, PublishersWithin
<1> QED BY <1>3, <1>4, <1>5, <1>6 DEF ClientStep

\* Clients that were never started fit.
LEMMA ClientsStart == ClientsInit => ClientsInv
<1> SUFFICES ASSUME ClientsInit PROVE ClientsInv
  OBVIOUS
<1>1. FifosFit
  BY EmptyIsSeq DEF ClientsInit, FifosFit, FifoFits, Stages
<1>2. RequestsFit
  BY EmptyIsSeq DEF ClientsInit, RequestsFit
<1> QED BY <1>1, <1>2 DEF ClientsInv

\* What the invariant says of types.
LEMMA ClientsTyped == ClientsInv => ClientsTypeOK
<1> SUFFICES ASSUME ClientsInv PROVE ClientsTypeOK
  OBVIOUS
<1>1. \A i \in DOMAIN register_pipe : register_pipe[i] \in Requests
  BY ElementOfSeq, LenProperties DEF ClientsInv, RequestsFit
<1>2. \A c \in Clients : taken[c] \in 0 .. Len(pipe[c])
  BY UnreadIs
<1>3. stage \in [Clients -> Stages] /\ lives \in [Clients -> Nat]
  BY DEF ClientsInv, FifosFit, FifoFits
<1> QED BY <1>1, <1>2, <1>3 DEF ClientsTypeOK, Requests
=============================================================================

------------------------------ MODULE Clients ------------------------------
(***************************************************************************)
(* The three client programs, managers (manager/manager.c), publishers     *)
(* (publisher/pub.c) and subscribers (subscriber/sub.c), with the named    *)
(* pipes they share with a broker: the register pipe, and a FIFO each.     *)
(* Mbroker and MbrokerThread extend this module and add a broker.          *)
(*                                                                         *)
(* A client is named by the path of its pipe, which it shares with no      *)
(* other.  A path outlives the process: a new life of the client removes   *)
(* the old FIFO and makes another, and a broker that holds or waits for    *)
(* the old one never meets the new.                                        *)
(***************************************************************************)
EXTENDS Integers, Sequences, FiniteSets

CONSTANTS Managers, Publishers, Subscribers,
          Boxes,        \* the box names in requests
          Commands,     \* what managers ask for, of {"create", "remove", "list"}
          Messages,     \* what publishers send, a sequence of cells each
          MaxMessages,  \* how many a publisher sends
          MaxLives,     \* how many times a subscriber is started
          Killable,     \* clients that a user may interrupt
          NoClient

ASSUME ClientsAssumption ==
  /\ Commands \subseteq {"create", "remove", "list"}
  /\ MaxMessages \in Nat /\ MaxLives \in Nat
  /\ NoClient \notin Managers \cup Publishers \cup Subscribers
  /\ Managers \cap Publishers = {} /\ Managers \cap Subscribers = {}
  /\ Publishers \cap Subscribers = {}
  /\ Killable \subseteq Managers \cup Publishers \cup Subscribers
  /\ \A m \in Messages : m \in Seq({m[i] : i \in DOMAIN m})

VARIABLES
  register_pipe,    \* the requests nobody has read
  stage,            \* each client's progress, and what its path leads to
  lives,            \* how many times each client was started
  pipe,             \* everything written to each client's present FIFO
  taken             \* how much of it has been read

clientVars == <<stage, lives, pipe, taken>>
fifoVars == <<lives, pipe, taken>>

Clients == Managers \cup Publishers \cup Subscribers

\* nofifo: the path does not exist.  signed: a FIFO is there, the request is
\* written and the client is on its way to open.  gone: a FIFO that no process
\* will open again.  slipped: the reader has lost the start of the messages.
Stages == {"nofifo", "signed", "reading", "slipped", "writing", "gone"}
Reading == {"reading", "slipped"}

ClientsInit ==
  /\ register_pipe = <<>>
  /\ stage = [c \in Clients |-> "nofifo"]
  /\ lives = [c \in Clients |-> 0]
  /\ pipe = [c \in Clients |-> <<>>]
  /\ taken = [c \in Clients |-> 0]

\* The bytes a client writes for a request, or those left of it when a read took its
\* beginning (code "cut").  Of a removal they are the code and
\* the first seven of its path: manager.c takes the size of a pointer.
RequestBytes(code) == CASE code = "list" -> 257 [] code = "remove" -> 8 [] OTHER -> 289

-----------------------------------------------------------------------------

\* Leaves the mark where the reader of the last FIFO was.
SignInFaulty(c, code, n) ==
  /\ stage[c] = "nofifo"
  /\ stage' = [stage EXCEPT ![c] = "signed"]
  /\ lives' = [lives EXCEPT ![c] = @ + 1]
  /\ pipe' = [pipe EXCEPT ![c] = <<>>]
  /\ register_pipe' = Append(register_pipe,
       [code |-> code, client |-> c, life |-> lives'[c], box |-> n,
        bytes |-> RequestBytes(code)])
  /\ UNCHANGED taken

\* Removes what is at the path, makes a FIFO, writes a request (less than
\* PIPE_BUF: requests do not mix) and goes to open the FIFO.
SignIn(c, code, n) ==
  /\ stage[c] = "nofifo"
  /\ stage' = [stage EXCEPT ![c] = "signed"]
  /\ lives' = [lives EXCEPT ![c] = @ + 1]
  /\ pipe' = [pipe EXCEPT ![c] = <<>>]
  /\ taken' = [taken EXCEPT ![c] = 0]
  /\ register_pipe' = Append(register_pipe,
       [code |-> code, client |-> c, life |-> lives'[c], box |-> n,
        bytes |-> RequestBytes(code)])

Becomes(c, s) == /\ stage' = [stage EXCEPT ![c] = s]
                 /\ UNCHANGED <<register_pipe, lives, pipe>>

Unread(c) == Len(pipe[c]) - taken[c]

ManagerSignIn(m, code, n) == lives[m] = 0 /\ SignIn(m, code, n)

\* One read takes all there is; the manager removes its FIFO and ends.
ManagerRead(m) == /\ stage[m] = "reading" /\ Unread(m) > 0
                  /\ taken' = [taken EXCEPT ![m] = Len(pipe[m])]
                  /\ Becomes(m, "nofifo")

PublisherSignIn(p, n) == lives[p] = 0 /\ SignIn(p, "publish", n)

PublisherWrite(p, message) ==
  /\ stage[p] = "writing" /\ Len(pipe[p]) < MaxMessages
  /\ pipe' = [pipe EXCEPT ![p] = Append(@, message)]
  /\ UNCHANGED <<register_pipe, stage, lives, taken>>

\* The end of its input: it closes and removes its FIFO.
PublisherLeave(p) == stage[p] = "writing" /\ Becomes(p, "nofifo") /\ UNCHANGED taken

\* A new life of a subscriber removes the FIFO that the last one left.
SubscriberUnlink(s) == /\ stage[s] = "gone" /\ lives[s] < MaxLives
                       /\ Becomes(s, "nofifo") /\ UNCHANGED taken

SubscriberSignIn(s, n) == lives[s] < MaxLives /\ SignIn(s, "subscribe", n)

\* A read of 1029 bytes where a message has 1025: if a second message is there
\* it loses its first four bytes.
SubscriberRead(s) ==
  /\ stage[s] = "reading" /\ Unread(s) > 0
  /\ taken' = [taken EXCEPT ![s] = @ + 1]
  /\ Becomes(s, IF Unread(s) > 1 THEN "slipped" ELSE "reading")

\* The next read finds no op code where it looks for one: the subscriber ends
\* and leaves its FIFO.
SubscriberFails(s) == stage[s] = "slipped" /\ Becomes(s, "gone") /\ UNCHANGED taken

\* SIGINT; no client removes its FIFO then.
Interrupt(c) == /\ stage[c] \in {"signed", "writing"} \cup Reading
                /\ Becomes(c, "gone") /\ UNCHANGED taken

-----------------------------------------------------------------------------
Manager(m) == \/ \E code \in Commands, n \in Boxes : ManagerSignIn(m, code, n)
              \/ ManagerRead(m)
Publisher(p) == \/ \E n \in Boxes : PublisherSignIn(p, n)
                \/ \E message \in Messages : PublisherWrite(p, message)
                \/ PublisherLeave(p)
Subscriber(s) == \/ \E n \in Boxes : SubscriberSignIn(s, n)
                 \/ SubscriberUnlink(s) \/ SubscriberRead(s) \/ SubscriberFails(s)

ClientStep == \/ \E m \in Managers : Manager(m)
              \/ \E p \in Publishers : Publisher(p)
              \/ \E s \in Subscribers : Subscriber(s)
              \/ \E c \in Killable : Interrupt(c)

ClientsTypeOK ==
  /\ \A i \in DOMAIN register_pipe :
       /\ register_pipe[i].code \in {"publish", "subscribe", "cut"} \cup Commands
       /\ register_pipe[i].client \in Clients /\ register_pipe[i].box \in Boxes
       /\ register_pipe[i].life \in Nat \ {0} /\ register_pipe[i].bytes \in 1 .. 289
  /\ stage \in [Clients -> Stages]
  /\ lives \in [Clients -> Nat]
  /\ \A c \in Clients : taken[c] \in 0 .. Len(pipe[c])
=============================================================================

-------------------------- MODULE UnixStreamProofs --------------------------
(***************************************************************************)
(* Theorems about UnixStream: a connection joins the two sockets that one  *)
(* request made, its data comes from the other end, in order and once, and *)
(* it ends only when the other end has closed.                             *)
(***************************************************************************)
EXTENDS UnixStream, SequenceTheorems, TLAPS

Types ==
    /\ usock \in [Socket -> LSCK_SOCKET_UNIX]
    /\ connected \subseteq Socket
    /\ box \in [Path -> Seq(Msg)]
    /\ call \in [Process -> Call \cup {NULL}]
    /\ connects \in [Client -> 0 .. MaxConnect]
    /\ sent \in [Socket -> 0 .. MaxSend]
    /\ got \in [Socket -> Seq(Msg)]
    /\ ret \in [Socket -> {NULL, "data", "junk", "ECONNRESET", "failed"}]

-----------------------------------------------------------------------------
\* The messages in mailslot p; those of writes that poll to get there as well.
In(p) == {box[p][i] : i \in DOMAIN box[p]}

Pending(a) == call[a] # NULL /\ call[a].kind \in {"connect", "reply", "send"}

Due(p) == In(p) \cup {call[a].msg : a \in {b \in Process :
                                       Pending(b) /\ call[b].to = p}}

\* Where a client reads the answers to its request, or seems to.
Bound(q) == {Named(q.pid), Random(q)}
Home(q) == Bound(q) \cup {Bare(q.pid)}

-----------------------------------------------------------------------------
\* The three places where a request with secret q may be.
Asking(q) == InCall(q.pid, "connect") /\ call[q.pid].msg.secret = q
Requested(q, p) == \E m \in In(p) : m.type = "CLIENT_OPEN" /\ m.secret = q
Serves(x) == usock[x].secret = x.secret

\* A request is in one place only.
Unique ==
    \A q \in Secret :
        /\ \A p, r \in Path : Requested(q, p) /\ Requested(q, r) => p = r
        /\ \A x, y \in Accepted :
               Serves(x) /\ Serves(y) /\ x.secret = q /\ y.secret = q => x = y
        /\ \A p \in Path : ~(Asking(q) /\ Requested(q, p))
        /\ \A x \in Accepted : x.secret = q /\ Serves(x) =>
               ~Asking(q) /\ \A p \in Path : ~Requested(q, p)

\* Neither end of the connection with secret q will write again.
Spent(q) ==
    /\ ~Asking(q) /\ \A p \in Path : ~Requested(q, p)
    /\ \A x \in Accepted : x.secret = q => usock[x].fd_w = NULL

Gone(q) ==
    usock[q.pid].secret = q =>
        q.pid \in connected /\ usock[q.pid].fd_w = NULL

-----------------------------------------------------------------------------
Used(q) == q.n <= connects[q.pid]

ServerSocket(s) ==
    usock[s].fd_w = NULL /\ usock[s].secret = NULL /\ s \notin connected

ClientSocket(c) ==
    /\ usock[c].secret # NULL => usock[c].secret.pid = c /\ Used(usock[c].secret)
    /\ usock[c].fd_w # NULL =>
           /\ c \in connected /\ usock[c].fd_r \in Bound(usock[c].secret)
           /\ \E s \in Server :
                  usock[c].fd_w = Reply([at |-> s, secret |-> usock[c].secret])
    /\ c \in connected =>
           usock[c].secret # NULL /\ usock[c].fd_r \in Bound(usock[c].secret) \cup {NULL}
    /\ c \notin connected => got[c] = <<>> /\ ret[c] = NULL
    /\ c \notin connected /\ Idle(c) => usock[c].fd_r \in {NULL, Named(c)}

AcceptedSocket(x) ==
    /\ usock[x].secret \in {NULL, x.secret}
    /\ usock[x].secret = NULL =>
           /\ usock[x] = NewSocket /\ x \notin connected
           /\ got[x] = <<>> /\ ret[x] = NULL
    /\ usock[x].secret # NULL => Used(x.secret)
    /\ usock[x].fd_w # NULL =>
           usock[x].fd_w \in Home(x.secret) /\ usock[x].fd_r = Reply(x)
    /\ usock[x].fd_r # NULL => usock[x].fd_r = Reply(x)

SocketFits(x) ==
    /\ x \in Server =>
           ServerSocket(x) /\ got[x] = <<>> /\ ret[x] \in {NULL, "failed"}
    /\ x \in Client => ClientSocket(x)
    /\ x \in Accepted => AcceptedSocket(x)

Sockets == \A x \in Socket : SocketFits(x)

CallFits(a) ==
    LET k == call[a].kind
        x == call[a].socket
    IN  /\ k \in {"connect", "await"} =>
               /\ a \in Client /\ x = a /\ a \notin connected
               /\ usock[a].secret # NULL
               /\ usock[a].fd_r \in Bound(usock[a].secret)
        /\ k = "connect" =>
               /\ \E p \in {usock[a].fd_r, Bare(a)} :
                     call[a].msg = OpenRequest(usock[a].secret, p)
               /\ call[a].to \in Path
        /\ k = "accept" => a \in Server
        /\ k = "reply" =>
               /\ x \in Accepted /\ x.at = a /\ Serves(x)
               /\ usock[x].fd_w # NULL
               /\ call[a].msg = OpenReply(x.secret, Reply(x))
               /\ call[a].to = usock[x].fd_w
        /\ k \in {"send", "recv", "peek"} =>
               x \in connected /\ usock[x].fd_r # NULL /\ Owner(x) = a
        /\ k = "send" =>
               /\ usock[x].fd_w # NULL
               /\ call[a].to = usock[x].fd_w /\ sent[x] < MaxSend
               /\ call[a].msg =
                    DataMsg(usock[x].secret, [from |-> x, n |-> sent[x] + 1])

Calls == \A a \in Process : ~Idle(a) => CallFits(a)

-----------------------------------------------------------------------------
\* Data with secret q goes from one end of the connection to the other.
Peers(m, p) ==
    \/ /\ m.data.from = m.secret.pid
       /\ \E s \in Server : p = Reply([at |-> s, secret |-> m.secret])
    \/ /\ m.data.from \in Accepted /\ m.data.from.secret = m.secret
       /\ p \in Home(m.secret)

MessageFits(m, p) ==
    /\ Used(m.secret)
    /\ m.type = "CLIENT_OPEN" => m.path \in Home(m.secret)
    /\ m.type = "SERVER_OPEN" =>
           \E s \in Server : m.path = Reply([at |-> s, secret |-> m.secret])
    /\ m.type = "DATA" => m.data \in Item /\ Peers(m, p)
    /\ m.type = "CLIENT_CLOSE" => Gone(m.secret)
    /\ m.type = "SERVER_CLOSE" => Spent(m.secret)

Messages == \A p \in Path : \A m \in Due(p) : MessageFits(m, p)

\* A client that is connecting or connected, and its request or its peer,
\* agree on the mailslot it reads.
Live(c) ==
    InCall(c, "connect") \/ InCall(c, "await") \/ usock[c].fd_w # NULL

Joined(c) ==
    /\ \A p \in Path : \A m \in Due(p) :
           m.type = "CLIENT_OPEN" /\ m.secret = usock[c].secret =>
               m.path \in {usock[c].fd_r, Bare(c)}
    /\ \A x \in Accepted :
           usock[x].secret = usock[c].secret /\ usock[x].fd_w # NULL =>
               usock[x].fd_w \in {usock[c].fd_r, Bare(c)}

Addresses == \A c \in Client : Live(c) => Joined(c)

\* ECONNRESET was returned for a reason.
Resets ==
    \A x \in Socket : ret[x] = "ECONNRESET" =>
        /\ x \in Client => Spent(usock[x].secret)
        /\ x \in Accepted => Gone(usock[x].secret)

-----------------------------------------------------------------------------
\* A data message that was written: its sender counts it, or will write no
\* more with that secret.
Written(m) ==
    LET y == m.data.from
    IN  /\ usock[y].secret = m.secret => m.data.n <= sent[y]
        /\ y \in Accepted => Serves(y) \/ Spent(m.secret)

Follows(m, k) ==
    m.type = "DATA" /\ k.type = "DATA" /\ m.secret = k.secret
        => m.data.n < k.data.n

Increasing(seq) ==
    \A i, j \in DOMAIN seq : i < j => Follows(seq[i], seq[j])

ItemFits(m, x) ==
    /\ m.type = "DATA" /\ m.data \in Item
    /\ m.secret = usock[x].secret /\ Written(m)
    /\ x \in Accepted => m.data.from = m.secret.pid
    /\ x \notin Accepted =>
           m.data.from \in Accepted /\ m.data.from.secret = m.secret
    /\ usock[x].fd_r # NULL => \A k \in In(usock[x].fd_r) : Follows(m, k)

GotFits(x) ==
    Increasing(got[x]) /\ \A i \in DOMAIN got[x] : ItemFits(got[x][i], x)

Data ==
    /\ \A p \in Path : /\ Increasing(box[p])
                       /\ \A m \in In(p) : m.type = "DATA" => Written(m)
    /\ \A x \in Socket : GotFits(x)

IInv ==
    /\ Types /\ Sockets /\ Calls /\ Messages /\ Unique /\ Addresses /\ Resets
    /\ Data

-----------------------------------------------------------------------------
\* Names and sockets.
LEMMA Names ==
  /\ Server \subseteq Process /\ Client \subseteq Process
  /\ Process \subseteq Socket /\ Accepted \subseteq Socket
  /\ \A a \in Process : a \notin Accepted /\ Named(a) \in Path /\ Bare(a) \in Path
  /\ \A q \in Secret : q.pid \in Client /\ Random(q) \in Path
  /\ \A s \in Server, q \in Secret :
         LET x == [at |-> s, secret |-> q]
         IN  x \in Accepted /\ x.at = s /\ x.secret = q
  /\ \A x \in Accepted : /\ x.at \in Server /\ x.secret \in Secret
                         /\ x = [at |-> x.at, secret |-> x.secret]
                         /\ Reply(x) \in Path
BY NullAssumption DEF Process, Socket, Accepted, Path, Secret

LEMMA Kinds ==
  /\ \A x, y \in Accepted : Reply(x) = Reply(y) => x = y
  /\ \A x \in Accepted, q \in Secret : Reply(x) \notin Home(q)
  /\ \A q \in Secret : Bound(q) \subseteq Home(q) /\ Home(q) \subseteq Path
<1>1. ASSUME NEW x \in Accepted, NEW y \in Accepted, Reply(x) = Reply(y)
      PROVE  x = y
  <2>1. x.at = y.at /\ x.secret = y.secret
    BY <1>1, SMT DEF Reply
  <2> QED BY <2>1, SMT DEF Accepted
<1>2. ASSUME NEW x \in Accepted, NEW q \in Secret PROVE Reply(x) \notin Home(q)
  BY SMT DEF Reply, Home, Bound, Named, Bare, Random
<1>3. \A q \in Secret : Bound(q) \subseteq Home(q) /\ Home(q) \subseteq Path
  BY Names DEF Home, Bound
<1> QED BY <1>1, <1>2, <1>3

\* Sequences of messages.
LEMMA Appended ==
  ASSUME NEW seq \in Seq(Msg), NEW m \in Msg
  PROVE  /\ Append(seq, m) \in Seq(Msg)
         /\ {Append(seq, m)[i] : i \in DOMAIN Append(seq, m)} =
                {seq[i] : i \in DOMAIN seq} \cup {m}
         /\ Increasing(seq) /\ (\A i \in DOMAIN seq : Follows(seq[i], m))
                => Increasing(Append(seq, m))
<1> DEFINE new == Append(seq, m)
<1>1. /\ new \in Seq(Msg) /\ DOMAIN new = 1 .. Len(seq) + 1
      /\ DOMAIN seq = 1 .. Len(seq) /\ Len(seq) \in Nat
      /\ new[Len(seq) + 1] = m
      /\ \A i \in 1 .. Len(seq) : new[i] = seq[i]
  BY SMT
<1> HIDE DEF new
<1>2. DOMAIN new = DOMAIN seq \cup {Len(seq) + 1}
  BY <1>1, SMT
<1>3. {new[i] : i \in DOMAIN new} = {seq[i] : i \in DOMAIN seq} \cup {m}
  BY <1>1, <1>2
<1>4. ASSUME Increasing(seq), \A i \in DOMAIN seq : Follows(seq[i], m)
      PROVE  Increasing(new)
  <2> SUFFICES ASSUME NEW i \in DOMAIN new, NEW j \in DOMAIN new, i < j
               PROVE  Follows(new[i], new[j])
    BY DEF Increasing
  <2>1. i \in DOMAIN seq /\ new[i] = seq[i]
    BY <1>1, SMT
  <2>2. CASE j \in DOMAIN seq
    BY <1>1, <1>4, <2>1, <2>2 DEF Increasing
  <2>3. CASE j = Len(seq) + 1
    BY <1>1, <1>4, <2>1, <2>3
  <2> QED BY <1>2, <2>2, <2>3
<1> QED BY <1>1, <1>3, <1>4 DEF new

LEMMA Emptied ==
  /\ <<>> \in Seq(Msg) /\ DOMAIN <<>> = {}
  /\ Increasing(<<>>)
<1>1. <<>> \in Seq(Msg) /\ Len(<<>>) = 0
  BY EmptySeq
<1>2. DOMAIN <<>> = {}
  BY <1>1, SMT
<1> QED BY <1>1, <1>2 DEF Increasing

LEMMA First ==
  ASSUME NEW seq \in Seq(Msg), seq # <<>>
  PROVE  /\ Head(seq) \in Msg
         /\ Head(seq) \in {seq[i] : i \in DOMAIN seq}
<1>1. 1 \in DOMAIN seq /\ Head(seq) = seq[1] /\ Head(seq) \in Msg
  <2>1. Len(seq) # 0
    BY EmptySeq
  <2> QED BY <2>1, SMT
<1> QED BY <1>1

-----------------------------------------------------------------------------
\* What every step keeps of secrets and of data that was written.
Keeps ==
    \A q \in Secret : Used(q) =>
        Used(q)' /\ (Gone(q) => Gone(q)') /\ (Spent(q) => Spent(q)')

Ends(m) ==
    \/ m.data.from = m.secret.pid
    \/ m.data.from \in Accepted /\ m.data.from.secret = m.secret

KeepsWritten ==
    \A m \in Msg :
        m.type = "DATA" /\ m.data \in Item /\ Used(m.secret) /\ Ends(m)
            /\ Written(m) => Written(m)'

\* Socket x keeps its secret, or is closed.
Stays(x) ==
    /\ usock'[x].secret \in {usock[x].secret, NULL}
    /\ usock'[x].secret # NULL =>
           sent'[x] >= sent[x] /\ (x \in connected => x \in connected')
    /\ x \in Accepted \/ x \in connected =>
           usock'[x].fd_w \in {usock[x].fd_w, NULL}
    /\ x \in Accepted /\ usock'[x].secret = NULL => usock'[x].fd_w = NULL

\* A step that makes no secret and opens no connection.
Quiet ==
    /\ connects' = connects
    /\ \A q \in Secret : Asking(q)' => Asking(q)
    /\ \A q \in Secret, p \in Path :
           Requested(q, p)' /\ ~Requested(q, p) =>
               Asking(q) /\ ~Asking(q)' /\ p = call[q.pid].to
    /\ \A x \in Socket : Stays(x)

LEMMA QuietUnique == ASSUME Unique, Quiet PROVE Unique'
<1> SUFFICES ASSUME NEW q \in Secret
             PROVE  /\ \A p, r \in Path : Requested(q, p)' /\ Requested(q, r)' => p = r
                    /\ \A x, y \in Accepted :
                          Serves(x)' /\ Serves(y)' /\ x.secret = q /\ y.secret = q => x = y
                    /\ \A p \in Path : ~(Asking(q)' /\ Requested(q, p)')
                    /\ \A x \in Accepted : x.secret = q /\ Serves(x)' =>
                          ~Asking(q)' /\ \A p \in Path : ~Requested(q, p)'
  BY DEF Unique
<1>1. \A x \in Accepted : Serves(x)' => Serves(x)
  <2> SUFFICES ASSUME NEW x \in Accepted, Serves(x)' PROVE Serves(x)
    OBVIOUS
  <2>1. x.secret # NULL /\ x \in Socket
    BY Names, NullAssumption
  <2> QED BY <2>1 DEF Serves, Quiet, Stays
<1>2. /\ Asking(q)' => Asking(q)
      /\ \A p \in Path : Requested(q, p)' =>
             Requested(q, p) \/ (Asking(q) /\ ~Asking(q)' /\ p = call[q.pid].to)
  BY DEF Quiet, Stays
<1>3. /\ \A p, r \in Path : Requested(q, p) /\ Requested(q, r) => p = r
      /\ \A x, y \in Accepted :
             Serves(x) /\ Serves(y) /\ x.secret = q /\ y.secret = q => x = y
      /\ \A p \in Path : ~(Asking(q) /\ Requested(q, p))
      /\ \A x \in Accepted : x.secret = q /\ Serves(x) =>
             ~Asking(q) /\ \A p \in Path : ~Requested(q, p)
  BY DEF Unique
<1> QED BY <1>1, <1>2, <1>3, Zenon

LEMMA QuietKeeps == ASSUME Sockets, Quiet PROVE Keeps
<1> SUFFICES ASSUME NEW q \in Secret, Used(q)
             PROVE  Used(q)' /\ (Gone(q) => Gone(q)') /\ (Spent(q) => Spent(q)')
  BY DEF Keeps
<1>1. Used(q)'
  BY DEF Used, Quiet, Stays
<1>2. ASSUME Gone(q) PROVE Gone(q)'
  <2>1. q.pid \in Socket /\ q # NULL
    BY Names, NullAssumption
  <2> QED BY <1>2, <2>1 DEF Gone, Quiet, Stays
<1>3. ASSUME Spent(q) PROVE Spent(q)'
  <2>1. ~Asking(q)' /\ \A p \in Path : ~Requested(q, p)'
    BY <1>3 DEF Spent, Quiet, Stays
  <2>2. \A x \in Accepted : x.secret = q => usock'[x].fd_w = NULL
    BY <1>3, Names DEF Spent, Quiet, Stays
  <2> QED BY <2>1, <2>2 DEF Spent
<1> QED BY <1>1, <1>2, <1>3

LEMMA QuietWritten ==
  ASSUME Types, Types', Sockets, Unique, Quiet PROVE KeepsWritten
<1> SUFFICES ASSUME NEW m \in Msg, m.data \in Item, Used(m.secret), Ends(m),
                    Written(m)
             PROVE  Written(m)'
  BY DEF KeepsWritten
<1> DEFINE y == m.data.from
<1>1. /\ y \in Socket /\ m.data.n \in Nat /\ m.secret \in Secret
      /\ m.secret # NULL
  BY NullAssumption, StreamAssumption, SMT DEF Item, Msg
<1>2. ASSUME usock'[y].secret = m.secret PROVE m.data.n <= sent'[y]
  <2>1. usock[y].secret = m.secret /\ sent'[y] >= sent[y]
    BY <1>1, <1>2 DEF Quiet, Stays
  <2>2. m.data.n <= sent[y]
    BY <2>1 DEF Written
  <2>3. sent[y] \in Nat /\ sent'[y] \in Nat
    BY <1>1, StreamAssumption, SMT DEF Types
  <2> QED BY <1>1, <2>1, <2>2, <2>3, SMT
<1>3. ASSUME y \in Accepted PROVE Serves(y)' \/ Spent(m.secret)'
  <2>1. CASE Spent(m.secret)
    BY <1>1, <2>1, QuietKeeps DEF Keeps
  <2>2. CASE ~Spent(m.secret) /\ ~Serves(y)'
    <3>1. Serves(y) /\ y.secret = m.secret
      <4>1. y # m.secret.pid
        BY <1>1, <1>3, Names
      <4> QED BY <1>3, <2>2, <4>1 DEF Written, Ends
    <3>2. usock'[y].secret = NULL
      BY <1>1, <2>2, <3>1 DEF Serves, Quiet, Stays
    <3>3. ~Asking(m.secret) /\ \A p \in Path : ~Requested(m.secret, p)
      BY <1>1, <1>3, <3>1 DEF Unique
    <3>4. ~Asking(m.secret)' /\ \A p \in Path : ~Requested(m.secret, p)'
      BY <1>1, <3>3 DEF Quiet, Stays
    <3>5. ASSUME NEW x \in Accepted, x.secret = m.secret
          PROVE  usock'[x].fd_w = NULL
      <4>1. CASE Serves(x)
        <5>1. x = y
          BY <1>1, <1>3, <3>1, <3>5, <4>1 DEF Unique
        <5> QED BY <1>3, <3>2, <5>1, Names DEF Quiet, Stays
      <4>2. CASE ~Serves(x)
        <5>1. usock[x] = NewSocket
          BY <3>5, <4>2, Names DEF Sockets, SocketFits, AcceptedSocket, Serves
        <5>2. usock[x].fd_w = NULL
          BY <5>1 DEF NewSocket
        <5> QED BY <5>2, Names DEF Quiet, Stays
      <4> QED BY <4>1, <4>2
    <3> QED BY <3>4, <3>5 DEF Spent
  <2> QED BY <2>1, <2>2
<1> QED BY <1>2, <1>3 DEF Written


-----------------------------------------------------------------------------
\* Messages that are written, or about to be.
LEMMA MessageTypes ==
  /\ \A q \in Secret, p \in Path : OpenRequest(q, p) \in Msg /\ OpenReply(q, p) \in Msg
  /\ \A q \in Secret, d \in Item : DataMsg(q, d) \in Msg
  /\ \A q \in Secret, x \in Socket : CloseMsg(x, q) \in Msg
BY SMT DEF OpenRequest, OpenReply, DataMsg, CloseMsg, Msg, MsgType

LEMMA InTyped == Types => \A p \in Path : In(p) \subseteq Msg
<1> SUFFICES ASSUME Types, NEW p \in Path PROVE In(p) \subseteq Msg
  OBVIOUS
<1>1. box[p] \in Seq(Msg)
  BY DEF Types
<1> QED BY <1>1, SMT DEF In

LEMMA NextItem ==
  Types => \A x \in Socket : sent[x] < MaxSend =>
               [from |-> x, n |-> sent[x] + 1] \in Item
<1> SUFFICES ASSUME Types, NEW x \in Socket, sent[x] < MaxSend
             PROVE  [from |-> x, n |-> sent[x] + 1] \in Item
  OBVIOUS
<1>1. sent[x] \in 0 .. MaxSend
  BY DEF Types
<1>2. sent[x] + 1 \in 1 .. MaxSend
  BY <1>1, StreamAssumption, SMT
<1> QED BY <1>2 DEF Item

\* The connection of a socket.
LEMMA SocketSecret ==
  ASSUME Types, Sockets, NEW x \in Socket
  PROVE  /\ usock[x] \in LSCK_SOCKET_UNIX
         /\ usock[x].secret # NULL =>
                /\ usock[x].secret \in Secret /\ Used(usock[x].secret)
                /\ \/ x \in Client /\ usock[x].secret.pid = x
                   \/ x \in Accepted /\ usock[x].secret = x.secret
         /\ x \in connected \/ usock[x].fd_w # NULL => usock[x].secret # NULL
         /\ x \in Server => /\ x \notin connected /\ usock[x].secret = NULL
                            /\ got[x] = <<>>
<1>1. usock[x] \in LSCK_SOCKET_UNIX
  BY DEF Types
<1>2. usock[x].secret \in Secret \cup {NULL}
  BY <1>1 DEF LSCK_SOCKET_UNIX
<1>3. CASE x \in Server
  BY <1>1, <1>3 DEF Sockets, SocketFits, ServerSocket
<1>4. CASE x \in Client
  BY <1>1, <1>2, <1>4, StreamAssumption
     DEF Sockets, SocketFits, ClientSocket
<1>5. CASE x \in Accepted
  <2>1. AcceptedSocket(x) /\ x \notin Server
    BY <1>5, Names DEF Sockets, SocketFits
  <2>2. NewSocket.fd_w = NULL
    BY DEF NewSocket
  <2> QED BY <1>1, <1>2, <1>5, <2>1, <2>2 DEF AcceptedSocket
<1> QED BY <1>3, <1>4, <1>5 DEF Socket, Process

LEMMA DueFits == Types /\ Sockets /\ Calls => \A p \in Path : Due(p) \subseteq Msg
<1> SUFFICES ASSUME Types, Sockets, Calls, NEW p \in Path, NEW m \in Due(p)
             PROVE  m \in Msg
  OBVIOUS
<1>1. CASE m \in In(p)
  BY <1>1, InTyped
<1>2. ASSUME NEW a \in Process, Pending(a), m = call[a].msg
      PROVE  m \in Msg
  <2> DEFINE x == call[a].socket
  <2>1. CallFits(a) /\ x \in Socket
    BY <1>2, SMT DEF Calls, Idle, Pending, Types, Call
  <2>2. CASE call[a].kind = "connect"
    <3>1. /\ a \in Socket /\ usock[a].secret # NULL
          /\ usock[a].fd_r \in Bound(usock[a].secret)
          /\ usock[a].secret \in Secret
      BY <2>1, <2>2, Names, SocketSecret DEF CallFits
    <3>2. PICK p0 \in {usock[a].fd_r, Bare(a)} :
              call[a].msg = OpenRequest(usock[a].secret, p0)
      BY <2>1, <2>2 DEF CallFits
    <3>3. p0 \in Path
      BY <1>2, <3>1, <3>2, Kinds, Names
    <3> QED BY <1>2, <3>1, <3>2, <3>3, MessageTypes
  <2>3. CASE call[a].kind = "reply"
    <3>1. x \in Accepted /\ call[a].msg = OpenReply(x.secret, Reply(x))
      BY <2>1, <2>3 DEF CallFits
    <3> QED BY <1>2, <3>1, Names, MessageTypes
  <2>4. CASE call[a].kind = "send"
    <3>1. /\ Open(x) /\ sent[x] < MaxSend
          /\ call[a].msg =
                DataMsg(usock[x].secret, [from |-> x, n |-> sent[x] + 1])
      BY <2>1, <2>4 DEF CallFits, Open
    <3> QED BY <1>2, <2>1, <3>1, SocketSecret, NextItem, MessageTypes DEF Open
  <2> QED BY <1>2, <2>2, <2>3, <2>4 DEF Pending
<1> QED BY <1>1, <1>2 DEF Due

-----------------------------------------------------------------------------
\* What the parts of the invariant need of a step.
LEMMA MessagesKept ==
  ASSUME Types, Sockets, Calls, Messages, Keeps,
         \A p \in Path : \A m \in Due(p)' : m \in Due(p) \/ MessageFits(m, p)'
  PROVE  Messages'
<1> SUFFICES ASSUME NEW p \in Path, NEW m \in Due(p), MessageFits(m, p)
             PROVE  MessageFits(m, p)'
  BY DEF Messages
<1>1. m \in Msg /\ m.secret \in Secret
  BY DueFits, SMT DEF Msg
<1>2. Used(m.secret)
  BY DEF MessageFits
<1>3. /\ Used(m.secret)' /\ (Gone(m.secret) => Gone(m.secret)')
      /\ (Spent(m.secret) => Spent(m.secret)')
  BY <1>1, <1>2 DEF Keeps
<1> QED BY <1>3, Zenon DEF MessageFits, Home, Peers

ResetFits(x) ==
    ret[x] = "ECONNRESET" =>
        /\ x \in Client => Spent(usock[x].secret)
        /\ x \in Accepted => Gone(usock[x].secret)

LEMMA ResetsKept ==
  ASSUME Types, Sockets, Resets, Keeps,
         \A x \in Socket :
             \/ ret'[x] = ret[x] /\ usock'[x].secret = usock[x].secret
             \/ ResetFits(x)'
  PROVE  Resets'
<1> SUFFICES ASSUME NEW x \in Socket,
                    ret'[x] = ret[x], usock'[x].secret = usock[x].secret
             PROVE  ResetFits(x)'
  BY DEF Resets, ResetFits
<1>1. SUFFICES ASSUME ret[x] = "ECONNRESET"
               PROVE  /\ x \in Client => Spent(usock[x].secret)'
                      /\ x \in Accepted => Gone(usock[x].secret)'
  BY DEF ResetFits
<1>2. /\ x \in Client => Spent(usock[x].secret)
      /\ x \in Accepted => Gone(usock[x].secret)
  BY <1>1 DEF Resets
<1>3. CASE x \in Server
  BY <1>3, Names, StreamAssumption
<1>4. CASE x \notin Server
  <2>1. usock[x].secret # NULL
    <3>1. NULL # "ECONNRESET"
      BY NullAssumption
    <3> QED BY <1>1, <1>4, <3>1 DEF Sockets, SocketFits, ClientSocket,
                                    AcceptedSocket, Socket, Process
  <2>2. usock[x].secret \in Secret /\ Used(usock[x].secret)
    BY <2>1, SocketSecret
  <2>3. usock'[x].secret = usock[x].secret
    OBVIOUS
  <2> DEFINE q == usock[x].secret
  <2>4. (Gone(q) => Gone(q)') /\ (Spent(q) => Spent(q)')
    BY <2>2 DEF Keeps
  <2> QED BY <1>2, <2>3, <2>4 DEF Gone, Spent, Asking, Requested, In, InCall
<1> QED BY <1>3, <1>4

\* Message m, that a step writes to mailslot p, comes after those in p and
\* those that were received from p.
Later(m, p) ==
    m.type = "DATA" =>
        /\ Written(m)'
        /\ \A k \in In(p) : Follows(k, m)
        /\ \A x \in Socket : usock[x].fd_r = p =>
               \A i \in DOMAIN got[x] : Follows(got[x][i], m)

\* A step empties mailslots and writes to them.
BoxStep(p) ==
    \/ box'[p] \in {box[p], <<>>}
    \/ \E m \in Msg : /\ \E seq \in {box[p], <<>>} : box'[p] = Append(seq, m)
                      /\ Later(m, p)

GotStep(x) ==
    \/ got'[x] = <<>>
    \/ GotFits(x)'
    \/ /\ got'[x] = got[x] /\ usock'[x].secret = usock[x].secret
       /\ usock'[x].fd_r \in {usock[x].fd_r, NULL}

LEMMA BoxSteps ==
  ASSUME Types, Data, NEW p \in Path, BoxStep(p)
  PROVE  /\ Increasing(box[p])'
         /\ \A k \in In(p)' : k \in In(p) \/ (k \in Msg /\ Later(k, p))
<1>1. /\ box[p] \in Seq(Msg) /\ Increasing(box[p])
      /\ \A i \in DOMAIN box[p] : box[p][i] \in In(p)
  BY DEF Types, Data, In
<1>2. CASE box'[p] = box[p]
  BY <1>1, <1>2 DEF In, Increasing, Follows
<1>3. CASE box'[p] = <<>>
  <2>1. In(p)' = {}
    BY <1>3, Emptied DEF In
  <2>2. Increasing(<<>>)'
    BY Emptied DEF Increasing, Follows
  <2> QED BY <1>3, <2>1, <2>2 DEF Increasing
<1>4. ASSUME NEW m \in Msg, NEW seq \in {box[p], <<>>},
             box'[p] = Append(seq, m), Later(m, p)
      PROVE  /\ Increasing(box'[p])
             /\ In(p)' \subseteq In(p) \cup {m}
  <2>1. /\ seq \in Seq(Msg) /\ Increasing(seq)
        /\ \A i \in DOMAIN seq : seq[i] \in In(p) /\ Follows(seq[i], m)
    <3>1. CASE seq = <<>>
      BY <3>1, Emptied
    <3>2. CASE seq = box[p]
      BY <1>1, <1>4, <3>2 DEF Later, Follows
    <3> QED BY <3>1, <3>2
  <2>2. /\ Increasing(Append(seq, m))
        /\ {Append(seq, m)[i] : i \in DOMAIN Append(seq, m)} =
               {seq[i] : i \in DOMAIN seq} \cup {m}
    BY <2>1, Appended
  <2>3. In(p)' = {seq[i] : i \in DOMAIN seq} \cup {m}
    BY <1>4, <2>2 DEF In
  <2> QED BY <1>4, <2>1, <2>2, <2>3
<1>5. Increasing(box[p])' <=> Increasing(box'[p])
  BY DEF Increasing, Follows
<1> QED BY <1>2, <1>3, <1>4, <1>5 DEF BoxStep

LEMMA DataKept ==
  ASSUME Types, Types', Sockets, Messages, Data, KeepsWritten,
         \A p \in Path : BoxStep(p), \A x \in Socket : GotStep(x)
  PROVE  Data'
<1>1. ASSUME NEW p \in Path, NEW m \in In(p)', m.type = "DATA"
      PROVE  Written(m)'
  <2>1. CASE m \in In(p)
    <3>1. m \in Msg /\ Written(m) /\ MessageFits(m, p)
      BY <1>1, <2>1, InTyped DEF Data, Messages, Due
    <3>2. m.data \in Item /\ Used(m.secret) /\ Ends(m)
      BY <1>1, <3>1 DEF MessageFits, Peers, Ends
    <3> QED BY <1>1, <3>1, <3>2 DEF KeepsWritten
  <2>2. CASE m \in Msg /\ Later(m, p)
    BY <1>1, <2>2 DEF Later
  <2> QED BY <2>1, <2>2, BoxSteps
<1>2. ASSUME NEW x \in Socket PROVE GotFits(x)'
  <2>1. CASE got'[x] = <<>>
    <3>1. DOMAIN got'[x] = {} 
      BY <2>1, Emptied
    <3> QED BY <3>1 DEF GotFits, Increasing, Follows
  <2>2. ASSUME got'[x] = got[x], usock'[x].secret = usock[x].secret,
               usock'[x].fd_r \in {usock[x].fd_r, NULL}
        PROVE  GotFits(x)'
    <3>1. GotFits(x)
      BY DEF Data
    <3>2. Increasing(got[x])'
      BY <2>2, <3>1 DEF GotFits, Increasing, Follows
    <3>3. ASSUME NEW i \in DOMAIN got[x], NEW m \in Msg, m = got[x][i]
          PROVE  ItemFits(m, x)'
      <4>1. /\ m.secret \in Secret /\ m.secret = usock[x].secret
            /\ ItemFits(m, x)
        BY <3>1, <3>3, SMT DEF Msg, ItemFits, GotFits
      <4>2. Used(m.secret)
        BY <4>1, SocketSecret, NullAssumption
      <4>3. Written(m)'
        BY <4>1, <4>2 DEF KeepsWritten, Ends, ItemFits
      <4>4. ASSUME usock'[x].fd_r # NULL, NEW k \in In(usock[x].fd_r)'
            PROVE  Follows(m, k)
        <5>1. usock'[x].fd_r = usock[x].fd_r /\ usock[x].fd_r # NULL
          BY <2>2, <4>4
        <5>2. PICK p \in Path : p = usock[x].fd_r
          BY <5>1, SocketSecret, SMT DEF LSCK_SOCKET_UNIX
        <5>3. k \in In(p) \/ (k \in Msg /\ Later(k, p))
          <6>1. k \in In(p)'
            BY <4>4, <5>1, <5>2 DEF In
          <6> QED BY <6>1, BoxSteps
        <5>4. CASE k \in In(p)
          BY <4>1, <5>1, <5>2, <5>4 DEF ItemFits
        <5>5. CASE Later(k, p)
          <6> SUFFICES ASSUME k.type = "DATA" PROVE Follows(m, k)
            BY DEF Follows
          <6>1. \A j \in DOMAIN got[x] : Follows(got[x][j], k)
            BY <5>2, <5>5 DEF Later
          <6> QED BY <3>3, <6>1
        <5> QED BY <5>3, <5>4, <5>5
      <4> QED BY <2>2, <4>1, <4>3, <4>4 DEF ItemFits
    <3>4. ASSUME NEW i \in DOMAIN got[x] PROVE ItemFits(got[x][i], x)'
      <4>1. got[x][i] \in Msg
        <5>1. got[x] \in Seq(Msg)
          BY DEF Types
        <5> QED BY <5>1, SMT
      <4>2. \A m \in Msg : m = got[x][i] => ItemFits(m, x)'
        BY <3>3
      <4>3. got'[x][i] = got[x][i]
        BY <2>2
      <4> QED BY <4>1, <4>2, <4>3
    <3> QED BY <2>2, <3>2, <3>4 DEF GotFits
  <2> QED BY <2>1, <2>2 DEF GotStep
<1> QED BY <1>1, <1>2, BoxSteps DEF Data

-----------------------------------------------------------------------------
\* A step of process a that changes socket x, if any, and nothing of others.
SameSocket(x) ==
    /\ usock'[x] = usock[x] /\ (x \in connected' <=> x \in connected)
    /\ sent'[x] = sent[x] /\ got'[x] = got[x] /\ ret'[x] = ret[x]

StepOf(a, x) ==
    /\ Owner(x) = a
    /\ \A b \in Process : b # a => call'[b] = call[b]
    /\ \A y \in Socket : y # x => SameSocket(y)
    /\ \A c \in Client : connects'[c] \in Nat /\ connects'[c] >= connects[c]

LEMMA Owners ==
  ASSUME NEW x \in Socket
  PROVE  /\ Owner(x) \in Process
         /\ x \in Process => Owner(x) = x
         /\ x \in Accepted => Owner(x) = x.at /\ x.at \in Server
         /\ Owner(x) \in Client => x = Owner(x)
BY Names, StreamAssumption DEF Socket, Owner

LEMMA UsedStays ==
  ASSUME Types, NEW a, NEW x, StepOf(a, x), NEW q \in Secret, Used(q)
  PROVE  Used(q)'
<1>1. /\ q.pid \in Client /\ q.n \in Nat
      /\ connects[q.pid] \in Nat
  BY Names, StreamAssumption, SMT DEF Types, Secret
<1>2. connects'[q.pid] \in Nat /\ connects'[q.pid] >= connects[q.pid]
  BY <1>1 DEF StepOf
<1> QED BY <1>1, <1>2, SMT DEF Used

LEMMA OtherSockets ==
  ASSUME Types, Sockets, NEW a \in Process, NEW x \in Socket, StepOf(a, x),
         NEW y \in Socket, y # x
  PROVE  SocketFits(y)'
<1>1. SocketFits(y) /\ SameSocket(y)
  BY DEF Sockets, StepOf
<1>2. CASE y \in Server
  <2>1. y \notin Client /\ y \notin Accepted
    BY <1>2, Names, StreamAssumption
  <2> QED BY <1>1, <1>2, <2>1 DEF SocketFits, ServerSocket, SameSocket
<1>3. CASE y \in Client
  <2>1. y \notin Server /\ y \notin Accepted /\ ClientSocket(y)
    BY <1>1, <1>3, Names, StreamAssumption DEF SocketFits
  <2>2. y # a /\ (Idle(y)' <=> Idle(y))
    <3>1. y # a
      BY <1>3, Owners DEF StepOf
    <3> QED BY <1>3, <3>1, Names DEF StepOf, Idle
  <2>3. \A q \in Secret : Used(q) => Used(q)'
    BY UsedStays
  <2>4. usock'[y].secret # NULL => Used(usock[y].secret)'
    BY <1>1, <2>3, SocketSecret DEF SameSocket, Used
  <2>5. ClientSocket(y)'
    BY <1>1, <2>1, <2>2, <2>4, Zenon DEF ClientSocket, SameSocket, Used
  <2> QED BY <2>1, <2>5 DEF SocketFits
<1>4. CASE y \in Accepted
  <2>1. y \notin Server /\ y \notin Client /\ AcceptedSocket(y)
    BY <1>1, <1>4, Names, StreamAssumption DEF SocketFits
  <2>2. usock[y].secret # NULL => Used(y.secret)'
    BY <1>4, <2>1, Names, UsedStays DEF AcceptedSocket
  <2>3. AcceptedSocket(y)'
    BY <1>1, <2>1, <2>2, Zenon DEF AcceptedSocket, SameSocket
  <2> QED BY <2>1, <2>3 DEF SocketFits
<1> QED BY <1>2, <1>3, <1>4 DEF Socket, Process

LEMMA OtherCalls ==
  ASSUME Types, Calls, NEW a \in Process, NEW x \in Socket, StepOf(a, x),
         NEW b \in Process, b # a, ~Idle(b)'
  PROVE  CallFits(b)'
<1> DEFINE y == call[b].socket
<1>1. call'[b] = call[b] /\ CallFits(b) /\ y \in Socket
  <2>1. call'[b] = call[b]
    BY DEF StepOf
  <2>2. ~Idle(b) /\ call[b] \in Call
    BY <2>1 DEF Idle, Types
  <2> QED BY <2>1, <2>2, SMT DEF Calls, Call
<1>2. b \in Socket /\ SameSocket(b)
  <2>1. b # x
    BY Owners DEF StepOf
  <2> QED BY <2>1, Names DEF StepOf
<1>3. Owner(y) = b => SameSocket(y)
  BY <1>1 DEF StepOf
<1>4. y \in Accepted => Owner(y) = y.at
  BY <1>1, Owners
<1> QED BY <1>1, <1>2, <1>3, <1>4, Zenon
        DEF CallFits, SameSocket, Open, Serves

-----------------------------------------------------------------------------
\* A step of process a on socket x that is quiet keeps the invariant, if what
\* it does to the socket, the call and the mailslots fits.
LEMMA StepSockets ==
  ASSUME Types, Sockets, Calls, NEW a \in Process, NEW x \in Socket,
         StepOf(a, x), SocketFits(x)', ~Idle(a)' => CallFits(a)'
  PROVE  Sockets' /\ Calls'
<1>1. \A y \in Socket : SocketFits(y)'
  BY OtherSockets
<1>2. \A b \in Process : ~Idle(b)' => CallFits(b)'
  BY OtherCalls
<1> QED BY <1>1, <1>2 DEF Sockets, Calls

\* A message in p after the step of a: it was there, or a wrote it.
Arrived(m, p, a) ==
    \/ m \in In(p)
    \/ /\ Pending(a) /\ ~Pending(a)' /\ call[a].to = p /\ m = call[a].msg
    \/ m.type # "CLIENT_OPEN" /\ MessageFits(m, p)'

\* The message that a polls to write after the step.
NewMessage(a) ==
    Pending(a)' =>
        /\ ~InCall(a, "connect")'
        /\ call'[a].msg.type # "CLIENT_OPEN"
        /\ \A p, m :
               p = call'[a].to /\ m = call'[a].msg => MessageFits(m, p)'

LEMMA StepQuiet ==
  ASSUME Types, Sockets, Calls, NEW a \in Process, NEW x \in Socket,
         StepOf(a, x), connects' = connects, Stays(x), Types',
         ~InCall(a, "connect")',
         \A p \in Path : \A m \in In(p)' : Arrived(m, p, a)
  PROVE  Quiet
<1>1. ASSUME NEW q \in Secret, Asking(q)' PROVE Asking(q)
  <2>1. q.pid # a /\ q.pid \in Process
    BY <1>1, Names DEF Asking
  <2>2. call'[q.pid] = call[q.pid]
    BY <2>1 DEF StepOf
  <2> QED BY <1>1, <2>2 DEF Asking, InCall
<1>2. ASSUME NEW q \in Secret, NEW p \in Path, Requested(q, p)', ~Requested(q, p)
      PROVE  Asking(q) /\ ~Asking(q)' /\ p = call[q.pid].to
  <2>1. PICK m \in In(p)' : m.type = "CLIENT_OPEN" /\ m.secret = q
    BY <1>2 DEF Requested
  <2>2. m \notin In(p) /\ Arrived(m, p, a)
    BY <1>2, <2>1 DEF Requested
  <2>3. Pending(a) /\ ~Pending(a)' /\ call[a].to = p /\ m = call[a].msg
    BY <2>1, <2>2 DEF Arrived
  <2>4. CallFits(a)
    BY <2>3 DEF Calls, Pending, Idle
  <2>5. call[a].kind = "connect" /\ call[a].msg.secret = usock[a].secret
    BY <2>1, <2>3, <2>4, SMT
       DEF CallFits, Pending, OpenReply, DataMsg, OpenRequest
  <2>6. a \in Client /\ usock[a].secret # NULL
    BY <2>4, <2>5 DEF CallFits
  <2>7. q.pid = a
    BY <2>1, <2>3, <2>5, <2>6, SocketSecret, Names
  <2>8. Asking(q)
    BY <2>1, <2>3, <2>5, <2>7 DEF Asking, InCall, Pending
  <2>9. ~Asking(q)'
    BY <2>3, <2>7 DEF Asking, InCall, Pending
  <2> QED BY <2>3, <2>7, <2>8, <2>9
<1>3. ASSUME NEW y \in Socket PROVE Stays(y)
  <2>1. CASE y # x
    <3>1. SameSocket(y) /\ sent'[y] \in Int
      BY <2>1, StreamAssumption, SMT DEF StepOf, Types
    <3>2. sent'[y] >= sent[y]
      BY <3>1, SMT DEF SameSocket
    <3>3. y \in Accepted /\ usock[y].secret = NULL => usock[y].fd_w = NULL
      BY SocketSecret
    <3> QED BY <3>1, <3>2, <3>3, Zenon DEF Stays, SameSocket
  <2> QED BY <2>1
<1> QED BY <1>1, <1>2, <1>3 DEF Quiet

LEMMA StepDue ==
  ASSUME NEW a \in Process, NEW x \in Socket,
         StepOf(a, x), NewMessage(a),
         NEW p \in Path, \A m \in In(p)' : Arrived(m, p, a),
         NEW m \in Due(p)'
  PROVE  m \in Due(p) \/ (m.type # "CLIENT_OPEN" /\ MessageFits(m, p)')
<1>1. CASE m \in In(p)'
  BY <1>1 DEF Arrived, Due
<1>2. ASSUME NEW b \in Process, Pending(b)', call'[b].to = p,
             m = call'[b].msg
      PROVE  m \in Due(p) \/ (m.type # "CLIENT_OPEN" /\ MessageFits(m, p)')
  <2>1. CASE b # a
    <3>1. call'[b] = call[b]
      BY <2>1 DEF StepOf
    <3> QED BY <1>2, <3>1 DEF Due, Pending
  <2>2. CASE b = a
    BY <1>2, <2>2 DEF NewMessage
  <2> QED BY <2>1, <2>2
<1> QED BY <1>1, <1>2 DEF Due

RetStep(x) ==
    \/ ret'[x] = ret[x] /\ usock'[x].secret = usock[x].secret
    \/ ResetFits(x)'

LiveStep(x) ==
    x \in Client /\ Live(x)' =>
        /\ Live(x) /\ usock'[x].fd_r = usock[x].fd_r
        /\ usock'[x].secret = usock[x].secret

LEMMA StepAddresses ==
  ASSUME Addresses, Quiet, NEW a \in Process, NEW x \in Socket,
         StepOf(a, x), LiveStep(x),
         \A p \in Path : \A m \in Due(p)' :
             m \in Due(p) \/ (m.type # "CLIENT_OPEN" /\ MessageFits(m, p)')
  PROVE  Addresses'
<1> SUFFICES ASSUME NEW c \in Client, Live(c)' PROVE Joined(c)'
  BY DEF Addresses
<1>1. /\ Live(c) /\ usock'[c].fd_r = usock[c].fd_r
      /\ usock'[c].secret = usock[c].secret
  <2>1. CASE c = x
    BY <2>1 DEF LiveStep
  <2>2. CASE c # x
    <3>1. c \in Socket /\ c \in Process /\ c # a
      BY <2>2, Names, Owners DEF StepOf
    <3>2. usock'[c] = usock[c] /\ call'[c] = call[c]
      BY <2>2, <3>1 DEF StepOf, SameSocket
    <3> QED BY <3>2 DEF Live, InCall
  <2> QED BY <2>1, <2>2
<1>2. Joined(c)
  BY <1>1 DEF Addresses
<1>3. ASSUME NEW p \in Path, NEW m \in Due(p)', m.type = "CLIENT_OPEN",
             m.secret = usock'[c].secret
      PROVE  m.path \in {usock'[c].fd_r, Bare(c)}
  BY <1>1, <1>2, <1>3 DEF Joined
<1>4. ASSUME NEW y \in Accepted, usock'[y].secret = usock'[c].secret,
             usock'[y].fd_w # NULL
      PROVE  usock'[y].fd_w \in {usock'[c].fd_r, Bare(c)}
  <2>1. Stays(y)
    BY Names DEF Quiet
  <2>2. usock'[y].fd_w = usock[y].fd_w /\ usock'[y].secret = usock[y].secret
    BY <1>4, <2>1 DEF Stays
  <2> QED BY <1>1, <1>2, <1>4, <2>2 DEF Joined
<1> QED BY <1>3, <1>4 DEF Joined

LEMMA StepFits ==
  ASSUME IInv, Types', NEW a \in Process, NEW x \in Socket, StepOf(a, x),
         connects' = connects, ~InCall(a, "connect")',
         SocketFits(x)', ~Idle(a)' => CallFits(a)',
         Stays(x), GotStep(x), RetStep(x), LiveStep(x), NewMessage(a),
         \A p \in Path : BoxStep(p) /\ \A m \in In(p)' : Arrived(m, p, a)
  PROVE  IInv'
<1>1. Sockets' /\ Calls'
  BY StepSockets DEF IInv
<1>2. Quiet
  BY StepQuiet DEF IInv
<1>3. Unique' /\ Keeps /\ KeepsWritten
  BY <1>2, QuietUnique, QuietKeeps, QuietWritten DEF IInv
<1>4. \A p \in Path : \A m \in Due(p)' :
          m \in Due(p) \/ (m.type # "CLIENT_OPEN" /\ MessageFits(m, p)')
  BY StepDue
<1>5. Messages'
  BY <1>3, <1>4, MessagesKept DEF IInv
<1>6. Addresses'
  BY <1>2, <1>4, StepAddresses DEF IInv
<1>7. \A y \in Socket : y # x => SameSocket(y)
  BY DEF StepOf
<1>8. Resets'
  BY <1>3, <1>7, ResetsKept DEF IInv, RetStep, SameSocket
<1>9. \A y \in Socket : GotStep(y)
  BY <1>7 DEF GotStep, SameSocket
<1>10. Data'
  BY <1>3, <1>9, DataKept DEF IInv
<1> QED BY <1>1, <1>3, <1>5, <1>6, <1>8, <1>10 DEF IInv

-----------------------------------------------------------------------------
\* How steps change the call of a process, and the mailslots.
Kind == {"connect", "await", "accept", "reply", "send", "recv", "peek"}

LEMMA Entered ==
  ASSUME Types, NEW a \in Process, NEW kind \in Kind, NEW x \in Socket,
         NEW to \in Path \cup {NULL}, NEW m \in Msg \cup {NULL},
         Enter(a, kind, x, to, m)
  PROVE  /\ call' \in [Process -> Call \cup {NULL}]
         /\ \A b \in Process : b # a => call'[b] = call[b]
         /\ call'[a] # NULL /\ call'[a].kind = kind /\ call'[a].socket = x
         /\ call'[a].to = to /\ call'[a].msg = m
         /\ ~Idle(a)'
<1> DEFINE new == [kind |-> kind, socket |-> x, to |-> to, msg |-> m]
<1>1. /\ new \in Call /\ new.kind = kind /\ new.socket = x
      /\ new.to = to /\ new.msg = m
  BY DEF Call, Kind
<1>2. new # NULL
  BY <1>1, NullAssumption
<1>3. call' = [call EXCEPT ![a] = new]
  BY DEF Enter
<1> HIDE DEF new
<1>4. /\ call' \in [Process -> Call \cup {NULL}] /\ call'[a] = new
      /\ \A b \in Process : b # a => call'[b] = call[b]
  BY <1>1, <1>3 DEF Types
<1> QED BY <1>1, <1>2, <1>4 DEF Idle

LEMMA Returned ==
  ASSUME Types, NEW a \in Process, Return(a)
  PROVE  /\ call' \in [Process -> Call \cup {NULL}]
         /\ \A b \in Process : b # a => call'[b] = call[b]
         /\ call'[a] = NULL /\ Idle(a)' /\ ~Pending(a)'
         /\ \A kind \in Kind : ~InCall(a, kind)'
<1>1. /\ call' \in [Process -> Call \cup {NULL}] /\ call'[a] = NULL
      /\ \A b \in Process : b # a => call'[b] = call[b]
  BY DEF Types, Return
<1> QED BY <1>1 DEF Idle, Pending, InCall

LEMMA Untouched ==
  ASSUME box' = box, NEW a
  PROVE  \A p \in Path : BoxStep(p) /\ \A m \in In(p)' : Arrived(m, p, a)
BY DEF BoxStep, In, Arrived

LEMMA Drained ==
  ASSUME Types, NEW r \in Path, box' = Drain(r), NEW a
  PROVE  /\ box' \in [Path -> Seq(Msg)] /\ In(r)' = {}
         /\ \A p \in Path : /\ BoxStep(p) /\ In(p)' \subseteq In(p)
                            /\ \A m \in In(p)' : Arrived(m, p, a)
<1>1. /\ box \in [Path -> Seq(Msg)] /\ <<>> \in Seq(Msg)
      /\ box' = [box EXCEPT ![r] = <<>>]
  BY Emptied DEF Types, Drain
<1>2. /\ box' \in [Path -> Seq(Msg)] /\ box'[r] = <<>>
      /\ \A p \in Path : box'[p] = box[p] \/ box'[p] = <<>>
  BY <1>1
<1>3. In(r)' = {}
  BY <1>2, Emptied DEF In
<1>4. ASSUME NEW p \in Path PROVE BoxStep(p) /\ In(p)' \subseteq In(p)
  <2>1. CASE box'[p] = box[p]
    BY <2>1 DEF BoxStep, In
  <2>2. CASE box'[p] = <<>>
    BY <2>2, Emptied DEF BoxStep, In
  <2> QED BY <1>2, <2>1, <2>2
<1> QED BY <1>2, <1>3, <1>4 DEF Arrived

\* The write of process a succeeds.
LEMMA Delivered ==
  ASSUME Types, NEW a \in Process, WriteComplete(a), Pending(a), ~Pending(a)',
         call[a].to \in Path, call[a].msg \in Msg,
         Later(call[a].msg, call[a].to)
  PROVE  /\ box' \in [Path -> Seq(Msg)]
         /\ \A p \in Path : BoxStep(p) /\ \A m \in In(p)' : Arrived(m, p, a)
<1> DEFINE m0 == call[a].msg
           r == call[a].to
<1>1. /\ box \in [Path -> Seq(Msg)] /\ box[r] \in Seq(Msg)
      /\ box' = [box EXCEPT ![r] = Append(box[r], m0)]
  BY DEF Types, WriteComplete, Write
<1> DEFINE new == Append(box[r], m0)
<1>2. new \in Seq(Msg) /\ {new[i] : i \in DOMAIN new} = In(r) \cup {m0}
  BY <1>1, Appended DEF In
<1>3. /\ box' \in [Path -> Seq(Msg)] /\ box'[r] = Append(box[r], m0)
      /\ \A p \in Path : p # r => box'[p] = box[p]
  BY <1>1, <1>2
<1>4. ASSUME NEW p \in Path
      PROVE  BoxStep(p) /\ \A m \in In(p)' : Arrived(m, p, a)
  <2>1. CASE p # r
    BY <1>3, <2>1 DEF BoxStep, In, Arrived
  <2>2. CASE p = r
    <3>1. BoxStep(p)
      BY <1>3, <2>2 DEF BoxStep
    <3>2. In(p)' = {new[i] : i \in DOMAIN new}
      <4>1. box'[p] = new
        BY <1>3, <2>2
      <4> HIDE DEF new
      <4> QED BY <4>1 DEF In
    <3>3. \A m \in In(p)' : m \in In(p) \/ m = m0
      BY <1>2, <2>2, <3>2
    <3> QED BY <2>2, <3>1, <3>3 DEF Arrived
  <2> QED BY <2>1, <2>2
<1> QED BY <1>3, <1>4

\* Socket x is closed when the mailslots hold b.
LEMMA ClosedBoxes ==
  ASSUME Types, Sockets, NEW x \in Socket, NEW b \in [Path -> Seq(Msg)],
         \A p \in Path : b[p] \in {box[p], <<>>},
         box' = ClosedBox(x, b), NEW a
  PROVE  /\ box' \in [Path -> Seq(Msg)]
         /\ \A p \in Path : BoxStep(p)
         /\ \A p \in Path : \A m \in In(p)' :
                \/ m \in In(p)
                \/ /\ usock[x].fd_w # NULL
                   /\ m = CloseMsg(x, usock[x].secret)
<1> DEFINE r == usock[x].fd_w
           m0 == CloseMsg(x, usock[x].secret)
           tell == r # NULL /\ Exists(r) /\ Len(b[r]) < Room
<1>1. /\ DOMAIN box' = Path
      /\ \A p \in Path :
             \/ box'[p] = <<>> \/ box'[p] = b[p]
             \/ r # NULL /\ box'[p] = Append(b[p], m0)
  <2>1. CASE tell
    <3>1. r \in Path
      BY <2>1, SocketSecret, SMT DEF LSCK_SOCKET_UNIX
    <3>2. box' = [p \in Path |-> IF p = usock[x].fd_r THEN <<>>
                                 ELSE [b EXCEPT ![r] = Append(@, m0)][p]]
      BY <2>1 DEF ClosedBox
    <3> HIDE DEF m0
    <3> QED BY <2>1, <3>1, <3>2
  <2>2. CASE ~tell
    BY <2>2 DEF ClosedBox
  <2> QED BY <2>1, <2>2
<1>2. ASSUME NEW p \in Path
      PROVE  /\ box'[p] \in Seq(Msg) /\ BoxStep(p)
             /\ \A m \in In(p)' : m \in In(p) \/ (r # NULL /\ m = m0)
  <2>1. b[p] \in Seq(Msg) /\ <<>> \in Seq(Msg)
    BY Emptied
  <2>2. CASE box'[p] = <<>>
    BY <2>2, Emptied DEF BoxStep, In
  <2>3. CASE box'[p] = b[p] /\ b[p] # <<>>
    BY <2>1, <2>3, Zenon DEF BoxStep, In
  <2>4. CASE r # NULL /\ box'[p] = Append(b[p], m0)
    <3>1. m0 \in Msg /\ m0.type # "DATA"
      <4>1. usock[x].secret \in Secret
        BY <2>4, SocketSecret
      <4>2. m0.type # "DATA"
        BY DEF CloseMsg
      <4> QED BY <4>1, <4>2, MessageTypes
    <3> HIDE DEF m0
    <3>2. BoxStep(p)
      BY <2>4, <3>1 DEF BoxStep, Later
    <3>3. In(p)' = {b[p][i] : i \in DOMAIN b[p]} \cup {m0}
      <4> DEFINE new == Append(b[p], m0)
      <4>1. {new[i] : i \in DOMAIN new} = {b[p][i] : i \in DOMAIN b[p]} \cup {m0}
        BY <2>1, <3>1, Appended
      <4>2. box'[p] = new
        BY <2>4
      <4> HIDE DEF new
      <4> QED BY <4>1, <4>2 DEF In
    <3>4. {b[p][i] : i \in DOMAIN b[p]} \subseteq In(p)
      BY Emptied DEF In
    <3>5. box'[p] \in Seq(Msg)
      BY <2>1, <2>4, <3>1, Appended
    <3> QED BY <2>4, <3>2, <3>3, <3>4, <3>5
  <2> QED BY <1>1, <2>2, <2>3, <2>4
<1>3. box' \in [Path -> Seq(Msg)]
  <2>1. box' = [p \in Path |-> box'[p]]
    BY <1>1 DEF ClosedBox
  <2> QED BY <1>2, <2>1
<1> QED BY <1>2, <1>3

-----------------------------------------------------------------------------
\* The actions of a call that change no socket.
sockets == <<usock, connected, connects, sent, got>>

\* The result of accept() on the socket of a server is all that changes.
AcceptStep(x) ==
    \/ ret' = ret
    \/ /\ x \in Server
       /\ \E v \in {NULL, "failed"} : ret' = [ret EXCEPT ![x] = v]

LEMMA AcceptResult ==
  ASSUME Types, NEW x \in Socket, AcceptStep(x)
  PROVE  /\ ret' \in [Socket -> {NULL, "data", "junk", "ECONNRESET", "failed"}]
         /\ \A y \in Socket : y # x => ret'[y] = ret[y]
         /\ ret'[x] = ret[x] \/ (x \in Server /\ ret'[x] \in {NULL, "failed"})
<1>1. CASE ret' = ret
  BY <1>1 DEF Types
<1>2. CASE x \in Server /\ \E v \in {NULL, "failed"} : ret' = [ret EXCEPT ![x] = v]
  <2> PICK v \in {NULL, "failed"} : ret' = [ret EXCEPT ![x] = v]
    BY <1>2
  <2> QED BY <1>2 DEF Types
<1> QED BY <1>1, <1>2 DEF AcceptStep

LEMMA SocketsUnchanged ==
  ASSUME IInv, UNCHANGED sockets, NEW x \in Socket, NEW a \in Process,
         AcceptStep(x), Owner(x) = a, \A b \in Process : b # a => call'[b] = call[b],
         x \in Client => Idle(a) \/ ~Idle(a)' \/ x \in connected
  PROVE  /\ StepOf(a, x) /\ SocketFits(x)'
         /\ Stays(x) /\ GotStep(x) /\ RetStep(x)
<1>0. /\ \A y \in Socket : y # x => ret'[y] = ret[y]
      /\ ret'[x] = ret[x] \/ (x \in Server /\ ret'[x] \in {NULL, "failed"})
  BY AcceptResult DEF IInv
<1>1. \A y \in Socket : y # x => SameSocket(y)
  BY <1>0 DEF sockets, SameSocket
<1>2. \A c \in Client : connects'[c] \in Nat /\ connects'[c] >= connects[c]
  BY StreamAssumption, SMT DEF sockets, IInv, Types
<1>3. StepOf(a, x)
  BY <1>1, <1>2 DEF StepOf
<1>4. SocketFits(x)'
  <2>1. SocketFits(x)
    BY DEF IInv, Sockets
  <2>2. x \in Client => x = a
    BY StreamAssumption DEF Owner, Process
  <2>5. (x \in Client => x \notin Server) /\ (x \in Accepted => x \notin Server)
    BY StreamAssumption, Names
  <2>6. x \notin Server => ret'[x] = ret[x]
    BY <1>0
  <2>3. x \in Client => ClientSocket(x)'
    BY <2>1, <2>2, <2>5, <2>6, Zenon DEF SocketFits, ClientSocket, sockets, Used
  <2>4. x \in Accepted => AcceptedSocket(x)'
    BY <2>1, <2>5, <2>6, Zenon DEF SocketFits, AcceptedSocket, sockets, Used
  <2>7. x \in Server => ret'[x] \in {NULL, "failed"}
    BY <1>0, <2>1 DEF SocketFits
  <2> QED BY <2>1, <2>3, <2>4, <2>7 DEF SocketFits, ServerSocket, sockets
<1>5. GotStep(x) /\ RetStep(x)
  <2>1. ret'[x] = ret[x] \/ ret'[x] # "ECONNRESET"
    BY <1>0, NullAssumption
  <2> QED BY <2>1 DEF GotStep, RetStep, ResetFits, sockets
<1>6. Stays(x)
  <2>1. sent'[x] >= sent[x]
    <3>1. sent[x] \in Int /\ sent'[x] = sent[x]
      BY StreamAssumption, SMT DEF sockets, IInv, Types
    <3> QED BY <3>1, SMT
  <2>2. x \in Accepted /\ usock[x].secret = NULL => usock[x].fd_w = NULL
    BY SocketSecret DEF IInv
  <2> QED BY <2>1, <2>2 DEF Stays, sockets
<1> QED BY <1>3, <1>4, <1>5, <1>6

LEMMA AcceptFits == ASSUME IInv, NEW s \in Server, Accept(s) PROVE IInv'
<1>1. /\ s \in Process /\ s \in Socket /\ s \notin Client /\ s \notin Accepted
      /\ Owner(s) = s
  BY Names, StreamAssumption DEF Owner
<1>2. UNCHANGED sockets /\ box' = box /\ AcceptStep(s)
  BY DEF Accept, sockets, AcceptStep
<1>3. /\ call' \in [Process -> Call \cup {NULL}]
      /\ \A b \in Process : b # s => call'[b] = call[b]
      /\ call'[s] # NULL /\ call'[s].kind = "accept"
  BY <1>1, Entered DEF Accept, IInv, Kind
<1>4. Types'
  BY <1>1, <1>2, <1>3, AcceptResult DEF IInv, Types, sockets
<1>5. CallFits(s)' /\ ~Pending(s)' /\ ~InCall(s, "connect")'
  BY <1>3 DEF CallFits, Pending, InCall
<1>6. LiveStep(s) /\ NewMessage(s)
  BY <1>1, <1>5 DEF LiveStep, NewMessage
<1>7. \A p \in Path : BoxStep(p) /\ \A m \in In(p)' : Arrived(m, p, s)
  BY <1>2, Untouched
<1>8. /\ StepOf(s, s) /\ SocketFits(s)'
      /\ Stays(s) /\ GotStep(s) /\ RetStep(s)
  BY <1>1, <1>2, <1>3, SocketsUnchanged
<1>9. connects' = connects
  BY <1>2 DEF sockets
<1> QED BY <1>1, <1>4, <1>5, <1>6, <1>7, <1>8, <1>9, StepFits

\* Call kinds on an open socket.
LEMMA OpenSocket ==
  ASSUME Types, Sockets, NEW x \in Socket, Open(x)
  PROVE  /\ usock[x].secret \in Secret /\ Used(usock[x].secret)
         /\ usock[x].fd_w \in Path /\ usock[x].fd_r \in Path
         /\ \/ /\ x \in Client /\ x \notin Accepted
               /\ usock[x].secret.pid = x
               /\ usock[x].fd_r \in Bound(usock[x].secret)
               /\ \E s \in Server :
                    usock[x].fd_w = Reply([at |-> s, secret |-> usock[x].secret])
            \/ /\ x \in Accepted /\ x \notin Client
               /\ usock[x].secret = x.secret
               /\ usock[x].fd_w \in Home(usock[x].secret)
               /\ usock[x].fd_r = Reply(x)
<1>1. /\ x \in connected /\ usock[x].fd_w # NULL /\ SocketFits(x)
      /\ usock[x].secret # NULL /\ x \notin Server
  BY SocketSecret DEF Open, Sockets
<1>2. /\ usock[x].secret \in Secret /\ Used(usock[x].secret)
      /\ usock[x].fd_w \in Path
  BY <1>1, SocketSecret, SMT DEF LSCK_SOCKET_UNIX
<1>3. CASE x \in Client
  <2>1. x \notin Accepted /\ usock[x].secret.pid = x
    BY <1>1, <1>3, SocketSecret, Names
  <2>2. /\ usock[x].fd_r \in Bound(usock[x].secret)
        /\ \E s \in Server :
              usock[x].fd_w = Reply([at |-> s, secret |-> usock[x].secret])
    BY <1>1, <1>3 DEF SocketFits, ClientSocket
  <2> QED BY <1>2, <1>3, <2>1, <2>2, Kinds
<1>4. CASE x \in Accepted
  <2>1. AcceptedSocket(x) /\ x \notin Client
    BY <1>1, <1>4, Names DEF SocketFits
  <2> QED BY <1>1, <1>2, <1>4, <2>1, Names DEF AcceptedSocket
<1> QED BY <1>1, <1>3, <1>4 DEF Socket, Process

\* The mailslot that a connected socket reads.
LEMMA ReadSocket ==
  ASSUME Types, Sockets, NEW x \in Socket, x \in connected,
         usock[x].fd_r # NULL
  PROVE  /\ usock[x].secret \in Secret /\ Used(usock[x].secret)
         /\ usock[x].fd_r \in Path
         /\ \/ /\ x \in Client /\ x \notin Accepted
               /\ usock[x].fd_r \in Bound(usock[x].secret)
            \/ /\ x \in Accepted /\ x \notin Client
               /\ usock[x].secret = x.secret
               /\ usock[x].fd_r = Reply(x)
<1>1. SocketFits(x) /\ usock[x].secret # NULL /\ x \notin Server
  BY SocketSecret DEF Sockets
<1>2. /\ usock[x].secret \in Secret /\ Used(usock[x].secret)
      /\ usock[x].fd_r \in Path
  BY <1>1, SocketSecret, SMT DEF LSCK_SOCKET_UNIX
<1>3. CASE x \in Client
  <2>1. x \notin Accepted
    BY <1>3, Names
  <2>2. usock[x].fd_r \in Bound(usock[x].secret)
    BY <1>1, <1>3 DEF SocketFits, ClientSocket
  <2> QED BY <1>2, <1>3, <2>1, <2>2
<1>4. CASE x \in Accepted
  <2>1. AcceptedSocket(x) /\ x \notin Client
    BY <1>1, <1>4, Names DEF SocketFits
  <2> QED BY <1>1, <1>2, <1>4, <2>1 DEF AcceptedSocket
<1> QED BY <1>1, <1>3, <1>4 DEF Socket, Process

LEMMA RecvFits == ASSUME IInv, NEW x \in Socket, Recv(x) PROVE IInv'
<1> DEFINE a == Owner(x)
<1>1. a \in Process /\ x \in connected /\ usock[x].fd_r # NULL
  BY Owners DEF Recv
<1>2. UNCHANGED sockets /\ box' = box /\ ret' = ret /\ AcceptStep(x)
  BY DEF Recv, sockets, AcceptStep
<1>3. PICK kind \in {"recv", "peek"} : Enter(a, kind, x, NULL, NULL)
  BY DEF Recv
<1>4. /\ call' \in [Process -> Call \cup {NULL}]
      /\ \A b \in Process : b # a => call'[b] = call[b]
      /\ call'[a] # NULL /\ call'[a].kind = kind /\ call'[a].socket = x
  BY <1>1, <1>3, Entered DEF IInv, Kind
<1>5. Types'
  BY <1>2, <1>4 DEF IInv, Types, sockets
<1>6. CallFits(a)' /\ ~Pending(a)' /\ ~InCall(a, "connect")'
  BY <1>1, <1>2, <1>4 DEF CallFits, Pending, InCall, sockets
<1>7. LiveStep(x) /\ NewMessage(a)
  <2>1. ~InCall(a, "await")' /\ (x \in Client => x = a)
    BY <1>4, Owners, Names DEF InCall
  <2> QED BY <1>2, <1>6, <2>1 DEF LiveStep, NewMessage, Live, sockets
<1>8. \A p \in Path : BoxStep(p) /\ \A m \in In(p)' : Arrived(m, p, a)
  BY <1>2, Untouched
<1>9. /\ StepOf(a, x) /\ SocketFits(x)'
      /\ Stays(x) /\ GotStep(x) /\ RetStep(x)
  BY <1>1, <1>2, <1>4, SocketsUnchanged
<1>10. connects' = connects
  BY <1>2 DEF sockets
<1> QED BY <1>1, <1>5, <1>6, <1>7, <1>8, <1>9, <1>10, StepFits

\* The message that send() writes.
LEMMA SentFits ==
  ASSUME Types, Sockets, NEW x \in Socket, Open(x), sent[x] < MaxSend
  PROVE  LET m == DataMsg(usock[x].secret, [from |-> x, n |-> sent[x] + 1])
         IN  /\ m \in Msg /\ m.type = "DATA" /\ m.secret = usock[x].secret
             /\ m.data = [from |-> x, n |-> sent[x] + 1]
             /\ MessageFits(m, usock[x].fd_w)
<1> DEFINE q == usock[x].secret
           d == [from |-> x, n |-> sent[x] + 1]
           m == DataMsg(q, d)
<1>1. d \in Item /\ q \in Secret /\ d.from = x
  BY OpenSocket, NextItem
<1>2. m \in Msg /\ m.type = "DATA" /\ m.secret = q /\ m.data = d
  BY <1>1, MessageTypes DEF DataMsg
<1> HIDE DEF m, d
<1>3. Peers(m, usock[x].fd_w)
  BY <1>1, <1>2, OpenSocket DEF Peers
<1>4. MessageFits(m, usock[x].fd_w)
  BY <1>1, <1>2, <1>3, OpenSocket DEF MessageFits
<1> QED BY <1>1, <1>2, <1>4 DEF m, d

LEMMA SendFits == ASSUME IInv, NEW x \in Socket, Send(x) PROVE IInv'
<1> DEFINE a == Owner(x)
           m == DataMsg(usock[x].secret, [from |-> x, n |-> sent[x] + 1])
<1>1. /\ a \in Process /\ Open(x) /\ x \in connected /\ usock[x].fd_w # NULL
      /\ sent[x] < MaxSend /\ Enter(a, "send", x, usock[x].fd_w, m)
  BY Owners DEF Send, Open
<1>2. UNCHANGED sockets /\ box' = box /\ ret' = ret /\ AcceptStep(x)
  BY DEF Send, sockets, AcceptStep
<1>3. /\ m \in Msg /\ m.type = "DATA" /\ MessageFits(m, usock[x].fd_w)
      /\ usock[x].fd_w \in Path
  BY <1>1, SentFits, OpenSocket DEF IInv
<1>4. /\ call' \in [Process -> Call \cup {NULL}]
      /\ \A b \in Process : b # a => call'[b] = call[b]
      /\ call'[a] # NULL /\ call'[a].kind = "send" /\ call'[a].socket = x
      /\ call'[a].to = usock[x].fd_w /\ call'[a].msg = m
  <2> HIDE DEF m
  <2> QED BY <1>1, <1>3, Entered DEF IInv, Kind
<1>5. Types'
  BY <1>2, <1>4 DEF IInv, Types, sockets
<1>6. CallFits(a)' /\ ~InCall(a, "connect")'
  <2>1. usock[x].fd_r # NULL
    BY <1>1, OpenSocket, NullAssumption DEF IInv
  <2> QED BY <1>1, <1>2, <1>4, <2>1, Zenon DEF CallFits, InCall, sockets
<1>7. LiveStep(x)
  BY <1>1, <1>2 DEF LiveStep, Live, sockets
<1>8. NewMessage(a)
  <2> SUFFICES ASSUME NEW k, NEW p, k = call'[a].msg, p = call'[a].to
               PROVE  k.type # "CLIENT_OPEN" /\ MessageFits(k, p)'
    BY <1>6 DEF NewMessage
  <2>1. MessageFits(k, p) /\ k.type = "DATA"
    BY <1>3, <1>4
  <2>2. Used(k.secret)'
    BY <1>2, <2>1 DEF MessageFits, Used, sockets
  <2> QED BY <2>1, <2>2 DEF MessageFits, Peers, Home, Bound
<1>9. \A p \in Path : BoxStep(p) /\ \A k \in In(p)' : Arrived(k, p, a)
  BY <1>2, Untouched
<1>10. /\ StepOf(a, x) /\ SocketFits(x)'
       /\ Stays(x) /\ GotStep(x) /\ RetStep(x)
  BY <1>1, <1>2, <1>4, SocketsUnchanged
<1>11. connects' = connects
  BY <1>2 DEF sockets
<1> QED BY <1>1, <1>5, <1>6, <1>7, <1>8, <1>9, <1>10, <1>11, StepFits

-----------------------------------------------------------------------------
\* The actions in which a write succeeds.
LEMMA PendingFits ==
  ASSUME IInv, NEW a \in Process, Pending(a)
  PROVE  /\ CallFits(a) /\ call[a].socket \in Socket
         /\ call[a].to \in Path /\ call[a].msg \in Msg
         /\ MessageFits(call[a].msg, call[a].to)
<1> DEFINE x == call[a].socket
<1>1. CallFits(a) /\ x \in Socket
  BY SMT DEF IInv, Calls, Idle, Pending, Types, Call
<1>2. ASSUME call[a].kind = "connect" PROVE call[a].to \in Path
  BY <1>1, <1>2 DEF CallFits
<1>3. ASSUME call[a].kind = "reply" PROVE call[a].to \in Path
  <2>1. usock[x].fd_w # NULL /\ call[a].to = usock[x].fd_w
    BY <1>1, <1>3 DEF CallFits
  <2>2. usock[x] \in LSCK_SOCKET_UNIX
    BY <1>1, SocketSecret DEF IInv
  <2> QED BY <2>1, <2>2, SMT DEF LSCK_SOCKET_UNIX
<1>4. ASSUME call[a].kind = "send" PROVE call[a].to \in Path
  <2>1. Open(x) /\ call[a].to = usock[x].fd_w
    BY <1>1, <1>4 DEF CallFits, Open
  <2> QED BY <1>1, <2>1, OpenSocket DEF IInv
<1>5. call[a].to \in Path
  BY <1>2, <1>3, <1>4 DEF Pending
<1>6. call[a].msg \in Due(call[a].to)
  BY DEF Due
<1> QED BY <1>1, <1>5, <1>6, DueFits DEF IInv, Messages

LEMMA RequestSentFits ==
  ASSUME IInv, NEW c \in Client, RequestSent(c) PROVE IInv'
<1>1. c \in Process /\ c \in Socket /\ Owner(c) = c
  BY Names DEF Owner
<1>2. UNCHANGED sockets /\ ret' = ret /\ AcceptStep(c)
  BY DEF RequestSent, sockets, AcceptStep
<1>3. Pending(c) /\ call[c].kind = "connect" /\ WriteComplete(c)
  BY DEF RequestSent, InCall, Pending
<1>4. CallFits(c) /\ call[c].to \in Path /\ call[c].msg \in Msg
  BY <1>1, <1>3, PendingFits
<1>5. /\ call' \in [Process -> Call \cup {NULL}]
      /\ \A b \in Process : b # c => call'[b] = call[b]
      /\ call'[c] # NULL /\ call'[c].kind = "await" /\ call'[c].socket = c
  BY <1>1, <1>4, Entered DEF RequestSent, IInv, Kind
<1>6. ~Pending(c)' /\ ~InCall(c, "connect")' /\ ~Idle(c)'
  BY <1>5 DEF Pending, InCall, Idle
<1>7. Later(call[c].msg, call[c].to)
  BY <1>3, <1>4 DEF CallFits, OpenRequest, Later
<1>8. /\ box' \in [Path -> Seq(Msg)]
      /\ \A p \in Path : BoxStep(p) /\ \A m \in In(p)' : Arrived(m, p, c)
  BY <1>1, <1>3, <1>4, <1>6, <1>7, Delivered DEF IInv
<1>9. Types'
  BY <1>2, <1>5, <1>8 DEF IInv, Types, sockets
<1>10. CallFits(c)'
  BY <1>2, <1>3, <1>4, <1>5, Zenon DEF CallFits, sockets, Home, Bound
<1>11. LiveStep(c) /\ NewMessage(c)
  BY <1>2, <1>3, <1>6 DEF LiveStep, NewMessage, Live, sockets, Pending, InCall
<1>12. /\ StepOf(c, c) /\ SocketFits(c)'
       /\ Stays(c) /\ GotStep(c) /\ RetStep(c)
  BY <1>1, <1>2, <1>5, <1>6, SocketsUnchanged
<1>13. connects' = connects
  BY <1>2 DEF sockets
<1> QED BY <1>1, <1>6, <1>8, <1>9, <1>10, <1>11, <1>12, <1>13, StepFits

LEMMA ReplySentFits ==
  ASSUME IInv, NEW s \in Server, ReplySent(s) PROVE IInv'
<1>1. s \in Process /\ s \notin Client
  BY Names, StreamAssumption
<1>2. Pending(s) /\ call[s].kind = "reply" /\ WriteComplete(s)
  BY DEF ReplySent, InCall, Pending
<1>3. /\ CallFits(s) /\ call[s].socket \in Socket
      /\ call[s].to \in Path /\ call[s].msg \in Msg
  BY <1>1, <1>2, PendingFits
<1> PICK x \in Socket : x = call[s].socket
  BY <1>3
<1>4. /\ x \in Accepted /\ x \notin Process /\ x.at = s /\ Serves(x)
      /\ usock[x].fd_w # NULL /\ call[s].msg = OpenReply(x.secret, Reply(x))
  BY <1>2, <1>3, NullAssumption DEF CallFits
<1>5. Owner(x) = s /\ x \notin Client /\ x \notin Server
  BY <1>4, Names DEF Owner
<1>6. /\ call' \in [Process -> Call \cup {NULL}]
      /\ \A b \in Process : b # s => call'[b] = call[b]
      /\ Idle(s)' /\ ~Pending(s)' /\ ~InCall(s, "connect")'
  BY <1>1, Returned DEF ReplySent, IInv, Kind
<1>7. Later(call[s].msg, call[s].to)
  BY <1>4 DEF OpenReply, Later
<1>8. /\ box' \in [Path -> Seq(Msg)]
      /\ \A p \in Path : BoxStep(p) /\ \A m \in In(p)' : Arrived(m, p, s)
  BY <1>1, <1>2, <1>3, <1>6, <1>7, Delivered DEF IInv
<1>9. /\ UNCHANGED <<usock, connects, sent, got, ret>>
      /\ connected' = connected \cup {x}
  BY DEF ReplySent
<1>10. Types'
  BY <1>3, <1>6, <1>8, <1>9 DEF IInv, Types
<1>11. \A c \in Client : connects'[c] \in Nat /\ connects'[c] >= connects[c]
  BY <1>9, StreamAssumption, SMT DEF IInv, Types
<1>12. StepOf(s, x)
  BY <1>5, <1>6, <1>9, <1>11 DEF StepOf, SameSocket
<1>13. SocketFits(x)'
  <2>1. AcceptedSocket(x) /\ usock[x].secret # NULL
    BY <1>3, <1>4, Names, NullAssumption
       DEF IInv, Sockets, SocketFits, Serves
  <2>2. AcceptedSocket(x)'
    BY <1>9, <2>1, Zenon DEF AcceptedSocket, Used
  <2> QED BY <1>5, <2>2 DEF SocketFits
<1>14. Stays(x)
  <2>1. sent[x] \in Int /\ sent'[x] = sent[x]
    BY <1>3, <1>9, StreamAssumption, SMT DEF IInv, Types
  <2>2. sent'[x] >= sent[x]
    BY <2>1, SMT
  <2>3. usock[x].secret # NULL
    BY <1>4, Names, NullAssumption DEF Serves
  <2> QED BY <1>9, <2>2, <2>3 DEF Stays
<1>15. GotStep(x) /\ RetStep(x) /\ LiveStep(x) /\ NewMessage(s)
  BY <1>5, <1>6, <1>9 DEF GotStep, RetStep, LiveStep, NewMessage
<1> QED BY <1>1, <1>3, <1>6, <1>8, <1>9, <1>10, <1>12, <1>13, <1>14, <1>15,
           StepFits

\* The data written next comes after all data on its way, or received.
LEMMA SentLater ==
  ASSUME IInv, NEW x \in Socket, Open(x), NEW m \in Msg,
         m.type = "DATA", m.secret = usock[x].secret,
         m.data.from = x, m.data.n = sent[x] + 1,
         NEW k \in Msg, k.type = "DATA", k.secret = usock[x].secret,
         Written(k), k.data \in Item, k.data.from = x
  PROVE  Follows(k, m)
<1>1. k.data.n <= sent[x]
  BY DEF Written
<1>2. k.data.n \in Int /\ sent[x] \in Int
  BY StreamAssumption, SMT DEF Item, IInv, Types
<1> QED BY <1>1, <1>2, SMT DEF Follows

\* Data with the secret of an open socket that comes from sockets of its kind
\* comes from this socket.
LEMMA FromHere ==
  ASSUME IInv, NEW x \in Socket, Open(x), NEW y \in Socket,
         \/ x \in Client /\ y = usock[x].secret.pid
         \/ /\ x \in Accepted /\ y \in Accepted /\ y.secret = x.secret
            /\ Serves(y) \/ Spent(x.secret)
  PROVE  y = x
<1>1. CASE x \in Client
  <2>1. x \notin Accepted /\ usock[x].secret.pid = x
    BY <1>1, OpenSocket DEF IInv
  <2> QED BY <2>1
<1>2. CASE x \in Accepted
  <2>1. /\ usock[x].secret = x.secret /\ x.secret \in Secret
        /\ usock[x].fd_w # NULL /\ x \notin Client
    BY <1>2, OpenSocket, Names DEF IInv, Open
  <2>2. ~Spent(x.secret)
    BY <1>2, <2>1 DEF Spent
  <2>3. y \in Accepted /\ Serves(y) /\ Serves(x) /\ y.secret = x.secret
    BY <2>1, <2>2 DEF Serves
  <2> QED BY <1>2, <2>1, <2>3 DEF IInv, Unique
<1> QED BY <1>1, <1>2

\* Data on its way to the mailslot that x writes, with its secret, is from x.
LEMMA WayFrom ==
  ASSUME IInv, NEW x \in Socket, Open(x),
         NEW k \in In(usock[x].fd_w), k.type = "DATA",
         k.secret = usock[x].secret
  PROVE  k \in Msg /\ Written(k) /\ k.data \in Item /\ k.data.from = x
<1> DEFINE p == usock[x].fd_w
           q == usock[x].secret
<1>1. p \in Path /\ q \in Secret
  BY OpenSocket DEF IInv
<1>2. k \in Msg /\ Written(k) /\ MessageFits(k, p)
  BY <1>1, InTyped DEF IInv, Data, Messages, Due
<1>3. k.data \in Item /\ Peers(k, p) /\ k.data.from \in Socket
  <2>1. k.data \in Item /\ Peers(k, p)
    BY <1>2 DEF MessageFits
  <2> QED BY <2>1, SMT DEF Item
<1>4. CASE x \in Client
  <2>1. PICK s \in Server : p = Reply([at |-> s, secret |-> q])
    BY <1>4, OpenSocket DEF IInv
  <2>2. p \notin Home(q)
    BY <1>1, <2>1, Names, Kinds
  <2>3. k.data.from = q.pid
    BY <1>3, <2>2 DEF Peers
  <2> QED BY <1>2, <1>3, <1>4, <2>3, FromHere
<1>5. CASE x \in Accepted
  <2>1. p \in Home(q) /\ q = x.secret
    BY <1>5, OpenSocket DEF IInv
  <2>2. ASSUME NEW s \in Server PROVE p # Reply([at |-> s, secret |-> q])
    BY <1>1, <2>1, Names, Kinds
  <2>3. k.data.from \in Accepted /\ k.data.from.secret = x.secret
    BY <1>3, <2>1, <2>2 DEF Peers
  <2>4. Serves(k.data.from) \/ Spent(x.secret)
    BY <1>2, <2>1, <2>3 DEF Written
  <2> QED BY <1>2, <1>3, <1>5, <2>3, <2>4, FromHere
<1> QED BY <1>4, <1>5, OpenSocket DEF IInv

\* So is the data received from that mailslot.
LEMMA GotFrom ==
  ASSUME IInv, NEW x \in Socket, Open(x), NEW z \in Socket,
         usock[z].fd_r = usock[x].fd_w, NEW k \in Msg, ItemFits(k, z),
         k.secret = usock[x].secret
  PROVE  Written(k) /\ k.data \in Item /\ k.data.from = x
<1> DEFINE p == usock[x].fd_w
           q == usock[x].secret
<1>1. p \in Path /\ q \in Secret /\ q # NULL
  BY OpenSocket, NullAssumption DEF IInv
<1>2. /\ Written(k) /\ k.data \in Item /\ usock[z].secret = q
      /\ z \in Accepted => k.data.from = q.pid
      /\ z \notin Accepted =>
             k.data.from \in Accepted /\ k.data.from.secret = q
  BY DEF ItemFits
<1>3. k.data.from \in Socket
  BY <1>2, SMT DEF Item
<1>4. CASE x \in Client
  <2>1. PICK s \in Server : p = Reply([at |-> s, secret |-> q])
    BY <1>4, OpenSocket DEF IInv
  <2>2. p \notin Home(q)
    BY <1>1, <2>1, Names, Kinds
  <2>3. z # x
    BY <1>1, <1>4, <2>2, OpenSocket, Kinds DEF IInv
  <2>4. z \in Accepted
    BY <1>1, <1>2, <1>4, <2>3, SocketSecret, OpenSocket DEF IInv
  <2> QED BY <1>2, <1>3, <1>4, <2>4, FromHere
<1>5. CASE x \in Accepted
  <2>1. p \in Home(q) /\ q = x.secret /\ usock[x].fd_r = Reply(x)
    BY <1>5, OpenSocket DEF IInv
  <2>2. Reply(x) \notin Home(q)
    BY <1>1, <1>5, Kinds
  <2>3. z # x
    BY <2>1, <2>2
  <2>4. z \notin Accepted
    <3>1. SUFFICES ASSUME z \in Accepted PROVE FALSE
      OBVIOUS
    <3>2. z.secret = q /\ Serves(z) /\ Serves(x)
      BY <1>1, <1>2, <2>1, <3>1, SocketSecret, Names DEF Serves, IInv
    <3> QED BY <1>1, <1>5, <2>1, <2>3, <3>1, <3>2 DEF IInv, Unique
  <2>5. Serves(k.data.from) \/ Spent(x.secret)
    BY <1>2, <2>1, <2>4 DEF Written
  <2> QED BY <1>2, <1>3, <1>5, <2>1, <2>4, <2>5, FromHere
<1> QED BY <1>4, <1>5, OpenSocket DEF IInv

LEMMA DataSentFits ==
  ASSUME IInv, NEW a \in Process, DataSent(a) PROVE IInv'
<1>1. Pending(a) /\ call[a].kind = "send" /\ WriteComplete(a)
  BY DEF DataSent, InCall, Pending
<1>2. /\ CallFits(a) /\ call[a].socket \in Socket
      /\ call[a].to \in Path /\ call[a].msg \in Msg
  BY <1>1, PendingFits
<1> PICK x \in Socket : x = call[a].socket
  BY <1>2
<1> PICK m \in Msg : m = call[a].msg
  BY <1>2
<1> DEFINE q == usock[x].secret
<1>3. /\ Open(x) /\ Owner(x) = a /\ call[a].to = usock[x].fd_w
      /\ sent[x] < MaxSend
      /\ m = DataMsg(q, [from |-> x, n |-> sent[x] + 1])
  BY <1>1, <1>2 DEF CallFits, Open
<1>4. /\ m.type = "DATA" /\ m.secret = q
      /\ m.data = [from |-> x, n |-> sent[x] + 1]
  BY <1>3, SentFits DEF IInv
<1>5. m.data.from = x /\ m.data.n = sent[x] + 1
  BY <1>4
<1>6. /\ call' \in [Process -> Call \cup {NULL}]
      /\ \A b \in Process : b # a => call'[b] = call[b]
      /\ Idle(a)' /\ ~Pending(a)' /\ ~InCall(a, "connect")'
  BY Returned DEF DataSent, IInv, Kind
<1>7. /\ UNCHANGED <<usock, connected, connects, got, ret>>
      /\ sent' = [sent EXCEPT ![x] = @ + 1]
  BY DEF DataSent
<1>8. /\ sent' \in [Socket -> 0 .. MaxSend] /\ sent'[x] = sent[x] + 1
      /\ sent[x] \in Nat /\ \A y \in Socket : y # x => sent'[y] = sent[y]
  BY <1>3, <1>7, StreamAssumption, SMT DEF IInv, Types
<1>9. Later(m, call[a].to)
  <2>1. Written(m)'
    <3>1. m.data.n <= sent'[x]
      BY <1>5, <1>8, SMT
    <3>2. x \in Accepted => Serves(x)'
      BY <1>3, <1>7, OpenSocket DEF Serves, IInv
    <3> QED BY <1>5, <3>1, <3>2 DEF Written
  <2>2. ASSUME NEW k \in In(usock[x].fd_w) PROVE Follows(k, m)
    <3> SUFFICES ASSUME k.type = "DATA", k.secret = q PROVE Follows(k, m)
      BY <1>4 DEF Follows
    <3>1. k \in Msg /\ Written(k) /\ k.data \in Item /\ k.data.from = x
      BY <1>3, WayFrom
    <3> QED BY <1>3, <1>4, <1>5, <3>1, SentLater
  <2>3. ASSUME NEW z \in Socket, usock[z].fd_r = usock[x].fd_w,
               NEW i \in DOMAIN got[z]
        PROVE  Follows(got[z][i], m)
    <3>1. got[z][i] \in Msg
      <4>1. got[z] \in Seq(Msg)
        BY DEF IInv, Types
      <4> QED BY <4>1, SMT
    <3> PICK k \in Msg : k = got[z][i]
      BY <3>1
    <3>2. ItemFits(k, z)
      BY DEF IInv, Data, GotFits
    <3> SUFFICES ASSUME k.type = "DATA", k.secret = q PROVE Follows(k, m)
      BY <1>4 DEF Follows
    <3>3. Written(k) /\ k.data \in Item /\ k.data.from = x
      BY <1>3, <2>3, <3>2, GotFrom
    <3> QED BY <1>3, <1>4, <1>5, <3>3, SentLater
  <2> QED BY <1>3, <2>1, <2>2, <2>3 DEF Later
<1>10. /\ box' \in [Path -> Seq(Msg)]
       /\ \A p \in Path : BoxStep(p) /\ \A k \in In(p)' : Arrived(k, p, a)
  BY <1>1, <1>2, <1>6, <1>9, Delivered DEF IInv
<1>11. Types'
  BY <1>6, <1>7, <1>8, <1>10 DEF IInv, Types
<1>12. StepOf(a, x)
  <2>1. \A c \in Client : connects'[c] \in Nat /\ connects'[c] >= connects[c]
    BY <1>7, StreamAssumption, SMT DEF IInv, Types
  <2> QED BY <1>3, <1>6, <1>7, <1>8, <2>1 DEF StepOf, SameSocket
<1>13. SocketFits(x)'
  <2>1. SocketFits(x) /\ x \notin Server /\ x \in connected
    BY <1>3, SocketSecret DEF IInv, Sockets, Open
  <2>2. x \in Client => ClientSocket(x)'
    BY <1>7, <2>1, Zenon DEF SocketFits, ClientSocket, Used
  <2>3. x \in Accepted => AcceptedSocket(x)'
    BY <1>7, <2>1, Zenon DEF SocketFits, AcceptedSocket, Used
  <2> QED BY <2>1, <2>2, <2>3 DEF SocketFits
<1>14. Stays(x)
  <2>1. sent'[x] >= sent[x]
    BY <1>8, SMT
  <2>2. usock[x].secret # NULL
    BY <1>3, OpenSocket, NullAssumption DEF IInv
  <2> QED BY <1>7, <2>1, <2>2 DEF Stays
<1>15. GotStep(x) /\ RetStep(x) /\ NewMessage(a)
  BY <1>6, <1>7 DEF GotStep, RetStep, NewMessage
<1>16. LiveStep(x)
  BY <1>3, <1>7 DEF LiveStep, Live, Open
<1> QED BY <1>6, <1>7, <1>10, <1>11, <1>12, <1>13, <1>14, <1>15, <1>16,
           StepFits

-----------------------------------------------------------------------------
\* How steps change a socket.
LEMMA SocketChanged ==
  ASSUME Types, NEW x \in Socket, NEW u \in LSCK_SOCKET_UNIX,
         usock' = [usock EXCEPT ![x] = u]
  PROVE  /\ usock' \in [Socket -> LSCK_SOCKET_UNIX] /\ usock'[x] = u
         /\ \A y \in Socket : y # x => usock'[y] = usock[y]
BY DEF Types

LEMMA ReaderChanged ==
  ASSUME Types, NEW x \in Socket, NEW p \in Path \cup {NULL},
         usock' = [usock EXCEPT ![x].fd_r = p]
  PROVE  /\ usock' \in [Socket -> LSCK_SOCKET_UNIX]
         /\ usock'[x].fd_r = p /\ usock'[x].fd_w = usock[x].fd_w
         /\ usock'[x].secret = usock[x].secret
         /\ \A y \in Socket : y # x => usock'[y] = usock[y]
<1> PICK u \in LSCK_SOCKET_UNIX : u = usock[x]
  BY DEF Types
<1> DEFINE new == [u EXCEPT !.fd_r = p]
<1>1. new \in LSCK_SOCKET_UNIX
  BY DEF LSCK_SOCKET_UNIX
<1>2. new.fd_r = p /\ new.fd_w = u.fd_w /\ new.secret = u.secret
  BY DEF LSCK_SOCKET_UNIX
<1>3. usock' = [usock EXCEPT ![x] = new]
  OBVIOUS
<1> HIDE DEF new
<1> QED BY <1>1, <1>2, <1>3, SocketChanged

LEMMA WriterChanged ==
  ASSUME Types, NEW x \in Socket, NEW p \in Path \cup {NULL},
         usock' = [usock EXCEPT ![x].fd_w = p]
  PROVE  /\ usock' \in [Socket -> LSCK_SOCKET_UNIX]
         /\ usock'[x].fd_r = usock[x].fd_r /\ usock'[x].fd_w = p
         /\ usock'[x].secret = usock[x].secret
         /\ \A y \in Socket : y # x => usock'[y] = usock[y]
<1> PICK u \in LSCK_SOCKET_UNIX : u = usock[x]
  BY DEF Types
<1> DEFINE new == [u EXCEPT !.fd_w = p]
<1>1. new \in LSCK_SOCKET_UNIX
  BY DEF LSCK_SOCKET_UNIX
<1>2. new.fd_r = u.fd_r /\ new.fd_w = p /\ new.secret = u.secret
  BY DEF LSCK_SOCKET_UNIX
<1>3. usock' = [usock EXCEPT ![x] = new]
  OBVIOUS
<1> HIDE DEF new
<1> QED BY <1>1, <1>2, <1>3, SocketChanged

LEMMA BothClosed ==
  ASSUME Types, NEW x \in Socket, 
         usock' = [usock EXCEPT ![x].fd_r = NULL, ![x].fd_w = NULL]
  PROVE  /\ usock' \in [Socket -> LSCK_SOCKET_UNIX]
         /\ usock'[x].fd_r = NULL /\ usock'[x].fd_w = NULL
         /\ usock'[x].secret = usock[x].secret
         /\ \A y \in Socket : y # x => usock'[y] = usock[y]
<1> PICK u \in LSCK_SOCKET_UNIX : u = usock[x]
  BY DEF Types
<1> DEFINE new == [u EXCEPT !.fd_r = NULL, !.fd_w = NULL]
<1>1. new \in LSCK_SOCKET_UNIX
  BY DEF LSCK_SOCKET_UNIX
<1>2. new.fd_r = NULL /\ new.fd_w = NULL /\ new.secret = u.secret
  BY DEF LSCK_SOCKET_UNIX
<1>3. usock' = [usock EXCEPT ![x] = new]
  OBVIOUS
<1> HIDE DEF new
<1> QED BY <1>1, <1>2, <1>3, SocketChanged

-----------------------------------------------------------------------------
\* The actions that bind, refuse and close.
LEMMA BindFits == ASSUME IInv, NEW a \in Process, Bind(a) PROVE IInv'
<1>1. /\ a \in Socket /\ a \notin Accepted /\ Owner(a) = a
      /\ a \notin connected /\ Idle(a) /\ Named(a) \in Path
  BY Names DEF Bind, Owner
<1>2. UNCHANGED <<connected, box, call, connects, sent, got, ret>>
  BY DEF Bind
<1>3. /\ usock' \in [Socket -> LSCK_SOCKET_UNIX]
      /\ usock'[a].fd_r = Named(a) /\ usock'[a].fd_w = usock[a].fd_w
      /\ usock'[a].secret = usock[a].secret
      /\ \A y \in Socket : y # a => usock'[y] = usock[y]
  BY <1>1, ReaderChanged DEF Bind, IInv
<1>4. usock[a].fd_w = NULL /\ got[a] = <<>> /\ SocketFits(a)
  <2>1. SocketFits(a)
    BY <1>1 DEF IInv, Sockets
  <2> QED BY <1>1, <2>1
          DEF SocketFits, ServerSocket, ClientSocket, Process
<1>5. Types'
  BY <1>2, <1>3 DEF IInv, Types
<1>6. StepOf(a, a)
  <2>1. \A c \in Client : connects'[c] \in Nat /\ connects'[c] >= connects[c]
    BY <1>2, StreamAssumption, SMT DEF IInv, Types
  <2> QED BY <1>1, <1>2, <1>3, <2>1 DEF StepOf, SameSocket
<1>7. SocketFits(a)'
  <2>1. a \in Server => ServerSocket(a)'
    BY <1>2, <1>3, <1>4 DEF SocketFits, ServerSocket
  <2>2. a \in Client => ClientSocket(a)'
    BY <1>1, <1>2, <1>3, <1>4, Zenon DEF SocketFits, ClientSocket, Used
  <2> QED BY <1>1, <1>2, <1>4, <2>1, <2>2 DEF SocketFits
<1>8. Stays(a)
  <2>1. sent'[a] >= sent[a]
    <3>1. sent[a] \in Int /\ sent'[a] = sent[a]
      BY <1>1, <1>2, StreamAssumption, SMT DEF IInv, Types
    <3> QED BY <3>1, SMT
  <2> QED BY <1>1, <1>2, <1>3, <2>1 DEF Stays
<1>9. GotStep(a) /\ RetStep(a)
  BY <1>2, <1>3, <1>4 DEF GotStep, RetStep
<1>10. LiveStep(a) /\ NewMessage(a) /\ ~InCall(a, "connect")' /\ Idle(a)'
  BY <1>1, <1>2, <1>3, <1>4
     DEF LiveStep, Live, NewMessage, Pending, InCall, Idle
<1>11. \A p \in Path : BoxStep(p) /\ \A m \in In(p)' : Arrived(m, p, a)
  BY <1>2, Untouched
<1> QED BY <1>1, <1>2, <1>5, <1>6, <1>7, <1>8, <1>9, <1>10, <1>11, StepFits

LEMMA FirstFits ==
  ASSUME IInv, NEW p \in Path, box[p] # <<>>
  PROVE  LET m == Head(box[p])
         IN  m \in Msg /\ m.secret \in Secret /\ m \in In(p) /\ MessageFits(m, p)
<1>1. box[p] \in Seq(Msg)
  BY DEF IInv, Types
<1> DEFINE m == Head(box[p])
<1>2. m \in Msg /\ m \in In(p)
  BY <1>1, First DEF In
<1>3. MessageFits(m, p)
  BY <1>2 DEF IInv, Messages, Due
<1>4. m.secret \in Secret
  <2> HIDE DEF m
  <2> QED BY <1>2, SMT DEF Msg
<1> QED BY <1>2, <1>3, <1>4

LEMMA ReplyReadFits == ASSUME IInv, NEW c \in Client, ReplyRead(c) PROVE IInv'
<1>1. /\ c \in Process /\ c \in Socket /\ Owner(c) = c
      /\ c \notin Accepted /\ c \notin Server
  BY Names, StreamAssumption DEF Owner
<1>2. /\ InCall(c, "await") /\ ~Idle(c) /\ CallFits(c) /\ call[c].kind = "await"
  BY <1>1 DEF ReplyRead, InCall, Idle, IInv, Calls
<1>3. /\ c \notin connected /\ usock[c].secret # NULL
      /\ usock[c].fd_r \in Bound(usock[c].secret)
  BY <1>2 DEF CallFits
<1> DEFINE q == usock[c].secret
<1> PICK r \in Path : r = usock[c].fd_r
  BY <1>1, <1>3, SocketSecret, Kinds DEF IInv
<1>4. q \in Secret /\ Used(q) /\ q.pid = c /\ ClientSocket(c)
  BY <1>1, <1>3, SocketSecret DEF IInv, Sockets, SocketFits
<1>5. usock[c].fd_w = NULL /\ got[c] = <<>> /\ ret[c] = NULL
  BY <1>3, <1>4 DEF ClientSocket
<1> PICK m \in Msg : m = Head(box[r]) /\ MessageFits(m, r)
  BY FirstFits DEF ReplyRead, CanRead
<1>6. UNCHANGED <<connects, sent, got, ret>> /\ box' = Drain(r)
  BY DEF ReplyRead
<1>7. /\ call' \in [Process -> Call \cup {NULL}]
      /\ \A b \in Process : b # c => call'[b] = call[b]
      /\ Idle(c)' /\ ~Pending(c)' /\ ~InCall(c, "connect")' /\ ~InCall(c, "await")'
  BY <1>1, Returned DEF ReplyRead, IInv, Kind
<1>8. /\ box' \in [Path -> Seq(Msg)]
      /\ \A p \in Path : BoxStep(p) /\ \A k \in In(p)' : Arrived(k, p, c)
  BY <1>6, Drained DEF IInv
<1>9. \A d \in Client : connects'[d] \in Nat /\ connects'[d] >= connects[d]
  BY <1>6, StreamAssumption, SMT DEF IInv, Types
<1>10. sent'[c] >= sent[c]
  <2>1. sent[c] \in Int /\ sent'[c] = sent[c]
    BY <1>1, <1>6, StreamAssumption, SMT DEF IInv, Types
  <2> QED BY <2>1, SMT
<1>11. RetStep(c) /\ GotStep(c)
  <2>1. ret'[c] # "ECONNRESET"
    BY <1>5, <1>6, NullAssumption
  <2> QED BY <1>5, <1>6, <2>1 DEF RetStep, ResetFits, GotStep
<1>12. ASSUME GoodReply(c, m), NEW fd \in {m.path, NULL},
              usock' = [usock EXCEPT ![c].fd_w = fd],
              connected' = connected \cup {c}
       PROVE  IInv'
  <2>1. m.secret = q /\ m.type = "SERVER_OPEN"
    BY <1>12 DEF GoodReply
  <2>2. PICK s \in Server : m.path = Reply([at |-> s, secret |-> q])
    BY <2>1 DEF MessageFits
  <2>3. fd \in Path \cup {NULL}
    BY <1>4, <1>12, <2>2, Names
  <2>4. /\ usock' \in [Socket -> LSCK_SOCKET_UNIX]
        /\ usock'[c].fd_w = fd /\ usock'[c].fd_r = usock[c].fd_r
        /\ usock'[c].secret = q
        /\ \A y \in Socket : y # c => usock'[y] = usock[y]
    BY <1>1, <1>12, <2>3, WriterChanged DEF IInv
  <2>5. Types'
    BY <1>1, <1>6, <1>7, <1>8, <1>12, <2>4 DEF IInv, Types
  <2>6. StepOf(c, c)
    BY <1>1, <1>6, <1>7, <1>9, <1>12, <2>4 DEF StepOf, SameSocket
  <2>7. SocketFits(c)'
    <3>1. ClientSocket(c)'
      <4>1. fd # NULL => \E s2 \in Server :
                fd = Reply([at |-> s2, secret |-> q])
        BY <1>12, <2>2
      <4> QED BY <1>3, <1>4, <1>6, <1>12, <2>4, <4>1, Zenon
              DEF ClientSocket, Used, Home, Bound
    <3> QED BY <1>1, <3>1 DEF SocketFits
  <2>8. Stays(c)
    BY <1>1, <1>3, <1>10, <1>12, <2>4 DEF Stays
  <2>9. LiveStep(c) /\ NewMessage(c)
    BY <1>2, <1>7, <2>4 DEF LiveStep, Live, NewMessage
  <2> QED BY <1>1, <1>6, <1>7, <1>8, <1>11, <2>5, <2>6, <2>7, <2>8, <2>9,
             StepFits
<1>13. ASSUME usock' = [usock EXCEPT ![c].fd_r = Unbound(c)],
              connected' = connected
       PROVE  IInv'
  <2>1. Unbound(c) \in {NULL, Named(c)} /\ Unbound(c) \in Path \cup {NULL}
    BY <1>1, <1>3, <1>4, Names DEF Unbound, Home, Bound
  <2>2. /\ usock' \in [Socket -> LSCK_SOCKET_UNIX]
        /\ usock'[c].fd_w = usock[c].fd_w
        /\ usock'[c].fd_r \in {NULL, Named(c)}
        /\ usock'[c].secret = q
        /\ \A y \in Socket : y # c => usock'[y] = usock[y]
    BY <1>1, <1>13, <2>1, ReaderChanged DEF IInv
  <2>3. Types'
    BY <1>6, <1>7, <1>8, <1>13, <2>2 DEF IInv, Types
  <2>4. StepOf(c, c)
    BY <1>1, <1>6, <1>7, <1>9, <1>13, <2>2 DEF StepOf, SameSocket
  <2>5. SocketFits(c)'
    <3>1. usock'[c].fd_w = NULL /\ usock'[c].secret = q
      BY <1>5, <2>2
    <3>2. c \notin connected' /\ got'[c] = <<>> /\ ret'[c] = NULL
      BY <1>3, <1>5, <1>6, <1>13
    <3>3. usock[c].secret.pid = c /\ usock[c].secret.n <= connects'[c]
      BY <1>4, <1>6 DEF Used
    <3>4. ClientSocket(c)'
      BY <2>2, <3>1, <3>2, <3>3, Zenon DEF ClientSocket, Used
    <3> QED BY <1>1, <3>4 DEF SocketFits
  <2>6. Stays(c)
    BY <1>1, <1>3, <1>10, <1>13, <2>2 DEF Stays
  <2>7. LiveStep(c) /\ NewMessage(c)
    BY <1>5, <1>7, <2>2 DEF LiveStep, Live, NewMessage
  <2> QED BY <1>1, <1>6, <1>7, <1>8, <1>11, <2>3, <2>4, <2>5, <2>6, <2>7,
             StepFits
<1> QED BY <1>12, <1>13, Zenon DEF ReplyRead

-----------------------------------------------------------------------------
\* The message that a closing socket writes.
LEMMA ClosingFits ==
  ASSUME IInv, NEW a \in Process, NEW x \in Socket, StepOf(a, x),
         connects' = connects, ~InCall(a, "connect")',
         NEW b \in [Path -> Seq(Msg)], \A p \in Path : b[p] \in {box[p], <<>>},
         box' = ClosedBox(x, b),
         usock'[x].fd_w = NULL, usock'[x].secret \in {usock[x].secret, NULL},
         usock'[x].secret # NULL /\ x \in connected => x \in connected'
  PROVE  /\ box' \in [Path -> Seq(Msg)]
         /\ \A p \in Path : BoxStep(p) /\ \A m \in In(p)' : Arrived(m, p, a)
<1>1. /\ box' \in [Path -> Seq(Msg)]
      /\ \A p \in Path : BoxStep(p)
      /\ \A p \in Path : \A m \in In(p)' :
             \/ m \in In(p)
             \/ usock[x].fd_w # NULL /\ m = CloseMsg(x, usock[x].secret)
  BY ClosedBoxes DEF IInv
<1>2. ASSUME NEW p \in Path, usock[x].fd_w # NULL, NEW m,
             m = CloseMsg(x, usock[x].secret)
      PROVE  Arrived(m, p, a)
  <2>1. /\ usock[x].secret \in Secret /\ Used(usock[x].secret)
        /\ \/ x \in Client /\ usock[x].secret.pid = x
           \/ x \in Accepted /\ usock[x].secret = x.secret
        /\ usock[x].secret # NULL
    BY <1>2, SocketSecret DEF IInv
  <2> PICK q \in Secret : q = usock[x].secret
    BY <2>1
  <2>2. /\ m.secret = q
        /\ m.type = IF x \in Accepted THEN "SERVER_CLOSE" ELSE "CLIENT_CLOSE"
    BY <1>2 DEF CloseMsg
  <2>3. Used(q)'
    BY <2>1 DEF Used
  <2>4. CASE x \in Client
    <3>1. x \notin Accepted /\ x \in connected
      BY <1>2, <2>4, Names DEF IInv, Sockets, SocketFits, ClientSocket
    <3>2. q.pid = x
      BY <2>1, <3>1
    <3>3. Gone(q)'
      BY <2>1, <3>1, <3>2 DEF Gone
    <3>4. m.type = "CLIENT_CLOSE"
      BY <2>2, <3>1
    <3> QED BY <2>2, <2>3, <3>3, <3>4 DEF Arrived, MessageFits
  <2>5. CASE x \in Accepted
    <3>1. Serves(x) /\ x.secret = q
      BY <2>1, <2>5, Names DEF Serves
    <3>2. ~Asking(q) /\ \A r \in Path : ~Requested(q, r)
      BY <2>5, <3>1 DEF IInv, Unique
    <3>3. ~Asking(q)'
      <4>1. CASE q.pid = a
        BY <4>1 DEF Asking
      <4>2. CASE q.pid # a
        BY <3>2, <4>2, Names DEF Asking, StepOf, InCall
      <4> QED BY <4>1, <4>2
    <3>4. ASSUME NEW r \in Path PROVE ~Requested(q, r)'
      <4> SUFFICES ASSUME NEW k \in In(r)', k.type = "CLIENT_OPEN", k.secret = q
                   PROVE  FALSE
        BY DEF Requested
      <4>1. k \notin In(r)
        BY <3>2 DEF Requested
      <4>2. k = CloseMsg(x, usock[x].secret)
        BY <1>1, <4>1
      <4> QED BY <4>2 DEF CloseMsg
    <3>5. ASSUME NEW y \in Accepted, y.secret = q
          PROVE  usock'[y].fd_w = NULL
      <4>1. CASE y # x
        <5>1. y \in Socket /\ usock'[y] = usock[y]
          BY <4>1, Names DEF StepOf, SameSocket
        <5>2. ~Serves(y)
          BY <2>5, <3>1, <3>5, <4>1 DEF IInv, Unique
        <5>3. usock[y].secret = NULL
          BY <3>5, <5>2, <5>1, SocketSecret, Names DEF Serves, IInv
        <5> QED BY <5>1, <5>3, SocketSecret DEF IInv
      <4> QED BY <4>1
    <3>6. Spent(q)'
      BY <3>3, <3>4, <3>5 DEF Spent
    <3>7. m.type = "SERVER_CLOSE"
      BY <2>2, <2>5
    <3> QED BY <2>2, <2>3, <3>6, <3>7 DEF Arrived, MessageFits
  <2> QED BY <2>1, <2>4, <2>5
<1> QED BY <1>1, <1>2 DEF Arrived

LEMMA CloseFits == ASSUME IInv, NEW x \in Socket, Close(x) PROVE IInv'
<1> PICK a \in Process : a = Owner(x)
  BY Owners
<1>1. /\ Idle(a) /\ UNCHANGED <<call, connects>>
      /\ usock' = [usock EXCEPT ![x] = NewSocket]
      /\ connected' = connected \ {x}
      /\ sent' = [sent EXCEPT ![x] = 0] /\ got' = [got EXCEPT ![x] = <<>>]
      /\ ret' = [ret EXCEPT ![x] = NULL] /\ box' = ClosedBox(x, box)
  BY DEF Close
<1>2. /\ NewSocket \in LSCK_SOCKET_UNIX
      /\ NewSocket.fd_r = NULL /\ NewSocket.fd_w = NULL
      /\ NewSocket.secret = NULL
  BY DEF NewSocket, LSCK_SOCKET_UNIX
<1>3. /\ usock' \in [Socket -> LSCK_SOCKET_UNIX] /\ usock'[x] = NewSocket
      /\ \A y \in Socket : y # x => usock'[y] = usock[y]
  BY <1>1, <1>2, SocketChanged DEF IInv
<1>4. /\ sent' \in [Socket -> 0 .. MaxSend]
      /\ \A y \in Socket : y # x => sent'[y] = sent[y]
  BY <1>1, StreamAssumption, SMT DEF IInv, Types
<1>5. /\ got' \in [Socket -> Seq(Msg)] /\ got'[x] = <<>>
      /\ ret' \in [Socket -> {NULL, "data", "junk", "ECONNRESET", "failed"}]
      /\ ret'[x] = NULL
      /\ \A y \in Socket : y # x => got'[y] = got[y] /\ ret'[y] = ret[y]
  BY <1>1, Emptied DEF IInv, Types
<1>6. StepOf(a, x)
  <2>1. \A c \in Client : connects'[c] \in Nat /\ connects'[c] >= connects[c]
    BY <1>1, StreamAssumption, SMT DEF IInv, Types
  <2> QED BY <1>1, <1>3, <1>4, <1>5, <2>1 DEF StepOf, SameSocket
<1>7. ~InCall(a, "connect")' /\ Idle(a)' /\ ~Pending(a)'
  BY <1>1 DEF InCall, Idle, Pending
<1>8. /\ box' \in [Path -> Seq(Msg)]
      /\ \A p \in Path : BoxStep(p) /\ \A m \in In(p)' : Arrived(m, p, a)
  <2>1. box \in [Path -> Seq(Msg)]
    BY DEF IInv, Types
  <2> QED BY <1>1, <1>2, <1>3, <1>6, <1>7, <2>1, ClosingFits
<1>9. Types'
  BY <1>1, <1>3, <1>4, <1>5, <1>8 DEF IInv, Types
<1>10. SocketFits(x)'
  <2>1. x \notin connected'
    BY <1>1
  <2> QED BY <1>2, <1>3, <1>5, <2>1
          DEF SocketFits, ServerSocket, ClientSocket, AcceptedSocket, NewSocket
<1>11. Stays(x) /\ GotStep(x)
  BY <1>2, <1>3, <1>5 DEF Stays, GotStep
<1>12. RetStep(x)
  BY <1>5, NullAssumption DEF RetStep, ResetFits
<1>13. LiveStep(x) /\ NewMessage(a)
  <2>1. x \in Client => x = a
    BY Owners, Names
  <2> QED BY <1>2, <1>3, <1>7, <2>1
          DEF LiveStep, Live, NewMessage, InCall, Idle
<1> QED BY <1>1, <1>6, <1>7, <1>8, <1>9, <1>10, <1>11, <1>12, <1>13, StepFits

-----------------------------------------------------------------------------
\* recv() and peeking.
LEMMA ReceivedFits ==
  ASSUME IInv, NEW a \in Process, Received(a) PROVE IInv'
<1>1. /\ call[a] # NULL /\ call[a].kind \in {"recv", "peek"} /\ CallFits(a)
      /\ call[a].socket \in Socket
  <2>1. call[a] # NULL /\ call[a].kind \in {"recv", "peek"} /\ call[a] \in Call
    BY DEF Received, InCall, IInv, Types
  <2> QED BY <2>1, SMT DEF IInv, Calls, Idle, Call
<1> PICK x \in Socket : x = call[a].socket
  BY <1>1
<1>2. /\ x \in connected /\ usock[x].fd_r # NULL /\ Owner(x) = a
      /\ x \notin Server
  <2>1. x \in connected /\ usock[x].fd_r # NULL /\ Owner(x) = a
    BY <1>1 DEF CallFits
  <2> QED BY <2>1, SocketSecret DEF IInv
<1> PICK r \in Path : r = usock[x].fd_r
  BY <1>2, ReadSocket DEF IInv
<1> PICK q \in Secret : q = usock[x].secret
  BY <1>2, ReadSocket DEF IInv
<1>3. SocketFits(x) /\ Used(q) /\ q # NULL
  BY <1>2, ReadSocket, NullAssumption DEF IInv, Sockets
<1>4. PICK m \in Msg : m = Head(box[r]) /\ m \in In(r) /\ MessageFits(m, r)
  <2>1. box[r] # <<>>
    BY DEF Received, CanRead
  <2> QED BY <2>1, FirstFits
<1> DEFINE b == IF InCall(a, "recv") THEN Drain(r) ELSE box
<1>5. /\ UNCHANGED <<connected, connects, sent>>
      /\ \/ /\ Closes(x, m) /\ box' = ClosedBox(x, b)
            /\ usock' = [usock EXCEPT ![x].fd_r = NULL, ![x].fd_w = NULL]
            /\ ret' = [ret EXCEPT ![x] = "ECONNRESET"] /\ got' = got
         \/ /\ box' = b /\ ret' = [ret EXCEPT ![x] = "junk"]
            /\ UNCHANGED <<usock, got>>
         \/ /\ ~BadPacket(x, m) /\ box' = b /\ ret' = [ret EXCEPT ![x] = "data"]
            /\ got' = IF InCall(a, "recv")
                      THEN [got EXCEPT ![x] = Append(@, m)] ELSE got
            /\ usock' = usock
  BY <1>4, Zenon DEF Received
<1>6. b \in [Path -> Seq(Msg)] /\ \A p \in Path : b[p] \in {box[p], <<>>}
  BY Emptied DEF IInv, Types, Drain
<1> HIDE DEF b
<1>7. /\ call' \in [Process -> Call \cup {NULL}]
      /\ \A c \in Process : c # a => call'[c] = call[c]
      /\ Idle(a)' /\ ~Pending(a)' /\ ~InCall(a, "connect")'
      /\ ~InCall(a, "await")' /\ NewMessage(a)
  BY Returned DEF Received, IInv, Kind, NewMessage
<1>8. \A c \in Client : connects'[c] \in Nat /\ connects'[c] >= connects[c]
  BY <1>5, StreamAssumption, SMT DEF IInv, Types
<1>9. sent'[x] >= sent[x]
  <2>1. sent[x] \in Int /\ sent'[x] = sent[x]
    BY <1>5, StreamAssumption, SMT DEF IInv, Types
  <2> QED BY <2>1, SMT
<1>10. x \in Client => x = a
  BY <1>2, Owners, Names
<1>11. CASE Closes(x, m) /\ box' = ClosedBox(x, b)
            /\ usock' = [usock EXCEPT ![x].fd_r = NULL, ![x].fd_w = NULL]
            /\ ret' = [ret EXCEPT ![x] = "ECONNRESET"] /\ got' = got
  <2>1. /\ usock' \in [Socket -> LSCK_SOCKET_UNIX]
        /\ usock'[x].fd_r = NULL /\ usock'[x].fd_w = NULL
        /\ usock'[x].secret = q
        /\ \A y \in Socket : y # x => usock'[y] = usock[y]
    BY <1>11, BothClosed DEF IInv
  <2>2. /\ ret' \in [Socket -> {NULL, "data", "junk", "ECONNRESET", "failed"}]
        /\ \A y \in Socket : y # x => ret'[y] = ret[y]
    BY <1>11 DEF IInv, Types
  <2>3. StepOf(a, x)
    BY <1>2, <1>5, <1>7, <1>8, <1>11, <2>1, <2>2 DEF StepOf, SameSocket
  <2>4. /\ box' \in [Path -> Seq(Msg)]
        /\ \A p \in Path : BoxStep(p) /\ \A k \in In(p)' : Arrived(k, p, a)
    BY <1>2, <1>5, <1>6, <1>7, <1>11, <2>1, <2>3,
       ClosingFits, Zenon
  <2>5. Types'
    BY <1>5, <1>7, <1>11, <2>1, <2>2, <2>4 DEF IInv, Types
  <2>6. SocketFits(x)'
    <3>1. x \in Client => ClientSocket(x)'
      BY <1>2, <1>3, <1>5, <2>1, Zenon DEF SocketFits, ClientSocket, Used
    <3>2. x \in Accepted => AcceptedSocket(x)'
      BY <1>2, <1>3, <1>5, <2>1, Zenon DEF SocketFits, AcceptedSocket, Used
    <3> QED BY <1>2, <3>1, <3>2 DEF SocketFits
  <2>7. Stays(x) /\ GotStep(x)
    BY <1>3, <1>5, <1>9, <1>11, <2>1 DEF Stays, GotStep
  <2>8. RetStep(x)
    <3>1. Quiet
      BY <1>5, <1>7, <2>3, <2>4, <2>5, <2>7, StepQuiet DEF IInv
    <3>2. Keeps
      BY <3>1, QuietKeeps DEF IInv
    <3>3. /\ x \in Client => Spent(q)
          /\ x \in Accepted => Gone(q)
      <4>1. m.secret = q /\ (x \in Client => x \notin Accepted)
        BY <1>11, Names, NullAssumption DEF Closes, Process
      <4> QED BY <1>4, <1>11, <4>1, Zenon DEF Closes, MessageFits
    <3>4. /\ x \in Client => Spent(q)'
          /\ x \in Accepted => Gone(q)'
      BY <1>3, <3>2, <3>3 DEF Keeps
    <3> QED BY <2>1, <3>4, Zenon
            DEF RetStep, ResetFits, Gone, Spent, Asking, Requested, In, InCall
  <2>9. LiveStep(x)
    BY <1>7, <1>10, <2>1 DEF LiveStep, Live
  <2> QED BY <1>5, <1>7, <2>3, <2>4, <2>5, <2>6, <2>7, <2>8, <2>9, StepFits
<1>12. ASSUME box' = b, usock' = usock,
              NEW v \in {"junk", "data"}, ret' = [ret EXCEPT ![x] = v]
       PROVE  /\ \A p \in Path : BoxStep(p) /\ \A k \in In(p)' : Arrived(k, p, a)
              /\ box' \in [Path -> Seq(Msg)]
              /\ InCall(a, "recv") => In(r)' = {}
              /\ ret' \in [Socket -> {NULL, "data", "junk", "ECONNRESET", "failed"}]
              /\ \A y \in Socket : y # x => ret'[y] = ret[y]
              /\ SocketFits(x)' /\ Stays(x) /\ RetStep(x) /\ LiveStep(x)
  <2>1. /\ \A p \in Path : BoxStep(p) /\ \A k \in In(p)' : Arrived(k, p, a)
        /\ InCall(a, "recv") => In(r)' = {}
    <3>1. CASE InCall(a, "recv")
      BY <1>12, <3>1, Drained DEF b, IInv
    <3>2. CASE ~InCall(a, "recv")
      BY <1>12, <3>2, Untouched DEF b
    <3> QED BY <3>1, <3>2
  <2>2. /\ ret' \in [Socket -> {NULL, "data", "junk", "ECONNRESET", "failed"}]
        /\ ret'[x] = v /\ \A y \in Socket : y # x => ret'[y] = ret[y]
    BY <1>12 DEF IInv, Types
  <2>3. SocketFits(x)'
    <3>1. x \in Client => ClientSocket(x)'
      BY <1>2, <1>3, <1>5, <1>12, Zenon DEF SocketFits, ClientSocket, Used
    <3>2. x \in Accepted => AcceptedSocket(x)'
      BY <1>2, <1>3, <1>5, <1>12, Zenon DEF SocketFits, AcceptedSocket, Used
    <3> QED BY <1>2, <3>1, <3>2 DEF SocketFits
  <2>4. Stays(x)
    BY <1>3, <1>5, <1>9, <1>12 DEF Stays
  <2>5. RetStep(x)
    BY <2>2 DEF RetStep, ResetFits
  <2>6. LiveStep(x)
    <3>1. \/ ~InCall(x, "connect")' /\ ~InCall(x, "await")'
          \/ x \notin Client
      BY <1>7, <1>10
    <3> QED BY <1>12, <3>1 DEF LiveStep, Live
  <2> QED BY <1>6, <1>12, <2>1, <2>2, <2>3, <2>4, <2>5, <2>6
<1>13. ASSUME box' = b, usock' = usock, got' = got,
              NEW v \in {"junk", "data"}, ret' = [ret EXCEPT ![x] = v]
       PROVE  IInv'
  <2>1. StepOf(a, x)
    BY <1>2, <1>5, <1>7, <1>8, <1>12, <1>13 DEF StepOf, SameSocket
  <2>2. Types'
    BY <1>5, <1>7, <1>12, <1>13 DEF IInv, Types
  <2>3. GotStep(x)
    BY <1>13 DEF GotStep
  <2> QED BY <1>5, <1>7, <1>12, <1>13, <2>1, <2>2, <2>3, StepFits
<1>14. CASE ~BadPacket(x, m) /\ box' = b /\ ret' = [ret EXCEPT ![x] = "data"]
            /\ got' = [got EXCEPT ![x] = Append(@, m)] /\ InCall(a, "recv")
            /\ usock' = usock
  <2> DEFINE seq == got[x]
  <2>1. seq \in Seq(Msg)
    BY DEF IInv, Types
  <2>2. /\ Append(seq, m) \in Seq(Msg)
        /\ got' = [got EXCEPT ![x] = Append(seq, m)]
    BY <1>14, <2>1, Appended
  <2>3. /\ got' \in [Socket -> Seq(Msg)] /\ got'[x] = Append(seq, m)
        /\ \A y \in Socket : y # x => got'[y] = got[y]
    BY <2>2 DEF IInv, Types
  <2>4. /\ \A p \in Path : BoxStep(p) /\ \A k \in In(p)' : Arrived(k, p, a)
        /\ box' \in [Path -> Seq(Msg)] /\ In(r)' = {}
        /\ ret' \in [Socket -> {NULL, "data", "junk", "ECONNRESET", "failed"}]
        /\ \A y \in Socket : y # x => ret'[y] = ret[y]
        /\ SocketFits(x)' /\ Stays(x) /\ RetStep(x) /\ LiveStep(x)
    BY <1>12, <1>14
  <2>5. StepOf(a, x)
    BY <1>2, <1>5, <1>7, <1>8, <1>14, <2>3, <2>4 DEF StepOf, SameSocket
  <2>6. Types'
    BY <1>5, <1>7, <1>14, <2>3, <2>4 DEF IInv, Types
  <2>7. KeepsWritten
    <3>1. Quiet
      BY <1>5, <1>7, <2>4, <2>5, <2>6, StepQuiet DEF IInv
    <3> QED BY <2>6, <3>1, QuietWritten DEF IInv
  <2>8. ASSUME NEW k \in Msg, k.type = "DATA", k.data \in Item, k.secret = q,
               Written(k),
               x \in Accepted => k.data.from = k.secret.pid,
               x \notin Accepted =>
                   k.data.from \in Accepted /\ k.data.from.secret = k.secret
        PROVE  ItemFits(k, x)'
    <3>1. Written(k)'
      BY <1>3, <2>7, <2>8 DEF KeepsWritten, Ends
    <3>2. In(usock[x].fd_r)' = {}
      <4>1. usock'[x].fd_r = r /\ In(r)' = {}
        BY <1>14, <2>4
      <4> QED BY <4>1, Zenon DEF In
    <3> QED BY <1>14, <2>8, <3>1, <3>2 DEF ItemFits
  <2>9. ItemFits(m, x)'
    <3>1. m.type = "DATA" /\ m.secret = q
      BY <1>14 DEF BadPacket
    <3>2. m.data \in Item /\ Peers(m, r) /\ Written(m)
      BY <1>4, <3>1, Zenon DEF MessageFits, IInv, Data
    <3>3. CASE x \in Accepted
      <4>1. r \notin Home(q)
        BY <1>2, <3>3, ReadSocket, Kinds DEF IInv
      <4> QED BY <2>8, <3>1, <3>2, <3>3, <4>1 DEF Peers
    <3>4. CASE x \notin Accepted
      <4>1. r \in Home(q)
        BY <1>2, <3>4, ReadSocket, Kinds DEF IInv
      <4>2. ASSUME NEW s \in Server PROVE r # Reply([at |-> s, secret |-> q])
        BY <4>1, Names, Kinds
      <4> QED BY <2>8, <3>1, <3>2, <3>4, <4>2 DEF Peers
    <3> QED BY <3>3, <3>4
  <2>10. ASSUME NEW k \in Msg, ItemFits(k, x)
         PROVE  ItemFits(k, x)' /\ Follows(k, m)
    <3>1. Follows(k, m)
      <4>1. r # NULL
        BY NullAssumption
      <4> QED BY <1>4, <2>10, <4>1 DEF ItemFits
    <3> QED BY <2>8, <2>10, <3>1 DEF ItemFits
  <2>11. \A i \in DOMAIN seq : seq[i] \in Msg /\ ItemFits(seq[i], x)
    <3>1. \A i \in DOMAIN seq : seq[i] \in Msg
      <4> HIDE DEF seq
      <4> QED BY <2>1, SMT
    <3> QED BY <3>1 DEF IInv, Data, GotFits
  <2>12. GotFits(x)'
    <3> DEFINE new == Append(seq, m)
    <3>1. Increasing(new)
      <4>1. Increasing(seq) /\ \A i \in DOMAIN seq : Follows(seq[i], m)
        BY <2>10, <2>11 DEF IInv, Data, GotFits
      <4> QED BY <2>1, <4>1, Appended
    <3>2. {new[i] : i \in DOMAIN new} = {seq[i] : i \in DOMAIN seq} \cup {m}
      BY <2>1, Appended
    <3>3. got'[x] = new
      BY <2>3
    <3> HIDE DEF new
    <3>4. Increasing(got[x])'
      BY <3>1, <3>3 DEF Increasing, Follows
    <3>5. ASSUME NEW i \in DOMAIN new PROVE ItemFits(got[x][i], x)'
      <4>1. PICK k \in Msg : k = new[i] /\ (k = m \/ ItemFits(k, x))
        BY <2>11, <3>2
      <4>2. ItemFits(k, x)'
        BY <2>9, <2>10, <4>1
      <4> QED BY <3>3, <4>1, <4>2
    <3> QED BY <3>3, <3>4, <3>5 DEF GotFits
  <2>13. GotStep(x)
    BY <2>12 DEF GotStep
  <2> QED BY <1>5, <1>7, <2>4, <2>5, <2>6, <2>13, StepFits
<1>15. CASE box' = b /\ ret' = [ret EXCEPT ![x] = "data"] /\ got' = got
            /\ usock' = usock
  BY <1>13, <1>15
<1>16. CASE box' = b /\ ret' = [ret EXCEPT ![x] = "junk"]
            /\ UNCHANGED <<usock, got>>
  BY <1>13, <1>16
<1> QED BY <1>5, <1>11, <1>14, <1>15, <1>16

-----------------------------------------------------------------------------
\* accept() reads a message.
LEMMA RequestRefused ==
  ASSUME IInv, NEW s \in Server, Return(s), UNCHANGED sockets,
         AcceptStep(s), box' = Drain(Named(s))
  PROVE  IInv'
<1>1. /\ s \in Process /\ s \in Socket /\ s \notin Client /\ Owner(s) = s
      /\ Named(s) \in Path
  BY Names, StreamAssumption DEF Owner
<1>2. /\ call' \in [Process -> Call \cup {NULL}]
      /\ \A b \in Process : b # s => call'[b] = call[b]
      /\ Idle(s)' /\ ~Pending(s)' /\ ~InCall(s, "connect")'
  BY <1>1, Returned DEF IInv, Kind
<1>3. /\ box' \in [Path -> Seq(Msg)]
      /\ \A p \in Path : BoxStep(p) /\ \A m \in In(p)' : Arrived(m, p, s)
  BY <1>1, Drained DEF IInv
<1>4. Types'
  BY <1>1, <1>2, <1>3, AcceptResult DEF IInv, Types, sockets
<1>5. /\ StepOf(s, s) /\ SocketFits(s)'
      /\ Stays(s) /\ GotStep(s) /\ RetStep(s)
  BY <1>1, <1>2, SocketsUnchanged
<1>6. LiveStep(s) /\ NewMessage(s) /\ connects' = connects
  BY <1>1, <1>2 DEF LiveStep, NewMessage, sockets
<1> QED BY <1>1, <1>2, <1>3, <1>4, <1>5, <1>6, StepFits

LEMMA RequestAccepted ==
  ASSUME IInv, NEW s \in Server, NEW q \in Secret, NEW x \in Accepted,
         x = [at |-> s, secret |-> q],
         NEW m \in In(Named(s)), m.type = "CLIENT_OPEN", m.secret = q,
         usock' = [usock EXCEPT ![x] = [fd_r |-> Reply(x), fd_w |-> m.path,
                                        secret |-> q]],
         Enter(s, "reply", x, m.path, OpenReply(q, Reply(x))),
         box' = Drain(Named(s)),
         UNCHANGED <<connected, connects, sent, got, ret>>
  PROVE  IInv'
<1>1. /\ s \in Process /\ s \notin Client /\ Named(s) \in Path
      /\ x \in Socket /\ x \notin Process /\ x \notin Client /\ x \notin Server
      /\ Owner(x) = s /\ x.at = s /\ x.secret = q /\ q # NULL
      /\ Reply(x) \in Path
  BY Names, NullAssumption, StreamAssumption DEF Owner
<1>2. /\ Used(q) /\ m.path \in Home(q) /\ m.path \in Path /\ m \in Msg
      /\ m \in Due(Named(s))
  <2>1. MessageFits(m, Named(s)) /\ m \in Due(Named(s))
    BY <1>1 DEF IInv, Messages, Due
  <2> QED BY <1>1, <2>1, InTyped, Kinds DEF MessageFits, IInv
<1>3. Requested(q, Named(s))
  BY DEF Requested
<1>4. /\ ~Asking(q) /\ \A y \in Accepted : y.secret = q => ~Serves(y)
      /\ \A p \in Path : Requested(q, p) => p = Named(s)
  BY <1>1, <1>3 DEF IInv, Unique
<1>5. /\ usock[x] = NewSocket /\ x \notin connected
      /\ got[x] = <<>> /\ ret[x] = NULL
  BY <1>1, <1>4 DEF IInv, Sockets, SocketFits, AcceptedSocket, Serves
<1> DEFINE u == [fd_r |-> Reply(x), fd_w |-> m.path, secret |-> q]
<1>6. /\ u \in LSCK_SOCKET_UNIX /\ u.fd_r = Reply(x) /\ u.fd_w = m.path
      /\ u.secret = q /\ usock' = [usock EXCEPT ![x] = u]
  BY <1>1, <1>2 DEF LSCK_SOCKET_UNIX
<1> HIDE DEF u
<1>7. /\ usock' \in [Socket -> LSCK_SOCKET_UNIX] /\ usock'[x] = u
      /\ \A y \in Socket : y # x => usock'[y] = usock[y]
  BY <1>1, <1>6, SocketChanged DEF IInv
<1> PICK k \in Msg : k = OpenReply(q, Reply(x))
  BY <1>1, MessageTypes
<1>8. k.type = "SERVER_OPEN" /\ k.secret = q /\ k.path = Reply(x)
  BY DEF OpenReply
<1>9. /\ call' \in [Process -> Call \cup {NULL}]
      /\ \A b \in Process : b # s => call'[b] = call[b]
      /\ call'[s] # NULL /\ call'[s].kind = "reply" /\ call'[s].socket = x
      /\ call'[s].to = m.path /\ call'[s].msg = k
  BY <1>1, <1>2, Entered DEF IInv, Kind
<1>10. /\ box' \in [Path -> Seq(Msg)] /\ In(Named(s))' = {}
       /\ \A p \in Path : BoxStep(p) /\ In(p)' \subseteq In(p)
                          /\ \A i \in In(p)' : Arrived(i, p, s)
  BY <1>1, Drained DEF IInv
<1>11. Types'
  BY <1>7, <1>9, <1>10 DEF IInv, Types
<1>12. StepOf(s, x)
  <2>1. \A c \in Client : connects'[c] \in Nat /\ connects'[c] >= connects[c]
    BY StreamAssumption, SMT DEF IInv, Types
  <2> QED BY <1>1, <1>7, <1>9, <2>1 DEF StepOf, SameSocket
<1>13. Sockets' /\ Calls'
  <2>1. SocketFits(x)'
    <3>1. AcceptedSocket(x)'
      BY <1>1, <1>2, <1>5, <1>6, <1>7 DEF AcceptedSocket, Used, Home
    <3> QED BY <1>1, <3>1 DEF SocketFits
  <2>2. CallFits(s)'
    <3>1. m.path # NULL
      BY <1>2, NullAssumption
    <3> QED BY <1>1, <1>6, <1>7, <1>9, <3>1, Zenon DEF CallFits, Serves
  <2> QED BY <1>1, <1>12, <2>1, <2>2, StepSockets DEF IInv
<1>14. \A p \in Path : \A i \in Due(p)' :
           i \in Due(p) \/ (i.type # "CLIENT_OPEN" /\ MessageFits(i, p)')
  <2>1. NewMessage(s)
    <3>1. ~InCall(s, "connect")'
      BY <1>9 DEF InCall
    <3>2. \A p : MessageFits(k, p)'
      BY <1>1, <1>2, <1>8 DEF MessageFits, Used
    <3> QED BY <1>8, <1>9, <3>1, <3>2 DEF NewMessage
  <2> QED BY <1>1, <1>10, <1>12, <2>1, StepDue
<1>15. ASSUME NEW r \in Secret
       PROVE  /\ Asking(r)' => Asking(r)
              /\ \A p \in Path : Requested(r, p)' => Requested(r, p) /\ r # q
  <2>1. Asking(r)' => Asking(r)
    <3>1. call'[r.pid] = call[r.pid]
      BY <1>1, <1>9, Names
    <3> QED BY <3>1 DEF Asking, InCall
  <2>2. ASSUME NEW p \in Path, Requested(r, p)'
        PROVE  Requested(r, p) /\ r # q
    <3>1. Requested(r, p)
      BY <1>10, <2>2 DEF Requested
    <3>2. r # q
      BY <1>4, <1>10, <2>2, <3>1 DEF Requested
    <3> QED BY <3>1, <3>2
  <2> QED BY <2>1, <2>2
<1>16. \A y \in Accepted : Serves(y)' => y = x \/ (Serves(y) /\ y.secret # q)
  BY <1>4, <1>7, Names DEF Serves
<1>17. Unique'
  <2> SUFFICES ASSUME NEW r \in Secret
               PROVE  /\ \A p, p2 \in Path :
                            Requested(r, p)' /\ Requested(r, p2)' => p = p2
                      /\ \A y, z \in Accepted :
                            Serves(y)' /\ Serves(z)' /\ y.secret = r /\ z.secret = r
                                => y = z
                      /\ \A p \in Path : ~(Asking(r)' /\ Requested(r, p)')
                      /\ \A y \in Accepted : y.secret = r /\ Serves(y)' =>
                            ~Asking(r)' /\ \A p \in Path : ~Requested(r, p)'
    BY DEF Unique
  <2>1. /\ \A p, p2 \in Path : Requested(r, p) /\ Requested(r, p2) => p = p2
        /\ \A y, z \in Accepted :
              Serves(y) /\ Serves(z) /\ y.secret = r /\ z.secret = r => y = z
        /\ \A p \in Path : ~(Asking(r) /\ Requested(r, p))
        /\ \A y \in Accepted : y.secret = r /\ Serves(y) =>
              ~Asking(r) /\ \A p \in Path : ~Requested(r, p)
    BY DEF IInv, Unique
  <2> QED BY <1>1, <1>4, <1>15, <1>16, <2>1, Zenon
<1>18. Keeps
  <2> SUFFICES ASSUME NEW r \in Secret, Used(r)
               PROVE  Used(r)' /\ (Gone(r) => Gone(r)') /\ (Spent(r) => Spent(r)')
    BY DEF Keeps
  <2>1. Used(r)'
    BY DEF Used
  <2>2. Gone(r) => Gone(r)'
    <3>1. usock'[r.pid] = usock[r.pid]
      BY <1>1, <1>7, Names
    <3> QED BY <3>1 DEF Gone
  <2>3. ASSUME Spent(r) PROVE Spent(r)'
    <3>1. r # q
      BY <1>1, <1>3, <2>3 DEF Spent
    <3>2. \A y \in Accepted : y.secret = r => usock'[y].fd_w = NULL
      BY <1>1, <1>7, <2>3, <3>1, Names DEF Spent
    <3> QED BY <1>15, <2>3, <3>2 DEF Spent
  <2> QED BY <2>1, <2>2, <2>3
<1>19. KeepsWritten
  <2> SUFFICES ASSUME NEW i \in Msg, i.data \in Item, Used(i.secret), Ends(i),
                      Written(i)
               PROVE  Written(i)'
    BY DEF KeepsWritten
  <2>1. i.data.from \in Socket /\ i.secret \in Secret
    BY SMT DEF Item, Msg
  <2>2. i.data.from # x
    <3> SUFFICES ASSUME i.data.from = x PROVE FALSE
      OBVIOUS
    <3>1. i.secret = q
      BY <1>1, <2>1, Names DEF Ends
    <3>2. ~Serves(x)
      BY <1>1, <1>4
    <3>3. Spent(q)
      BY <1>1, <3>1, <3>2 DEF Written
    <3> QED BY <1>1, <1>3, <3>3 DEF Spent
  <2>3. usock'[i.data.from] = usock[i.data.from]
    BY <1>7, <2>1, <2>2
  <2>4. Spent(i.secret) => Spent(i.secret)'
    BY <1>18, <2>1 DEF Keeps
  <2> QED BY <2>3, <2>4 DEF Written, Serves
<1>20. Messages'
  BY <1>14, <1>18, MessagesKept DEF IInv
<1>21. Addresses'
  <2> SUFFICES ASSUME NEW c \in Client, Live(c)' PROVE Joined(c)'
    BY DEF Addresses
  <2>1. usock'[c] = usock[c] /\ call'[c] = call[c]
    BY <1>1, <1>7, <1>9, Names
  <2>2. Live(c) /\ Joined(c)
    <3>1. Live(c)
      BY <2>1 DEF Live, InCall
    <3> QED BY <3>1 DEF IInv, Addresses
  <2>3. ASSUME NEW p \in Path, NEW i \in Due(p)', i.type = "CLIENT_OPEN",
               i.secret = usock'[c].secret
        PROVE  i.path \in {usock'[c].fd_r, Bare(c)}
    BY <1>14, <2>1, <2>2, <2>3 DEF Joined
  <2>4. ASSUME NEW y \in Accepted, usock'[y].secret = usock'[c].secret,
               usock'[y].fd_w # NULL
        PROVE  usock'[y].fd_w \in {usock'[c].fd_r, Bare(c)}
    <3>1. CASE y = x
      BY <1>1, <1>2, <1>6, <1>7, <2>1, <2>2, <2>4, <3>1 DEF Joined
    <3>2. CASE y # x
      <4>1. usock'[y] = usock[y]
        BY <1>7, <3>2, Names
      <4> QED BY <2>1, <2>2, <2>4, <4>1 DEF Joined
    <3> QED BY <3>1, <3>2
  <2> QED BY <2>3, <2>4 DEF Joined
<1>22. Resets'
  <2>1. ResetFits(x)'
    BY <1>5, NullAssumption DEF ResetFits
  <2> QED BY <1>7, <1>18, <2>1, ResetsKept DEF IInv
<1>23. Data'
  <2>1. \A y \in Socket : GotStep(y)
    BY <1>5, <1>7 DEF GotStep
  <2> QED BY <1>10, <1>11, <1>19, <2>1, DataKept DEF IInv
<1> QED BY <1>11, <1>13, <1>17, <1>20, <1>21, <1>22, <1>23 DEF IInv

LEMMA RequestReadFits == ASSUME IInv, NEW s \in Server, RequestRead(s) PROVE IInv'
<1>1. Named(s) \in Path /\ box[Named(s)] # <<>>
  BY Names DEF RequestRead, CanRead
<1> PICK m \in Msg : m = Head(box[Named(s)]) /\ m \in In(Named(s))
                     /\ m.secret \in Secret
  BY <1>1, FirstFits
<1> PICK x \in Accepted : x = [at |-> s, secret |-> m.secret]
  BY Names
<1>2. /\ box' = Drain(Named(s))
      /\ UNCHANGED <<connected, connects, sent, got>>
      /\ \/ /\ m.type = "CLIENT_OPEN"
            /\ usock' = [usock EXCEPT ![x] = [fd_r |-> Reply(x),
                                              fd_w |-> m.path,
                                              secret |-> m.secret]]
            /\ Enter(s, "reply", x, m.path, OpenReply(m.secret, Reply(x)))
            /\ UNCHANGED ret
         \/ Return(s) /\ UNCHANGED usock /\ ret' = [ret EXCEPT ![s] = "failed"]
  BY DEF RequestRead, ReplyTo
<1>3. CASE Return(s) /\ UNCHANGED usock /\ ret' = [ret EXCEPT ![s] = "failed"]
  BY <1>2, <1>3, RequestRefused DEF sockets, AcceptStep
<1> QED BY <1>2, <1>3, RequestAccepted

-----------------------------------------------------------------------------
\* connect() makes a secret that nothing mentions.
LEMMA NewSecret ==
  ASSUME IInv, NEW q \in Secret, ~Used(q)
  PROVE  /\ \A p \in Path : \A m \in Due(p) : m.secret # q
         /\ \A x \in Socket : usock[x].secret # q
         /\ ~Asking(q) /\ \A p \in Path : ~Requested(q, p)
         /\ \A x \in Accepted : x.secret = q => ~Serves(x)
<1>1. \A p \in Path : \A m \in Due(p) : m.secret # q
  BY DEF IInv, Messages, MessageFits
<1>2. \A x \in Socket : usock[x].secret # q
  BY SocketSecret, NullAssumption DEF IInv
<1>3. ~Asking(q)
  <2> SUFFICES ASSUME Asking(q) PROVE FALSE
    OBVIOUS
  <2>1. q.pid \in Process /\ Pending(q.pid)
    BY Names DEF Asking, InCall, Pending
  <2>2. MessageFits(call[q.pid].msg, call[q.pid].to)
    BY <2>1, PendingFits
  <2> QED BY <2>2 DEF Asking, MessageFits
<1>4. \A p \in Path : ~Requested(q, p)
  BY <1>1 DEF Requested, Due
<1>5. \A x \in Accepted : x.secret = q => ~Serves(x)
  BY <1>2, Names DEF Serves
<1> QED BY <1>1, <1>2, <1>3, <1>4, <1>5

LEMMA ConnectFits ==
  ASSUME IInv, NEW c \in Client, NEW t \in Process, Connect(c, t) PROVE IInv'
<1>1. /\ c \in Process /\ c \in Socket /\ Owner(c) = c
      /\ c \notin Accepted /\ c \notin Server
      /\ Idle(c) /\ c \notin connected /\ connects[c] < MaxConnect
      /\ Named(t) \in Path /\ Addressed(t) \in Path
  BY Names, StreamAssumption DEF Connect, Owner, Addressed
<1>2. /\ connects[c] \in Nat /\ connects[c] + 1 \in 1 .. MaxConnect
      /\ connects' = [connects EXCEPT ![c] = @ + 1]
  BY <1>1, StreamAssumption, SMT DEF Connect, IInv, Types
<1>3. /\ connects' \in [Client -> 0 .. MaxConnect]
      /\ connects'[c] = connects[c] + 1
      /\ \A d \in Client : connects'[d] \in Nat /\ connects'[d] >= connects[d]
  BY <1>2, StreamAssumption, SMT DEF IInv, Types
<1> PICK q \in Secret : q = [pid |-> c, n |-> connects[c] + 1]
  BY <1>2 DEF Secret
<1>4. /\ q.pid = c /\ q.n = connects[c] + 1 /\ q # NULL
      /\ ~Used(q) /\ Used(q)'
  <2>1. q.pid = c /\ q.n = connects[c] + 1 /\ q # NULL
    BY NullAssumption
  <2>2. ~Used(q)
    BY <1>2, <2>1, SMT DEF Used
  <2>3. Used(q)'
    BY <1>2, <1>3, <2>1, SMT DEF Used
  <2> QED BY <2>1, <2>2, <2>3
<1>5. ClientSocket(c)
  BY <1>1 DEF IInv, Sockets, SocketFits
<1> PICK p0 \in Path :
        p0 = IF usock[c].fd_r = NULL THEN Random(q) ELSE usock[c].fd_r
  BY <1>1, <1>5, Names DEF ClientSocket
<1>6. p0 \in Bound(q)
  BY <1>1, <1>4, <1>5 DEF ClientSocket, Bound
<1> PICK me \in Path :
        me = IF usock[c].fd_r = NULL THEN Random(q) ELSE Addressed(c)
  BY <1>1, Names DEF Addressed
<1>26. me \in {p0, Bare(c)} /\ me \in Home(q)
  BY <1>1, <1>4, <1>5, <1>6 DEF ClientSocket, Home, Bound, Addressed
<1>27. /\ usock' = [usock EXCEPT ![c].fd_r = p0, ![c].secret = q]
       /\ \E to \in {Named(t), Addressed(t)} :
             Enter(c, "connect", c, to, OpenRequest(q, me))
       /\ UNCHANGED <<connected, box, sent, got, ret>>
  BY DEF Connect
<1> PICK to \in {Named(t), Addressed(t)} :
        Enter(c, "connect", c, to, OpenRequest(q, me))
  BY <1>27
<1>7. /\ usock' = [usock EXCEPT ![c].fd_r = p0, ![c].secret = q]
      /\ UNCHANGED <<connected, box, sent, got, ret>> /\ to \in Path
  BY <1>1, <1>27
<1>8. usock[c].fd_w = NULL /\ got[c] = <<>> /\ ret[c] = NULL
  BY <1>1, <1>5 DEF ClientSocket
<1>9. /\ usock' \in [Socket -> LSCK_SOCKET_UNIX]
      /\ usock'[c].fd_r = p0 /\ usock'[c].fd_w = NULL /\ usock'[c].secret = q
      /\ \A y \in Socket : y # c => usock'[y] = usock[y]
  <2> PICK u \in LSCK_SOCKET_UNIX : u = usock[c]
    BY <1>1, SocketSecret DEF IInv
  <2> DEFINE new == [u EXCEPT !.fd_r = p0, !.secret = q]
  <2>1. new \in LSCK_SOCKET_UNIX
    BY DEF LSCK_SOCKET_UNIX
  <2>2. new.fd_r = p0 /\ new.fd_w = u.fd_w /\ new.secret = q
    BY DEF LSCK_SOCKET_UNIX
  <2>3. usock' = [usock EXCEPT ![c] = new]
    BY <1>7
  <2> HIDE DEF new
  <2> QED BY <1>1, <1>8, <2>1, <2>2, <2>3, SocketChanged DEF IInv
<1> PICK m \in Msg : m = OpenRequest(q, me)
  BY MessageTypes
<1>10. m.type = "CLIENT_OPEN" /\ m.secret = q /\ m.path = me
  BY DEF OpenRequest
<1>11. /\ call' \in [Process -> Call \cup {NULL}]
       /\ \A b \in Process : b # c => call'[b] = call[b]
       /\ call'[c] # NULL /\ call'[c].kind = "connect" /\ call'[c].socket = c
       /\ call'[c].to = to /\ call'[c].msg = m /\ ~Idle(c)'
  BY <1>1, <1>7, Entered DEF IInv, Kind
<1>12. Types'
  BY <1>3, <1>7, <1>9, <1>11 DEF IInv, Types
<1>13. StepOf(c, c)
  BY <1>1, <1>3, <1>7, <1>9, <1>11 DEF StepOf, SameSocket
<1>14. Sockets' /\ Calls'
  <2>1. SocketFits(c)'
    <3>1. ClientSocket(c)'
      BY <1>1, <1>4, <1>7, <1>8, <1>9, <1>11, Zenon DEF ClientSocket, Used
    <3> QED BY <1>1, <3>1 DEF SocketFits
  <2>2. CallFits(c)'
    BY <1>1, <1>4, <1>6, <1>7, <1>9, <1>11, <1>26 DEF CallFits, Home, Bound
  <2> QED BY <1>1, <1>13, <2>1, <2>2, StepSockets DEF IInv
<1>15. /\ \A p \in Path : \A k \in Due(p) : k.secret # q
       /\ \A x \in Socket : usock[x].secret # q
       /\ ~Asking(q) /\ \A p \in Path : ~Requested(q, p)
       /\ \A x \in Accepted : x.secret = q => ~Serves(x)
  BY <1>4, NewSecret
<1>16. \A p \in Path : \A k \in Due(p)' : k \in Due(p) \/ k = m
  <2>1. \A p \in Path : In(p)' = In(p)
    BY <1>7 DEF In
  <2>2. ASSUME NEW p \in Path, NEW b \in Process, Pending(b)', call'[b].to = p
        PROVE  call'[b].msg \in Due(p) \/ call'[b].msg = m
    <3>1. CASE b = c
      BY <1>11, <3>1
    <3>2. CASE b # c
      <4>1. call'[b] = call[b]
        BY <1>11, <3>2
      <4> QED BY <2>2, <4>1 DEF Due, Pending
    <3> QED BY <3>1, <3>2
  <2> QED BY <2>1, <2>2 DEF Due
<1>17. ASSUME NEW r \in Secret
       PROVE  /\ Asking(r)' => Asking(r) \/ r = q
              /\ r # q => ~Asking(r)' \/ Asking(r)
              /\ \A p \in Path : Requested(r, p)' <=> Requested(r, p)
  <2>1. Asking(r)' => Asking(r) \/ r = q
    <3>1. CASE r.pid = c
      BY <1>10, <1>11, <3>1 DEF Asking
    <3>2. CASE r.pid # c
      <4>1. call'[r.pid] = call[r.pid]
        BY <1>11, <3>2, Names
      <4> QED BY <4>1 DEF Asking, InCall
    <3> QED BY <3>1, <3>2
  <2>2. \A p \in Path : Requested(r, p)' <=> Requested(r, p)
    BY <1>7 DEF Requested, In
  <2> QED BY <2>1, <2>2
<1>18. \A x \in Accepted : usock'[x] = usock[x]
  BY <1>1, <1>9, Names
<1>19. Unique'
  <2> SUFFICES ASSUME NEW r \in Secret
               PROVE  /\ \A p, p2 \in Path :
                            Requested(r, p)' /\ Requested(r, p2)' => p = p2
                      /\ \A y, z \in Accepted :
                            Serves(y)' /\ Serves(z)' /\ y.secret = r /\ z.secret = r
                                => y = z
                      /\ \A p \in Path : ~(Asking(r)' /\ Requested(r, p)')
                      /\ \A y \in Accepted : y.secret = r /\ Serves(y)' =>
                            ~Asking(r)' /\ \A p \in Path : ~Requested(r, p)'
    BY DEF Unique
  <2>1. /\ \A p, p2 \in Path : Requested(r, p) /\ Requested(r, p2) => p = p2
        /\ \A y, z \in Accepted :
              Serves(y) /\ Serves(z) /\ y.secret = r /\ z.secret = r => y = z
        /\ \A p \in Path : ~(Asking(r) /\ Requested(r, p))
        /\ \A y \in Accepted : y.secret = r /\ Serves(y) =>
              ~Asking(r) /\ \A p \in Path : ~Requested(r, p)
    BY DEF IInv, Unique
  <2>2. \A y \in Accepted : Serves(y)' => Serves(y)
    BY <1>18 DEF Serves
  <2> QED BY <1>15, <1>17, <2>1, <2>2, Zenon
<1>20. Keeps
  <2> SUFFICES ASSUME NEW r \in Secret, Used(r)
               PROVE  Used(r)' /\ (Gone(r) => Gone(r)') /\ (Spent(r) => Spent(r)')
    BY DEF Keeps
  <2>1. Used(r)' /\ r # q
    BY <1>4, <1>13, UsedStays DEF IInv
  <2>2. Gone(r) => Gone(r)'
    <3>1. CASE r.pid = c
      BY <1>9, <2>1, <3>1 DEF Gone
    <3>2. CASE r.pid # c
      BY <1>7, <1>9, <3>2, Names DEF Gone
    <3> QED BY <3>1, <3>2
  <2>3. ASSUME Spent(r) PROVE Spent(r)'
    BY <1>17, <1>18, <2>1, <2>3 DEF Spent
  <2> QED BY <2>1, <2>2, <2>3
<1>21. KeepsWritten
  <2> SUFFICES ASSUME NEW i \in Msg, i.data \in Item, Used(i.secret), Ends(i),
                      Written(i)
               PROVE  Written(i)'
    BY DEF KeepsWritten
  <2>1. i.data.from \in Socket /\ i.secret \in Secret /\ i.secret # q
    BY <1>4, SMT DEF Item, Msg
  <2>2. Spent(i.secret) => Spent(i.secret)'
    BY <1>20, <2>1 DEF Keeps
  <2>3. usock'[i.data.from].secret = i.secret =>
            usock[i.data.from].secret = i.secret /\ sent' = sent
    BY <1>7, <1>9, <2>1
  <2>4. i.data.from \in Accepted => (Serves(i.data.from) <=> Serves(i.data.from)')
    BY <1>18 DEF Serves
  <2> QED BY <2>2, <2>3, <2>4 DEF Written
<1>22. Messages'
  <2>1. \A p \in Path : MessageFits(m, p)'
    BY <1>4, <1>10, <1>26 DEF MessageFits, Used, Home, Bound
  <2> QED BY <1>16, <1>20, <2>1, MessagesKept DEF IInv
<1>23. Addresses'
  <2> SUFFICES ASSUME NEW d \in Client, Live(d)' PROVE Joined(d)'
    BY DEF Addresses
  <2>1. CASE d = c
    <3>1. ASSUME NEW p \in Path, NEW k \in Due(p)', k.type = "CLIENT_OPEN",
                 k.secret = usock'[d].secret
          PROVE  k.path \in {usock'[d].fd_r, Bare(d)}
      BY <1>9, <1>10, <1>15, <1>16, <1>26, <2>1, <3>1
    <3>2. ASSUME NEW y \in Accepted, usock'[y].secret = usock'[d].secret,
                 usock'[y].fd_w # NULL
          PROVE  usock'[y].fd_w \in {usock'[d].fd_r, Bare(d)}
      BY <1>9, <1>15, <1>18, <2>1, <3>2, Names
    <3> QED BY <3>1, <3>2 DEF Joined
  <2>2. CASE d # c
    <3>1. usock'[d] = usock[d] /\ call'[d] = call[d] /\ d \in Socket
      BY <1>9, <1>11, <2>2, Names
    <3>2. Live(d)
      BY <3>1 DEF Live, InCall
    <3>3. Joined(d)
      BY <3>2 DEF IInv, Addresses
    <3>4. ASSUME NEW p \in Path, NEW k \in Due(p)', k.type = "CLIENT_OPEN",
                 k.secret = usock'[d].secret
          PROVE  k.path \in {usock'[d].fd_r, Bare(d)}
      <4>1. k # m
        BY <1>10, <1>15, <3>1, <3>4
      <4> QED BY <1>16, <3>1, <3>3, <3>4, <4>1 DEF Joined
    <3>5. ASSUME NEW y \in Accepted, usock'[y].secret = usock'[d].secret,
                 usock'[y].fd_w # NULL
          PROVE  usock'[y].fd_w \in {usock'[d].fd_r, Bare(d)}
      BY <1>18, <3>1, <3>3, <3>5 DEF Joined
    <3> QED BY <3>4, <3>5 DEF Joined
  <2> QED BY <2>1, <2>2
<1>24. Resets'
  <2>1. ResetFits(c)'
    BY <1>7, <1>8, NullAssumption DEF ResetFits
  <2> QED BY <1>7, <1>9, <1>20, <2>1, ResetsKept DEF IInv
<1>25. Data'
  <2>1. \A y \in Socket : GotStep(y)
    BY <1>7, <1>8, <1>9 DEF GotStep
  <2>2. \A p \in Path : BoxStep(p)
    BY <1>7 DEF BoxStep
  <2> QED BY <1>12, <1>21, <2>1, <2>2, DataKept DEF IInv
<1> QED BY <1>12, <1>14, <1>19, <1>22, <1>23, <1>24, <1>25 DEF IInv

-----------------------------------------------------------------------------
LEMMA InitFits == Init => IInv
<1> SUFFICES ASSUME Init PROVE IInv
  OBVIOUS
<1>1. /\ NewSocket \in LSCK_SOCKET_UNIX
      /\ NewSocket.fd_r = NULL /\ NewSocket.fd_w = NULL
      /\ NewSocket.secret = NULL
  BY DEF NewSocket, LSCK_SOCKET_UNIX
<1>2. Types
  <2>1. 0 \in 0 .. MaxConnect /\ 0 \in 0 .. MaxSend
    BY StreamAssumption, SMT
  <2> QED BY <1>1, <2>1, Emptied DEF Init, Types
<1>3. /\ \A x \in Socket : usock[x] = NewSocket /\ got[x] = <<>> /\ ret[x] = NULL
                           /\ x \notin connected
      /\ \A a \in Process : call[a] = NULL
      /\ \A p \in Path : box[p] = <<>>
  BY DEF Init
<1>4. \A p \in Path : In(p) = {} /\ Due(p) = {} /\ Increasing(box[p])
  BY <1>3, Emptied DEF In, Due, Pending
<1>5. Sockets
  BY <1>1, <1>3
     DEF Sockets, SocketFits, ServerSocket, ClientSocket, AcceptedSocket
<1>6. Calls /\ Messages
  BY <1>3, <1>4 DEF Calls, Idle, Messages
<1>7. \A x \in Accepted : ~Serves(x)
  BY <1>1, <1>3, Names, NullAssumption DEF Serves
<1>8. Unique
  BY <1>4, <1>7 DEF Unique, Requested
<1>9. Addresses
  BY <1>1, <1>3, Names DEF Addresses, Live, InCall
<1>10. Resets
  BY <1>3, NullAssumption DEF Resets
<1>11. Data
  <2>1. \A x \in Socket : GotFits(x)
    BY <1>3, Emptied DEF GotFits
  <2> QED BY <1>4, <2>1 DEF Data
<1> QED BY <1>2, <1>5, <1>6, <1>8, <1>9, <1>10, <1>11 DEF IInv

LEMMA UnchangedFits == IInv /\ UNCHANGED vars => IInv'
<1> SUFFICES ASSUME IInv, UNCHANGED vars PROVE IInv'
  OBVIOUS
<1>1. /\ usock' = usock /\ connected' = connected /\ box' = box
      /\ call' = call /\ connects' = connects /\ sent' = sent /\ got' = got
      /\ ret' = ret
  BY DEF vars
<1>2. Types'
  BY <1>1 DEF IInv, Types
<1>3. \A x \in Socket : SocketFits(x)' <=> SocketFits(x)
  BY <1>1 DEF SocketFits, ServerSocket, ClientSocket, AcceptedSocket, Used,
              Home, Bound, Idle
<1>4. \A a \in Process : /\ Idle(a)' <=> Idle(a)
                         /\ CallFits(a)' <=> CallFits(a)
  BY <1>1 DEF Idle, CallFits, Open, Serves
<1>5. /\ \A p \in Path : In(p)' = In(p) /\ Due(p)' = Due(p)
      /\ \A q \in Secret : /\ Asking(q)' <=> Asking(q)
                           /\ \A p \in Path : Requested(q, p)' <=> Requested(q, p)
      /\ \A x \in Accepted : Serves(x)' <=> Serves(x)
  BY <1>1 DEF In, Due, Pending, Asking, InCall, Requested, Serves
<1>6. Keeps /\ KeepsWritten
  BY <1>1 DEF Keeps, KeepsWritten, Used, Gone, Spent, Written, Asking, InCall,
              Requested, In, Serves
<1>7. Messages'
  BY <1>5, <1>6, MessagesKept DEF IInv
<1>8. Unique'
  BY <1>5, Zenon DEF IInv, Unique
<1>9. Addresses'
  BY <1>1, <1>5 DEF IInv, Addresses, Joined, Live, InCall
<1>10. Resets'
  BY <1>1, <1>6, ResetsKept DEF IInv
<1>11. Data'
  <2>1. \A p \in Path : BoxStep(p)
    BY <1>1 DEF BoxStep
  <2>2. \A x \in Socket : GotStep(x)
    BY <1>1 DEF GotStep
  <2> QED BY <1>2, <1>6, <2>1, <2>2, DataKept DEF IInv
<1> QED BY <1>2, <1>3, <1>4, <1>7, <1>8, <1>9, <1>10, <1>11
        DEF IInv, Sockets, Calls

LEMMA NextFits == IInv /\ [Next]_vars => IInv'
<1> SUFFICES ASSUME IInv, [Next]_vars PROVE IInv'
  OBVIOUS
<1>1. ASSUME NEW a \in Process, Bind(a) PROVE IInv'
  BY <1>1, BindFits
<1>2. ASSUME NEW c \in Client, NEW t \in Process, Connect(c, t) PROVE IInv'
  BY <1>2, ConnectFits
<1>3. ASSUME NEW s \in Server, Accept(s) PROVE IInv'
  BY <1>3, AcceptFits
<1>4. ASSUME NEW x \in Socket, Send(x) \/ Recv(x) \/ Close(x) PROVE IInv'
  BY <1>4, SendFits, RecvFits, CloseFits
<1>5. ASSUME NEW a \in Process, Progress(a) PROVE IInv'
  <2>1. CASE a \in Client /\ (RequestSent(a) \/ ReplyRead(a))
    BY <2>1, RequestSentFits, ReplyReadFits
  <2>2. CASE a \in Server /\ (RequestRead(a) \/ ReplySent(a))
    BY <2>2, RequestReadFits, ReplySentFits
  <2> QED BY <1>5, <2>1, <2>2, DataSentFits, ReceivedFits DEF Progress
<1> QED BY <1>1, <1>2, <1>3, <1>4, <1>5, UnchangedFits DEF Next, CallStep

LEMMA AlwaysFits == Spec => []IInv
<1> QED BY InitFits, NextFits, PTL DEF Spec

-----------------------------------------------------------------------------
\* Whatever the processes do and however many there are, the variables keep
\* their types: no call polls for a mailslot that is not one.
THEOREM TypesHold == Spec => []TypeOK
<1>1. IInv => TypeOK
  <2> SUFFICES ASSUME IInv PROVE TypeOK
    OBVIOUS
  <2>1. \A p \in Path : \A i \in DOMAIN box[p] : box[p][i] \in Msg
    BY InTyped DEF IInv, In
  <2>2. \A x \in Socket : \A i \in DOMAIN got[x] : got[x][i] \in Msg
    <3> SUFFICES ASSUME NEW x \in Socket, NEW i \in DOMAIN got[x]
                 PROVE  got[x][i] \in Msg
      OBVIOUS
    <3>1. got[x] \in Seq(Msg)
      BY DEF IInv, Types
    <3> QED BY <3>1, SMT
  <2> QED BY <2>1, <2>2 DEF IInv, Types, TypeOK
<1> QED BY <1>1, AlwaysFits, PTL

-----------------------------------------------------------------------------
\* Nobody reads the mailslot that a relative address seems to name, and no
\* connection is made that writes to it: the reply never gets there.
Bares == {Bare(a) : a \in Process}

Reached ==
    /\ \A x \in Socket : usock[x].fd_r \notin Bares
    /\ \A x \in Accepted \cap connected : usock[x].fd_w \notin Bares

LEMMA BareNames ==
  /\ NULL \notin Bares
  /\ \A a \in Process : Named(a) \notin Bares
  /\ \A q \in Secret : Random(q) \notin Bares
  /\ \A x \in Accepted : Reply(x) \notin Bares
<1>1. NULL \notin Bares
  BY Names, NullAssumption DEF Bares
<1>2. \A a \in Process, b \in Process : Named(a) # Bare(b)
  BY SMT DEF Named, Bare
<1>3. \A a \in Process, q \in Secret : Random(q) # Bare(a)
  BY SMT DEF Random, Bare
<1>4. \A a \in Process, x \in Accepted : Reply(x) # Bare(a)
  BY SMT DEF Reply, Bare
<1> QED BY <1>1, <1>2, <1>3, <1>4 DEF Bares

\* One socket changes; what it reads or writes is a name that it had, or one
\* that exists.
LEMMA ReachedKept ==
  ASSUME Reached, NEW x \in Socket,
         \A y \in Socket : y # x =>
             usock'[y] = usock[y] /\ (y \in connected' <=> y \in connected),
         usock'[x].fd_r \notin Bares,
         x \in Accepted /\ x \in connected' => usock'[x].fd_w \notin Bares
  PROVE  Reached'
BY Names DEF Reached, Bares

LEMMA ReachedFits == IInv /\ Reached /\ [Next]_vars => Reached'
<1> SUFFICES ASSUME IInv, Reached, [Next]_vars PROVE Reached'
  OBVIOUS
<1>1. ASSUME usock' = usock, connected' = connected PROVE Reached'
  BY <1>1 DEF Reached, Bares
<1>2. ASSUME NEW a \in Process, Bind(a) PROVE Reached'
  <2>1. a \in Socket /\ a \notin Accepted /\ Named(a) \in Path
    BY Names
  <2>2. /\ usock' = [usock EXCEPT ![a].fd_r = Named(a)]
        /\ connected' = connected
    BY <1>2 DEF Bind
  <2>3. usock'[a].fd_r = Named(a) /\ \A y \in Socket : y # a => usock'[y] = usock[y]
    BY <2>1, <2>2, ReaderChanged DEF IInv
  <2> QED BY <1>2, <2>1, <2>2, <2>3, BareNames, ReachedKept
<1>3. ASSUME NEW c \in Client, NEW t \in Process, Connect(c, t) PROVE Reached'
  <2>1. /\ c \in Socket /\ c \notin Accepted /\ usock[c] \in LSCK_SOCKET_UNIX
        /\ connects[c] \in 0 .. MaxConnect /\ connects[c] < MaxConnect
    BY <1>3, Names DEF IInv, Types, Connect
  <2> DEFINE q == [pid |-> c, n |-> connects[c] + 1]
             p == IF usock[c].fd_r = NULL THEN Random(q) ELSE usock[c].fd_r
  <2>2. q \in Secret
    <3>1. connects[c] + 1 \in 1 .. MaxConnect
      BY <2>1, StreamAssumption, SMT
    <3> QED BY <3>1 DEF Secret
  <2>3. usock' = [usock EXCEPT ![c].fd_r = p, ![c].secret = q] /\ connected' = connected
    BY <1>3 DEF Connect
  <2>4. p \notin Bares
    BY <2>1, <2>2, BareNames DEF Reached
  <2> HIDE DEF p, q
  <2>5. usock'[c].fd_r = p /\ \A y \in Socket : y # c => usock'[y] = usock[y]
    <3> PICK u \in LSCK_SOCKET_UNIX : u = usock[c]
      BY <2>1
    <3> DEFINE new == [u EXCEPT !.fd_r = p, !.secret = q]
    <3>1. new.fd_r = p
      BY DEF LSCK_SOCKET_UNIX
    <3>2. usock' = [usock EXCEPT ![c] = new]
      BY <2>3
    <3> HIDE DEF new
    <3> QED BY <2>1, <3>1, <3>2 DEF IInv, Types
  <2> QED BY <2>1, <2>3, <2>4, <2>5, ReachedKept
<1>4. ASSUME NEW c \in Client, ReplyRead(c) PROVE Reached'
  <2>1. c \in Socket /\ c \notin Accepted /\ c \in Process /\ usock[c].fd_r \notin Bares
    BY Names DEF Reached
  <2>2. CASE connected' = connected \cup {c} /\
             \E fd : usock' = [usock EXCEPT ![c].fd_w = fd]
    <3> PICK fd : usock' = [usock EXCEPT ![c].fd_w = fd]
      BY <2>2
    <3>1. usock'[c].fd_r = usock[c].fd_r /\ \A y \in Socket : y # c => usock'[y] = usock[y]
      BY <2>1 DEF IInv, Types, LSCK_SOCKET_UNIX
    <3> QED BY <2>1, <2>2, <3>1, ReachedKept
  <2>3. CASE connected' = connected /\ usock' = [usock EXCEPT ![c].fd_r = Unbound(c)]
    <3>1. Unbound(c) \in {NULL, usock[c].fd_r}
      BY DEF Unbound
    <3>2. usock'[c].fd_r = Unbound(c) /\ \A y \in Socket : y # c => usock'[y] = usock[y]
      BY <2>1, <2>3 DEF IInv, Types, LSCK_SOCKET_UNIX
    <3> QED BY <2>1, <2>3, <3>1, <3>2, BareNames, ReachedKept
  <2> QED BY <1>4, <2>2, <2>3, Zenon DEF ReplyRead
<1>5. ASSUME NEW s \in Server, RequestRead(s) PROVE Reached'
  <2>1. Named(s) \in Path /\ box[Named(s)] # <<>>
    BY <1>5, Names DEF RequestRead, CanRead
  <2> PICK m \in Msg : m = Head(box[Named(s)]) /\ m \in In(Named(s))
                       /\ m.secret \in Secret
    BY <2>1, FirstFits
  <2> PICK x \in Accepted : x = [at |-> s, secret |-> m.secret]
    BY Names
  <2>2. connected' = connected
    BY <1>5 DEF RequestRead
  <2>3. CASE usock' = usock
    BY <1>1, <2>2, <2>3
  <2>4. CASE /\ m.type = "CLIENT_OPEN"
             /\ usock' = [usock EXCEPT ![x] = [fd_r |-> Reply(x), fd_w |-> m.path,
                                               secret |-> m.secret]]
    <3>1. ~Serves(x)
      <4>1. Requested(m.secret, Named(s))
        BY <2>4 DEF Requested
      <4>2. x.secret = m.secret
        OBVIOUS
      <4> QED BY <2>1, <4>1, <4>2 DEF IInv, Unique
    <3>2. x \notin connected
      BY <3>1, Names, NullAssumption DEF IInv, Sockets, SocketFits, AcceptedSocket, Serves
    <3>3. usock'[x].fd_r = Reply(x) /\ \A y \in Socket : y # x => usock'[y] = usock[y]
      BY <2>4, Names DEF IInv, Types
    <3> QED BY <2>2, <3>2, <3>3, Names, BareNames, ReachedKept
  <2> QED BY <1>5, <2>3, <2>4 DEF RequestRead, ReplyTo
<1>6. ASSUME NEW s \in Server, ReplySent(s) PROVE Reached'
  <2>1. /\ InCall(s, "reply") /\ s \in Process /\ usock' = usock
        /\ connected' = connected \cup {call[s].socket}
        /\ Exists(call[s].to)
    BY <1>6, Names DEF ReplySent, WriteComplete, CanWrite
  <2>2. CallFits(s) /\ call[s].kind = "reply"
    BY <2>1 DEF InCall, Idle, IInv, Calls
  <2> PICK x \in Accepted : x = call[s].socket /\ call[s].to = usock[x].fd_w
    BY <2>2 DEF CallFits
  <2>3. usock[x].fd_w \notin Bares
    BY <2>1 DEF Exists, Reached
  <2>4. x \in Socket /\ usock'[x].fd_r \notin Bares
    BY <2>1, Names DEF Reached
  <2> QED BY <2>1, <2>3, <2>4, ReachedKept
<1>7. ASSUME NEW a \in Process, Received(a) PROVE Reached'
  <2>1. connected' = connected
    BY <1>7 DEF Received
  <2>2. CASE usock' = usock
    BY <1>1, <2>1, <2>2
  <2>3. CASE \E x \in Socket : usock' = [usock EXCEPT ![x].fd_r = NULL, ![x].fd_w = NULL]
    <3> PICK x \in Socket : usock' = [usock EXCEPT ![x].fd_r = NULL, ![x].fd_w = NULL]
      BY <2>3
    <3>1. /\ usock'[x].fd_r = NULL /\ usock'[x].fd_w = NULL
          /\ \A y \in Socket : y # x => usock'[y] = usock[y]
      BY BothClosed DEF IInv
    <3> QED BY <2>1, <3>1, BareNames, ReachedKept
  <2>4. call[a].socket \in Socket
    <3>1. call[a] \in Call
      BY <1>7 DEF Received, InCall, IInv, Types
    <3> QED BY <3>1, SMT DEF Call
  <2> QED BY <1>7, <2>2, <2>3, <2>4, Zenon DEF Received
<1>8. ASSUME NEW x \in Socket, Close(x) PROVE Reached'
  <2>1. /\ usock' = [usock EXCEPT ![x] = NewSocket] /\ connected' = connected \ {x}
        /\ NewSocket.fd_r = NULL
    BY <1>8 DEF Close, NewSocket
  <2>2. usock'[x] = NewSocket /\ \A y \in Socket : y # x => usock'[y] = usock[y]
    BY <2>1 DEF IInv, Types
  <2> QED BY <2>1, <2>2, BareNames, ReachedKept
<1>9. ASSUME NEW s \in Server, Accept(s) PROVE Reached'
  BY <1>1, <1>9 DEF Accept
<1>10. ASSUME NEW x \in Socket, Send(x) \/ Recv(x) PROVE Reached'
  BY <1>1, <1>10 DEF Send, Recv
<1>11. ASSUME NEW a \in Process, Progress(a) PROVE Reached'
  <2>1. CASE a \in Client /\ RequestSent(a)
    BY <1>1, <2>1 DEF RequestSent
  <2>2. CASE DataSent(a)
    BY <1>1, <2>2 DEF DataSent
  <2> QED BY <1>4, <1>5, <1>6, <1>7, <1>11, <2>1, <2>2 DEF Progress
<1>12. CASE UNCHANGED vars
  BY <1>1, <1>12 DEF vars
<1> QED BY <1>2, <1>3, <1>8, <1>9, <1>10, <1>11, <1>12 DEF Next, CallStep

LEMMA AlwaysReached == Spec => []Reached
<1>1. Init => Reached
  <2> SUFFICES ASSUME Init PROVE Reached
    OBVIOUS
  <2>1. \A x \in Socket : usock[x].fd_r = NULL
    BY DEF Init, NewSocket
  <2>2. connected = {}
    BY DEF Init
  <2> QED BY <2>1, <2>2, BareNames DEF Reached
<1> QED BY <1>1, AlwaysFits, ReachedFits, PTL DEF Spec

\* A client that connect() has connected writes to the socket that accept()
\* made for its very request, and is written to by it: replies to earlier
\* requests of the process, and requests of other processes, never join.
THEOREM PeersAgree == Spec => []PeerAgreement
<1>1. IInv /\ Reached => PeerAgreement
  <2> SUFFICES ASSUME IInv, Reached, NEW c \in Client \cap connected,
                      usock[c].fd_w # NULL,
                      NEW x, x = [at |-> usock[c].fd_w.at,
                                  secret |-> usock[c].secret]
               PROVE  /\ usock[c].fd_w = Reply(x)
                      /\ Open(x) => usock[x].fd_w = usock[c].fd_r
    BY Zenon DEF PeerAgreement
  <2>1. c \in Socket /\ ClientSocket(c)
    BY Names DEF IInv, Sockets, SocketFits
  <2>2. usock[c].secret \in Secret
    BY <2>1, SocketSecret DEF IInv
  <2>3. PICK s \in Server :
            usock[c].fd_w = Reply([at |-> s, secret |-> usock[c].secret])
    BY <2>1 DEF ClientSocket
  <2>4. x = [at |-> s, secret |-> usock[c].secret]
    BY <2>3 DEF Reply
  <2>5. x \in Accepted /\ x.secret = usock[c].secret
    BY <2>2, <2>4, Names
  <2>6. Joined(c)
    BY DEF IInv, Addresses, Live
  <2>7. ASSUME Open(x) PROVE usock[x].fd_w = usock[c].fd_r
    <3>1. usock[x].secret = usock[c].secret /\ usock[x].fd_w # NULL
      BY <2>5, <2>7, OpenSocket, Names DEF IInv, Open
    <3>2. usock[x].fd_w # Bare(c)
      BY <2>5, <2>7, Names DEF Reached, Bares, Open
    <3> QED BY <2>5, <2>6, <3>1, <3>2 DEF Joined
  <2> QED BY <2>3, <2>4, <2>7
<1> QED BY <1>1, AlwaysFits, AlwaysReached, PTL

\* The data that recv() returns on a connection was sent on it by the other
\* end, in that order and each message at most once.
THEOREM DataComesFromPeer == Spec => []DataFromPeer
<1>1. IInv => DataFromPeer
  <2> SUFFICES ASSUME IInv, NEW x \in Socket, NEW i \in DOMAIN got[x]
               PROVE  /\ got[x][i].secret = usock[x].secret
                      /\ got[x][i].data.from # x
                      /\ \A j \in 1 .. i - 1 :
                            got[x][j].data.n < got[x][i].data.n
    BY DEF DataFromPeer
  <2>1. GotFits(x) /\ got[x] \in Seq(Msg)
    BY DEF IInv, Data, Types
  <2>2. \A j \in DOMAIN got[x] : got[x][j] \in Msg /\ ItemFits(got[x][j], x)
    <3>1. \A j \in DOMAIN got[x] : got[x][j] \in Msg
      BY <2>1, SMT
    <3> QED BY <2>1, <3>1 DEF GotFits
  <2> PICK m \in Msg : m = got[x][i] /\ ItemFits(m, x)
    BY <2>2
  <2>3. m.secret = usock[x].secret /\ m.secret \in Secret
    BY SMT DEF ItemFits, Msg
  <2>4. m.data.from # x
    <3>1. CASE x \in Accepted
      <4>1. m.data.from = m.secret.pid
        BY <3>1 DEF ItemFits
      <4> QED BY <2>3, <3>1, <4>1, Names
    <3>2. CASE x \notin Accepted
      BY <3>2 DEF ItemFits
    <3> QED BY <3>1, <3>2
  <2>5. ASSUME NEW j \in 1 .. i - 1
        PROVE  got[x][j].data.n < got[x][i].data.n
    <3>1. j \in DOMAIN got[x] /\ j < i
      BY <2>1, SMT
    <3>2. Follows(got[x][j], got[x][i])
      BY <2>1, <3>1 DEF GotFits, Increasing
    <3>3. got[x][j].type = "DATA" /\ got[x][i].type = "DATA"
          /\ got[x][j].secret = got[x][i].secret
      BY <2>2, <3>1 DEF ItemFits
    <3> QED BY <3>2, <3>3 DEF Follows
  <2> QED BY <2>3, <2>4, <2>5
<1> QED BY <1>1, AlwaysFits, PTL

\* recv() reports ECONNRESET only on a connection whose other end is closed,
\* even when a mailslot still holds the close messages of earlier ones.
THEOREM ResetsAreReal == Spec => []ResetIsReal
<1>1. IInv => ResetIsReal
  <2> SUFFICES ASSUME IInv, NEW x \in Socket, NEW y \in Socket,
                      ret[x] = "ECONNRESET", x # y,
                      usock[y].secret = usock[x].secret, Open(y)
               PROVE  FALSE
    BY DEF ResetIsReal
  <2>1. /\ x \in Client => Spent(usock[x].secret)
        /\ x \in Accepted => Gone(usock[x].secret)
    BY DEF IInv, Resets
  <2> PICK q \in Secret : q = usock[y].secret
    BY OpenSocket DEF IInv
  <2>2. usock[y].fd_w # NULL /\ usock[x].secret = q /\ q # NULL
    BY NullAssumption DEF Open
  <2>3. /\ \/ x \in Client /\ q.pid = x
           \/ x \in Accepted /\ q = x.secret
        /\ \/ y \in Client /\ q.pid = y
           \/ y \in Accepted /\ q = y.secret
    BY <2>2, SocketSecret DEF IInv
  <2>4. CASE x \in Client /\ y \in Client
    BY <2>3, <2>4, Names
  <2>5. CASE x \in Client /\ y \in Accepted
    <3>1. q = y.secret
      BY <2>3, <2>5, Names
    <3> QED BY <2>1, <2>2, <2>5, <3>1 DEF Spent
  <2>6. CASE x \in Accepted /\ y \in Client
    <3>1. q.pid = y
      BY <2>3, <2>6, Names
    <3> QED BY <2>1, <2>2, <2>6, <3>1 DEF Gone
  <2>7. CASE x \in Accepted /\ y \in Accepted
    <3>1. q = x.secret /\ q = y.secret
      BY <2>3, <2>7, Names
    <3>2. Serves(x) /\ Serves(y)
      BY <2>2, <3>1 DEF Serves
    <3> QED BY <2>7, <3>1, <3>2 DEF IInv, Unique
  <2> QED BY <2>3, <2>4, <2>5, <2>6, <2>7
<1> QED BY <1>1, AlwaysFits, PTL

=============================================================================

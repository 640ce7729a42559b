----------------------------- MODULE UnixStream -----------------------------
(***************************************************************************)
(* Stream sockets of the Unix domain interface (src/unix/u_*.c): how       *)
(* processes of one machine open a connection, exchange data and close it  *)
(* by messages written to each other's LAN Manager mailslots.              *)
(*                                                                         *)
(* A socket reads one mailslot, which it creates, and writes one of its    *)
(* peer's.  read() and write() of a mailslot poll until they succeed, so a *)
(* call is made in one step and completed in a later one, and its process  *)
(* does nothing else in between.  Each process owns one socket it creates  *)
(* itself; a server also owns the sockets that accept() returns to it.     *)
(*                                                                         *)
(* LAN Manager is external.  As the authors assume, local mailslots lose,  *)
(* duplicate and reorder nothing; a write fails when the mailslot does not *)
(* exist or is full.  random() never repeats itself.                       *)
(***************************************************************************)
EXTENDS Naturals, Sequences, FiniteSets

CONSTANTS
    Server,         \* processes that listen and accept
    Client,         \* processes that connect
    Relative,       \* those that give bind() an address without a leading /
    NULL,           \* no file descriptor, secret, data or result
    MaxConnect,     \* connect() calls a client makes in one behaviour
    AllConnects,    \* connect() calls all clients make in one behaviour
    MaxSend,        \* send() calls on one connection, per direction
    Room            \* messages a mailslot holds

ASSUME StreamAssumption ==
    /\ Server \cap Client = {}
    /\ Relative \subseteq Server \cup Client
    /\ MaxConnect \in Nat \ {0} /\ AllConnects \in Nat \ {0}
    /\ MaxSend \in Nat
    /\ Room \in Nat \ {0}

Process == Server \cup Client

(***************************************************************************)
(* UNIX_MSG_SECRET: a random number and the id of the connecting process.  *)
(***************************************************************************)
Secret == [pid : Client, n : 1 .. MaxConnect]

\* The sockets: the one a process creates, and the one that accept() returns
\* for the connection with that secret.
Accepted == [at : Server, secret : Secret]
Socket == Process \cup Accepted

Owner(x) == IF x \in Process THEN x ELSE x.at

(***************************************************************************)
(* Mailslot names: the address a program binds, a random name that         *)
(* connect() binds, and a random name that accept() opens.                 *)
(*                                                                         *)
(* bind() puts the working directory before a relative address; connect()  *)
(* does not, neither to the address it is given nor to its own one, which  *)
(* it sends to the server.  The name it makes of them is of a mailslot     *)
(* that nobody creates.                                                    *)
(***************************************************************************)
Named(a) == [at |-> a, kind |-> "bound", secret |-> NULL]
Bare(a) == [at |-> a, kind |-> "bare", secret |-> NULL]
Random(q) == [at |-> q.pid, kind |-> "client", secret |-> q]
Reply(x) == [at |-> x.at, kind |-> "server", secret |-> x.secret]

Path == {Named(a) : a \in Process} \cup {Bare(a) : a \in Process}
            \cup {Random(q) : q \in Secret} \cup {Reply(x) : x \in Accepted}

\* What connect() makes of the address that process a has given bind().
Addressed(a) == IF a \in Relative THEN Bare(a) ELSE Named(a)

(***************************************************************************)
(* UNIX_MSG_HEADER, with the path of the two OPEN messages and the data of *)
(* the DATA ones: who sent it and, in place of its sequence numbers, the   *)
(* how manieth it was on its connection.                                   *)
(***************************************************************************)
Item == [from : Socket, n : 1 .. MaxSend]

MsgType == {"CLIENT_OPEN", "SERVER_OPEN", "DATA", "CLIENT_CLOSE",
            "SERVER_CLOSE"}

Msg == [type : MsgType, secret : Secret, path : Path \cup {NULL},
        data : Item \cup {NULL}]

OpenRequest(q, p) ==
    [type |-> "CLIENT_OPEN", secret |-> q, path |-> p, data |-> NULL]

\* Mutant: the reply is built with its two fields swapped.
OpenReply_Swapped(q, p) ==
    [type |-> "SERVER_OPEN", secret |-> p, path |-> q, data |-> NULL]

OpenReply(q, p) ==
    [type |-> "SERVER_OPEN", secret |-> q, path |-> p, data |-> NULL]
DataMsg(q, d) ==
    [type |-> "DATA", secret |-> q, path |-> NULL, data |-> d]
CloseMsg(x, q) ==
    [type |-> IF x \in Accepted THEN "SERVER_CLOSE" ELSE "CLIENT_CLOSE",
     secret |-> q, path |-> NULL, data |-> NULL]

\* LSCK_SOCKET_UNIX, with the mailslots in place of the file descriptors.
LSCK_SOCKET_UNIX == [fd_r : Path \cup {NULL}, fd_w : Path \cup {NULL},
                     secret : Secret \cup {NULL}]

NewSocket == [fd_r |-> NULL, fd_w |-> NULL, secret |-> NULL]

\* The read() or write() that a process is polling, for which call on which
\* socket; "to" and "msg" are used by the writes.
Call == [kind : {"connect", "await", "accept", "reply", "send", "recv", "peek"},
         socket : Socket, to : Path \cup {NULL}, msg : Msg \cup {NULL}]

ASSUME NullAssumption ==
    /\ NULL \notin Path /\ NULL \notin Secret /\ NULL \notin Item
    /\ NULL \notin Msg /\ NULL \notin Call
    /\ NULL \notin {"data", "junk", "ECONNRESET", "failed"}
    /\ Process \cap Accepted = {}

VARIABLES
    usock,      \* the LSCK_SOCKET_UNIX of every socket
    connected,  \* the sockets whose connected bit is set
    box,        \* the messages in every mailslot
    call,       \* the call each process is in, or NULL
    connects,   \* connect() calls each client has made
    sent,       \* messages sent on the connection of each socket
    got,        \* the data messages recv() returned on that connection
    ret         \* what the last recv() on each socket returned; of a socket
                \* that listens, whether the last accept() has failed

vars == <<usock, connected, box, call, connects, sent, got, ret>>

Init ==
    /\ usock = [x \in Socket |-> NewSocket]
    /\ connected = {}
    /\ box = [p \in Path |-> <<>>]
    /\ call = [a \in Process |-> NULL]
    /\ connects = [c \in Client |-> 0]
    /\ sent = [x \in Socket |-> 0]
    /\ got = [x \in Socket |-> <<>>]
    /\ ret = [x \in Socket |-> NULL]

Idle(a) == call[a] = NULL
InCall(a, kind) == call[a] # NULL /\ call[a].kind = kind

\* The secrets of the connect() calls so far.
Asked == {q \in Secret : q.n <= connects[q.pid]}

-----------------------------------------------------------------------------
(***************************************************************************)
(* Mailslots.                                                              *)
(***************************************************************************)

Exists(p) == \E x \in Socket : usock[x].fd_r = p

CanWrite(p) == Exists(p) /\ Len(box[p]) < Room
CanRead(p) == p # NULL /\ box[p] # <<>>

Write(p, m) == box' = [box EXCEPT ![p] = Append(@, m)]

\* __mailslot_read() keeps reading until the mailslot is empty.  The callers
\* look at the first message only.
Drain(p) == [box EXCEPT ![p] = <<>>]

\* The pending write() of process a succeeds.
WriteComplete(a) ==
    /\ call[a] # NULL
    /\ CanWrite(call[a].to)
    /\ Write(call[a].to, call[a].msg)

\* Process a makes a call that polls a mailslot.
Enter(a, kind, x, to, m) ==
    call' = [call EXCEPT ![a] = [kind |-> kind, socket |-> x, to |-> to, msg |-> m]]
Return(a) == call' = [call EXCEPT ![a] = NULL]

-----------------------------------------------------------------------------
(***************************************************************************)
(* bind() and connect().                                                   *)
(***************************************************************************)

\* A socket keeps its binding, and its connected bit, when the peer's close
\* has taken its mailslots away.
Bind(a) ==
    /\ Idle(a)
    /\ usock[a].fd_r = NULL
    /\ a \notin connected
    /\ usock' = [usock EXCEPT ![a].fd_r = Named(a)]
    /\ UNCHANGED <<connected, box, call, connects, sent, got, ret>>

\* connect() opens the mailslot of its destination, the one that t reads or the
\* one that its relative address seems to name, binds an unbound socket to a
\* random name, and polls to write its request.  (When it fails before, it
\* leaves all this as it was.)
Connect(c, t) ==
    /\ Idle(c)
    /\ c \notin connected
    /\ connects[c] < MaxConnect /\ Cardinality(Asked) < AllConnects
    /\ LET q == [pid |-> c, n |-> connects[c] + 1]
           p == IF usock[c].fd_r = NULL THEN Random(q) ELSE usock[c].fd_r
           me == IF usock[c].fd_r = NULL THEN Random(q) ELSE Addressed(c)
       IN  /\ usock' = [usock EXCEPT ![c].fd_r = p, ![c].secret = q]
           /\ \E to \in {Named(t), Addressed(t)} :
                 Enter(c, "connect", c, to, OpenRequest(q, me))
    /\ connects' = [connects EXCEPT ![c] = @ + 1]
    /\ UNCHANGED <<connected, box, sent, got, ret>>

\* The request is written; connect() polls for the reply.
RequestSent(c) ==
    /\ InCall(c, "connect")
    /\ WriteComplete(c)
    /\ Enter(c, "await", c, call[c].to, NULL)
    /\ UNCHANGED <<usock, connected, connects, sent, got, ret>>

\* Mutant: connect() does not look at the secret of the reply.
GoodReply_AnySecret(c, m) == m.type = "SERVER_OPEN"

GoodReply(c, m) == m.secret = usock[c].secret /\ m.type = "SERVER_OPEN"

\* What a refused connect() leaves bound: the random name goes.
Unbound(c) ==
    IF usock[c].fd_r = Random(usock[c].secret) THEN NULL ELSE usock[c].fd_r

\* connect() reads its mailslot, which is destroyed, with what is in it, when
\* the call fails and had bound it.  That the mailslot of the reply cannot be
\* opened goes unnoticed: the socket is connected and cannot write.
ReplyRead(c) ==
    /\ InCall(c, "await")
    /\ CanRead(usock[c].fd_r)
    /\ LET m == Head(box[usock[c].fd_r])
       IN  \/ /\ GoodReply(c, m)
              /\ \E fd \in {m.path, NULL} :
                    usock' = [usock EXCEPT ![c].fd_w = fd]
              /\ connected' = connected \cup {c}
           \/ /\ ~GoodReply(c, m)
              /\ usock' = [usock EXCEPT ![c].fd_r = Unbound(c)]
              /\ UNCHANGED connected
    /\ box' = Drain(usock[c].fd_r)
    /\ Return(c)
    /\ UNCHANGED <<connects, sent, got, ret>>

-----------------------------------------------------------------------------
(***************************************************************************)
(* accept() on the socket of a server.                                     *)
(***************************************************************************)

Accept(s) ==
    /\ Idle(s)
    /\ usock[s].fd_r = Named(s)
    /\ Enter(s, "accept", s, NULL, NULL)
    /\ ret' = [ret EXCEPT ![s] = NULL]
    /\ UNCHANGED <<usock, connected, box, connects, sent, got>>

\* Mutant: the reply goes to the address of the client's program.
ReplyTo_Named(m) == Named(m.secret.pid)

\* Where accept() sends its reply, and writes from then on.
ReplyTo(m) == m.path

\* accept() opens the two mailslots of the new socket for a request and polls
\* to write its reply.  It returns -1 when the first message is not a request,
\* and when one of the mailslots cannot be opened: the request is read by then,
\* and nobody tells the client.  (The first mailslot, which stays open then,
\* has a name that nobody knows.)
RequestRead(s) ==
    /\ InCall(s, "accept")
    /\ CanRead(Named(s))
    /\ LET m == Head(box[Named(s)])
           x == [at |-> s, secret |-> m.secret]
       IN  \/ /\ m.type = "CLIENT_OPEN"
              /\ usock' = [usock EXCEPT ![x] = [fd_r |-> Reply(x),
                                                fd_w |-> ReplyTo(m),
                                                secret |-> m.secret]]
              /\ Enter(s, "reply", x, ReplyTo(m), OpenReply(m.secret, Reply(x)))
              /\ UNCHANGED ret
           \/ /\ Return(s)
              /\ ret' = [ret EXCEPT ![s] = "failed"]
              /\ UNCHANGED usock
    /\ box' = Drain(Named(s))
    /\ UNCHANGED <<connected, connects, sent, got>>

ReplySent(s) ==
    /\ InCall(s, "reply")
    /\ WriteComplete(s)
    /\ connected' = connected \cup {call[s].socket}
    /\ Return(s)
    /\ UNCHANGED <<usock, connects, sent, got, ret>>

-----------------------------------------------------------------------------
(***************************************************************************)
(* send() and recv() on a connected socket x.                              *)
(***************************************************************************)

Open(x) == x \in connected /\ usock[x].fd_w # NULL

Send(x) ==
    /\ Idle(Owner(x))
    /\ Open(x)
    /\ sent[x] < MaxSend
    /\ Enter(Owner(x), "send", x, usock[x].fd_w,
             DataMsg(usock[x].secret, [from |-> x, n |-> sent[x] + 1]))
    /\ UNCHANGED <<usock, connected, box, connects, sent, got, ret>>

DataSent(a) ==
    /\ InCall(a, "send")
    /\ WriteComplete(a)
    /\ sent' = [sent EXCEPT ![call[a].socket] = @ + 1]
    /\ Return(a)
    /\ UNCHANGED <<usock, connected, connects, got, ret>>

\* A connected socket that cannot write reads as any other.
Recv(x) ==
    /\ Idle(Owner(x))
    /\ x \in connected /\ usock[x].fd_r # NULL
    /\ \E kind \in {"recv", "peek"} : Enter(Owner(x), kind, x, NULL, NULL)
    /\ UNCHANGED <<usock, connected, box, connects, sent, got, ret>>

\* __unix_close(x), when the mailslots hold b: writes one close message, which
\* is lost when there is no room for it, and destroys the mailslot of x.
ClosedBox(x, b) ==
    LET to == usock[x].fd_w
        told == IF to # NULL /\ Exists(to) /\ Len(b[to]) < Room
                THEN [b EXCEPT ![to] = Append(@, CloseMsg(x, usock[x].secret))]
                ELSE b
    IN  [p \in Path |-> IF p = usock[x].fd_r THEN <<>> ELSE told[p]]

\* Mutant: a close message of any connection closes this one.
Closes_AnySecret(x, m) ==
    m.type = IF x \in Accepted THEN "CLIENT_CLOSE" ELSE "SERVER_CLOSE"

\* The close message of the peer of x.
Closes(x, m) ==
    /\ m.type = IF x \in Accepted THEN "CLIENT_CLOSE" ELSE "SERVER_CLOSE"
    /\ m.secret = usock[x].secret

\* Mutant: the secret of a data message is not compared.
BadPacket_AnySecret(x, m) == m.type # "DATA"

BadPacket(x, m) == m.type # "DATA" \/ m.secret # usock[x].secret

\* recv() reads a message, or peeks at it, and acts on it.  A bad packet ends
\* the loop like a good one: its length is returned, and no data.
Received(a) ==
    /\ InCall(a, "recv") \/ InCall(a, "peek")
    /\ LET x == call[a].socket
           m == Head(box[usock[x].fd_r])
           b == IF InCall(a, "recv") THEN Drain(usock[x].fd_r) ELSE box
       IN  /\ CanRead(usock[x].fd_r)
           /\ \/ /\ Closes(x, m)
                 /\ box' = ClosedBox(x, b)
                 /\ usock' = [usock EXCEPT ![x].fd_r = NULL, ![x].fd_w = NULL]
                 /\ ret' = [ret EXCEPT ![x] = "ECONNRESET"]
                 /\ UNCHANGED got
              \/ /\ ~Closes(x, m) /\ BadPacket(x, m)
                 /\ box' = b
                 /\ ret' = [ret EXCEPT ![x] = "junk"]
                 /\ UNCHANGED <<usock, got>>
              \/ /\ ~Closes(x, m) /\ ~BadPacket(x, m)
                 /\ box' = b
                 /\ ret' = [ret EXCEPT ![x] = "data"]
                 /\ got' = IF InCall(a, "recv")
                           THEN [got EXCEPT ![x] = Append(@, m)] ELSE got
                 /\ UNCHANGED usock
    /\ Return(a)
    /\ UNCHANGED <<connected, connects, sent>>

-----------------------------------------------------------------------------
(***************************************************************************)
(* close() of socket x, by the program or when it exits.  A process may    *)
(* then create its own socket again.                                       *)
(***************************************************************************)
Close(x) ==
    /\ Idle(Owner(x))
    /\ x \in connected \/ usock[x].fd_r # NULL
    /\ box' = ClosedBox(x, box)
    /\ usock' = [usock EXCEPT ![x] = NewSocket]
    /\ connected' = connected \ {x}
    /\ sent' = [sent EXCEPT ![x] = 0]
    /\ got' = [got EXCEPT ![x] = <<>>]
    /\ ret' = [ret EXCEPT ![x] = NULL]
    /\ UNCHANGED <<call, connects>>

-----------------------------------------------------------------------------
\* The program makes a call.
CallStep ==
    \/ \E a \in Process : Bind(a)
    \/ \E c \in Client, t \in Process : Connect(c, t)
    \/ \E s \in Server : Accept(s)
    \/ \E x \in Socket : Send(x) \/ Recv(x) \/ Close(x)

\* A poll of process a finds its mailslot ready.
Progress(a) ==
    \/ a \in Client /\ (RequestSent(a) \/ ReplyRead(a))
    \/ a \in Server /\ (RequestRead(a) \/ ReplySent(a))
    \/ DataSent(a)
    \/ Received(a)

Next == CallStep \/ \E a \in Process : Progress(a)

Spec == Init /\ [][Next]_vars

\* Windows runs every process, and a call polls until it succeeds.  Nothing is
\* assumed of the calls the programs make.
FairSpec == Spec /\ \A a \in Process : WF_vars(Progress(a))

-----------------------------------------------------------------------------
(***************************************************************************)
(* Properties.                                                             *)
(***************************************************************************)

\* Type invariant of the Unix domain stream sockets.
TypeOK ==
    /\ usock \in [Socket -> LSCK_SOCKET_UNIX]
    /\ connected \subseteq Socket
    /\ \A p \in Path : \A i \in DOMAIN box[p] : box[p][i] \in Msg
    /\ \A a \in Process : call[a] = NULL \/ call[a] \in Call
    /\ connects \in [Client -> 0 .. MaxConnect]
    /\ sent \in [Socket -> 0 .. MaxSend]
    /\ \A x \in Socket : \A i \in DOMAIN got[x] : got[x][i] \in Msg
    /\ ret \in [Socket -> {NULL, "data", "junk", "ECONNRESET", "failed"}]

\* A client that connect() has connected writes to a socket that accept()
\* opened for the very request it sent, and, as long as neither has closed,
\* that socket writes to it: late replies to earlier requests, and requests of
\* other clients, never complete a connect().
PeerAgreement ==
    \A c \in Client \cap connected :
        LET x == [at |-> usock[c].fd_w.at, secret |-> usock[c].secret]
        IN  usock[c].fd_w # NULL =>
                /\ usock[c].fd_w = Reply(x)
                /\ Open(x) => usock[x].fd_w = usock[c].fd_r

\* The data that recv() returns on a connection was sent on that connection by
\* the peer, each message at most once and in the order they were sent, even
\* though earlier connections used the same mailslot.
DataFromPeer ==
    \A x \in Socket : \A i \in DOMAIN got[x] :
        /\ got[x][i].secret = usock[x].secret
        /\ got[x][i].data.from # x
        /\ \A j \in 1 .. i - 1 : got[x][j].data.n < got[x][i].data.n

\* recv() reports ECONNRESET only when the peer on this connection has closed
\* it: the close of an earlier connection through the same mailslot does not
\* end the present one.
ResetIsReal ==
    \A x, y \in Socket :
        /\ ret[x] = "ECONNRESET"
        /\ x # y
        /\ usock[y].secret = usock[x].secret
        => ~Open(y)

\* c waits in connect() for the answer to the i-th message in the mailslot of
\* server s, and s waits in accept().
Waits(c, s, i) ==
    /\ InCall(s, "accept")
    /\ InCall(c, "await")
    /\ i \in DOMAIN box[Named(s)]
    /\ box[Named(s)][i] = OpenRequest(usock[c].secret, usock[c].fd_r)

\* A client whose request is the first in the mailslot of a server in accept()
\* comes back from connect(), connected or refused, unless that accept() fails:
\* neither polls for ever.  (Waits() is of requests that name the mailslot the
\* client reads; those of a client bound to a relative address do not.)
FirstServed ==
    \A c \in Client, s \in Server :
        Waits(c, s, 1) ~> ~InCall(c, "await") \/ ret[s] = "failed"

\* accept() serves "the pending connection queue": so does every client whose
\* request is further back in it.
QueueServed ==
    \A c \in Client, s \in Server, i \in 1 .. Room :
        Waits(c, s, i) ~> ~InCall(c, "await") \/ ret[s] = "failed"

=============================================================================

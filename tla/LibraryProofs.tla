--------------------------- MODULE LibraryProofs ---------------------------
(***************************************************************************)
(* Proofs about the socket layer, for every set of file descriptors, every *)
(* size of the table and every set of interfaces; and about what a program *)
(* is told of its host, for every registry, configuration file, resolv.conf*)
(* and environment that a program may start with.                          *)
(***************************************************************************)
EXTENDS SocketLayer, HostInfo, Iterations, FiniteSetTheorems, SequenceTheorems

-----------------------------------------------------------------------------
(***************************************************************************)
(* What every call of the socket layer preserves in the descriptor it is   *)
(* made on, for every descriptor and every answer of the interface.        *)
(***************************************************************************)

\* t is the same socket as s: a call may only change the status bits.
Keeps(s, t) ==
    /\ t \in LSCK_SOCKET
    /\ t.fd = s.fd
    /\ t.type = s.type
    /\ t.iface = s.iface
    /\ t.idata = s.idata

\* Setting bits changes the bits only, and sets exactly those.
LEMMA SetKeeps ==
    ASSUME NEW s \in LSCK_SOCKET, NEW F \in SUBSET Flag
    PROVE  Keeps(s, Set(s, F)) /\ Set(s, F).flags = s.flags \cup F
  BY DEF Keeps, Set, LSCK_SOCKET

\* Clearing bits changes the bits only, and clears exactly those.
LEMMA ClearKeeps ==
    ASSUME NEW s \in LSCK_SOCKET, NEW F \in SUBSET Flag
    PROVE  Keeps(s, Clear(s, F)) /\ Clear(s, F).flags = s.flags \ F
  BY DEF Keeps, Clear, LSCK_SOCKET

\* Being the same socket is transitive.
LEMMA KeepsTrans ==
    ASSUME NEW s, NEW t, NEW u, Keeps(s, t), Keeps(t, u)
    PROVE  Keeps(s, u)
  BY DEF Keeps

\* The check for a completed connect keeps the socket.
LEMMA CheckKeeps ==
    ASSUME NEW s \in LSCK_SOCKET, NEW t \in nonblocking_check(s)
    PROVE  Keeps(s, t)
<1>1. Keeps(s, s)
  BY DEF Keeps
<1>2. Keeps(s, Set(Clear(s, {"connecting"}), {"connected"}))
  <2>1. Keeps(s, Clear(s, {"connecting"}))
    BY ClearKeeps DEF Flag
  <2>2. Clear(s, {"connecting"}) \in LSCK_SOCKET
    BY <2>1 DEF Keeps
  <2>3. Keeps(Clear(s, {"connecting"}),
              Set(Clear(s, {"connecting"}), {"connected"}))
    BY <2>2, SetKeeps DEF Flag
  <2> QED BY <2>1, <2>3, KeepsTrans
<1> QED BY <1>1, <1>2 DEF nonblocking_check

\* Switching the mode of the socket back and forth keeps it.
LEMMA FlipKeeps ==
    ASSUME NEW s \in LSCK_SOCKET, NEW t \in flip_mode(s)
    PROVE  Keeps(s, t)
<1>1. Keeps(s, s)
  BY DEF Keeps
<1>2. Keeps(s, Clear(s, {"blocking"})) /\ Keeps(s, Set(s, {"blocking"}))
  BY SetKeeps, ClearKeeps DEF Flag
<1> QED BY <1>1, <1>2 DEF flip_mode

-----------------------------------------------------------------------------
\* What no call may do to a descriptor: make it another socket, spoil the
\* coherence of its status bits or end its connection.
Preserves(s, t) ==
    /\ Keeps(s, t)
    /\ Coherent(s) => Coherent(t)
    /\ Has(s, "connected") => Has(t, "connected")

\* Doing nothing preserves everything.
LEMMA StutterPreserves ==
    ASSUME NEW s \in LSCK_SOCKET
    PROVE  Preserves(s, s)
  BY DEF Preserves, Keeps

\* A call after the check preserves what both preserve.
LEMMA PreservesTrans ==
    ASSUME NEW s, NEW t, NEW u, Preserves(s, t), Preserves(t, u)
    PROVE  Preserves(s, u)
  BY DEF Preserves, Keeps

\* The check turns a pending connect of a stream socket into a connection.
LEMMA CheckPreserves ==
    ASSUME NEW s \in LSCK_SOCKET, NEW t \in nonblocking_check(s)
    PROVE  Preserves(s, t)
<1>1. CASE t = s
  BY <1>1, StutterPreserves
<1>2. CASE t # s
  <2> DEFINE u == Clear(s, {"connecting"})
  <2>1. Keeps(s, t) /\ Has(s, "connecting")
    BY <1>2, CheckKeeps DEF nonblocking_check
  <2>2. u \in LSCK_SOCKET /\ u.flags = s.flags \ {"connecting"}
    BY ClearKeeps DEF Flag, Keeps
  <2>3. t = Set(u, {"connected"})
    BY <1>2 DEF nonblocking_check
  <2>4. t.flags = (s.flags \ {"connecting"}) \cup {"connected"}
    BY <2>2, <2>3, SetKeeps DEF Flag
  <2>5. Has(t, "connected")
    BY <2>4 DEF Has
  <2>6. Coherent(s) => Coherent(t)
    BY <2>1, <2>4 DEF Coherent, ListenCoherent, ConnectCoherent, ShutCoherent,
       ModeCoherent, Has, Keeps, LSCK_SOCKET, Iface, SocketType
  <2> QED BY <2>1, <2>5, <2>6 DEF Preserves
<1> QED BY <1>1, <1>2

\* bind() names an unbound socket, or leaves it unnamed.
LEMMA BindPreserves ==
    ASSUME NEW s \in LSCK_SOCKET, NEW t \in bind(s)
    PROVE  Preserves(s, t)
<1>1. CASE t = s
  BY <1>1, StutterPreserves
<1>2. CASE t = Set(s, {"bound", "sockname"})
  <2>1. Keeps(s, t) /\ t.flags = s.flags \cup {"bound", "sockname"}
    BY <1>2, SetKeeps DEF Flag
  <2> QED BY <2>1 DEF Preserves, Coherent, ListenCoherent, ConnectCoherent,
             ShutCoherent, ModeCoherent, Has, Keeps
<1>3. CASE ~Has(s, "bound") /\ t = Clear(s, {"bound", "sockname"})
  <2>1. Keeps(s, t) /\ t.flags = s.flags \ {"bound", "sockname"}
    BY <1>3, ClearKeeps DEF Flag
  <2> QED BY <1>3, <2>1 DEF Preserves, Coherent, ListenCoherent,
             ConnectCoherent, ShutCoherent, ModeCoherent, Has, Keeps
<1> QED BY <1>1, <1>2, <1>3 DEF bind

\* Changing the blocking mode of a VxD socket, for good or for one call.
LEMMA ModePreserves ==
    ASSUME NEW s \in LSCK_SOCKET,
           NEW t \in {s, Set(s, {"blocking"}), Clear(s, {"blocking"})},
           s.iface # "unix" \/ t = s
    PROVE  Preserves(s, t)
<1>1. CASE t = s
  BY <1>1, StutterPreserves
<1>2. CASE t = Set(s, {"blocking"})
  <2>1. Keeps(s, t) /\ t.flags = s.flags \cup {"blocking"}
    BY <1>2, SetKeeps DEF Flag
  <2> QED BY <2>1 DEF Preserves, Coherent, ListenCoherent, ConnectCoherent,
             ShutCoherent, ModeCoherent, Has, Keeps
<1>3. CASE t = Clear(s, {"blocking"}) /\ s.iface # "unix"
  <2>1. Keeps(s, t) /\ t.flags = s.flags \ {"blocking"}
    BY <1>3, ClearKeeps DEF Flag
  <2> QED BY <1>3, <2>1 DEF Preserves, Coherent, ListenCoherent,
             ConnectCoherent, ShutCoherent, ModeCoherent, Has, Keeps
<1> QED BY <1>1, <1>2, <1>3

\* ioctl(FIONBIO) and fcntl(F_SETFL).
LEMMA FionbioPreserves ==
    ASSUME NEW s \in LSCK_SOCKET, NEW nonblocking \in BOOLEAN,
           NEW t \in iface_fionbio(s, nonblocking)
    PROVE  Preserves(s, t)
  BY ModePreserves DEF iface_fionbio

\* The mode of a VxD socket after a call that switched it back and forth.
LEMMA FlipPreserves ==
    ASSUME NEW s \in LSCK_SOCKET, s.iface # "unix", NEW t \in flip_mode(s)
    PROVE  Preserves(s, t)
  BY ModePreserves DEF flip_mode

\* recvfrom() and the listening side of accept() only touch the mode.
LEMMA RecvfromPreserves ==
    ASSUME NEW s \in LSCK_SOCKET, NEW t \in recvfrom(s)
    PROVE  Preserves(s, t)
<1>1. CASE s.iface = "csock"
  BY <1>1, FlipPreserves, StutterPreserves DEF recvfrom
<1>2. CASE s.iface # "csock"
  BY <1>2, StutterPreserves DEF recvfrom
<1> QED BY <1>1, <1>2

LEMMA ListenerPreserves ==
    ASSUME NEW s \in LSCK_SOCKET, NEW t \in iface_accept_listener(s)
    PROVE  Preserves(s, t)
<1>1. CASE s.iface = "csock"
  BY <1>1, FlipPreserves, StutterPreserves DEF iface_accept_listener
<1>2. CASE s.iface # "csock"
  BY <1>2, StutterPreserves DEF iface_accept_listener
<1> QED BY <1>1, <1>2

\* listen() on a bound stream socket.
LEMMA ListenPreserves ==
    ASSUME NEW s \in LSCK_SOCKET, NEW t \in listen(s)
    PROVE  Preserves(s, t)
<1>1. CASE t = s
  BY <1>1, StutterPreserves
<1>2. CASE t = Set(s, {"listening"}) /\ s.type = "stream" /\ Has(s, "bound")
  <2>1. Keeps(s, t) /\ t.flags = s.flags \cup {"listening"}
    BY <1>2, SetKeeps DEF Flag
  <2> QED BY <1>2, <2>1 DEF Preserves, Coherent, ListenCoherent,
             ConnectCoherent, ShutCoherent, ModeCoherent, Has, Keeps
<1> QED BY <1>1, <1>2 DEF listen

\* shutdown() of a connected socket.
LEMMA ShutdownPreserves ==
    ASSUME NEW s \in LSCK_SOCKET,
           NEW how \in {SHUT_RD, SHUT_WR, SHUT_RDWR},
           NEW t \in shutdown(s, how)
    PROVE  Preserves(s, t)
<1>1. CASE t = s
  BY <1>1, StutterPreserves
<1>2. CASE t = Clear(s, how) /\ Has(s, "connected")
  <2>1. how \subseteq {"inbound", "outbound"}
    BY DEF SHUT_RD, SHUT_WR, SHUT_RDWR
  <2>2. Keeps(s, t) /\ t.flags = s.flags \ how
    BY <1>2, <2>1, ClearKeeps DEF Flag
  <2> QED BY <1>2, <2>1, <2>2 DEF Preserves, Coherent, ListenCoherent,
             ConnectCoherent, ShutCoherent, ModeCoherent, Has, Keeps
<1> QED BY <1>1, <1>2 DEF shutdown

\* sendto() may bind a datagram socket on the way.
LEMMA SendtoPreserves ==
    ASSUME NEW s \in LSCK_SOCKET, NEW t \in sendto(s)
    PROVE  Preserves(s, t)
<1>1. CASE t \in {s, Set(s, {"bound", "sockname"})}
  <2>1. CASE Has(s, "bound") /\ t = s
    BY <2>1, StutterPreserves
  <2>2. CASE ~Has(s, "bound")
    BY <1>1, <2>2, BindPreserves DEF bind
  <2> QED BY <1>1, <2>1, <2>2, StutterPreserves DEF sendto
<1>2. CASE t = Clear(s, {"bound", "sockname"}) /\ ~Has(s, "bound")
  BY <1>2, BindPreserves DEF bind
<1> QED BY <1>1, <1>2 DEF sendto

-----------------------------------------------------------------------------
(***************************************************************************)
(* connect().                                                              *)
(***************************************************************************)

\* Whatever interface->connect() answers, it has not spoilt the descriptor; a
\* unix socket it connected is bound, and only wsock leaves connects pending.
LEMMA AnswerPreserves ==
    ASSUME NEW s \in LSCK_SOCKET, NEW a \in iface_connect(s)
    PROVE  /\ a[1] \in {"ok", "failed", "wouldblock"}
           /\ Preserves(s, a[2])
           /\ a[1] = "wouldblock" => s.iface = "wsock"
           /\ a[1] = "ok" /\ s.iface = "unix" => Has(a[2], "bound")
           /\ ~Has(s, "connected") => ~Has(a[2], "connected")
<1>1. CASE s.iface = "wsock" /\ Has(s, "blocking")
  <2>1. a[1] \in {"ok", "failed"} /\ a[2] \in flip_mode(s)
    BY <1>1 DEF iface_connect
  <2>2. a[2] \in {s, Clear(s, {"blocking"})}
    BY <1>1, <2>1 DEF flip_mode
  <2>3. Clear(s, {"blocking"}).flags = s.flags \ {"blocking"}
    BY ClearKeeps DEF Flag
  <2> QED BY <1>1, <2>1, <2>2, <2>3, ModePreserves DEF Has
<1>2. CASE s.iface = "wsock" /\ ~Has(s, "blocking")
  <2>1. a[1] \in {"ok", "failed", "wouldblock"} /\ a[2] = s
    BY <1>2 DEF iface_connect
  <2> QED BY <1>2, <2>1, StutterPreserves
<1>3. CASE s.iface = "csock"
  <2>1. a[1] \in {"ok", "failed"} /\ a[2] = s
    BY <1>3 DEF iface_connect
  <2> QED BY <1>3, <2>1, StutterPreserves
<1>4. CASE s.iface = "unix"
  <2> DEFINE u == Set(s, {"bound", "sockname"})
  <2>1. \/ a[1] = "failed" /\ a[2] = s
        \/ a[1] = "ok" /\ a[2] = u
    BY <1>4 DEF iface_connect
  <2>2. Keeps(s, u) /\ u.flags = s.flags \cup {"bound", "sockname"}
    BY SetKeeps DEF Flag
  <2>3. Preserves(s, u)
    BY <2>2 DEF Preserves, Coherent, ListenCoherent, ConnectCoherent,
       ShutCoherent, ModeCoherent, Has, Keeps
  <2> HIDE DEF u
  <2> QED BY <2>1, <2>2, <2>3, StutterPreserves DEF Has
<1> QED BY <1>1, <1>2, <1>3, <1>4 DEF LSCK_SOCKET, Iface

\* What connect() stores after the interface's answer, on a stream socket that
\* was not connected.
LEMMA ResultPreserves ==
    ASSUME NEW u \in LSCK_SOCKET, NEW answer \in {"ok", "failed", "wouldblock"},
           u.type = "stream",
           ~Has(u, "connected"),
           answer = "wouldblock" => u.iface = "wsock",
           answer = "ok" /\ u.iface = "unix" => Has(u, "bound")
    PROVE  Preserves(u, connect_result(answer, u))
<1> DEFINE t == connect_result(answer, u)
<1>1. CASE answer = "ok"
  <2> DEFINE v == Set(u, {"connected", "sockname", "peername"})
  <2>1. /\ v \in LSCK_SOCKET /\ Keeps(u, v)
        /\ v.flags = u.flags \cup {"connected", "sockname", "peername"}
    BY SetKeeps DEF Flag, Keeps
  <2>2. t = Clear(v, {"connecting"})
    BY <1>1 DEF connect_result
  <2>3. Keeps(v, t) /\ t.flags = v.flags \ {"connecting"}
    BY <2>1, <2>2, ClearKeeps DEF Flag
  <2> HIDE DEF t, v
  <2>4. Keeps(u, t)
    BY <2>1, <2>3, KeepsTrans
  <2>5. t.flags = (u.flags \cup {"connected", "sockname", "peername"})
                      \ {"connecting"}
    BY <2>1, <2>3
  <2>6. Preserves(u, t)
    BY <1>1, <2>4, <2>5 DEF Preserves, Coherent, ListenCoherent,
       ConnectCoherent, ShutCoherent, ModeCoherent, Has, Keeps
  <2> QED BY <2>6 DEF t
<1>2. CASE answer = "wouldblock"
  <2> DEFINE v == Set(u, {"connecting", "peername"})
  <2>1. /\ v \in LSCK_SOCKET /\ Keeps(u, v)
        /\ v.flags = u.flags \cup {"connecting", "peername"}
    BY SetKeeps DEF Flag, Keeps
  <2>2. t = Clear(v, {"connected"})
    BY <1>2 DEF connect_result
  <2>3. Keeps(v, t) /\ t.flags = v.flags \ {"connected"}
    BY <2>1, <2>2, ClearKeeps DEF Flag
  <2> HIDE DEF t, v
  <2>4. Keeps(u, t)
    BY <2>1, <2>3, KeepsTrans
  <2>5. t.flags = (u.flags \cup {"connecting", "peername"}) \ {"connected"}
    BY <2>1, <2>3
  <2>6. Preserves(u, t)
    BY <1>2, <2>4, <2>5 DEF Preserves, Coherent, ListenCoherent,
       ConnectCoherent, ShutCoherent, ModeCoherent, Has, Keeps
  <2> QED BY <2>6 DEF t
<1>3. CASE answer = "failed"
  <2>1. t = Clear(u, {"connected", "sockname", "peername"})
    BY <1>3 DEF connect_result
  <2>2. /\ Keeps(u, t)
        /\ t.flags = u.flags \ {"connected", "sockname", "peername"}
    BY <2>1, ClearKeeps DEF Flag
  <2> HIDE DEF t
  <2>3. Preserves(u, t)
    BY <2>2 DEF Preserves, Coherent, ListenCoherent,
       ConnectCoherent, ShutCoherent, ModeCoherent, Has, Keeps
  <2> QED BY <2>3 DEF t
<1> QED BY <1>1, <1>2, <1>3

\* connect() as a whole: a refused call, a datagram socket's peer name, or a
\* stream socket's attempt.
LEMMA ConnectPreserves ==
    ASSUME NEW s \in LSCK_SOCKET, NEW t \in connect(s)
    PROVE  Preserves(s, t)
<1>1. CASE t = s
  BY <1>1, StutterPreserves
<1>2. CASE /\ s.type = "dgram"
           /\ t \in {Set(s, {"peername"}), Clear(s, {"peername"})}
  <2>1. /\ Keeps(s, t)
        /\ \/ t.flags = s.flags \cup {"peername"}
           \/ t.flags = s.flags \ {"peername"}
    BY <1>2, SetKeeps, ClearKeeps DEF Flag
  <2> QED BY <1>2, <2>1 DEF Preserves, Coherent, ListenCoherent,
             ConnectCoherent, ShutCoherent, ModeCoherent, Has, Keeps
<1>3. CASE /\ ~connect_refused(s)
           /\ s.type = "stream"
           /\ \E a \in iface_connect(s) : t = connect_result(a[1], a[2])
  <2>1. PICK a \in iface_connect(s) : t = connect_result(a[1], a[2])
    BY <1>3
  <2>2. ~Has(s, "connected")
    BY <1>3 DEF connect_refused
  <2>3. /\ a[1] \in {"ok", "failed", "wouldblock"}
        /\ Preserves(s, a[2])
        /\ a[1] = "wouldblock" => s.iface = "wsock"
        /\ a[1] = "ok" /\ s.iface = "unix" => Has(a[2], "bound")
        /\ ~Has(a[2], "connected")
    BY <2>2, AnswerPreserves
  <2>4. a[2] \in LSCK_SOCKET /\ a[2].type = s.type /\ a[2].iface = s.iface
    BY <2>3 DEF Preserves, Keeps
  <2>5. Preserves(a[2], t)
    BY <1>3, <2>1, <2>3, <2>4, ResultPreserves
  <2> QED BY <2>3, <2>5, PreservesTrans
<1>4. s.type \in {"dgram", "stream"}
  BY DEF LSCK_SOCKET, SocketType
<1> QED BY <1>1, <1>2, <1>3, <1>4 DEF connect

-----------------------------------------------------------------------------
(***************************************************************************)
(* New sockets.                                                            *)
(***************************************************************************)

\* What __socketx() stores is a coherent descriptor.
LEMMA NewSocketCoherent ==
    ASSUME NEW f \in Fd, NEW type \in SocketType, NEW n \in Iface,
           NEW d \in Idata
    PROVE  /\ NewSocket(f, type, n, d) \in LSCK_SOCKET
           /\ NewSocket(f, type, n, d).fd = f
           /\ NewSocket(f, type, n, d).idata = d
           /\ NewSocket(f, type, n, d).iface = n
           /\ Coherent(NewSocket(f, type, n, d))
  BY DEF NewSocket, LSCK_SOCKET, Flag, Coherent, ListenCoherent,
     ConnectCoherent, ShutCoherent, ModeCoherent, Has

\* The descriptor of a new connection is as coherent as the listening one it
\* is copied from.
LEMMA AcceptedCoherent ==
    ASSUME NEW s \in LSCK_SOCKET, accept_allowed(s), NEW f \in Fd,
           NEW d \in Idata \cup {NULL}
    PROVE  /\ AcceptedSocket(s, f, d) \in LSCK_SOCKET
           /\ AcceptedSocket(s, f, d).fd = f
           /\ AcceptedSocket(s, f, d).idata = d
           /\ AcceptedSocket(s, f, d).iface = s.iface
           /\ Coherent(s) => Coherent(AcceptedSocket(s, f, d))
<1> DEFINE u == Set(s, {"accepted", "connected", "peername"})
           v == Clear(u, {"listening"})
           t == AcceptedSocket(s, f, d)
<1>1. /\ u \in LSCK_SOCKET /\ Keeps(s, u)
      /\ u.flags = s.flags \cup {"accepted", "connected", "peername"}
  BY SetKeeps DEF Flag, Keeps
<1>2. /\ v \in LSCK_SOCKET /\ Keeps(u, v)
      /\ v.flags = u.flags \ {"listening"}
  BY <1>1, ClearKeeps DEF Flag, Keeps
<1>3. t = [v EXCEPT !.fd = f, !.idata = d]
  BY DEF AcceptedSocket
<1> HIDE DEF u, v, t
<1>4. /\ t \in LSCK_SOCKET /\ t.fd = f /\ t.idata = d
      /\ t.iface = v.iface /\ t.type = v.type /\ t.flags = v.flags
  BY <1>2, <1>3 DEF LSCK_SOCKET
<1>5. t.iface = s.iface /\ t.type = s.type
  BY <1>1, <1>2, <1>4 DEF Keeps
<1>6. t.flags = (s.flags \cup {"accepted", "connected", "peername"})
                    \ {"listening"}
  BY <1>1, <1>2, <1>4
<1>7. Coherent(s) => Coherent(t)
  BY <1>5, <1>6 DEF accept_allowed, Coherent, ListenCoherent,
     ConnectCoherent, ShutCoherent, ModeCoherent, Has
<1> QED BY <1>4, <1>5, <1>7 DEF t

\* Joining the ends of a pair keeps them coherent.
LEMMA PairedPreserves ==
    ASSUME NEW s \in LSCK_SOCKET
    PROVE  Preserves(s, PairedSocket(s))
<1> DEFINE F == {"bound", "sockname", "peername"}
                  \cup IF s.type = "stream" THEN {"connected"} ELSE {}
<1>1. F \in SUBSET Flag
  BY DEF Flag
<1>2. /\ Keeps(s, PairedSocket(s))
      /\ PairedSocket(s).flags = s.flags \cup F
  BY <1>1, SetKeeps DEF PairedSocket
<1>3. s.type \in {"stream", "dgram"}
  BY DEF LSCK_SOCKET, SocketType
<1> QED BY <1>2, <1>3 DEF Preserves, Coherent, ListenCoherent,
           ConnectCoherent, ShutCoherent, ModeCoherent, Has, Keeps

-----------------------------------------------------------------------------
(***************************************************************************)
(* The inductive invariant.  TypeOK needs the ownership of descriptors: a  *)
(* call follows data[f], which must not be NULL.  Ownership needs to know  *)
(* that the descriptors socketpair() is going to join or close are open.   *)
(***************************************************************************)
DataOK ==
    /\ handler \subseteq Fd
    /\ data \in [Fd -> Lsd \cup {NULL}]
    /\ table \in [Slot -> Lsd \cup {NULL}]
    /\ heap \subseteq Lsd
    /\ sk \in [Lsd -> LSCK_SOCKET]
    /\ idheap \subseteq Idata

Own == FdOwned /\ LsdOwned /\ TableExact

ControlOK == ret \in Ret /\ pair \in Pair /\ running \in BOOLEAN

PairOK ==
    /\ pair.at = "idle" => pair.fds = {}
    /\ pair.at # "idle" => running
    /\ running => pair.fds \subseteq handler

IInv ==
    /\ DataOK
    /\ ControlOK
    /\ running => Own
    /\ PairOK
    /\ StateCoherent

\* Memory that no socket uses has the type of a descriptor.
LEMMA ZeroedType == Zeroed \in LSCK_SOCKET
  BY DEF Zeroed, LSCK_SOCKET, SocketType, Iface, Flag

-----------------------------------------------------------------------------
(***************************************************************************)
(* The four ways in which a step changes the tables.                       *)
(***************************************************************************)

\* A call on an open socket, which keeps its file descriptor.
LEMMA UpdateOwned ==
    ASSUME DataOK, Own, NEW f \in handler, NEW t,
           Keeps(sk[data[f]], t),
           sk' = [sk EXCEPT ![data[f]] = t],
           NoNewSocket, idheap' \subseteq Idata
    PROVE  DataOK' /\ Own'
<1>1. data[f] \in heap /\ data[f] \in Lsd
  BY DEF DataOK, Own, FdOwned
<1>2. sk' \in [Lsd -> LSCK_SOCKET]
  BY <1>1 DEF DataOK, Keeps
<1>3. \A l \in Lsd : sk'[l].fd = sk[l].fd
  BY <1>1 DEF DataOK, Keeps
<1>4. DataOK'
  BY <1>2 DEF DataOK, NoNewSocket
<1>5. FdOwned'
  BY <1>3 DEF Own, FdOwned, NoNewSocket, DataOK
<1>6. LsdOwned'
  BY <1>3 DEF Own, LsdOwned, NoNewSocket, DataOK
<1>7. TableExact'
  BY DEF Own, TableExact, NoNewSocket
<1> QED BY <1>4, <1>5, <1>6, <1>7 DEF Own

\* A new socket on a free file descriptor, in the first free slot.
LEMMA InstallOwned ==
    ASSUME DataOK, Own, NEW l \in Lsd \ heap, NEW s \in LSCK_SOCKET,
           s.fd \in FreeFd,
           Install(l, s),
           sk' \in [Lsd -> LSCK_SOCKET],
           sk'[l] = s,
           \A m \in heap : sk'[m].fd = sk[m].fd,
           idheap' \subseteq Idata
    PROVE  DataOK' /\ Own'
<1>1. s.fd \in Fd /\ s.fd \notin handler /\ l \in Lsd /\ l # NULL
  BY LayerAssumption DEF FreeFd
<1>2. PICK i \in Slot : FirstFree(i) /\ table' = [table EXCEPT ![i] = l]
  BY DEF Install
<1>3. DataOK'
  BY <1>1, <1>2 DEF DataOK, Install
<1>4. FdOwned'
  BY <1>1 DEF Own, FdOwned, Install, DataOK
<1>5. LsdOwned'
  BY <1>1 DEF Own, LsdOwned, Install, DataOK
<1>6. TableExact'
  <2>1. table[i] = NULL /\ table \in [Slot -> Lsd \cup {NULL}]
    BY <1>2 DEF FirstFree, DataOK
  <2>2. \A j \in Slot : table'[j] = IF j = i THEN l ELSE table[j]
    BY <1>2, <2>1
  <2>3. heap' = heap \cup {l}
    BY DEF Install
  <2>4. \A j \in Slot : table[j] # l
    BY <1>1 DEF Own, TableExact
  <2>5. \A j \in Slot : table'[j] # NULL => table'[j] \in heap'
    BY <2>2, <2>3 DEF Own, TableExact
  <2>6. \A j, k \in Slot : table'[j] = table'[k] /\ table'[j] # NULL => j = k
    BY <2>2, <2>4 DEF Own, TableExact
  <2>7. \A m \in heap' : \E j \in Slot : table'[j] = m
    <3>1. table'[i] = l
      BY <2>2
    <3>2. ASSUME NEW m \in heap PROVE \E j \in Slot : table'[j] = m
      <4>1. PICK j \in Slot : table[j] = m
        BY DEF Own, TableExact
      <4>2. j # i
        BY <4>1, <2>1, LayerAssumption DEF DataOK
      <4> QED BY <4>1, <4>2, <2>2
    <3> QED BY <2>3, <3>1, <3>2
  <2> QED BY <2>5, <2>6, <2>7 DEF TableExact, Slot
<1> QED BY <1>3, <1>4, <1>5, <1>6 DEF Own

\* close() of an open socket.
LEMMA CloseOwned ==
    ASSUME DataOK, Own, NEW f \in handler, CloseFd(f)
    PROVE  /\ DataOK' /\ Own'
           /\ handler' = handler \ {f}
           /\ heap' = heap \ {data[f]}
           /\ \A m \in heap' : sk'[m] = sk[m]
<1> DEFINE l == data[f]
<1>1. l \in heap /\ l \in Lsd /\ l # NULL /\ sk[l].fd = f /\ f \in Fd
  BY LayerAssumption DEF DataOK, Own, FdOwned
<1>2. /\ handler' = handler \ {f}
      /\ data' = [data EXCEPT ![f] = NULL]
      /\ table' = [i \in Slot |-> IF table[i] = l THEN NULL ELSE table[i]]
      /\ heap' = heap \ {l}
      /\ sk' = [sk EXCEPT ![l] = Zeroed]
      /\ idheap' = idheap \ {sk[l].idata}
  BY DEF CloseFd, Release, Unlist
<1>3. DataOK'
  BY <1>1, <1>2, ZeroedType DEF DataOK
<1>4. \A m \in heap' : sk'[m] = sk[m]
  BY <1>1, <1>2 DEF DataOK
<1>5. FdOwned'
  <2>1. \A g \in Fd \ {f} : data'[g] = data[g]
    BY <1>2 DEF DataOK
  <2>2. \A g \in handler \ {f} : data[g] # l
    BY <1>1 DEF Own, FdOwned, DataOK
  <2>3. data'[f] = NULL
    BY <1>1, <1>2 DEF DataOK
  <2>4. ASSUME NEW g \in handler' PROVE data'[g] \in heap' /\ sk'[data'[g]].fd = g
    BY <1>2, <1>4, <2>1, <2>2 DEF Own, FdOwned, DataOK
  <2>5. ASSUME NEW g \in Fd \ handler' PROVE data'[g] = NULL
    BY <1>2, <2>1, <2>3 DEF Own, FdOwned
  <2> QED BY <2>4, <2>5 DEF FdOwned
<1>6. LsdOwned'
  <2>1. ASSUME NEW m \in heap' PROVE sk'[m].fd \in handler' /\ data'[sk'[m].fd] = m
    <3>1. m \in heap /\ m # l /\ sk'[m] = sk[m]
      BY <1>2, <1>4
    <3>2. sk[m].fd \in handler /\ data[sk[m].fd] = m
      BY <3>1 DEF Own, LsdOwned
    <3>3. sk[m].fd # f
      BY <3>1, <3>2
    <3> QED BY <1>2, <3>1, <3>2, <3>3 DEF DataOK
  <2> QED BY <2>1 DEF LsdOwned
<1>7. TableExact'
  <2>1. \A j \in Slot : table'[j] = IF table[j] = l THEN NULL ELSE table[j]
    BY <1>2
  <2>2. \A j \in Slot : table'[j] # NULL => table'[j] \in heap'
    BY <1>2, <2>1 DEF Own, TableExact
  <2>3. \A j, k \in Slot : table'[j] = table'[k] /\ table'[j] # NULL => j = k
    BY <2>1 DEF Own, TableExact
  <2>4. \A m \in heap' : \E j \in Slot : table'[j] = m
    BY <1>2, <2>1 DEF Own, TableExact
  <2> QED BY <2>2, <2>3, <2>4 DEF TableExact, Slot
<1> QED BY <1>2, <1>3, <1>4, <1>5, <1>6, <1>7 DEF Own

-----------------------------------------------------------------------------
(***************************************************************************)
(* Calls on an open socket.                                                *)
(***************************************************************************)

\* The file descriptor of an open socket leads to a descriptor.
LEMMA OpenSocket ==
    ASSUME IInv, running, NEW f \in handler
    PROVE  /\ data[f] \in heap /\ data[f] \in Lsd /\ f \in Fd
           /\ sk[data[f]] \in LSCK_SOCKET /\ Coherent(sk[data[f]])
           /\ sk[data[f]].fd = f
  BY DEF IInv, DataOK, Own, FdOwned, StateCoherent

\* What a call finds after the check is preserved.
LEMMA CheckedPreserves ==
    ASSUME IInv, running, NEW f \in handler, NEW s \in Checked(f)
    PROVE  s \in LSCK_SOCKET /\ Preserves(sk[data[f]], s)
<1>1. Preserves(sk[data[f]], s)
  BY OpenSocket, CheckPreserves DEF Checked
<1> QED BY <1>1 DEF Preserves, Keeps

\* Storing t in f's descriptor keeps the sockets, their coherence and their
\* connections.
LEMMA UpdateInv ==
    ASSUME IInv, running, NEW f \in handler, NEW t,
           Preserves(sk[data[f]], t),
           sk' = [sk EXCEPT ![data[f]] = t],
           NoNewSocket, idheap' \subseteq Idata
    PROVE  DataOK' /\ Own' /\ StateCoherent' /\ StaysConnected
<1>1. Keeps(sk[data[f]], t)
  BY DEF Preserves
<1>2. DataOK' /\ Own'
  BY <1>1, UpdateOwned DEF IInv
<1>3. data[f] \in Lsd /\ Coherent(sk[data[f]])
  BY OpenSocket
<1>4. \A l \in Lsd : sk'[l] = IF l = data[f] THEN t ELSE sk[l]
  BY <1>3 DEF IInv, DataOK
<1>5. heap' = heap /\ heap \subseteq Lsd
  BY DEF NoNewSocket, IInv, DataOK
<1>6. StateCoherent'
  <2>1. Coherent(t)
    BY <1>3 DEF Preserves
  <2>2. ASSUME NEW l \in heap PROVE Coherent(sk'[l])
    <3>1. CASE l = data[f]
      BY <2>1, <3>1, <1>4, <1>5
    <3>2. CASE l # data[f]
      <4>1. sk'[l] = sk[l] /\ Coherent(sk[l])
        BY <3>2, <1>4, <1>5 DEF IInv, StateCoherent
      <4> QED BY <4>1
    <3> QED BY <3>1, <3>2
  <2> QED BY <2>2, <1>5 DEF StateCoherent
<1>7. StaysConnected
  BY <1>4, <1>5 DEF StaysConnected, Preserves
<1> QED BY <1>2, <1>6, <1>7

\* A call that returns.
LEMMA ReturnsInv ==
    ASSUME IInv, running, NEW f \in handler, NEW t,
           Preserves(sk[data[f]], t), Returns(f, t)
    PROVE  IInv' /\ StaysConnected
<1>1. DataOK' /\ Own' /\ StateCoherent' /\ StaysConnected
  BY UpdateInv DEF Returns, IInv, DataOK
<1>2. ControlOK'
  BY DEF Returns, IInv, ControlOK, Ret
<1>3. PairOK'
  BY DEF Returns, NoNewSocket, IInv, PairOK
<1> QED BY <1>1, <1>2, <1>3 DEF IInv

\* Every call on an open socket stores a descriptor that preserves the old one.
LEMMA CallReturns ==
    ASSUME IInv, running, NEW f \in handler, CallStep(f)
    PROVE  \E t : Preserves(sk[data[f]], t) /\ Returns(f, t)
<1>1. \E s \in Checked(f) : \E t : Preserves(s, t) /\ Returns(f, t)
  <2>1. CASE Bind(f)
    BY <2>1, CheckedPreserves, BindPreserves DEF Bind
  <2>2. CASE Connect(f)
    BY <2>2, CheckedPreserves, ConnectPreserves DEF Connect
  <2>3. CASE Listen(f)
    BY <2>3, CheckedPreserves, ListenPreserves DEF Listen
  <2>4. CASE Shutdown(f)
    BY <2>4, CheckedPreserves, ShutdownPreserves DEF Shutdown
  <2>5. CASE SetMode(f)
    BY <2>5, CheckedPreserves, FionbioPreserves DEF SetMode
  <2>6. CASE Sendto(f)
    BY <2>6, CheckedPreserves, SendtoPreserves DEF Sendto
  <2>7. CASE Recvfrom(f)
    BY <2>7, CheckedPreserves, RecvfromPreserves DEF Recvfrom
  <2>8. CASE Query(f) \/ CloseFails(f)
    BY <2>8, CheckedPreserves, StutterPreserves DEF Query, CloseFails
  <2> QED BY <2>1, <2>2, <2>3, <2>4, <2>5, <2>6, <2>7, <2>8 DEF CallStep
<1>2. PICK s \in Checked(f) : \E t : Preserves(s, t) /\ Returns(f, t)
  BY <1>1
<1>3. PICK t : Preserves(s, t) /\ Returns(f, t)
  BY <1>2
<1>4. Preserves(sk[data[f]], t)
  BY <1>3, CheckedPreserves, PreservesTrans
<1> QED BY <1>3, <1>4

\* Every call on an open socket.
LEMMA CallInv ==
    ASSUME IInv, running, NEW f \in handler, CallStep(f)
    PROVE  IInv' /\ StaysConnected
  BY CallReturns, ReturnsInv

-----------------------------------------------------------------------------
(***************************************************************************)
(* socket(), accept(), close().                                            *)
(***************************************************************************)

\* A socket created on file descriptor f.
LEMMA CreateInv ==
    ASSUME IInv, running, NEW f \in Fd, NEW family \in Family,
           NEW type \in SocketType, Create(f, family, type)
    PROVE  /\ DataOK' /\ Own' /\ StateCoherent' /\ StaysConnected
           /\ handler' = handler \cup {f}
<1>1. PICK n \in Picks(family), l \in Lsd \ heap, d \in Idata \ idheap :
         LET s == NewSocket(f, type, n, d)
         IN  /\ Install(l, s)
             /\ sk' = [sk EXCEPT ![l] = s]
             /\ idheap' = idheap \cup {d}
  BY DEF Create
<1> DEFINE s == NewSocket(f, type, n, d)
<1>2. n \in Iface
  BY LayerAssumption DEF Picks, Offers
<1>3. s \in LSCK_SOCKET /\ s.fd = f /\ Coherent(s)
  BY <1>2, NewSocketCoherent
<1>4. Install(l, s) /\ sk' = [sk EXCEPT ![l] = s] /\ idheap' = idheap \cup {d}
  BY <1>1
<1> HIDE DEF s
<1>5. /\ sk' \in [Lsd -> LSCK_SOCKET] /\ sk'[l] = s
      /\ \A m \in heap : sk'[m] = sk[m]
  BY <1>3, <1>4 DEF IInv, DataOK
<1>6. f \in FreeFd /\ idheap' \subseteq Idata
  BY <1>4 DEF Create, IInv, DataOK
<1>7. DataOK' /\ Own'
  BY <1>3, <1>4, <1>5, <1>6, InstallOwned DEF IInv
<1>8. heap' = heap \cup {l} /\ handler' = handler \cup {f}
  BY <1>3, <1>4 DEF Install
<1>9. StateCoherent'
  BY <1>3, <1>5, <1>8 DEF IInv, StateCoherent
<1>10. StaysConnected
  BY <1>5 DEF StaysConnected
<1> QED BY <1>7, <1>8, <1>9, <1>10

\* A socket that could not be created.
LEMMA CreateFailsInv ==
    ASSUME IInv, running, NEW family, NEW e, CreateFails(family, e)
    PROVE  /\ DataOK' /\ Own' /\ StateCoherent' /\ StaysConnected
           /\ handler' = handler
<1>1. UNCHANGED <<handler, data, table, heap, sk>>
  BY DEF CreateFails, NoNewSocket
<1>2. idheap' \subseteq Idata
  BY DEF CreateFails, CreateRefused, IInv, DataOK
<1>3. DataOK' /\ StateCoherent' /\ StaysConnected
  BY <1>1, <1>2 DEF IInv, DataOK, StateCoherent, StaysConnected
<1>4. Own'
  BY <1>1 DEF IInv, Own, FdOwned, LsdOwned, TableExact
<1> QED BY <1>1, <1>3, <1>4

\* The two failures and the success of accept().
LEMMA AcceptInv ==
    ASSUME IInv, running, NEW f \in handler, AcceptStep(f)
    PROVE  IInv' /\ StaysConnected
<1>1. CASE AcceptFails(f)
  <2>1. PICK s \in Checked(f) :
           /\ \E e \in Ret : AcceptError(s, e) /\ ret' = e
           /\ sk' = [sk EXCEPT ![data[f]] = s]
    BY <1>1 DEF AcceptFails
  <2>2. NoNewSocket /\ UNCHANGED <<idheap, pair, running>>
    BY <1>1 DEF AcceptFails
  <2>3. DataOK' /\ Own' /\ StateCoherent' /\ StaysConnected
    BY <2>1, <2>2, CheckedPreserves, UpdateInv DEF IInv, DataOK
  <2>4. ControlOK' /\ PairOK'
    BY <2>1, <2>2 DEF IInv, ControlOK, PairOK, NoNewSocket
  <2> QED BY <2>3, <2>4 DEF IInv
<1>2. CASE AcceptRefused(f)
  <2>0. PICK s \in Checked(f) :
           \E t \in iface_accept_listener(s) : sk' = [sk EXCEPT ![data[f]] = t]
    BY <1>2 DEF AcceptRefused
  <2>1. PICK t \in iface_accept_listener(s) : sk' = [sk EXCEPT ![data[f]] = t]
    BY <2>0
  <2>2. /\ NoNewSocket /\ UNCHANGED <<pair, running>> /\ ret' = "EIFACE"
        /\ idheap' \subseteq Idata
    BY <1>2 DEF AcceptRefused, IInv, DataOK
  <2>3. Preserves(sk[data[f]], t)
    BY CheckedPreserves, ListenerPreserves, PreservesTrans
  <2>4. DataOK' /\ Own' /\ StateCoherent' /\ StaysConnected
    BY <2>1, <2>2, <2>3, UpdateInv
  <2>5. ControlOK' /\ PairOK'
    BY <2>2 DEF IInv, ControlOK, PairOK, NoNewSocket, Ret
  <2> QED BY <2>2, <2>4, <2>5 DEF IInv
<1>3. CASE Accept(f)
  <2>0. PICK s \in Checked(f) :
           /\ accept_allowed(s)
           /\ \E newfd \in FreeFd, l \in Lsd \ heap, d \in AcceptIdata(s),
                 t \in iface_accept_listener(s) :
                 LET nsd == AcceptedSocket(s, newfd, d)
                 IN  /\ Install(l, nsd)
                     /\ sk' = [sk EXCEPT ![data[f]] = t, ![l] = nsd]
                     /\ idheap' = idheap \cup ({d} \cap Idata)
    BY <1>3 DEF Accept
  <2>1. PICK newfd \in FreeFd, l \in Lsd \ heap,
             d \in AcceptIdata(s), t \in iface_accept_listener(s) :
           LET nsd == AcceptedSocket(s, newfd, d)
           IN  /\ Install(l, nsd)
               /\ sk' = [sk EXCEPT ![data[f]] = t, ![l] = nsd]
               /\ idheap' = idheap \cup ({d} \cap Idata)
    BY <2>0
  <2> DEFINE nsd == AcceptedSocket(s, newfd, d)
  <2>2. s \in LSCK_SOCKET /\ Preserves(sk[data[f]], s)
    BY CheckedPreserves
  <2>3. Preserves(sk[data[f]], t)
    BY <2>2, ListenerPreserves, PreservesTrans
  <2>4. data[f] \in heap /\ data[f] \in Lsd /\ Coherent(sk[data[f]])
    BY OpenSocket
  <2>5. d \in Idata \cup {NULL} /\ newfd \in Fd
    BY DEF AcceptIdata, FreeFd
  <2>6. nsd \in LSCK_SOCKET /\ nsd.fd = newfd /\ Coherent(nsd)
    BY <2>0, <2>2, <2>4, <2>5, AcceptedCoherent DEF Preserves
  <2>7. /\ Install(l, nsd) /\ idheap' = idheap \cup ({d} \cap Idata)
        /\ sk' = [sk EXCEPT ![data[f]] = t, ![l] = nsd]
    BY <2>1
  <2> HIDE DEF nsd
  <2>8. t \in LSCK_SOCKET /\ t.fd = sk[data[f]].fd /\ Coherent(t)
        /\ (Has(sk[data[f]], "connected") => Has(t, "connected"))
    BY <2>3, <2>4 DEF Preserves, Keeps
  <2>9. /\ sk' \in [Lsd -> LSCK_SOCKET] /\ sk'[l] = nsd
        /\ sk'[data[f]] = t
        /\ \A m \in heap \ {data[f]} : sk'[m] = sk[m]
    BY <2>4, <2>6, <2>7, <2>8 DEF IInv, DataOK
  <2>10. DataOK' /\ Own'
    <3>1. \A m \in heap : sk'[m].fd = sk[m].fd
      BY <2>8, <2>9
    <3>2. idheap' \subseteq Idata
      BY <2>7 DEF IInv, DataOK
    <3> QED BY <2>6, <2>7, <2>9, <3>1, <3>2, InstallOwned DEF IInv
  <2>11. heap' = heap \cup {l} /\ handler' = handler \cup {newfd}
    BY <2>6, <2>7 DEF Install
  <2>12. StateCoherent'
    BY <2>6, <2>8, <2>9, <2>11 DEF IInv, StateCoherent
  <2>13. StaysConnected
    BY <2>8, <2>9 DEF StaysConnected
  <2>14. ControlOK' /\ PairOK'
    BY <1>3, <2>11 DEF Accept, IInv, ControlOK, PairOK, Ret
  <2> QED BY <2>10, <2>12, <2>13, <2>14 DEF IInv
<1> QED BY <1>1, <1>2, <1>3 DEF AcceptStep

\* close(), whether the program or socketpair() calls it.
LEMMA CloseInv ==
    ASSUME IInv, running, NEW f \in handler, CloseFd(f)
    PROVE  /\ DataOK' /\ Own' /\ StateCoherent' /\ StaysConnected
           /\ handler' = handler \ {f}
<1>1. /\ DataOK' /\ Own'
      /\ handler' = handler \ {f}
      /\ heap' = heap \ {data[f]}
      /\ \A m \in heap' : sk'[m] = sk[m]
  BY CloseOwned DEF IInv
<1>2. StateCoherent' /\ StaysConnected
  BY <1>1 DEF IInv, StateCoherent, StaysConnected
<1> QED BY <1>1, <1>2

-----------------------------------------------------------------------------
(***************************************************************************)
(* socketpair() and the end of the program.                                *)
(***************************************************************************)

\* socket() and the first socket of a pair.
LEMMA CreateStepInv ==
    ASSUME IInv, Idle, CreateStep
    PROVE  IInv' /\ StaysConnected
<1> USE DEF Idle
<1>1. PICK family \in Family, type \in SocketType :
         \/ Socket(family, type)
         \/ SocketFails(family)
         \/ SocketpairFirst(family, type)
  BY DEF CreateStep
<1>2. CASE Socket(family, type)
  <2>1. PICK f \in Fd : Create(f, family, type)
    BY <1>2 DEF Socket
  <2>2. /\ DataOK' /\ Own' /\ StateCoherent' /\ StaysConnected
        /\ handler' = handler \cup {f}
    BY <2>1, CreateInv
  <2>3. ControlOK' /\ PairOK'
    BY <1>2, <2>2 DEF Socket, IInv, ControlOK, PairOK, Ret
  <2> QED BY <2>2, <2>3 DEF IInv
<1>3. CASE SocketFails(family)
  <2>1. PICK e \in Ret : CreateFails(family, e) /\ ret' = e
    BY <1>3 DEF SocketFails
  <2>2. /\ DataOK' /\ Own' /\ StateCoherent' /\ StaysConnected
        /\ handler' = handler
    BY <2>1, CreateFailsInv
  <2>3. ControlOK' /\ PairOK'
    BY <1>3, <2>1, <2>2 DEF SocketFails, IInv, ControlOK, PairOK
  <2> QED BY <2>2, <2>3 DEF IInv
<1>4. CASE SocketpairFirst(family, type)
  <2>1. CASE \E f \in Fd :
                /\ Create(f, family, type)
                /\ pair' = [at |-> "second", family |-> family,
                            type |-> type, fds |-> {f}]
    <3>1. PICK f \in Fd :
             /\ Create(f, family, type)
             /\ pair' = [at |-> "second", family |-> family, type |-> type,
                         fds |-> {f}]
      BY <2>1
    <3>2. /\ DataOK' /\ Own' /\ StateCoherent' /\ StaysConnected
          /\ handler' = handler \cup {f}
      BY <3>1, CreateInv
    <3>3. ControlOK' /\ PairOK'
      BY <1>4, <3>1, <3>2
         DEF SocketpairFirst, IInv, ControlOK, PairOK, Ret, Pair
    <3> QED BY <3>2, <3>3 DEF IInv
  <2>2. CASE \E e \in Ret :
                /\ CreateFails(family, e)
                /\ pair' = [at |-> "second", family |-> family,
                            type |-> type, fds |-> {}]
    <3>1. /\ DataOK' /\ Own' /\ StateCoherent' /\ StaysConnected
          /\ handler' = handler
      BY <2>2, CreateFailsInv
    <3>2. ControlOK' /\ PairOK'
      BY <1>4, <2>2, <3>1
         DEF SocketpairFirst, IInv, ControlOK, PairOK, Ret, Pair
    <3> QED BY <3>1, <3>2 DEF IInv
  <2> QED BY <1>4, <2>1, <2>2 DEF SocketpairFirst
<1> QED BY <1>1, <1>2, <1>3, <1>4

\* The later steps of socketpair().
LEMMA PairStepInv ==
    ASSUME IInv, PairStep
    PROVE  IInv' /\ StaysConnected
<1>1. pair.at # "idle" /\ running /\ pair \in Pair /\ pair.fds \subseteq handler
  BY DEF PairStep, SocketpairSecond, SocketpairJoin, SocketpairJoinFails,
     SocketpairUndo, IInv, PairOK, ControlOK
<1>2. CASE SocketpairSecond
  <2>1. CASE \E f \in Fd :
                /\ Create(f, pair.family, pair.type)
                /\ pair' = [pair EXCEPT
                       !.at = IF pair.fds = {} THEN "undo" ELSE "join",
                       !.fds = @ \cup {f}]
    <3>1. PICK f \in Fd :
             /\ Create(f, pair.family, pair.type)
             /\ pair' = [pair EXCEPT
                    !.at = IF pair.fds = {} THEN "undo" ELSE "join",
                    !.fds = @ \cup {f}]
      BY <2>1
    <3>2. pair.family \in Family /\ pair.type \in SocketType
      BY <1>1 DEF Pair
    <3>3. /\ DataOK' /\ Own' /\ StateCoherent' /\ StaysConnected
          /\ handler' = handler \cup {f}
      BY <1>1, <3>1, <3>2, CreateInv
    <3>4. /\ pair' \in Pair /\ pair'.at # "idle"
          /\ pair'.fds = pair.fds \cup {f}
      BY <1>1, <3>1 DEF Pair
    <3>5. ControlOK' /\ PairOK'
      BY <1>1, <1>2, <3>3, <3>4 DEF SocketpairSecond, IInv, ControlOK, PairOK
    <3> QED BY <3>3, <3>5 DEF IInv
  <2>2. CASE \E e \in Ret :
                /\ CreateFails(pair.family, e)
                /\ pair' = [pair EXCEPT !.at = "undo"]
    <3>1. /\ DataOK' /\ Own' /\ StateCoherent' /\ StaysConnected
          /\ handler' = handler
      BY <1>1, <2>2, CreateFailsInv
    <3>2. pair' \in Pair /\ pair'.at # "idle" /\ pair'.fds = pair.fds
      BY <1>1, <2>2 DEF Pair
    <3>3. ControlOK' /\ PairOK'
      BY <1>1, <1>2, <3>1, <3>2 DEF SocketpairSecond, IInv, ControlOK, PairOK
    <3> QED BY <3>1, <3>3 DEF IInv
  <2> QED BY <1>2, <2>1, <2>2 DEF SocketpairSecond
<1>3. CASE SocketpairJoin
  <2>1. /\ NoNewSocket /\ UNCHANGED <<idheap, ret, running>> /\ pair' = NoPair
        /\ \A l \in Lsd : sk'[l] = IF l \in {data[f] : f \in pair.fds}
                                   THEN PairedSocket(sk[l]) ELSE sk[l]
        /\ sk' = [l \in Lsd |-> IF l \in {data[f] : f \in pair.fds}
                                THEN PairedSocket(sk[l]) ELSE sk[l]]
    BY <1>3 DEF SocketpairJoin
  <2>2. \A l \in Lsd : sk[l] \in LSCK_SOCKET /\ Preserves(sk[l], sk'[l])
    BY <2>1, PairedPreserves, StutterPreserves DEF IInv, DataOK
  <2>3. \A l \in Lsd : sk'[l] \in LSCK_SOCKET /\ sk'[l].fd = sk[l].fd
    BY <2>2 DEF Preserves, Keeps
  <2>4. sk' \in [Lsd -> LSCK_SOCKET]
    BY <2>1, <2>3
  <2>5. DataOK'
    BY <2>1, <2>4 DEF NoNewSocket, IInv, DataOK
  <2>6. FdOwned' /\ LsdOwned' /\ TableExact'
    BY <1>1, <2>1, <2>3
       DEF NoNewSocket, IInv, DataOK, Own, FdOwned, LsdOwned, TableExact
  <2>7. StateCoherent' /\ StaysConnected
    BY <2>1, <2>2 DEF NoNewSocket, IInv, DataOK, StateCoherent,
       StaysConnected, Preserves
  <2>8. ControlOK' /\ PairOK'
    BY <2>1 DEF IInv, ControlOK, PairOK, NoPair, Pair, Family, SocketType
  <2> QED BY <2>5, <2>6, <2>7, <2>8 DEF IInv, Own
<1>4. CASE SocketpairJoinFails
  <2>1. /\ UNCHANGED <<handler, data, table, heap, sk, idheap, ret, running>>
        /\ pair' = [pair EXCEPT !.at = "undo"]
    BY <1>4 DEF SocketpairJoinFails, NoNewSocket
  <2>2. pair' \in Pair /\ pair'.at # "idle" /\ pair'.fds = pair.fds
    BY <1>1, <2>1 DEF Pair
  <2>3. DataOK' /\ StateCoherent' /\ StaysConnected /\ ControlOK' /\ PairOK'
    BY <1>1, <2>1, <2>2 DEF IInv, DataOK, StateCoherent, StaysConnected,
       ControlOK, PairOK
  <2>4. Own'
    BY <1>1, <2>1 DEF IInv, Own, FdOwned, LsdOwned, TableExact
  <2> QED BY <2>3, <2>4 DEF IInv
<1>5. CASE SocketpairUndo
  <2>1. UNCHANGED <<ret, running>>
    BY <1>5 DEF SocketpairUndo
  <2>2. CASE \E f \in pair.fds :
                CloseFd(f) /\ pair' = [pair EXCEPT !.fds = @ \ {f}]
    <3>1. PICK f \in pair.fds :
             CloseFd(f) /\ pair' = [pair EXCEPT !.fds = @ \ {f}]
      BY <2>2
    <3>2. /\ DataOK' /\ Own' /\ StateCoherent' /\ StaysConnected
          /\ handler' = handler \ {f}
      BY <1>1, <3>1, CloseInv
    <3>3. /\ pair' \in Pair /\ pair'.at # "idle"
          /\ pair'.fds = pair.fds \ {f}
      BY <1>1, <3>1 DEF Pair
    <3>4. ControlOK' /\ PairOK'
      BY <1>1, <2>1, <3>2, <3>3 DEF IInv, ControlOK, PairOK
    <3> QED BY <3>2, <3>4 DEF IInv
  <2>3. CASE /\ NoNewSocket /\ UNCHANGED <<sk, idheap>>
             /\ \/ \E f \in pair.fds : pair' = [pair EXCEPT !.fds = @ \ {f}]
                \/ pair' = NoPair
    <3>1. UNCHANGED <<handler, data, table, heap, sk, idheap>>
      BY <2>3 DEF NoNewSocket
    <3>2. /\ pair' \in Pair /\ pair'.fds \subseteq pair.fds
          /\ pair'.at = "idle" => pair'.fds = {}
      BY <1>1, <2>3 DEF Pair, NoPair, Family, SocketType
    <3>3. DataOK' /\ StateCoherent' /\ StaysConnected /\ ControlOK' /\ PairOK'
      BY <1>1, <2>1, <3>1, <3>2 DEF IInv, DataOK, StateCoherent,
         StaysConnected, ControlOK, PairOK
    <3>4. Own'
      BY <1>1, <3>1 DEF IInv, Own, FdOwned, LsdOwned, TableExact
    <3> QED BY <3>3, <3>4 DEF IInv
  <2> QED BY <1>5, <2>2, <2>3 DEF SocketpairUndo
<1> QED BY <1>2, <1>3, <1>4, <1>5 DEF PairStep

\* The atexit() handler: nothing is asked of the tables any more.
LEMMA UninitInv ==
    ASSUME IInv, Idle, Uninit
    PROVE  IInv' /\ StaysConnected
<1>1. /\ heap' = {} /\ sk' = [l \in Lsd |-> Zeroed] /\ running' = FALSE
      /\ ret' = "-" /\ UNCHANGED pair
  BY DEF Uninit
<1>2. PICK stuck \in SUBSET {l \in heap : sk[l].iface # "unix"} :
         /\ table' = [i \in Slot |->
                         IF table[i] \in stuck THEN table[i] ELSE NULL]
         /\ handler' = {f \in handler : data[f] \in stuck}
         /\ data' = [f \in Fd |-> IF data[f] \in stuck THEN data[f] ELSE NULL]
         /\ idheap' = idheap \ {sk[l].idata : l \in heap \ stuck}
  BY DEF Uninit
<1>3. DataOK'
  <2>1. sk' \in [Lsd -> LSCK_SOCKET] /\ heap' \subseteq Lsd
    BY <1>1, ZeroedType
  <2>2. table' \in [Slot -> Lsd \cup {NULL}]
    BY <1>2 DEF IInv, DataOK
  <2>3. data' \in [Fd -> Lsd \cup {NULL}] /\ handler' \subseteq Fd
    BY <1>2 DEF IInv, DataOK
  <2>4. idheap' \subseteq Idata
    BY <1>2 DEF IInv, DataOK
  <2> QED BY <2>1, <2>2, <2>3, <2>4 DEF DataOK, Slot
<1>4. ControlOK' /\ PairOK' /\ StateCoherent' /\ StaysConnected
  BY <1>1 DEF IInv, ControlOK, PairOK, StateCoherent, StaysConnected, Idle, Ret
<1> QED BY <1>1, <1>3, <1>4 DEF IInv

-----------------------------------------------------------------------------
(***************************************************************************)
(* The theorems.                                                           *)
(***************************************************************************)

\* The inductive invariant holds when main() starts.
LEMMA InitInv == ASSUME Init PROVE IInv
<1>1. DataOK /\ ControlOK /\ PairOK /\ StateCoherent
  BY ZeroedType DEF Init, DataOK, ControlOK, PairOK, StateCoherent, NoPair,
     Pair, Ret, Family, SocketType
<1>2. Own
  BY DEF Init, Own, FdOwned, LsdOwned, TableExact
<1> QED BY <1>1, <1>2 DEF IInv

\* Every step keeps the inductive invariant and ends no connection.
LEMMA NextInv ==
    ASSUME IInv, [Next]_vars
    PROVE  IInv' /\ StaysConnected
<1>1. CASE Idle /\ CreateStep
  BY <1>1, CreateStepInv
<1>2. CASE Idle /\ \E f \in handler : CallStep(f) \/ AcceptStep(f) \/ Close(f)
  <2>1. PICK f \in handler : CallStep(f) \/ AcceptStep(f) \/ Close(f)
    BY <1>2
  <2>2. running
    BY <1>2 DEF Idle
  <2>3. CASE CallStep(f)
    BY <2>2, <2>3, CallInv
  <2>4. CASE AcceptStep(f)
    BY <2>2, <2>4, AcceptInv
  <2>5. CASE Close(f)
    <3>1. /\ CloseFd(f) /\ ret' = "-" /\ UNCHANGED <<pair, running>>
      BY <2>5 DEF Close
    <3>2. /\ DataOK' /\ Own' /\ StateCoherent' /\ StaysConnected
      BY <2>2, <3>1, CloseInv
    <3>3. ControlOK' /\ PairOK'
      BY <1>2, <3>1 DEF Idle, IInv, ControlOK, PairOK, Ret
    <3> QED BY <3>2, <3>3 DEF IInv
  <2> QED BY <2>1, <2>3, <2>4, <2>5
<1>3. CASE Idle /\ Uninit
  BY <1>3, UninitInv
<1>4. CASE PairStep
  BY <1>4, PairStepInv
<1>5. CASE UNCHANGED vars
  <2>1. DataOK' /\ ControlOK' /\ PairOK' /\ StateCoherent' /\ StaysConnected
    BY <1>5 DEF vars, IInv, DataOK, ControlOK, PairOK, StateCoherent,
       StaysConnected
  <2>2. running' => Own'
    BY <1>5 DEF vars, IInv, Own, FdOwned, LsdOwned, TableExact
  <2> QED BY <2>1, <2>2 DEF IInv
<1> QED BY <1>1, <1>2, <1>3, <1>4, <1>5 DEF Next

\* The inductive invariant of the socket layer.
THEOREM Inductive == Spec => []IInv
<1>1. Init => IInv
  BY InitInv
<1>2. IInv /\ [Next]_vars => IInv'
  BY NextInv
<1> QED BY <1>1, <1>2, PTL DEF Spec

\* Type correctness of the socket layer.
THEOREM TypeCorrect == Spec => []TypeOK
<1>1. IInv => TypeOK
  BY DEF IInv, DataOK, ControlOK, TypeOK
<1> QED BY <1>1, Inductive, PTL

\* File descriptors, table and memory agree while the program runs, whatever
\* sequence of complete, failed and half-failed calls came before.
THEOREM OwnershipHolds == Spec => []DescriptorOwnership
<1>1. IInv => DescriptorOwnership
  BY DEF IInv, Own, DescriptorOwnership
<1> QED BY <1>1, Inductive, PTL

\* The status bits of every open socket are coherent.
THEOREM CoherenceHolds == Spec => []StateCoherent
<1>1. IInv => StateCoherent
  BY DEF IInv
<1> QED BY <1>1, Inductive, PTL

\* No call ends a connection but close().
THEOREM ConnectionsStay == Spec => ConnectedStable
<1>1. IInv /\ [Next]_vars => StaysConnected
  BY NextInv
<1>2. StaysConnected => [StaysConnected]_vars
  OBVIOUS
<1>3. Spec => [][StaysConnected]_vars
  BY <1>1, <1>2, Inductive, PTL DEF Spec
<1> QED BY <1>3 DEF ConnectedStable

-----------------------------------------------------------------------------
(***************************************************************************)
(* Interface data.  csock carries on with a null pointer when malloc()     *)
(* fails in accept(), so the result is about programs that do not run out  *)
(* of memory, or do not run on csock.                                      *)
(***************************************************************************)
CsockHasMemory == OutOfMemory => "csock" \notin Available

IdataInv ==
    /\ IdataOwnership
    /\ \A l \in heap : sk[l].iface \in Available

\* A step that keeps the sockets, and frees no interface data in use.
LEMMA IdataKept ==
    ASSUME IInv, IdataInv, heap' = heap,
           \A l \in heap : /\ sk'[l].idata = sk[l].idata
                           /\ sk'[l].iface = sk[l].iface
                           /\ sk[l].idata \in idheap'
    PROVE  IdataInv'
  BY DEF IdataInv, IdataOwnership

\* A step that stores a preserving descriptor in f.
LEMMA IdataUpdated ==
    ASSUME IInv, IdataInv, running, NEW f \in handler, NEW t,
           Preserves(sk[data[f]], t),
           sk' = [sk EXCEPT ![data[f]] = t], heap' = heap,
           \A l \in heap : sk[l].idata \in idheap'
    PROVE  IdataInv'
<1>1. data[f] \in Lsd
  BY OpenSocket
<1>2. \A l \in heap : sk'[l] = IF l = data[f] THEN t ELSE sk[l]
  BY <1>1 DEF IInv, DataOK
<1>3. t.idata = sk[data[f]].idata /\ t.iface = sk[data[f]].iface
  BY DEF Preserves, Keeps
<1>4. \A l \in heap : /\ sk'[l].idata = sk[l].idata
                      /\ sk'[l].iface = sk[l].iface
  BY <1>2, <1>3
<1> QED BY <1>4, IdataKept

\* A step that adds a socket with interface data of its own.
LEMMA IdataAdded ==
    ASSUME IdataInv, NEW l, l \notin heap, NEW d, d \notin idheap,
           heap' = heap \cup {l}, idheap' = idheap \cup {d},
           sk'[l].idata = d, sk'[l].iface \in Available,
           \A m \in heap : /\ sk'[m].idata = sk[m].idata
                           /\ sk'[m].iface = sk[m].iface
    PROVE  IdataInv'
<1>1. \A m \in heap : sk[m].idata # d
  BY DEF IdataInv, IdataOwnership
<1>2. ASSUME NEW m \in heap'
      PROVE  /\ sk'[m].idata \in idheap'
             /\ sk'[m].iface \in Available
             /\ \A k \in heap' \ {m} : sk'[k].idata # sk'[m].idata
  BY <1>1, <1>2 DEF IdataInv, IdataOwnership
<1> QED BY <1>2 DEF IdataInv, IdataOwnership

\* Creating a socket, or failing to.
LEMMA IdataCreate ==
    ASSUME IInv, IdataInv, running, NEW f \in Fd, NEW family \in Family,
           NEW type \in SocketType, Create(f, family, type)
    PROVE  IdataInv'
<1>1. PICK n \in Picks(family), l \in Lsd \ heap, d \in Idata \ idheap :
         /\ Install(l, NewSocket(f, type, n, d))
         /\ sk' = [sk EXCEPT ![l] = NewSocket(f, type, n, d)]
         /\ idheap' = idheap \cup {d}
  BY DEF Create
<1>2. n \in Available /\ n \in Iface
  BY LayerAssumption DEF Picks, Offers
<1>3. /\ sk'[l] = NewSocket(f, type, n, d)
      /\ \A m \in heap : sk'[m] = sk[m]
  BY <1>1 DEF IInv, DataOK
<1>4. sk'[l].idata = d /\ sk'[l].iface \in Available
  BY <1>2, <1>3, NewSocketCoherent
<1>5. heap' = heap \cup {l}
  BY <1>1 DEF Install
<1> QED BY <1>1, <1>3, <1>4, <1>5, IdataAdded

LEMMA IdataCreateFails ==
    ASSUME IInv, IdataInv, NEW family, NEW e, CreateFails(family, e)
    PROVE  IdataInv'
<1>1. idheap \subseteq idheap' /\ heap' = heap /\ sk' = sk
  BY DEF CreateFails, CreateRefused, NoNewSocket
<1> QED BY <1>1 DEF IdataInv, IdataOwnership

\* accept() of a socket with its own interface data, or its failure.
LEMMA IdataAccept ==
    ASSUME IInv, IdataInv, CsockHasMemory, running, NEW f \in handler,
           AcceptStep(f)
    PROVE  IdataInv'
<1>0. \A l \in heap : sk[l].idata \in idheap /\ sk[l].idata \in Idata
  BY DEF IdataInv, IdataOwnership, IInv, DataOK
<1>1. CASE AcceptFails(f)
  <2>1. PICK s \in Checked(f) : sk' = [sk EXCEPT ![data[f]] = s]
    BY <1>1 DEF AcceptFails
  <2>2. heap' = heap /\ idheap' = idheap
    BY <1>1 DEF AcceptFails, NoNewSocket
  <2> QED BY <1>0, <2>1, <2>2, CheckedPreserves, IdataUpdated
<1>2. CASE AcceptRefused(f)
  <2>1. PICK s \in Checked(f) :
           /\ \/ idheap' = idheap \ {NULL}
              \/ \E d \in Idata \ idheap : idheap' = (idheap \cup {d}) \ {d}
           /\ \E t \in iface_accept_listener(s) :
                 sk' = [sk EXCEPT ![data[f]] = t]
    BY <1>2 DEF AcceptRefused, FreedByFailedAccept
  <2>2. PICK t \in iface_accept_listener(s) : sk' = [sk EXCEPT ![data[f]] = t]
    BY <2>1
  <2>3. Preserves(sk[data[f]], t)
    BY CheckedPreserves, ListenerPreserves, PreservesTrans
  <2>4. heap' = heap
    BY <1>2 DEF AcceptRefused, NoNewSocket
  <2>5. \A l \in heap : sk[l].idata \in idheap'
    BY <1>0, <2>1, NULLAssumption
  <2> QED BY <2>2, <2>3, <2>4, <2>5, IdataUpdated
<1>3. CASE Accept(f)
  <2>1. PICK s \in Checked(f) :
           /\ accept_allowed(s)
           /\ \E newfd \in FreeFd, l \in Lsd \ heap, d \in AcceptIdata(s),
                 t \in iface_accept_listener(s) :
                 /\ Install(l, AcceptedSocket(s, newfd, d))
                 /\ sk' = [sk EXCEPT ![data[f]] = t,
                                     ![l] = AcceptedSocket(s, newfd, d)]
                 /\ idheap' = idheap \cup ({d} \cap Idata)
    BY <1>3 DEF Accept
  <2>2. PICK newfd \in FreeFd, l \in Lsd \ heap, d \in AcceptIdata(s),
             t \in iface_accept_listener(s) :
           /\ Install(l, AcceptedSocket(s, newfd, d))
           /\ sk' = [sk EXCEPT ![data[f]] = t,
                               ![l] = AcceptedSocket(s, newfd, d)]
           /\ idheap' = idheap \cup ({d} \cap Idata)
    BY <2>1
  <2>3. s \in LSCK_SOCKET /\ Preserves(sk[data[f]], s)
    BY CheckedPreserves
  <2>4. Preserves(sk[data[f]], t)
    BY <2>3, ListenerPreserves, PreservesTrans
  <2>5. data[f] \in heap /\ data[f] \in Lsd
    BY OpenSocket
  <2>6. s.iface \in Available
    BY <2>3, <2>5 DEF Preserves, Keeps, IdataInv
  <2>7. d \in Idata \ idheap
    BY <2>6 DEF AcceptIdata, CsockHasMemory
  <2>8. newfd \in Fd
    BY DEF FreeFd
  <2> DEFINE nsd == AcceptedSocket(s, newfd, d)
  <2>9. nsd.idata = d /\ nsd.iface = s.iface
    BY <2>1, <2>3, <2>7, <2>8, AcceptedCoherent
  <2>10. /\ Install(l, nsd) /\ idheap' = idheap \cup {d}
         /\ sk' = [sk EXCEPT ![data[f]] = t, ![l] = nsd]
    BY <2>2, <2>7
  <2> HIDE DEF nsd
  <2>11. /\ sk'[l] = nsd /\ sk'[data[f]] = t
         /\ \A m \in heap \ {data[f]} : sk'[m] = sk[m]
    BY <2>5, <2>10 DEF IInv, DataOK
  <2>12. t.idata = sk[data[f]].idata /\ t.iface = sk[data[f]].iface
    BY <2>4 DEF Preserves, Keeps
  <2>13. \A m \in heap : /\ sk'[m].idata = sk[m].idata
                         /\ sk'[m].iface = sk[m].iface
    BY <2>11, <2>12
  <2>14. heap' = heap \cup {l}
    BY <2>10 DEF Install
  <2> QED BY <2>6, <2>7, <2>9, <2>10, <2>11, <2>13, <2>14, IdataAdded
<1> QED BY <1>1, <1>2, <1>3 DEF AcceptStep

\* close() frees the interface data of its own socket only.
LEMMA IdataClose ==
    ASSUME IInv, IdataInv, running, NEW f \in handler, CloseFd(f)
    PROVE  IdataInv'
<1>1. /\ heap' = heap \ {data[f]}
      /\ \A m \in heap' : sk'[m] = sk[m]
  BY CloseOwned DEF IInv
<1>2. idheap' = idheap \ {sk[data[f]].idata} /\ data[f] \in heap
  BY OpenSocket DEF CloseFd, Release
<1> QED BY <1>1, <1>2 DEF IdataInv, IdataOwnership

\* Every step keeps interface data owned.
LEMMA IdataNext ==
    ASSUME IInv, IdataInv, CsockHasMemory, [Next]_vars
    PROVE  IdataInv'
<1>0. \A l \in heap : sk[l].idata \in idheap
  BY DEF IdataInv, IdataOwnership
<1>1. CASE Idle /\ CreateStep
  <2>1. PICK family \in Family, type \in SocketType :
           \/ Socket(family, type)
           \/ SocketFails(family)
           \/ SocketpairFirst(family, type)
    BY <1>1 DEF CreateStep
  <2>2. \/ \E f \in Fd : Create(f, family, type)
        \/ \E e \in Ret : CreateFails(family, e)
    BY <2>1 DEF Socket, SocketFails, SocketpairFirst
  <2> QED BY <1>1, <2>2, IdataCreate, IdataCreateFails DEF Idle
<1>2. CASE Idle /\ \E f \in handler : CallStep(f) \/ AcceptStep(f) \/ Close(f)
  <2>1. PICK f \in handler : CallStep(f) \/ AcceptStep(f) \/ Close(f)
    BY <1>2
  <2>2. running
    BY <1>2 DEF Idle
  <2>3. CASE CallStep(f)
    <3>1. PICK t : Preserves(sk[data[f]], t) /\ Returns(f, t)
      BY <2>2, <2>3, CallReturns
    <3>2. /\ sk' = [sk EXCEPT ![data[f]] = t]
          /\ heap' = heap /\ idheap' = idheap
      BY <3>1 DEF Returns, NoNewSocket
    <3> QED BY <1>0, <2>2, <3>1, <3>2, IdataUpdated
  <2>4. CASE AcceptStep(f)
    BY <2>2, <2>4, IdataAccept
  <2>5. CASE Close(f)
    BY <2>2, <2>5, IdataClose DEF Close
  <2> QED BY <2>1, <2>3, <2>4, <2>5
<1>3. CASE Idle /\ Uninit
  BY <1>3 DEF Uninit, IdataInv, IdataOwnership
<1>4. CASE PairStep
  <2>1. running /\ pair \in Pair /\ pair.fds \subseteq handler
    BY <1>4 DEF PairStep, SocketpairSecond, SocketpairJoin,
       SocketpairJoinFails, SocketpairUndo, IInv, PairOK, ControlOK
  <2>2. CASE SocketpairSecond
    <3>1. pair.family \in Family /\ pair.type \in SocketType
      BY <2>1 DEF Pair
    <3>2. \/ \E f \in Fd : Create(f, pair.family, pair.type)
          \/ \E e \in Ret : CreateFails(pair.family, e)
      BY <2>2 DEF SocketpairSecond
    <3> QED BY <2>1, <3>1, <3>2, IdataCreate, IdataCreateFails
  <2>3. CASE SocketpairJoin
    <3>1. /\ heap' = heap /\ idheap' = idheap
          /\ \A l \in Lsd : sk'[l] = IF l \in {data[f] : f \in pair.fds}
                                     THEN PairedSocket(sk[l]) ELSE sk[l]
      BY <2>3 DEF SocketpairJoin, NoNewSocket
    <3>2. \A l \in heap : Preserves(sk[l], sk'[l])
      BY <3>1, PairedPreserves, StutterPreserves DEF IInv, DataOK
    <3> QED BY <1>0, <3>1, <3>2, IdataKept DEF Preserves, Keeps
  <2>4. CASE SocketpairJoinFails
    BY <1>0, <2>4, IdataKept DEF SocketpairJoinFails, NoNewSocket
  <2>5. CASE SocketpairUndo
    <3>1. \/ \E f \in pair.fds : CloseFd(f)
          \/ heap' = heap /\ sk' = sk /\ idheap' = idheap
      BY <2>5 DEF SocketpairUndo, NoNewSocket
    <3> QED BY <1>0, <2>1, <3>1, IdataClose, IdataKept
  <2> QED BY <1>4, <2>2, <2>3, <2>4, <2>5 DEF PairStep
<1>5. CASE UNCHANGED vars
  BY <1>5 DEF vars, IdataInv, IdataOwnership
<1> QED BY <1>1, <1>2, <1>3, <1>4, <1>5 DEF Next

\* No two sockets ever share interface data, and none is used after it is
\* freed: the copy that accept() makes of the listening socket is safe, unless
\* csock runs out of memory.
THEOREM IdataHolds ==
    ASSUME CsockHasMemory
    PROVE  Spec => []IdataOwnership
<1>1. Init => IdataInv
  BY DEF Init, IdataInv, IdataOwnership
<1>2. IInv /\ IdataInv /\ [Next]_vars => IdataInv'
  BY IdataNext
<1>3. IdataInv => IdataOwnership
  BY DEF IdataInv
<1> QED BY <1>1, <1>2, <1>3, Inductive, PTL DEF Spec

-----------------------------------------------------------------------------
(***************************************************************************)
(* When descriptors run out.  The scan of the table gives up only when no  *)
(* slot is free, and a full table lists as many sockets as it has slots.   *)
(***************************************************************************)
TableFull == \A i \in Slot : table[i] # NULL

RetInv ==
    /\ pair.at # "idle" => ret = "-"
    /\ ret \in {"EMFILE", "ENFILE"} => running /\ (handler = Fd \/ TableFull)

\* A slot that is free has a first free slot before it, or is that slot.
LEMMA FirstFreeExists ==
    ASSUME NEW i \in Slot, table[i] = NULL
    PROVE  \E j \in Slot : FirstFree(j)
<1> DEFINE free == {j \in Slot : table[j] = NULL}
<1>1. free \subseteq Nat /\ i \in free
  BY LayerAssumption DEF Slot
<1>2. \A j, k \in Nat : k < j => <<k, j>> \in OpToRel(<, Nat)
  BY DEF OpToRel
<1>3. \E j \in free : \A k \in free : ~(<<k, j>> \in OpToRel(<, Nat))
  <2> HIDE DEF free
  <2> QED BY <1>1, WFMin, NatLessThanWellFounded, Zenon
<1>4. PICK j \in free : \A k \in free : ~(k < j)
  BY <1>1, <1>2, <1>3
<1>5. \A k \in 0 .. j - 1 : k \in Slot /\ k < j
  BY <1>1, LayerAssumption DEF Slot
<1>6. \A k \in 0 .. j - 1 : table[k] # NULL
  BY <1>4, <1>5
<1> QED BY <1>4, <1>6 DEF FirstFree

LEMMA ExhaustedMeansFull == Exhausted => handler = Fd \/ TableFull \/ ~DataOK
BY FirstFreeExists DEF Exhausted, FreeFd, TableFull, DataOK

\* A full table and the heap correspond one to one.
LEMMA FullTableCounts ==
    ASSUME DataOK, TableExact, TableFull
    PROVE  Cardinality(heap) = NumSocket
<1>1. table \in [Slot -> heap]
  BY DEF DataOK, TableExact, TableFull
<1>2. table \in Bijection(Slot, heap)
  BY <1>1 DEF Bijection, Injection, Surjection, IsInjective, TableExact, TableFull
<1>3. IsFiniteSet(Slot) /\ Cardinality(Slot) = NumSocket
  <2>1. 0 \in Int /\ NumSocket - 1 \in Int
    BY LayerAssumption
  <2>2. /\ IsFiniteSet(0 .. NumSocket - 1)
        /\ Cardinality(0 .. NumSocket - 1) =
              IF 0 > NumSocket - 1 THEN 0 ELSE (NumSocket - 1) - 0 + 1
    BY <2>1, FS_Interval
  <2> QED BY <2>2, LayerAssumption DEF Slot
<1>4. ExistsBijection(Slot, heap)
  BY <1>2 DEF ExistsBijection
<1> QED BY <1>3, <1>4, FS_Bijection

\* Every step sets ret, or is one of a socketpair() that leaves it alone.
LEMMA RetNext ==
    ASSUME IInv, RetInv, [Next]_vars
    PROVE  RetInv'
<1>0. pair.at # "idle" => running
  BY DEF IInv, PairOK
<1>1. CASE Idle /\ CreateStep
  <2>1. PICK family \in Family, type \in SocketType :
           \/ Socket(family, type)
           \/ SocketFails(family)
           \/ SocketpairFirst(family, type)
    BY <1>1 DEF CreateStep
  <2>2. running /\ pair.at = "idle"
    BY <1>1 DEF Idle
  <2>3. CASE Socket(family, type)
    BY <2>2, <2>3 DEF Socket, RetInv
  <2>4. CASE SocketFails(family)
    <3>1. PICK e \in Ret : CreateFails(family, e) /\ ret' = e
      BY <2>4 DEF SocketFails
    <3>2. e \in {"EMFILE", "ENFILE"} => handler = Fd \/ TableFull
      BY <3>1, ExhaustedMeansFull DEF CreateFails, CreateError, IInv
    <3>3. handler' = handler /\ table' = table /\ pair' = pair /\ running' = running
      BY <2>4, <3>1 DEF CreateFails, NoNewSocket, SocketFails
    <3> QED BY <2>2, <3>1, <3>2, <3>3 DEF RetInv, TableFull
  <2>5. CASE SocketpairFirst(family, type)
    BY <2>5 DEF SocketpairFirst, RetInv
  <2> QED BY <2>1, <2>3, <2>4, <2>5
<1>2. CASE Idle /\ \E f \in handler : CallStep(f) \/ AcceptStep(f) \/ Close(f)
  <2>1. PICK f \in handler : CallStep(f) \/ AcceptStep(f) \/ Close(f)
    BY <1>2
  <2>2. running /\ pair.at = "idle"
    BY <1>2 DEF Idle
  <2>3. CASE CallStep(f)
    <3>1. PICK t : Preserves(sk[data[f]], t) /\ Returns(f, t)
      BY <2>2, <2>3, CallReturns
    <3> QED BY <3>1 DEF Returns, RetInv
  <2>4. CASE Accept(f)
    BY <2>2, <2>4 DEF Accept, RetInv
  <2>5. CASE AcceptFails(f)
    <3>1. PICK s \in Checked(f), e \in Ret : AcceptError(s, e) /\ ret' = e
      BY <2>5 DEF AcceptFails
    <3>2. e \in {"EMFILE", "ENFILE"} => handler = Fd \/ TableFull
      BY <3>1, ExhaustedMeansFull DEF AcceptError, IInv
    <3>3. handler' = handler /\ table' = table /\ pair' = pair /\ running' = running
      BY <2>5 DEF AcceptFails, NoNewSocket
    <3> QED BY <2>2, <3>1, <3>2, <3>3 DEF RetInv, TableFull
  <2>6. CASE AcceptRefused(f)
    BY <2>2, <2>6 DEF AcceptRefused, RetInv
  <2>7. CASE Close(f)
    BY <2>2, <2>7 DEF Close, RetInv
  <2> QED BY <2>1, <2>3, <2>4, <2>5, <2>6, <2>7 DEF AcceptStep
<1>3. CASE Idle /\ Uninit
  BY <1>3 DEF Idle, Uninit, RetInv
<1>4. CASE PairStep
  <2>1. pair.at # "idle" /\ ret' = ret
    BY <1>4 DEF PairStep, SocketpairSecond, SocketpairJoin,
       SocketpairJoinFails, SocketpairUndo
  <2> QED BY <2>1 DEF RetInv
<1>5. CASE UNCHANGED vars
  BY <1>5 DEF vars, RetInv, TableFull
<1> QED BY <1>1, <1>2, <1>3, <1>4, <1>5 DEF Next

\* EMFILE and ENFILE tell the truth: when socket() or accept() reports one of
\* them no file descriptor is left, or every slot of __lsck_socket[] holds an
\* open socket, however many sockets were opened, lost and closed before.
THEOREM ExhaustionTruthful == Spec => []ExhaustionIsReal
<1>1. Init => RetInv
  BY DEF Init, NoPair, RetInv
<1>2. IInv /\ RetInv /\ [Next]_vars => RetInv'
  BY RetNext
<1>3. IInv /\ RetInv => ExhaustionIsReal
  BY FullTableCounts DEF IInv, Own, RetInv, ExhaustionIsReal
<1> QED BY <1>1, <1>2, <1>3, Inductive, PTL DEF Spec

-----------------------------------------------------------------------------
(* The tables of adapters. *)

\* Whatever the registry may say of one adapter.
Instances(reg) ==
  UNION {UNION {{reg.trees[t][d][i] : i \in DOMAIN reg.trees[t][d]} :
                  d \in DOMAIN reg.trees[t]} : t \in DOMAIN reg.trees}

\* A card and a modem of which nothing else is known.
Card == [Blank EXCEPT !.hw = "ethernet"]
Modem(n) == [Blank EXCEPT !.hw = "dialup", !.number = n]

\* The entries that the enumeration may make of them.
Entries(reg) ==
  {Blank, Loopback, Card}
    \cup {Modem(n) : n \in Int}
    \cup {getstaticaddr(i, reg) : i \in Instances(reg)}
    \cup {getdynamicaddr(n, i, reg) : n \in Int, i \in Instances(reg)}

\* A table begins with the loopback device and fits.
Tables(T) == {t \in Seq(T) : Len(t) \in 1 .. TABLE_MAX /\ t[1] = Loopback}

\* The states of the enumeration.
Found(T) == [table : Tables(T), dialup : Int, dhcp : Int, go : {"on", "device", "tree"}]

LEMMA StopFinds ==
  ASSUME NEW T, NEW s \in Found(T), NEW w \in {"on", "device", "tree"}
  PROVE  Stop(s, w) \in Found(T)
<1>1. Stop(s, w) = [table |-> s.table, dialup |-> s.dialup, dhcp |-> s.dhcp, go |-> w]
  BY DEF Stop, Found
<1>2. s.table \in Tables(T) /\ s.dialup \in Int /\ s.dhcp \in Int
  BY DEF Found
<1> QED BY <1>1, <1>2 DEF Found

LEMMA AddFinds ==
  ASSUME NEW T, NEW s \in Found(T), Len(s.table) < TABLE_MAX, NEW e \in T
  PROVE  Add(s, e) \in Found(T)
<1>1. s.table \in Seq(T) /\ Len(s.table) \in 1 .. TABLE_MAX /\ s.table[1] = Loopback
  BY DEF Found, Tables
<1>2. Append(s.table, e) \in Seq(T) /\ Len(Append(s.table, e)) = Len(s.table) + 1
      /\ Append(s.table, e)[1] = Loopback
  BY <1>1
<1>3. Append(s.table, e) \in Tables(T)
  <2> DEFINE q == Append(s.table, e)
  <2>1. Len(q) \in 1 .. TABLE_MAX
    BY <1>1, <1>2, TableAssumption
  <2>2. q \in Seq(T) /\ q[1] = Loopback
    BY <1>2
  <2> HIDE DEF q
  <2>3. q \in Tables(T)
    BY <2>1, <2>2 DEF Tables
  <2> QED BY <2>3 DEF q
<1>4. Add(s, e) = [table |-> Append(s.table, e), dialup |-> s.dialup,
                   dhcp |-> s.dhcp, go |-> s.go]
  BY DEF Add, Found
<1>5. s.dialup \in Int /\ s.dhcp \in Int /\ s.go \in {"on", "device", "tree"}
  BY DEF Found
<1> QED BY <1>3, <1>4, <1>5 DEF Found

LEMMA InstanceFinds ==
  ASSUME NEW reg, NEW s \in Found(Entries(reg)), NEW i \in Instances(reg)
  PROVE  EnumInstance(s, i, reg) \in Found(Entries(reg))
<1> DEFINE T == Entries(reg)
<1>1. {Stop(s, "on"), Stop(s, "device"), Stop(s, "tree")} \subseteq Found(T)
  BY StopFinds
<1>2. s.dialup \in Int /\ s.dhcp \in Int
  BY DEF Found
<1>3. /\ Blank \in T /\ Card \in T
      /\ getstaticaddr(i, reg) \in T
      /\ \A n \in Int : Modem(n) \in T
      /\ \A n \in Int : getdynamicaddr(n, i, reg) \in T
  BY DEF Entries
<1> HIDE DEF T
<1>4. ASSUME Len(s.table) < TABLE_MAX PROVE DialUp(s, reg) \in Found(T)
  <2> DEFINE c == [s EXCEPT !.dialup = @ + 1]
  <2>1. c \in Found(T) /\ c.table = s.table /\ c.dialup \in Int
    BY <1>2 DEF Found, T
  <2> HIDE DEF c
  <2>2. Add(c, Modem(c.dialup)) \in Found(T)
    BY <1>3, <1>4, <2>1, AddFinds
  <2> QED BY <2>1, <2>2 DEF DialUp, Modem, c
<1>5. ASSUME Len(s.table) < TABLE_MAX PROVE getethcardaddrs(s, i, reg) \in Found(T)
  <2> DEFINE c == [s EXCEPT !.dhcp = @ + 1]
  <2>1. c \in Found(T) /\ c.table = s.table
    BY <1>2 DEF Found, T
  <2> HIDE DEF c
  <2>2. Add(c, getdynamicaddr(s.dhcp + 1, i, reg)) \in Found(T)
    <3>1. s.dhcp + 1 \in Int
      BY <1>2
    <3> QED BY <1>3, <1>5, <2>1, <3>1, AddFinds
  <2>3. s \in Found(T)
    BY DEF T
  <2>4. /\ Add(s, getstaticaddr(i, reg)) \in Found(T)
        /\ Add(s, Card) \in Found(T)
    BY <1>3, <1>5, <2>3, AddFinds
  <2> QED BY <2>2, <2>4 DEF getethcardaddrs, Card, c
<1>6. ASSUME Len(s.table) < TABLE_MAX PROVE NetDevice(s, i, reg) \in Found(T)
  <2>1. s \in Found(T)
    BY DEF T
  <2>2. Add(s, Blank) \in Found(T)
    BY <1>3, <1>6, <2>1, AddFinds
  <2> QED BY <1>1, <1>4, <1>5, <1>6, <2>2 DEF NetDevice
<1>7. ASSUME Len(s.table) < TABLE_MAX PROVE Bound(s, i, reg) \in Found(T)
  BY <1>1, <1>6, <1>7 DEF Bound
<1>8. s.table \in Seq(T) /\ Len(s.table) \in Nat /\ TABLE_MAX \in Nat
  BY TableAssumption DEF Found, Tables, T
<1>9. s \in Found(T)
  BY DEF T
<1>10. \/ EnumInstance(s, i, reg) \in {s, Stop(s, "device"), Stop(s, "tree")}
       \/ Len(s.table) < TABLE_MAX /\ EnumInstance(s, i, reg) = Bound(s, i, reg)
  BY <1>8 DEF EnumInstance
<1> QED BY <1>1, <1>7, <1>9, <1>10 DEF T

\* The turns of the three loops: over the instances of a device, the devices
\* of a tree and the trees.
DeviceRun(u, Q, s, device, reg) ==
  /\ u \in [0 .. Len(device) -> Q] /\ u[0] = Stop(s, "on")
  /\ \A k \in 1 .. Len(device) : u[k] = EnumInstance(u[k - 1], device[k], reg)
  /\ EnumDevice(s, device, reg) = IF s.go = "tree" THEN s ELSE u[Len(device)]

LEMMA DeviceTurns ==
  ASSUME NEW reg, NEW Q, NEW s, Stop(s, "on") \in Q,
         NEW device, IsSequence(device),
         \A k \in DOMAIN device : \A q \in Q : EnumInstance(q, device[k], reg) \in Q
  PROVE  \E u : DeviceRun(u, Q, s, device, reg)
<1> DEFINE N == Len(device)
           x == Stop(s, "on")
           step == [k \in 1 .. N |-> [q \in Q |-> EnumInstance(q, device[k], reg)]]
           upto[k \in 0 .. N] == IF k = 0 THEN x ELSE EnumInstance(upto[k - 1], device[k], reg)
<1>1. N \in Nat /\ DOMAIN device = 1 .. N
  BY DEF IsSequence
<1>2. EnumDevice(s, device, reg) = IF s.go = "tree" THEN s ELSE upto[N]
  BY Zenon DEF EnumDevice
<1>3. x \in Q /\ \A k \in 1 .. N : \A q \in Q : EnumInstance(q, device[k], reg) \in Q
  BY <1>1
<1> HIDE DEF x, N
<1>4. step \in [1 .. N -> [Q -> Q]]
  BY <1>3
<1> HIDE DEF step
<1>5. PICK f : Iterates(f, N, Q, x, step)
  BY <1>1, <1>3, <1>4, Iteration
<1>6. f = [k \in 0 .. N |-> IF k = 0 THEN x ELSE EnumInstance(f[k - 1], device[k], reg)]
  <2>1. ASSUME NEW k \in 1 .. N PROVE f[k] = EnumInstance(f[k - 1], device[k], reg)
    <3>1. f[k - 1] \in Q /\ f[k] = step[k][f[k - 1]]
      BY <1>1, <1>5 DEF Iterates
    <3> QED BY <3>1 DEF step
  <2> QED BY <1>1, <1>5, <2>1 DEF Iterates
<1>7. upto = [k \in 0 .. N |-> IF k = 0 THEN x ELSE EnumInstance(upto[k - 1], device[k], reg)]
  BY <1>6, Zenon
<1> HIDE DEF upto
<1>8. upto[0] = x /\ \A k \in 1 .. N : upto[k] = EnumInstance(upto[k - 1], device[k], reg)
  <2>1. upto[0] = x
    BY <1>1, <1>7
  <2>2. ASSUME NEW k \in 1 .. N PROVE upto[k] = EnumInstance(upto[k - 1], device[k], reg)
    BY <1>1, <1>7
  <2> QED BY <2>1, <2>2
<1>9. \A k \in 0 .. N : upto[k] \in Q
  <2>1. ASSUME NEW k \in 1 .. N, upto[k - 1] \in Q PROVE upto[k] \in Q
    BY <1>3, <1>8, <2>1
  <2>2. upto[0] \in Q
    BY <1>3, <1>8
  <2> QED BY <1>1, <2>1, <2>2, Along
<1>10. upto \in [0 .. N -> Q]
  BY <1>7, <1>9
<1> QED BY <1>2, <1>8, <1>10 DEF N, x, DeviceRun

TreeRun(u, Q, s, tree, reg) ==
  /\ u \in [0 .. Len(tree) -> Q] /\ u[0] = Stop(s, "on")
  /\ \A k \in 1 .. Len(tree) : u[k] = EnumDevice(u[k - 1], tree[k], reg)
  /\ enuminterfaces(s, tree, reg) = u[Len(tree)]

LEMMA TreeTurns ==
  ASSUME NEW reg, NEW Q, NEW s, Stop(s, "on") \in Q,
         NEW tree, IsSequence(tree),
         \A k \in DOMAIN tree : \A q \in Q : EnumDevice(q, tree[k], reg) \in Q
  PROVE  \E u : TreeRun(u, Q, s, tree, reg)
<1> DEFINE N == Len(tree)
           x == Stop(s, "on")
           step == [k \in 1 .. N |-> [q \in Q |-> EnumDevice(q, tree[k], reg)]]
           upto[k \in 0 .. N] == IF k = 0 THEN x ELSE EnumDevice(upto[k - 1], tree[k], reg)
<1>1. N \in Nat /\ DOMAIN tree = 1 .. N
  BY DEF IsSequence
<1>2. enuminterfaces(s, tree, reg) = upto[N]
  BY Zenon DEF enuminterfaces
<1>3. x \in Q /\ \A k \in 1 .. N : \A q \in Q : EnumDevice(q, tree[k], reg) \in Q
  BY <1>1
<1> HIDE DEF x, N
<1>4. step \in [1 .. N -> [Q -> Q]]
  BY <1>3
<1> HIDE DEF step
<1>5. PICK f : Iterates(f, N, Q, x, step)
  BY <1>1, <1>3, <1>4, Iteration
<1>6. f = [k \in 0 .. N |-> IF k = 0 THEN x ELSE EnumDevice(f[k - 1], tree[k], reg)]
  <2>1. ASSUME NEW k \in 1 .. N PROVE f[k] = EnumDevice(f[k - 1], tree[k], reg)
    <3>1. f[k - 1] \in Q /\ f[k] = step[k][f[k - 1]]
      BY <1>1, <1>5 DEF Iterates
    <3> QED BY <3>1 DEF step
  <2> QED BY <1>1, <1>5, <2>1 DEF Iterates
<1>7. upto = [k \in 0 .. N |-> IF k = 0 THEN x ELSE EnumDevice(upto[k - 1], tree[k], reg)]
  BY <1>6, Zenon
<1> HIDE DEF upto
<1>8. upto[0] = x /\ \A k \in 1 .. N : upto[k] = EnumDevice(upto[k - 1], tree[k], reg)
  <2>1. upto[0] = x
    BY <1>1, <1>7
  <2>2. ASSUME NEW k \in 1 .. N PROVE upto[k] = EnumDevice(upto[k - 1], tree[k], reg)
    BY <1>1, <1>7
  <2> QED BY <2>1, <2>2
<1>9. \A k \in 0 .. N : upto[k] \in Q
  <2>1. ASSUME NEW k \in 1 .. N, upto[k - 1] \in Q PROVE upto[k] \in Q
    BY <1>3, <1>8, <2>1
  <2>2. upto[0] \in Q
    BY <1>3, <1>8
  <2> QED BY <1>1, <2>1, <2>2, Along
<1>10. upto \in [0 .. N -> Q]
  BY <1>7, <1>9
<1> QED BY <1>2, <1>8, <1>10 DEF N, x, TreeRun

RegistryRun(u, Q, reg) ==
  /\ u \in [0 .. Len(reg.trees) -> Q] /\ u[0] = NothingFound
  /\ \A k \in 1 .. Len(reg.trees) : u[k] = enuminterfaces(u[k - 1], reg.trees[k], reg)
  /\ win9x_getaddrtable(reg) = u[Len(reg.trees)].table

LEMMA RegistryTurns ==
  ASSUME NEW reg, NEW Q, NothingFound \in Q, IsSequence(reg.trees),
         \A k \in DOMAIN reg.trees : \A q \in Q : enuminterfaces(q, reg.trees[k], reg) \in Q
  PROVE  \E u : RegistryRun(u, Q, reg)
<1> DEFINE N == Len(reg.trees)
           x == NothingFound
           step == [k \in 1 .. N |-> [q \in Q |-> enuminterfaces(q, reg.trees[k], reg)]]
           upto[k \in 0 .. N] == IF k = 0 THEN x ELSE enuminterfaces(upto[k - 1], reg.trees[k], reg)
<1>1. N \in Nat /\ DOMAIN reg.trees = 1 .. N
  BY DEF IsSequence
<1>2. win9x_getaddrtable(reg) = upto[N].table
  BY Zenon DEF win9x_getaddrtable
<1>3. x \in Q /\ \A k \in 1 .. N : \A q \in Q : enuminterfaces(q, reg.trees[k], reg) \in Q
  BY <1>1
<1> HIDE DEF x, N
<1>4. step \in [1 .. N -> [Q -> Q]]
  BY <1>3
<1> HIDE DEF step
<1>5. PICK f : Iterates(f, N, Q, x, step)
  BY <1>1, <1>3, <1>4, Iteration
<1>6. f = [k \in 0 .. N |-> IF k = 0 THEN x ELSE enuminterfaces(f[k - 1], reg.trees[k], reg)]
  <2>1. ASSUME NEW k \in 1 .. N PROVE f[k] = enuminterfaces(f[k - 1], reg.trees[k], reg)
    <3>1. f[k - 1] \in Q /\ f[k] = step[k][f[k - 1]]
      BY <1>1, <1>5 DEF Iterates
    <3> QED BY <3>1 DEF step
  <2> QED BY <1>1, <1>5, <2>1 DEF Iterates
<1>7. upto = [k \in 0 .. N |-> IF k = 0 THEN x ELSE enuminterfaces(upto[k - 1], reg.trees[k], reg)]
  BY <1>6, Zenon
<1> HIDE DEF upto
<1>8. upto[0] = x /\ \A k \in 1 .. N : upto[k] = enuminterfaces(upto[k - 1], reg.trees[k], reg)
  <2>1. upto[0] = x
    BY <1>1, <1>7
  <2>2. ASSUME NEW k \in 1 .. N PROVE upto[k] = enuminterfaces(upto[k - 1], reg.trees[k], reg)
    BY <1>1, <1>7
  <2> QED BY <2>1, <2>2
<1>9. \A k \in 0 .. N : upto[k] \in Q
  <2>1. ASSUME NEW k \in 1 .. N, upto[k - 1] \in Q PROVE upto[k] \in Q
    BY <1>3, <1>8, <2>1
  <2>2. upto[0] \in Q
    BY <1>3, <1>8
  <2> QED BY <1>1, <2>1, <2>2, Along
<1>10. upto \in [0 .. N -> Q]
  BY <1>7, <1>9
<1> QED BY <1>2, <1>8, <1>10 DEF N, x, RegistryRun

LEMMA NothingFinds == \A reg : NothingFound \in Found(Entries(reg))
<1> SUFFICES ASSUME NEW reg PROVE NothingFound \in Found(Entries(reg))
  OBVIOUS
<1>1. Loopback \in Entries(reg)
  BY DEF Entries
<1>2. <<Loopback>> \in Tables(Entries(reg))
  <2> DEFINE q == <<Loopback>>
  <2>1. q \in Seq(Entries(reg)) /\ Len(q) = 1 /\ q[1] = Loopback
    BY <1>1
  <2>2. 1 \in 1 .. TABLE_MAX
    BY TableAssumption
  <2> HIDE DEF q
  <2>3. q \in Tables(Entries(reg))
    BY <2>1, <2>2 DEF Tables
  <2> QED BY <2>3 DEF q
<1> QED BY <1>2 DEF NothingFound, Found

LEMMA InstancesOf ==
  ASSUME NEW reg, NEW t \in DOMAIN reg.trees, NEW d \in DOMAIN reg.trees[t],
         NEW i \in DOMAIN reg.trees[t][d]
  PROVE  reg.trees[t][d][i] \in Instances(reg)
BY DEF Instances

\* The registry's lists are sequences.
TreesInOrder(reg) ==
  /\ IsSequence(reg.trees)
  /\ \A t \in DOMAIN reg.trees :
       /\ IsSequence(reg.trees[t])
       /\ \A d \in DOMAIN reg.trees[t] : IsSequence(reg.trees[t][d])

\* What every turn at an instance keeps, and every start of a loop.
Kept(Q, reg) ==
  \A q \in Q :
    /\ Stop(q, "on") \in Q
    /\ \A i \in Instances(reg) : EnumInstance(q, i, reg) \in Q

LEMMA DeviceKeeps ==
  ASSUME NEW reg, TreesInOrder(reg), NEW Q, Kept(Q, reg), NEW s \in Q,
         NEW t \in DOMAIN reg.trees, NEW d \in DOMAIN reg.trees[t]
  PROVE  EnumDevice(s, reg.trees[t][d], reg) \in Q
<1> DEFINE device == reg.trees[t][d]
<1>1. IsSequence(device) /\ Len(device) \in Nat
  <2>1. IsSequence(device)
    BY DEF TreesInOrder
  <2> HIDE DEF device
  <2> QED BY <2>1 DEF IsSequence
<1>2. \A k \in DOMAIN device : \A q \in Q : EnumInstance(q, device[k], reg) \in Q
  <2>1. \A k \in DOMAIN device : device[k] \in Instances(reg)
    BY InstancesOf
  <2> HIDE DEF device
  <2> QED BY <2>1 DEF Kept
<1> HIDE DEF device
<1>3. PICK u : DeviceRun(u, Q, s, device, reg)
  <2>1. Stop(s, "on") \in Q
    BY DEF Kept
  <2> QED BY <1>1, <1>2, <2>1, DeviceTurns, Zenon
<1>4. u[Len(device)] \in Q
  <2>1. Len(device) \in 0 .. Len(device)
    BY <1>1
  <2> QED BY <1>3, <2>1 DEF DeviceRun
<1>5. EnumDevice(s, device, reg) \in Q
  BY <1>3, <1>4 DEF DeviceRun
<1> QED BY <1>5 DEF device

LEMMA TreeKeeps ==
  ASSUME NEW reg, TreesInOrder(reg), NEW Q, Kept(Q, reg), NEW s \in Q,
         NEW t \in DOMAIN reg.trees
  PROVE  enuminterfaces(s, reg.trees[t], reg) \in Q
<1> DEFINE tree == reg.trees[t]
<1>1. IsSequence(tree) /\ Len(tree) \in Nat
  <2>1. IsSequence(tree)
    BY DEF TreesInOrder
  <2> HIDE DEF tree
  <2> QED BY <2>1 DEF IsSequence
<1>2. \A k \in DOMAIN tree : \A q \in Q : EnumDevice(q, tree[k], reg) \in Q
  BY DeviceKeeps
<1> HIDE DEF tree
<1>3. PICK u : TreeRun(u, Q, s, tree, reg)
  <2>1. Stop(s, "on") \in Q
    BY DEF Kept
  <2> QED BY <1>1, <1>2, <2>1, TreeTurns, Zenon
<1>4. u[Len(tree)] \in Q
  <2>1. Len(tree) \in 0 .. Len(tree)
    BY <1>1
  <2> QED BY <1>3, <2>1 DEF TreeRun
<1> QED BY <1>3, <1>4 DEF TreeRun, tree

LEMMA RegistryKeeps ==
  ASSUME NEW reg, TreesInOrder(reg), NEW Q, Kept(Q, reg), NothingFound \in Q
  PROVE  \E q \in Q : win9x_getaddrtable(reg) = q.table
<1>1. Len(reg.trees) \in Nat /\ IsSequence(reg.trees)
  BY DEF TreesInOrder, IsSequence
<1>2. PICK u : RegistryRun(u, Q, reg)
  BY <1>1, TreeKeeps, RegistryTurns
<1>3. Len(reg.trees) \in 0 .. Len(reg.trees)
  BY <1>1
<1> QED BY <1>2, <1>3 DEF RegistryRun

LEMMA FoundKept == \A reg : Kept(Found(Entries(reg)), reg)
BY StopFinds, InstanceFinds DEF Kept

LEMMA RegistryFinds ==
  ASSUME NEW reg, TreesInOrder(reg)
  PROVE  win9x_getaddrtable(reg) \in Tables(Entries(reg))
<1> DEFINE Q == Found(Entries(reg))
<1>1. Kept(Q, reg) /\ NothingFound \in Q
  BY FoundKept, NothingFinds
<1>2. \A q \in Q : q.table \in Tables(Entries(reg))
  BY DEF Found
<1> HIDE DEF Q
<1>3. PICK q \in Q : win9x_getaddrtable(reg) = q.table
  BY <1>1, RegistryKeeps, Zenon
<1> QED BY <1>2, <1>3

\* What the loops of initialisation ask for of a registry.
IsRegistry(reg) ==
  /\ TreesInOrder(reg)
  /\ IsSequence(reg.nameservers) /\ reg.beyond \in Nat
  /\ \A n \in DOMAIN reg.dhcp : reg.dhcp[n].options \in Seq(Nat)

\* The least number of a set that has one.
LEMMA FirstIs ==
  ASSUME NEW I \in SUBSET Nat, I # {}
  PROVE  \E m \in I : \A k \in I : m <= k
<1>1. PICK m \in I : \A k \in I : ~(<<k, m>> \in OpToRel(<, Nat))
  BY WFMin, NatLessThanWellFounded, Zenon
<1>2. \A k \in I : ~(k < m)
  BY <1>1, LessThan
<1> QED BY <1>2

\* The greatest number of a set that has one.
LEMMA LastIs ==
  ASSUME NEW N \in Nat, NEW I \in SUBSET (1 .. N), I # {}
  PROVE  Max(I) \in I /\ \A k \in I : k <= Max(I)
<1> DEFINE J == {j \in Nat : \E i \in I : j = N - i}
<1>1. J \in SUBSET Nat /\ J # {}
  <2>1. PICK i \in I : TRUE
    OBVIOUS
  <2>2. N - i \in J
    OBVIOUS
  <2> QED BY <2>2
<1> HIDE DEF J
<1>2. PICK j \in J : \A k \in J : j <= k
  BY <1>1, FirstIs
<1>3. PICK m \in I : j = N - m
  BY <1>2 DEF J
<1>4. ASSUME NEW k \in I PROVE m >= k
  <2>1. N - k \in J
    BY DEF J
  <2> QED BY <1>2, <1>3, <2>1
<1>5. \E x \in I : \A y \in I : x >= y
  BY <1>4
<1>6. Max(I) \in I /\ \A y \in I : Max(I) >= y
  BY <1>5, Zenon DEF Max
<1> QED BY <1>6

LEMMA AtMostIs ==
  ASSUME NEW n \in Nat, NEW T, NEW l \in Seq(T)
  PROVE  /\ AtMost(n, l) \in Seq(T)
         /\ Len(AtMost(n, l)) = IF Len(l) < n THEN Len(l) ELSE n
         /\ \A i \in 1 .. Len(AtMost(n, l)) : AtMost(n, l)[i] = l[i]
<1> DEFINE m == IF Len(l) < n THEN Len(l) ELSE n
<1>1. m \in Nat /\ m <= Len(l)
  OBVIOUS
<1>2. AtMost(n, l) = SubSeq(l, 1, m)
  BY DEF AtMost
<1> HIDE DEF m
<1>3. /\ SubSeq(l, 1, m) \in Seq(T) /\ Len(SubSeq(l, 1, m)) = m
      /\ \A i \in 1 .. m : SubSeq(l, 1, m)[i] = l[i]
  BY <1>1
<1> QED BY <1>2, <1>3 DEF m

\* A sequence of some values is one of its own.
LEMMA OwnSequence ==
  ASSUME NEW T, NEW l \in Seq(T)
  PROVE  IsSequence(l)
<1> DEFINE R == {l[n] : n \in DOMAIN l}
<1>1. DOMAIN l = 1 .. Len(l) /\ Len(l) \in Nat
  OBVIOUS
<1>2. \A n \in DOMAIN l : l[n] \in R
  OBVIOUS
<1> HIDE DEF R
<1>3. l = [n \in 1 .. Len(l) |-> l[n]]
  OBVIOUS
<1>4. l \in [1 .. Len(l) -> R]
  BY <1>1, <1>2, <1>3
<1>5. l \in Seq(R)
  BY <1>1, <1>4
<1> QED BY <1>5 DEF IsSequence, R

\* A function on the first numbers is a sequence.
LEMMA FirstNumbers ==
  ASSUME NEW N \in Nat, NEW f, f = [n \in 1 .. N |-> f[n]]
  PROVE  IsSequence(f) /\ Len(f) = N
<1> DEFINE R == {f[n] : n \in 1 .. N}
<1>1. \A n \in 1 .. N : f[n] \in R
  OBVIOUS
<1> HIDE DEF R
<1>2. f \in [1 .. N -> R]
  BY <1>1
<1>3. f \in Seq(R) /\ Len(f) = N
  BY <1>2
<1> QED BY <1>3, OwnSequence

LEMMA OptionIs ==
  ASSUME NEW options \in Seq(Nat), NEW opt, NEW reg, reg.beyond \in Nat
  PROVE  IsSequence(OptionData(options, opt, reg))
<1> DEFINE at == {i \in DOMAIN options : options[i] = opt}
           i == CHOOSE m \in at : \A k \in at : m <= k
           n == Byte(options, i + 1, reg)
           f == [k \in 1 .. n |-> Byte(options, i + 1 + k, reg)]
<1>1. at \in SUBSET Nat
  OBVIOUS
<1>2. OptionData(options, opt, reg) = IF at = {} THEN <<>> ELSE f
  BY Zenon DEF OptionData
<1>3. CASE at = {}
  BY <1>2, <1>3 DEF IsSequence
<1>4. CASE at # {}
  <2> HIDE DEF at
  <2>1. i \in Nat
    BY <1>1, <1>4, FirstIs
  <2> HIDE DEF i
  <2>2. n \in Nat
    BY <2>1 DEF Byte
  <2> HIDE DEF n
  <2>3. f = [k \in 1 .. n |-> f[k]]
    OBVIOUS
  <2> HIDE DEF f
  <2>4. IsSequence(f)
    BY <2>2, <2>3, FirstNumbers
  <2> QED BY <1>2, <1>4, <2>4
<1> QED BY <1>3, <1>4

LEMMA AtMostOf ==
  ASSUME NEW n \in Nat, NEW l, IsSequence(l)
  PROVE  IsSequence(AtMost(n, l))
BY AtMostIs, OwnSequence DEF IsSequence

\* An entry has its servers in order.
LEMMA ServersInOrder ==
  ASSUME NEW reg, IsRegistry(reg), NEW e \in Entries(reg)
  PROVE  IsSequence(e.dns)
<1>0. DNS_MAX \in Nat
  BY TableAssumption
<1>1. IsSequence(<<>>)
  BY DEF IsSequence
<1>2. Blank.dns = <<>> /\ Loopback.dns = <<>> /\ Card.dns = <<>>
  BY DEF Blank, Loopback, Card
<1>3. \A n \in Int : Modem(n).dns = <<>>
  BY DEF Blank, Modem
<1>4. ASSUME NEW i \in Instances(reg) PROVE IsSequence(getstaticaddr(i, reg).dns)
  <2> DEFINE l == AtMost(DNS_MAX, mstcp_getdnsaddrs(reg))
             d == [k \in DOMAIN l |-> Aton(l[k])]
  <2>1. IsSequence(mstcp_getdnsaddrs(reg))
    BY <1>1 DEF mstcp_getdnsaddrs, IsRegistry
  <2>2. IsSequence(l)
    BY <1>0, <2>1, AtMostOf
  <2> HIDE DEF l
  <2>3. Len(l) \in Nat /\ DOMAIN l = 1 .. Len(l)
    BY <2>2 DEF IsSequence
  <2>4. d = [k \in 1 .. Len(l) |-> d[k]]
    BY <2>3
  <2> HIDE DEF d
  <2>5. IsSequence(d)
    BY <2>3, <2>4, FirstNumbers
  <2>6. Static(i).dns = <<>>
    BY DEF Static, Blank
  <2>7. CASE ~i.mask
    BY <1>1, <2>6, <2>7 DEF getstaticaddr
  <2>8. CASE i.mask
    <3>1. getstaticaddr(i, reg).dns = d
      BY <2>8, Zenon DEF getstaticaddr, d, l, Static, Blank
    <3> QED BY <2>5, <3>1
  <2> QED BY <2>7, <2>8
<1>5. ASSUME NEW n \in Int, NEW i \in Instances(reg)
      PROVE  IsSequence(getdynamicaddr(n, i, reg).dns)
  <2> DEFINE d == CHOOSE k \in DhcpKey(n, reg) : TRUE
             some == [Card EXCEPT !.addr = d.ip]
  <2>1. getdynamicaddr(n, i, reg) =
          IF DhcpKey(n, reg) = {} THEN Card
          ELSE IF d.ip = 0 \/ ~d.mask THEN some ELSE Leased(i, d, reg)
    BY Zenon DEF getdynamicaddr, Card
  <2>2. some.dns = <<>>
    BY DEF Card, Blank
  <2>3. ASSUME DhcpKey(n, reg) # {} PROVE IsSequence(Leased(i, d, reg).dns)
    <3>1. n + 1 \in DOMAIN reg.dhcp /\ d = reg.dhcp[n + 1]
      BY <2>3 DEF DhcpKey
    <3> HIDE DEF d
    <3>2. d.options \in Seq(Nat) /\ reg.beyond \in Nat
      BY <3>1 DEF IsRegistry
    <3> DEFINE l == getoptaddrs(DHCP_OPT_DNS, d.options, reg, DNS_MAX)
    <3>3. IsSequence(l)
      BY <1>0, <3>2, OptionIs, AtMostOf DEF getoptaddrs
    <3>4. Leased(i, d, reg).dns = l
      <4> HIDE DEF l
      <4>1. "dns" \in DOMAIN Blank
        BY DEF Blank
      <4> QED BY <4>1 DEF Leased, l
    <3> QED BY <3>3, <3>4
  <2> HIDE DEF d, some
  <2> QED BY <1>1, <1>2, <2>1, <2>2, <2>3
<1> QED BY <1>1, <1>2, <1>3, <1>4, <1>5 DEF Entries

-----------------------------------------------------------------------------
(* Which adapters are found.                                               *)

\* A table that has what another has, at the same places.
Extends(a, b) ==
  /\ Len(a) <= Len(b)
  /\ \A k \in 1 .. Len(a) : b[k] = a[k]

LEMMA AddIs ==
  ASSUME NEW T, NEW s \in Found(T), NEW e
  PROVE  /\ Add(s, e) = [table |-> Append(s.table, e), dialup |-> s.dialup,
                         dhcp |-> s.dhcp, go |-> s.go]
         /\ s.table \in Seq(T) /\ Len(s.table) \in 1 .. TABLE_MAX /\ TABLE_MAX \in Nat
         /\ s.dialup \in Int /\ s.dhcp \in Int
<1>1. s = [table |-> s.table, dialup |-> s.dialup, dhcp |-> s.dhcp, go |-> s.go]
  BY DEF Found
<1>2. s.table \in Seq(T) /\ Len(s.table) \in 1 .. TABLE_MAX /\ TABLE_MAX \in Nat
  BY TableAssumption DEF Found, Tables
<1>3. s.dialup \in Int /\ s.dhcp \in Int
  BY DEF Found
<1> DEFINE a == Append(s.table, e)
<1>4. Add(s, e) = [s EXCEPT !.table = a]
  BY DEF Add
<1> HIDE DEF a
<1>5. [s EXCEPT !.table = a] = [table |-> a, dialup |-> s.dialup,
                               dhcp |-> s.dhcp, go |-> s.go]
  BY <1>1
<1> QED BY <1>2, <1>3, <1>4, <1>5 DEF a

LEMMA StopIs ==
  ASSUME NEW T, NEW s \in Found(T), NEW w
  PROVE  Stop(s, w) = [table |-> s.table, dialup |-> s.dialup, dhcp |-> s.dhcp, go |-> w]
BY DEF Stop, Found

LEMMA ExtendsItself ==
  ASSUME NEW T, NEW s \in Found(T) PROVE Extends(s.table, s.table)
BY AddIs DEF Extends

LEMMA ExtendsTwice ==
  ASSUME NEW T, NEW a \in Found(T), NEW b \in Found(T), NEW c \in Found(T),
         Extends(a.table, b.table), Extends(b.table, c.table)
  PROVE  Extends(a.table, c.table)
<1>1. Len(a.table) \in Nat /\ Len(b.table) \in Nat /\ Len(c.table) \in Nat
  BY AddIs
<1>2. \A k \in 1 .. Len(a.table) : k \in 1 .. Len(b.table)
  BY <1>1 DEF Extends
<1> QED BY <1>1, <1>2 DEF Extends

\* What is appended is in the table, behind what was there.
LEMMA AppendIs ==
  ASSUME NEW T, NEW t \in Seq(T), NEW e \in T
  PROVE  /\ Extends(t, Append(t, e)) /\ Len(Append(t, e)) = Len(t) + 1
         /\ Append(t, e)[Len(t) + 1] = e /\ e \in Range(Append(t, e))
<1> DEFINE a == Append(t, e)
<1>1. /\ Len(t) \in Nat /\ Len(a) = Len(t) + 1 /\ a[Len(t) + 1] = e
      /\ DOMAIN a = 1 .. Len(t) + 1
      /\ \A k \in 1 .. Len(t) : a[k] = t[k]
  OBVIOUS
<1> HIDE DEF a
<1>2. Extends(t, a)
  BY <1>1 DEF Extends
<1>3. Len(t) + 1 \in DOMAIN a
  BY <1>1
<1>4. e \in Range(a)
  BY <1>1, <1>3 DEF Range
<1> QED BY <1>1, <1>2, <1>4 DEF a

\* An adapter with a static address.
Fixed(i) == Adapter(i) /\ i.ip > 0

InTable(l, i) == \E e \in Range(l) : e.fixed /\ e.addr = i.ip

LEMMA StaticIs ==
  ASSUME NEW i, NEW reg
  PROVE  getstaticaddr(i, reg).fixed = TRUE /\ getstaticaddr(i, reg).addr = Aton(i.ip)
<1>1. Static(i).fixed = TRUE /\ Static(i).addr = Aton(i.ip)
  BY DEF Static, Blank
<1>2. DOMAIN Static(i) = {"hw", "number", "fixed", "addr", "mask", "gw", "hostname",
                          "domainname", "dns"}
  BY DEF Static, Blank
<1>3. CASE ~i.mask
  BY <1>1, <1>3 DEF getstaticaddr
<1>4. CASE i.mask
  BY <1>1, <1>2, <1>4 DEF getstaticaddr
<1> QED BY <1>3, <1>4

\* What a turn at an instance does to the table.
LEMMA InstanceTurn ==
  ASSUME NEW reg, NEW s \in Found(Entries(reg)), NEW i \in Instances(reg), s.go = "on"
  PROVE  LET r == EnumInstance(s, i, reg)
         IN  /\ Extends(s.table, r.table)
             /\ r.go = "tree" => EndsTree(i)
             /\ r.go = "device" => EndsDevice(i) \/ Len(r.table) = TABLE_MAX
             /\ Fixed(i) /\ r.go = "on" => InTable(r.table, i)
<1> DEFINE T == Entries(reg)
           r == EnumInstance(s, i, reg)
           Fine(q) == /\ Extends(s.table, q.table)
                      /\ q.go = "tree" => EndsTree(i)
                      /\ q.go = "device" => EndsDevice(i) \/ Len(q.table) = TABLE_MAX
                      /\ Fixed(i) /\ q.go = "on" => InTable(q.table, i)
<1>1. s \in Found(T) /\ Extends(s.table, s.table)
      /\ s.table \in Seq(T) /\ Len(s.table) \in 1 .. TABLE_MAX /\ TABLE_MAX \in Nat
      /\ s.dhcp \in Int /\ s.dialup \in Int
  BY ExtendsItself, AddIs
<1>2. \A w : Stop(s, w).table = s.table /\ Stop(s, w).go = w
  BY StopIs
<1>3. /\ Blank \in T /\ Card \in T /\ getstaticaddr(i, reg) \in T
      /\ \A n \in Int : Modem(n) \in T
      /\ \A n \in Int : getdynamicaddr(n, i, reg) \in T
  BY DEF Entries
<1> HIDE DEF T
\* Whatever is added, by a state with the same table.
<1>4. ASSUME NEW q \in Found(T), q.table = s.table, q.go = "on", NEW e \in T
      PROVE  /\ Extends(s.table, Add(q, e).table) /\ Add(q, e).go = "on"
             /\ e \in Range(Add(q, e).table)
  <2>1. Add(q, e).table = Append(s.table, e) /\ Add(q, e).go = "on"
    BY <1>4, AddIs
  <2> QED BY <1>1, <2>1, AppendIs
<1>5. DialUp(s, reg).go = "on" /\ Extends(s.table, DialUp(s, reg).table)
  <2> DEFINE c == [s EXCEPT !.dialup = @ + 1]
  <2>1. c \in Found(T) /\ c.table = s.table /\ c.dialup \in Int /\ c.go = "on"
    BY <1>1 DEF Found
  <2> HIDE DEF c
  <2>2. DialUp(s, reg) \in {c, Add(c, Modem(c.dialup))}
    BY Zenon DEF DialUp, Modem, c
  <2> QED BY <1>1, <1>3, <1>4, <2>1, <2>2
<1>6. getethcardaddrs(s, i, reg).go = "on" /\ Extends(s.table, getethcardaddrs(s, i, reg).table)
  <2> DEFINE c == [s EXCEPT !.dhcp = @ + 1]
             n == s.dhcp + 1
  <2>1. c \in Found(T) /\ c.table = s.table /\ c.go = "on" /\ n \in Int
    BY <1>1 DEF Found
  <2>2. getethcardaddrs(s, i, reg) \in
          {Add(s, Card), Add(s, getstaticaddr(i, reg)), Add(c, getdynamicaddr(n, i, reg))}
    BY Zenon DEF getethcardaddrs, Card
  <2> HIDE DEF c, n
  <2> QED BY <1>1, <1>3, <1>4, <2>1, <2>2
<1>7. ASSUME Fixed(i) PROVE InTable(getethcardaddrs(s, i, reg).table, i)
  <2>1. i.ip > 0 /\ i.ip # Missing /\ i.ip # 0 /\ Aton(i.ip) = i.ip
    BY <1>7 DEF Fixed, Adapter, Missing, Aton, Garbled
  <2>2. getethcardaddrs(s, i, reg) = Add(s, getstaticaddr(i, reg))
    BY <2>1 DEF getethcardaddrs
  <2>3. getstaticaddr(i, reg).fixed = TRUE /\ getstaticaddr(i, reg).addr = Aton(i.ip)
    BY StaticIs
  <2>4. getstaticaddr(i, reg) \in Range(Add(s, getstaticaddr(i, reg)).table)
    BY <1>1, <1>3, <1>4
  <2> QED BY <2>1, <2>2, <2>3, <2>4 DEF InTable
<1>8. Fine(Stop(s, "tree")) \/ ~EndsTree(i)
  BY <1>1, <1>2
<1>9. Fine(Stop(s, "device")) \/ ~(EndsDevice(i) \/ Len(s.table) = TABLE_MAX)
  BY <1>1, <1>2
<1>10. ASSUME i.bindings = "mstcp", i.class = "Net" PROVE Fine(NetDevice(s, i, reg))
  <2>1. CASE i.kind = "unreadable"
    <3>1. EndsTree(i)
      BY <1>10, <2>1 DEF EndsTree
    <3> QED BY <1>8, <2>1, <3>1 DEF NetDevice
  <2>2. CASE i.kind = "dialup"
    <3>1. NetDevice(s, i, reg) = DialUp(s, reg) /\ ~Fixed(i)
      BY <2>2 DEF NetDevice, Fixed, Adapter
    <3> QED BY <1>5, <3>1
  <2>3. CASE i.kind = "ethernet"
    <3>1. NetDevice(s, i, reg) = getethcardaddrs(s, i, reg)
      BY <2>3 DEF NetDevice
    <3> QED BY <1>6, <1>7, <3>1
  <2>4. CASE i.kind \notin {"unreadable", "dialup", "ethernet"}
    <3>1. NetDevice(s, i, reg) = Add(s, Blank) /\ ~Fixed(i)
      BY <2>4 DEF NetDevice, Fixed, Adapter
    <3> QED BY <1>1, <1>3, <1>4, <3>1
  <2> QED BY <2>1, <2>2, <2>3, <2>4
<1>11. ASSUME i.driver, i.class = "Net" PROVE Fine(Bound(s, i, reg))
  <2>1. CASE i.bindings = "none"
    <3>1. EndsDevice(i)
      BY <1>11, <2>1 DEF EndsDevice
    <3> QED BY <1>9, <2>1, <3>1 DEF Bound
  <2>2. CASE i.bindings = "mstcp"
    BY <1>10, <1>11, <2>2 DEF Bound
  <2>3. CASE i.bindings \notin {"none", "mstcp"}
    <3>1. EndsTree(i)
      BY <1>11, <2>3 DEF EndsTree
    <3>2. Bound(s, i, reg) = Stop(s, "tree")
      BY <2>3 DEF Bound
    <3> QED BY <1>8, <3>1, <3>2
  <2> QED BY <2>1, <2>2, <2>3
<1>12. Fine(r)
  <2>1. CASE i.class = "cantread"
    <3>1. EndsDevice(i) /\ r = Stop(s, "device")
      BY <2>1 DEF EndsDevice, EnumInstance
    <3> QED BY <1>9, <3>1
  <2>2. CASE i.class = "missing"
    <3>1. EndsTree(i) /\ r = Stop(s, "tree")
      BY <2>2 DEF EndsTree, EnumInstance
    <3> QED BY <1>8, <3>1
  <2>3. CASE i.class \notin {"cantread", "missing", "Net"}
    <3>1. r = s /\ ~Fixed(i)
      BY <2>3 DEF EnumInstance, Fixed, Adapter
    <3> QED BY <1>1, <3>1
  <2>4. CASE i.class = "Net"
    <3>1. r = IF Len(s.table) >= TABLE_MAX THEN Stop(s, "device")
              ELSE IF ~i.driver THEN Stop(s, "tree") ELSE Bound(s, i, reg)
      BY <2>4 DEF EnumInstance
    <3>2. CASE Len(s.table) >= TABLE_MAX
      <4>1. Len(s.table) = TABLE_MAX
        BY <1>1, <3>2
      <4>2. r = Stop(s, "device")
        BY <3>1, <3>2
      <4> QED BY <1>9, <4>1, <4>2
    <3>3. CASE ~(Len(s.table) >= TABLE_MAX) /\ ~i.driver
      <4>1. EndsTree(i)
        BY <2>4, <3>3 DEF EndsTree
      <4>2. r = Stop(s, "tree")
        BY <3>1, <3>3
      <4> QED BY <1>8, <4>1, <4>2
    <3>4. CASE ~(Len(s.table) >= TABLE_MAX) /\ i.driver
      <4>1. r = Bound(s, i, reg)
        BY <3>1, <3>4
      <4> QED BY <1>11, <2>4, <3>4, <4>1
    <3> QED BY <3>2, <3>3, <3>4
  <2> QED BY <2>1, <2>2, <2>3, <2>4
<1> QED BY <1>12

\* An adapter does not keep others from being looked at.
LEMMA FixedEnds ==
  ASSUME NEW i, Fixed(i) PROVE ~EndsTree(i) /\ ~EndsDevice(i)
BY DEF Fixed, Adapter, EndsTree, EndsDevice

\* What is in a table stays there.
LEMMA InTableStays ==
  ASSUME NEW T, NEW a \in Found(T), NEW b \in Found(T), Extends(a.table, b.table),
         NEW i, InTable(a.table, i)
  PROVE  InTable(b.table, i)
<1>1. PICK k \in DOMAIN a.table : a.table[k].fixed /\ a.table[k].addr = i.ip
  BY DEF InTable, Range
<1>2. /\ DOMAIN a.table = 1 .. Len(a.table) /\ DOMAIN b.table = 1 .. Len(b.table)
      /\ Len(a.table) \in Nat /\ Len(b.table) \in Nat
  BY DEF Found, Tables
<1>3. k \in DOMAIN b.table /\ b.table[k] = a.table[k]
  BY <1>1, <1>2 DEF Extends
<1>4. b.table[k] \in Range(b.table)
  BY <1>3 DEF Range
<1> QED BY <1>1, <1>3, <1>4 DEF InTable

LEMMA FullStays ==
  ASSUME NEW T, NEW a \in Found(T), NEW b \in Found(T), Extends(a.table, b.table),
         Len(a.table) = TABLE_MAX
  PROVE  Len(b.table) = TABLE_MAX
<1>1. Len(b.table) \in 1 .. TABLE_MAX /\ TABLE_MAX \in Nat
  BY AddIs
<1>2. Len(a.table) <= Len(b.table)
  BY DEF Extends
<1> DEFINE n == Len(b.table)
           m == Len(a.table)
<1> HIDE DEF n, m
<1>3. n \in 1 .. TABLE_MAX /\ m = TABLE_MAX /\ m <= n
  BY <1>1, <1>2 DEF n, m
<1>4. n = TABLE_MAX
  BY <1>1, <1>3
<1> QED BY <1>4 DEF n

LEMMA ListsStays ==
  ASSUME NEW T, NEW a \in Found(T), NEW b \in Found(T), Extends(a.table, b.table),
         NEW tree, NEW d, NEW i, Lists(a.table, tree, d, i)
  PROVE  Lists(b.table, tree, d, i)
<1>1. Len(a.table) = TABLE_MAX => Len(b.table) = TABLE_MAX
  BY FullStays
<1>2. InTable(a.table, tree[d][i]) => InTable(b.table, tree[d][i])
  BY InTableStays
<1> QED BY <1>1, <1>2, Zenon DEF Lists, InTable

\* What is known after the first k instances of a device, of those alone.
Passed(q, k, s, device) ==
  /\ Extends(s.table, q.table)
  /\ q.go = "tree" => \E j \in 1 .. k : EndsTree(device[j])
  /\ q.go = "device" =>
       Len(q.table) = TABLE_MAX \/ \E j \in 1 .. k : EndsDevice(device[j])
  /\ \A i \in 1 .. k : Fixed(device[i]) =>
       \/ Len(q.table) = TABLE_MAX \/ InTable(q.table, device[i])
       \/ \E j \in 1 .. i - 1 : EndsTree(device[j]) \/ EndsDevice(device[j])

LEMMA PassedStep ==
  ASSUME NEW reg, NEW s \in Found(Entries(reg)), NEW q \in Found(Entries(reg)),
         NEW k \in Nat \ {0}, NEW device, device[k] \in Instances(reg),
         Passed(q, k - 1, s, device)
  PROVE  Passed(EnumInstance(q, device[k], reg), k, s, device)
<1> DEFINE T == Entries(reg)
           r == EnumInstance(q, device[k], reg)
<1>0. s \in Found(T) /\ q \in Found(T) /\ r \in Found(T)
  BY InstanceFinds
<1>1. CASE q.go # "on"
  <2>1. r = q
    BY <1>1 DEF EnumInstance
  <2>2. q.go = "tree" \/ q.go = "device"
    BY <1>0, <1>1 DEF Found
  <2> HIDE DEF r
  <2>3. \A j \in 1 .. k - 1 : j \in 1 .. k
    OBVIOUS
  <2>4. \A i \in 1 .. k : i \in 1 .. k - 1 \/ i = k
    OBVIOUS
  <2>5. Passed(q, k, s, device)
    BY <2>2, <2>3, <2>4, Zenon DEF Passed
  <2> QED BY <2>1, <2>5 DEF r
<1>2. CASE q.go = "on"
  <2>1. /\ Extends(q.table, r.table)
        /\ r.go = "tree" => EndsTree(device[k])
        /\ r.go = "device" => EndsDevice(device[k]) \/ Len(r.table) = TABLE_MAX
        /\ Fixed(device[k]) /\ r.go = "on" => InTable(r.table, device[k])
    BY <1>2, InstanceTurn
  <2>2. Extends(s.table, r.table)
    <3>1. Extends(s.table, q.table)
      BY DEF Passed
    <3> QED BY <1>0, <2>1, <3>1, ExtendsTwice
  <2>3. r.go \in {"on", "device", "tree"}
    BY <1>0 DEF Found
  <2>4. Len(q.table) = TABLE_MAX => Len(r.table) = TABLE_MAX
    BY <1>0, <2>1, FullStays
  <2>5. \A i : InTable(q.table, i) => InTable(r.table, i)
    BY <1>0, <2>1, InTableStays
  <2> HIDE DEF r
  <2>6. k \in 1 .. k /\ \A i \in 1 .. k : i \in 1 .. k - 1 \/ i = k
    OBVIOUS
  <2>7. ASSUME NEW i \in 1 .. k, Fixed(device[i])
        PROVE  \/ Len(r.table) = TABLE_MAX \/ InTable(r.table, device[i])
               \/ \E j \in 1 .. i - 1 : EndsTree(device[j]) \/ EndsDevice(device[j])
    <3>1. CASE i \in 1 .. k - 1
      BY <2>4, <2>5, <2>7, <3>1, Zenon DEF Passed
    <3>2. CASE i = k
      <4>1. ~EndsTree(device[k]) /\ ~EndsDevice(device[k])
        BY <2>7, <3>2, FixedEnds
      <4> QED BY <2>1, <2>3, <2>7, <3>2, <4>1
    <3> QED BY <2>6, <3>1, <3>2
  <2>8. Passed(r, k, s, device)
    BY <2>1, <2>2, <2>6, <2>7, Zenon DEF Passed
  <2> QED BY <2>8 DEF r
<1> QED BY <1>1, <1>2

\* Something in the first k devices of a tree ends its enumeration.
Ended(tree, k) == \E c \in 1 .. k : \E j \in DOMAIN tree[c] : EndsTree(tree[c][j])

LEMMA DeviceLists ==
  ASSUME NEW reg, TreesInOrder(reg), NEW s \in Found(Entries(reg)),
         NEW t \in DOMAIN reg.trees, NEW d \in DOMAIN reg.trees[t],
         s.go = "tree" => Ended(reg.trees[t], d - 1)
  PROVE  LET r == EnumDevice(s, reg.trees[t][d], reg)
         IN  /\ r \in Found(Entries(reg)) /\ Extends(s.table, r.table)
             /\ r.go = "tree" => Ended(reg.trees[t], d)
             /\ \A i \in DOMAIN reg.trees[t][d] :
                  Fixed(reg.trees[t][d][i]) => Lists(r.table, reg.trees[t], d, i)
<1> DEFINE tree == reg.trees[t]
           device == tree[d]
           Q == Found(Entries(reg))
           r == EnumDevice(s, device, reg)
           N == Len(device)
<1>1. r \in Q
  BY FoundKept, DeviceKeeps
<1>2. IsSequence(tree) /\ IsSequence(device)
  BY DEF TreesInOrder
<1>3. \A k \in DOMAIN device : device[k] \in Instances(reg)
  BY InstancesOf
<1> HIDE DEF device, tree
<1>4. N \in Nat /\ DOMAIN device = 1 .. N
  BY <1>2 DEF IsSequence
<1>5. Len(tree) \in Nat /\ DOMAIN tree = 1 .. Len(tree)
  BY <1>2 DEF IsSequence
<1>6. d \in Nat \ {0}
  <2>1. d \in DOMAIN tree
    BY DEF tree
  <2> QED BY <1>5, <2>1
<1> HIDE DEF N
<1>7. CASE s.go = "tree"
  <2>1. r = s
    BY <1>7 DEF EnumDevice
  <2>2. Ended(tree, d - 1)
    BY <1>7 DEF tree
  <2>3. \A c \in 1 .. d - 1 : c \in 1 .. d /\ c < d
    BY <1>6
  <2>4. Ended(tree, d)
    BY <2>2, <2>3, Zenon DEF Ended
  <2>5. \A i : Lists(s.table, tree, d, i)
    BY <2>2, <2>3, Zenon DEF Ended, Lists
  <2>6. Extends(s.table, s.table)
    BY ExtendsItself
  <2> QED BY <1>1, <2>1, <2>4, <2>5, <2>6 DEF tree, device
<1>8. CASE s.go # "tree"
  <2>1. Stop(s, "on") \in Q
    BY StopFinds
  <2>2. \A k \in DOMAIN device : \A q \in Q : EnumInstance(q, device[k], reg) \in Q
    BY <1>3, InstanceFinds
  <2> DEFINE o == Stop(s, "on")
  <2>3. PICK u : DeviceRun(u, Q, s, device, reg)
    <3> HIDE DEF Q
    <3> QED BY <1>2, <2>1, <2>2, DeviceTurns, Zenon
  <2> DEFINE P == [k \in 0 .. N |-> {q \in Q : Passed(q, k, s, device)}]
  <2>4. u \in [0 .. N -> Q] /\ u[0] = o
        /\ (\A k \in 1 .. N : u[k] = EnumInstance(u[k - 1], device[k], reg))
        /\ r = u[N]
    BY <1>8, <2>3 DEF DeviceRun, N
  <2>5. Passed(o, 0, s, device)
    <3>1. o.table = s.table /\ o.go = "on"
      BY StopIs
    <3>2. Extends(s.table, s.table)
      BY ExtendsItself
    <3>3. 1 .. 0 = {}
      OBVIOUS
    <3> HIDE DEF o
    <3> QED BY <3>1, <3>2, <3>3 DEF Passed
  <2> HIDE DEF r, o
  <2>6. u[0] \in P[0]
    <3>1. 0 \in 0 .. N
      BY <1>4
    <3> QED BY <2>4, <2>5, <3>1
  <2>7. ASSUME NEW k \in 1 .. N, u[k - 1] \in P[k - 1] PROVE u[k] \in P[k]
    <3>1. k \in 0 .. N /\ k - 1 \in 0 .. N /\ k \in Nat \ {0} /\ k \in DOMAIN device
      BY <1>4
    <3>2. u[k - 1] \in Q /\ Passed(u[k - 1], k - 1, s, device) /\ u[k] \in Q
      BY <2>4, <2>7, <3>1
    <3>3. device[k] \in Instances(reg)
      BY <1>3, <3>1
    <3> DEFINE p == u[k - 1]
    <3>4. p \in Q /\ Passed(p, k - 1, s, device)
      BY <3>2
    <3> HIDE DEF p
    <3>5. Passed(EnumInstance(p, device[k], reg), k, s, device)
      BY <3>1, <3>3, <3>4, PassedStep
    <3>6. u[k] = EnumInstance(p, device[k], reg)
      BY <2>4 DEF p
    <3> QED BY <3>1, <3>2, <3>5, <3>6
  <2>8. u[N] \in P[N]
    <3> HIDE DEF P
    <3>1. \A k \in 0 .. N : u[k] \in P[k]
      BY <1>4, <2>6, <2>7, AlongEach
    <3>2. N \in 0 .. N
      BY <1>4
    <3> QED BY <3>1, <3>2
  <2>9. Passed(r, N, s, device)
    <3>1. N \in 0 .. N
      BY <1>4
    <3> QED BY <2>4, <2>8, <3>1
  <2>10. r.go = "tree" => Ended(tree, d)
    <3>1. d \in 1 .. d
      BY <1>6
    <3> QED BY <1>4, <2>9, <3>1, Zenon DEF Passed, Ended, device
  <2>11. ASSUME NEW i \in DOMAIN device, Fixed(device[i]) PROVE Lists(r.table, tree, d, i)
    <3>1. d \in 1 .. d /\ i \in 1 .. N
      BY <1>4, <1>6
    <3>2. \A j \in 1 .. i - 1 : j \in DOMAIN device /\ j < i
      BY <1>4, <3>1
    <3>3. \/ Len(r.table) = TABLE_MAX \/ InTable(r.table, device[i])
          \/ \E j \in 1 .. i - 1 : EndsTree(device[j]) \/ EndsDevice(device[j])
      BY <2>9, <2>11, <3>1, Zenon DEF Passed
    <3> QED BY <3>1, <3>2, <3>3, Zenon DEF Lists, InTable, device
  <2>12. r \in Q /\ Extends(s.table, r.table)
    BY <1>1, <2>9 DEF Passed, r
  <2> HIDE DEF Q
  <2>13. r = EnumDevice(s, reg.trees[t][d], reg)
    BY DEF r, device, tree
  <2> QED BY <2>10, <2>11, <2>12, <2>13 DEF Q, tree, device
<1> QED BY <1>7, <1>8

\* All adapters of the first k devices of a tree are in the table, or it is
\* known why not.
Listing(l, tree, k) ==
  \A d \in 1 .. k : \A i \in DOMAIN tree[d] :
    Fixed(tree[d][i]) => Lists(l, tree, d, i)

LEMMA ListingStays ==
  ASSUME NEW T, NEW a \in Found(T), NEW b \in Found(T), Extends(a.table, b.table),
         NEW tree, NEW k, Listing(a.table, tree, k)
  PROVE  Listing(b.table, tree, k)
<1>1. \A d, i : Lists(a.table, tree, d, i) => Lists(b.table, tree, d, i)
  BY ListsStays
<1> QED BY <1>1, Zenon DEF Listing

LEMMA TreeLists ==
  ASSUME NEW reg, TreesInOrder(reg), NEW s \in Found(Entries(reg)),
         NEW t \in DOMAIN reg.trees
  PROVE  LET r == enuminterfaces(s, reg.trees[t], reg)
         IN  /\ r \in Found(Entries(reg)) /\ Extends(s.table, r.table)
             /\ Listing(r.table, reg.trees[t], Len(reg.trees[t]))
<1> DEFINE tree == reg.trees[t]
           Q == Found(Entries(reg))
           r == enuminterfaces(s, tree, reg)
           N == Len(tree)
           o == Stop(s, "on")
<1>1. r \in Q
  BY FoundKept, TreeKeeps
<1>2. IsSequence(tree)
  BY DEF TreesInOrder
<1>3. \A k \in DOMAIN tree : \A q \in Q : EnumDevice(q, tree[k], reg) \in Q
  BY FoundKept, DeviceKeeps
<1>4. \A q \in Q : \A d \in DOMAIN tree :
        (q.go = "tree" => Ended(tree, d - 1)) =>
          /\ Extends(q.table, EnumDevice(q, tree[d], reg).table)
          /\ EnumDevice(q, tree[d], reg).go = "tree" => Ended(tree, d)
          /\ \A i \in DOMAIN tree[d] :
               Fixed(tree[d][i]) => Lists(EnumDevice(q, tree[d], reg).table, tree, d, i)
  BY DeviceLists
<1>5. o \in Q /\ o.table = s.table /\ o.go = "on" /\ Extends(s.table, s.table)
  BY StopFinds, StopIs, ExtendsItself
<1> HIDE DEF tree
<1>6. N \in Nat /\ DOMAIN tree = 1 .. N
  BY <1>2 DEF IsSequence
<1> HIDE DEF N, Q
<1>7. PICK u : TreeRun(u, Q, s, tree, reg)
  BY <1>2, <1>3, <1>5, TreeTurns, Zenon
<1> HIDE DEF o
<1>8. u \in [0 .. N -> Q] /\ u[0] = o
      /\ (\A k \in 1 .. N : u[k] = EnumDevice(u[k - 1], tree[k], reg))
      /\ r = u[N]
  BY <1>7 DEF TreeRun, N, o
<1> HIDE DEF r
<1> DEFINE Good(q, k) == /\ Extends(s.table, q.table)
                         /\ q.go = "tree" => Ended(tree, k)
                         /\ Listing(q.table, tree, k)
           P == [k \in 0 .. N |-> {q \in Q : Good(q, k)}]
<1>9. u[0] \in P[0]
  <2>1. 0 \in 0 .. N /\ 1 .. 0 = {}
    BY <1>6
  <2>2. Listing(o.table, tree, 0)
    BY <2>1 DEF Listing
  <2> QED BY <1>5, <1>8, <2>1, <2>2
<1>10. ASSUME NEW k \in 1 .. N, u[k - 1] \in P[k - 1] PROVE u[k] \in P[k]
  <2>1. k \in 0 .. N /\ k - 1 \in 0 .. N /\ k \in DOMAIN tree
    BY <1>6
  <2> DEFINE p == u[k - 1]
             n == EnumDevice(p, tree[k], reg)
  <2>2. p \in Q /\ Good(p, k - 1) /\ u[k] = n /\ u[k] \in Q
    BY <1>8, <1>10, <2>1
  <2> HIDE DEF p
  <2>3. /\ Extends(p.table, n.table)
        /\ n.go = "tree" => Ended(tree, k)
        /\ \A i \in DOMAIN tree[k] : Fixed(tree[k][i]) => Lists(n.table, tree, k, i)
    BY <1>4, <2>1, <2>2, Zenon
  <2>4. n \in Q
    BY <2>2
  <2> HIDE DEF n
  <2>5. s \in Q
    BY DEF Q
  <2>6. Extends(s.table, n.table) /\ Listing(n.table, tree, k - 1)
    BY <2>2, <2>3, <2>4, <2>5, ExtendsTwice, ListingStays DEF Q
  <2>7. \A d \in 1 .. k : d \in 1 .. k - 1 \/ d = k
    BY <1>6
  <2>8. Listing(n.table, tree, k)
    BY <2>3, <2>6, <2>7, Zenon DEF Listing
  <2> QED BY <2>1, <2>2, <2>3, <2>4, <2>6, <2>8
<1>11. r \in P[N]
  <2> HIDE DEF P
  <2>1. \A k \in 0 .. N : u[k] \in P[k]
    BY <1>6, <1>9, <1>10, AlongEach
  <2>2. N \in 0 .. N
    BY <1>6
  <2> QED BY <1>8, <2>1, <2>2
<1>12. Good(r, N)
  <2>1. N \in 0 .. N
    BY <1>6
  <2> QED BY <1>11, <2>1
<1>13. r = enuminterfaces(s, reg.trees[t], reg)
  BY DEF r, tree
<1> QED BY <1>1, <1>12, <1>13 DEF Q, N, tree, r

LEMMA RegistryLists ==
  ASSUME NEW reg, TreesInOrder(reg)
  PROVE  \A t \in DOMAIN reg.trees :
           Listing(win9x_getaddrtable(reg), reg.trees[t], Len(reg.trees[t]))
<1> DEFINE trees == reg.trees
           Q == Found(Entries(reg))
           N == Len(trees)
<1>1. IsSequence(trees)
  BY DEF TreesInOrder
<1>2. \A k \in DOMAIN trees : \A q \in Q : enuminterfaces(q, trees[k], reg) \in Q
  BY FoundKept, TreeKeeps
<1>3. \A q \in Q : \A t \in DOMAIN trees :
        /\ Extends(q.table, enuminterfaces(q, trees[t], reg).table)
        /\ Listing(enuminterfaces(q, trees[t], reg).table, trees[t], Len(trees[t]))
  BY TreeLists
<1>4. NothingFound \in Q
  BY NothingFinds
<1> HIDE DEF Q
<1>5. PICK u : RegistryRun(u, Q, reg)
  BY <1>1, <1>2, <1>4, RegistryTurns, Zenon
<1>6. u \in [0 .. N -> Q] /\ u[0] = NothingFound
      /\ (\A k \in 1 .. N : u[k] = enuminterfaces(u[k - 1], trees[k], reg))
      /\ win9x_getaddrtable(reg) = u[N].table
  BY <1>5 DEF RegistryRun
<1> HIDE DEF trees
<1>7. N \in Nat /\ DOMAIN trees = 1 .. N
  BY <1>1 DEF IsSequence
<1> HIDE DEF N
<1> DEFINE Good(q, k) == \A t \in 1 .. k : Listing(q.table, trees[t], Len(trees[t]))
           P == [k \in 0 .. N |-> {q \in Q : Good(q, k)}]
<1>8. u[0] \in P[0]
  <2>1. 0 \in 0 .. N /\ 1 .. 0 = {}
    BY <1>7
  <2> QED BY <1>4, <1>6, <2>1
<1>9. ASSUME NEW k \in 1 .. N, u[k - 1] \in P[k - 1] PROVE u[k] \in P[k]
  <2>1. k \in 0 .. N /\ k - 1 \in 0 .. N /\ k \in DOMAIN trees
    BY <1>7
  <2> DEFINE p == u[k - 1]
             n == enuminterfaces(p, trees[k], reg)
  <2>2. p \in Q /\ Good(p, k - 1) /\ u[k] = n /\ u[k] \in Q
    BY <1>6, <1>9, <2>1
  <2> HIDE DEF p
  <2>3. Extends(p.table, n.table) /\ Listing(n.table, trees[k], Len(trees[k]))
    BY <1>3, <2>1, <2>2, Zenon
  <2>4. n \in Q
    BY <2>2
  <2> HIDE DEF n
  <2>5. \A t \in 1 .. k : t \in 1 .. k - 1 \/ t = k
    BY <1>7
  <2>6. \A tree, c : Listing(p.table, tree, c) => Listing(n.table, tree, c)
    BY <2>2, <2>3, <2>4, ListingStays DEF Q
  <2>7. Good(n, k)
    BY <2>2, <2>3, <2>5, <2>6, Zenon
  <2> QED BY <2>1, <2>2, <2>4, <2>7
<1>10. u[N] \in P[N]
  <2> HIDE DEF P
  <2>1. \A k \in 0 .. N : u[k] \in P[k]
    BY <1>7, <1>8, <1>9, AlongEach
  <2>2. N \in 0 .. N
    BY <1>7
  <2> QED BY <2>1, <2>2
<1>11. Good(u[N], N)
  <2>1. N \in 0 .. N
    BY <1>7
  <2> QED BY <1>10, <2>1
<1>12. \A t \in DOMAIN trees :
         Listing(win9x_getaddrtable(reg), trees[t], Len(trees[t]))
  BY <1>6, <1>7, <1>11
<1> QED BY <1>12 DEF trees

-----------------------------------------------------------------------------
(* Which lease an adapter has.                                             *)

\* The leases of a table that an entry is appended to.
LEMMA LeasesAppended ==
  ASSUME NEW T, NEW t \in Seq(T), NEW e \in T
  PROVE  LET a == Append(t, e)
         IN  /\ \A p \in 1 .. Len(t) : LeasesTo(a, p) = LeasesTo(t, p)
             /\ LeasesTo(t, Len(t)) \in Nat
             /\ OfDhcp(e) => LeasesTo(a, Len(t) + 1) = LeasesTo(t, Len(t)) + 1
             /\ ~OfDhcp(e) => LeasesTo(a, Len(t) + 1) = LeasesTo(t, Len(t))
<1> DEFINE a == Append(t, e)
           N == Len(t)
           L(s, p) == {q \in 1 .. p : OfDhcp(s[q])}
<1>1. N \in Nat /\ a[N + 1] = e /\ \A q \in 1 .. N : a[q] = t[q]
  OBVIOUS
<1> HIDE DEF a, N
<1>2. \A p \in 1 .. N : L(a, p) = L(t, p)
  <2> SUFFICES ASSUME NEW p \in 1 .. N PROVE L(a, p) = L(t, p)
    OBVIOUS
  <2>1. \A q \in 1 .. p : q \in 1 .. N
    BY <1>1
  <2> QED BY <1>1, <2>1
<1>3. L(t, N) \in SUBSET (1 .. N) /\ IsFiniteSet(L(t, N)) /\ Cardinality(L(t, N)) \in Nat
  <2>1. IsFiniteSet(1 .. N)
    BY <1>1, FS_Interval
  <2>2. L(t, N) \in SUBSET (1 .. N)
    OBVIOUS
  <2> HIDE DEF L
  <2> QED BY <2>1, <2>2, FS_Subset, FS_CardinalityType
<1>4. \A q \in 1 .. N + 1 : q \in 1 .. N \/ q = N + 1
  BY <1>1
<1>5. N + 1 \in 1 .. N + 1 /\ N + 1 \notin 1 .. N /\ 1 .. N \subseteq 1 .. N + 1
  BY <1>1
<1>6. ASSUME OfDhcp(e) PROVE Cardinality(L(a, N + 1)) = Cardinality(L(t, N)) + 1
  <2>1. L(a, N + 1) = L(t, N) \cup {N + 1}
    BY <1>1, <1>4, <1>5, <1>6
  <2>2. N + 1 \notin L(t, N)
    BY <1>5
  <2> HIDE DEF L
  <2> QED BY <1>3, <2>1, <2>2, FS_AddElement
<1>7. ASSUME ~OfDhcp(e) PROVE L(a, N + 1) = L(t, N)
  BY <1>1, <1>4, <1>5, <1>7
<1> QED BY <1>2, <1>3, <1>6, <1>7 DEF LeasesTo, a, N

\* The cards with DHCP are numbered in the order of the table, and each has
\* the lease of its number.
LeasesKept(q, reg) ==
  /\ q.dhcp + 1 = LeasesTo(q.table, Len(q.table))
  /\ \A p \in 1 .. Len(q.table) :
       OfDhcp(q.table[p]) /\ q.table[p].addr # 0 =>
         q.table[p].addr = reg.dhcp[LeasesTo(q.table, p)].ip

LEMMA AddLeases ==
  ASSUME NEW reg, NEW T, NEW s \in Found(T), LeasesKept(s, reg), NEW e \in T,
         NEW r, r.table = Append(s.table, e),
         \/ ~OfDhcp(e) /\ r.dhcp = s.dhcp
         \/ /\ OfDhcp(e) /\ r.dhcp = s.dhcp + 1
            /\ e.addr # 0 => e.addr = reg.dhcp[s.dhcp + 2].ip
  PROVE  LeasesKept(r, reg)
<1> DEFINE t == s.table
           a == Append(t, e)
           N == Len(t)
           before == LeasesTo(t, N)
           after == LeasesTo(a, N + 1)
<1>1. t \in Seq(T) /\ s.dhcp \in Int
  BY AddIs
<1>2. /\ \A p \in 1 .. N : LeasesTo(a, p) = LeasesTo(t, p)
      /\ before \in Nat
      /\ OfDhcp(e) => after = before + 1
      /\ ~OfDhcp(e) => after = before
  BY <1>1, LeasesAppended
<1>3. N \in Nat /\ Len(a) = N + 1 /\ a[N + 1] = e /\ \A p \in 1 .. N : a[p] = t[p]
  BY <1>1
<1>4. s.dhcp + 1 = before
      /\ \A p \in 1 .. N : OfDhcp(t[p]) /\ t[p].addr # 0 => t[p].addr = reg.dhcp[LeasesTo(t, p)].ip
  BY DEF LeasesKept
<1>5. r.table = a
  OBVIOUS
<1> HIDE DEF a, t, N, before, after
<1>6. r.dhcp + 1 = after
  BY <1>1, <1>2, <1>4
<1>7. OfDhcp(e) /\ e.addr # 0 => e.addr = reg.dhcp[after].ip
  <2> SUFFICES ASSUME OfDhcp(e), e.addr # 0 PROVE e.addr = reg.dhcp[after].ip
    OBVIOUS
  <2>1. s.dhcp + 2 = after
    BY <1>1, <1>2, <1>4
  <2> QED BY <2>1
<1>8. \A p \in 1 .. N + 1 : p \in 1 .. N \/ p = N + 1
  BY <1>3
<1>9. \A p \in 1 .. N + 1 : OfDhcp(a[p]) /\ a[p].addr # 0 => a[p].addr = reg.dhcp[LeasesTo(a, p)].ip
  <2> SUFFICES ASSUME NEW p \in 1 .. N + 1
               PROVE  OfDhcp(a[p]) /\ a[p].addr # 0 => a[p].addr = reg.dhcp[LeasesTo(a, p)].ip
    OBVIOUS
  <2>1. CASE p \in 1 .. N
    BY <1>2, <1>3, <1>4, <2>1
  <2>2. CASE p = N + 1
    BY <1>3, <1>7, <2>2 DEF after
  <2> QED BY <1>8, <2>1, <2>2
<1>10. LeasesTo(r.table, Len(r.table)) = after
  BY <1>3, <1>5 DEF after
<1> QED BY <1>3, <1>5, <1>6, <1>9, <1>10 DEF LeasesKept

\* A card with DHCP has the address of its key, or none.
LEMMA LeaseIs ==
  ASSUME NEW reg, NEW n \in Int, NEW i
  PROVE  LET e == getdynamicaddr(n, i, reg)
         IN  OfDhcp(e) /\ (e.addr # 0 => e.addr = reg.dhcp[n + 1].ip)
<1> DEFINE d == CHOOSE k \in DhcpKey(n, reg) : TRUE
           some == [Card EXCEPT !.addr = d.ip]
           e == getdynamicaddr(n, i, reg)
<1>1. e = IF DhcpKey(n, reg) = {} THEN Card
          ELSE IF d.ip = 0 \/ ~d.mask THEN some ELSE Leased(i, d, reg)
  BY Zenon DEF getdynamicaddr, Card
<1>2. ASSUME DhcpKey(n, reg) # {} PROVE d = reg.dhcp[n + 1]
  BY <1>2 DEF DhcpKey
<1> HIDE DEF d
<1>3. Card.hw = "ethernet" /\ Card.fixed = FALSE /\ Card.addr = 0
  BY DEF Card, Blank
<1>4. some.hw = "ethernet" /\ some.fixed = FALSE /\ some.addr = d.ip
  BY DEF Card, Blank
<1>5. Leased(i, d, reg).hw = "ethernet" /\ Leased(i, d, reg).fixed = FALSE
      /\ Leased(i, d, reg).addr = d.ip
  <2> DEFINE gw == getoptaddrs(DHCP_OPT_ROUTER, d.options, reg, 1)
             domain == OptionData(d.options, DHCP_OPT_DOMAIN_NAME, reg)
             g == IF gw # <<>> THEN gw[1]
                  ELSE IF i.gw = Missing THEN 0 ELSE Aton(i.gw)
             h == FullName(OptionData(d.options, DHCP_OPT_HOST_NAME, reg), domain)
             s == getoptaddrs(DHCP_OPT_DNS, d.options, reg, DNS_MAX)
             a == d.ip
  <2>1. Leased(i, d, reg) =
          [Blank EXCEPT !.hw = "ethernet", !.addr = a, !.mask = TRUE, !.gw = g,
                        !.hostname = h, !.domainname = domain, !.dns = s]
    BY Zenon DEF Leased
  <2> HIDE DEF g, h, s, a, domain
  <2>2. Leased(i, d, reg).hw = "ethernet" /\ Leased(i, d, reg).fixed = FALSE
        /\ Leased(i, d, reg).addr = a
    BY <2>1 DEF Blank
  <2> QED BY <2>2 DEF a
<1> HIDE DEF some, e
<1>6. e.hw = "ethernet" /\ e.fixed = FALSE
  BY <1>1, <1>3, <1>4, <1>5
<1>7. e.addr # 0 => e.addr = reg.dhcp[n + 1].ip
  BY <1>1, <1>2, <1>3, <1>4, <1>5
<1> QED BY <1>6, <1>7 DEF OfDhcp, e

LEMMA InstanceLeases ==
  ASSUME NEW reg, NEW s \in Found(Entries(reg)), LeasesKept(s, reg),
         NEW i \in Instances(reg), i.ip # Missing
  PROVE  LeasesKept(EnumInstance(s, i, reg), reg)
<1> DEFINE T == Entries(reg)
<1>1. s \in Found(T) /\ s.dhcp \in Int /\ s.dialup \in Int
  BY AddIs
<1>2. /\ Blank \in T /\ getstaticaddr(i, reg) \in T
      /\ \A n \in Int : Modem(n) \in T
      /\ \A n \in Int : getdynamicaddr(n, i, reg) \in T
  BY DEF Entries
<1> HIDE DEF T
<1>3. \A w : LeasesKept(Stop(s, w), reg)
  BY StopIs DEF LeasesKept
<1>4. ASSUME NEW e \in T, ~OfDhcp(e) PROVE LeasesKept(Add(s, e), reg)
  <2>1. Add(s, e).table = Append(s.table, e) /\ Add(s, e).dhcp = s.dhcp
    BY <1>1, AddIs
  <2> QED BY <1>1, <1>4, <2>1, AddLeases
<1>5. ~OfDhcp(Blank) /\ (\A n : ~OfDhcp(Modem(n))) /\ ~OfDhcp(getstaticaddr(i, reg))
  BY StaticIs DEF OfDhcp, Blank, Modem
<1>6. LeasesKept(DialUp(s, reg), reg)
  <2> DEFINE c == [s EXCEPT !.dialup = @ + 1]
  <2>1. c \in Found(T) /\ c.table = s.table /\ c.dialup \in Int /\ c.dhcp = s.dhcp
    BY <1>1 DEF Found
  <2> HIDE DEF c
  <2>2. DialUp(s, reg) \in {c, Add(c, Modem(c.dialup))}
    BY Zenon DEF DialUp, Modem, c
  <2>3. LeasesKept(c, reg)
    BY <2>1 DEF LeasesKept
  <2> DEFINE m == Modem(c.dialup)
  <2>4. m \in T /\ ~OfDhcp(m)
    BY <1>2, <1>5, <2>1
  <2> HIDE DEF m
  <2>5. Add(c, m).table = Append(c.table, m) /\ Add(c, m).dhcp = c.dhcp
    BY <2>1, <2>4, AddIs
  <2>6. LeasesKept(Add(c, m), reg)
    BY <2>1, <2>3, <2>4, <2>5, AddLeases
  <2> QED BY <2>2, <2>3, <2>6 DEF m
<1>7. LeasesKept(getethcardaddrs(s, i, reg), reg)
  <2> DEFINE c == [s EXCEPT !.dhcp = @ + 1]
             n == s.dhcp + 1
             e == getdynamicaddr(n, i, reg)
  <2>1. c \in Found(T) /\ c.table = s.table /\ c.dhcp = n /\ n \in Int
        /\ n + 1 = s.dhcp + 2
    BY <1>1 DEF Found
  <2>2. getethcardaddrs(s, i, reg) \in {Add(s, getstaticaddr(i, reg)), Add(c, e)}
    BY Zenon DEF getethcardaddrs
  <2> HIDE DEF c
  <2>3. e \in T /\ OfDhcp(e) /\ (e.addr # 0 => e.addr = reg.dhcp[s.dhcp + 2].ip)
    BY <1>2, <2>1, LeaseIs
  <2> HIDE DEF e
  <2>4. Add(c, e).table = Append(s.table, e) /\ Add(c, e).dhcp = s.dhcp + 1
    BY <2>1, <2>3, AddIs
  <2>5. LeasesKept(Add(c, e), reg)
    BY <1>1, <2>3, <2>4, AddLeases
  <2> QED BY <1>2, <1>4, <1>5, <2>2, <2>5
<1>8. LeasesKept(NetDevice(s, i, reg), reg)
  BY <1>2, <1>3, <1>4, <1>5, <1>6, <1>7 DEF NetDevice
<1>9. LeasesKept(Bound(s, i, reg), reg)
  BY <1>3, <1>8 DEF Bound
<1>10. EnumInstance(s, i, reg) \in {s, Stop(s, "device"), Stop(s, "tree"), Bound(s, i, reg)}
  BY Zenon DEF EnumInstance
<1> QED BY <1>3, <1>9, <1>10

LEMMA RegistryLeases ==
  ASSUME NEW reg, TreesInOrder(reg), \A i \in Instances(reg) : i.ip # Missing
  PROVE  \A p \in DOMAIN win9x_getaddrtable(reg) :
           LET t == win9x_getaddrtable(reg)
           IN  OfDhcp(t[p]) /\ t[p].addr # 0 => t[p].addr = reg.dhcp[LeasesTo(t, p)].ip
<1> DEFINE Q == {q \in Found(Entries(reg)) : LeasesKept(q, reg)}
<1>1. Kept(Q, reg)
  <2> SUFFICES ASSUME NEW q \in Q
               PROVE  /\ Stop(q, "on") \in Q
                      /\ \A i \in Instances(reg) : EnumInstance(q, i, reg) \in Q
    BY DEF Kept
  <2>1. q \in Found(Entries(reg)) /\ LeasesKept(q, reg)
    OBVIOUS
  <2>2. Stop(q, "on") \in Found(Entries(reg)) /\ LeasesKept(Stop(q, "on"), reg)
    BY <2>1, StopFinds, StopIs DEF LeasesKept
  <2>3. \A i \in Instances(reg) : EnumInstance(q, i, reg) \in Found(Entries(reg))
    BY <2>1, InstanceFinds
  <2>4. \A i \in Instances(reg) : LeasesKept(EnumInstance(q, i, reg), reg)
    BY <2>1, InstanceLeases
  <2> QED BY <2>2, <2>3, <2>4
<1>2. NothingFound \in Q
  <2> DEFINE q == <<Loopback>>
  <2>1. NothingFound.table = q /\ NothingFound.dhcp = -1
    BY DEF NothingFound
  <2>2. Len(q) = 1 /\ q[1] = Loopback /\ 1 .. 1 = {1}
    OBVIOUS
  <2>3. ~OfDhcp(Loopback)
    BY DEF OfDhcp, Loopback, Blank
  <2> HIDE DEF q
  <2>4. {p \in 1 .. 1 : OfDhcp(q[p])} = {}
    BY <2>2, <2>3
  <2>5. LeasesTo(q, 1) = 0
    BY <2>4, FS_EmptySet DEF LeasesTo
  <2>6. LeasesKept(NothingFound, reg)
    BY <2>1, <2>2, <2>3, <2>5 DEF LeasesKept
  <2> QED BY <2>6, NothingFinds
<1>3. \A q \in Q : q \in Found(Entries(reg)) /\ LeasesKept(q, reg)
  OBVIOUS
<1> HIDE DEF Q
<1>4. PICK q \in Q : win9x_getaddrtable(reg) = q.table
  BY <1>1, <1>2, RegistryKeeps, Zenon
<1>5. DOMAIN q.table = 1 .. Len(q.table)
  BY <1>3 DEF Found, Tables
<1> QED BY <1>3, <1>4, <1>5 DEF LeasesKept

-----------------------------------------------------------------------------
(* How the library starts. *)

\* A table of an interface: it begins with the loopback device and fits, and
\* each entry has its servers in order.
GoodTable(t) ==
  /\ IsSequence(t) /\ Len(t) \in 1 .. TABLE_MAX /\ t[1] = Loopback
  /\ \A k \in 1 .. Len(t) : IsSequence(t[k].dns)

IsUp(i) ==
  /\ ifs[i] = Up(i, ifs[i].table)
  /\ IF i = "unix" THEN ifs[i].table = <<>> ELSE GoodTable(ifs[i].table)

\* The interfaces that are still to be initialised.
Pending == CASE stage = "wsock" -> {"wsock", "csock", "unix"}
             [] stage = "csock" -> {"csock", "unix"}
             [] stage = "unix"  -> {"unix"}
             [] OTHER           -> {}

\* Which interfaces are up follows from the list and the stage.
StartInv ==
  /\ world \in Worlds /\ env \in world.envs
  /\ config = [dir |-> config.dir, file |-> config.file]
  /\ config.dir \in DOMAIN world.files \cup {None}
  /\ config.file \in DOMAIN world.files \cup {None}
  /\ listed \in Seq(Interface) /\ Range(listed) \cap Pending = {}
  /\ ifs = [i \in Interface |-> ifs[i]]
  /\ \A i \in Interface :
       IF i \in Range(listed) /\ (stage = "exited" => i = "unix")
       THEN IsUp(i)
       ELSE /\ ifs[i] = Down(ifs[i].held)
            /\ stage = "exited" /\ i \in Range(listed) => ifs[i].held = 0
            /\ i \notin Range(listed) => Partial(i, ifs[i].held)
  /\ stage = "exited" => regdos.held = FALSE

LEMMA WorldIs ==
  ASSUME NEW w \in Worlds PROVE IsRegistry(w.reg)
BY WorldsAssumption DEF IsRegistry, TreesInOrder

\* What an interface takes for its table.
LEMMA TableTaken ==
  ASSUME NEW i \in Interface, i # "unix", NEW file, AddrTable(i, file) # <<>>, world \in Worlds
  PROVE  GoodTable(AddrTable(i, file))
<1>1. TABLE_MAX \in Nat /\ TABLE_MAX >= 2 /\ DNS_MAX \in Nat
  BY TableAssumption
<1>2. Loopback.dns = <<>>
  BY DEF Loopback, Blank
<1>3. IsSequence(<<>>)
  BY DEF IsSequence
<1>4. CASE getconfig(i, file) # {}
  <2> DEFINE ends == {k \in 1 .. DNS_MAX : ~Usable(Profile(file, i, DnsKey[k], 0))} \cup {DNS_MAX + 1}
             n == (CHOOSE k \in ends : \A e \in ends : k <= e) - 1
             e == CHOOSE c \in getconfig(i, file) : TRUE
             servers == [k \in 1 .. n |-> Profile(file, i, DnsKey[k], 0)]
  <2>1. ends \in SUBSET Nat /\ ends # {} /\ 0 \notin ends
    BY <1>1
  <2>2. ConfiguredDns(i, file) = servers
    BY Zenon DEF ConfiguredDns
  <2> HIDE DEF ends
  <2>3. n \in Nat
    <3>1. \E k \in ends : \A c \in ends : k <= c
      BY <2>1, FirstIs
    <3> DEFINE m == CHOOSE k \in ends : \A c \in ends : k <= c
    <3>2. m \in ends
      BY <3>1
    <3> HIDE DEF m
    <3>3. m \in Nat /\ m # 0
      BY <2>1, <3>2
    <3>4. n = m - 1
      BY DEF m
    <3> QED BY <3>3, <3>4
  <2> HIDE DEF n
  <2>4. servers = [k \in 1 .. n |-> servers[k]]
    OBVIOUS
  <2> HIDE DEF servers
  <2>5. IsSequence(ConfiguredDns(i, file))
    BY <2>2, <2>3, <2>4, FirstNumbers
  <2>6. \A c \in getconfig(i, file) : c.dns = ConfiguredDns(i, file)
    BY DEF getconfig, Blank
  <2>7. e \in getconfig(i, file)
    BY <1>4
  <2>8. AddrTable(i, file) = <<Loopback, e>>
    BY <1>4, Zenon DEF AddrTable
  <2> HIDE DEF e
  <2> DEFINE t == <<Loopback, e>>
  <2>9. t \in Seq({Loopback, e}) /\ Len(t) = 2 /\ t[1] = Loopback /\ t[2] = e
    OBVIOUS
  <2> HIDE DEF t
  <2>10. IsSequence(t) /\ 2 \in 1 .. TABLE_MAX
    BY <1>1, <2>9, OwnSequence
  <2>11. \A k \in 1 .. 2 : IsSequence(t[k].dns)
    BY <1>2, <1>3, <2>5, <2>6, <2>7, <2>9
  <2>12. GoodTable(t)
    BY <2>9, <2>10, <2>11 DEF GoodTable
  <2> QED BY <2>8, <2>12 DEF t
<1>5. CASE getconfig(i, file) = {} /\ i = "wsock" /\ world.win = "311"
  <2>1. AddrTable(i, file) = <<Loopback>>
    BY <1>5 DEF AddrTable, Detected, win3x_getaddrtable
  <2> DEFINE t == <<Loopback>>
  <2>2. t \in Seq({Loopback}) /\ Len(t) = 1 /\ t[1] = Loopback
    OBVIOUS
  <2> HIDE DEF t
  <2>3. IsSequence(t) /\ 1 \in 1 .. TABLE_MAX
    BY <1>1, <2>2, OwnSequence
  <2>4. \A k \in 1 .. 1 : IsSequence(t[k].dns)
    BY <1>2, <1>3, <2>2
  <2>5. GoodTable(t)
    BY <2>2, <2>3, <2>4 DEF GoodTable
  <2> QED BY <2>1, <2>5 DEF t
<1>6. CASE getconfig(i, file) = {} /\ ~(i = "wsock" /\ world.win = "311")
  <2> DEFINE t == win9x_getaddrtable(world.reg)
  <2>1. AddrTable(i, file) = t
    BY <1>6 DEF AddrTable, Detected
  <2>2. IsRegistry(world.reg)
    BY WorldIs
  <2>3. t \in Tables(Entries(world.reg))
    BY <2>2, RegistryFinds DEF IsRegistry
  <2> HIDE DEF t
  <2>4. t \in Seq(Entries(world.reg)) /\ Len(t) \in 1 .. TABLE_MAX /\ t[1] = Loopback
    BY <2>3 DEF Tables
  <2>5. \A k \in 1 .. Len(t) : t[k] \in Entries(world.reg)
    BY <2>4
  <2>6. GoodTable(t)
    BY <2>2, <2>4, <2>5, OwnSequence, ServersInOrder DEF GoodTable
  <2> QED BY <2>1, <2>6
<1> QED BY <1>4, <1>5, <1>6

LEMMA LocatedIs ==
  ASSUME StartInv
  PROVE  /\ Located = [dir |-> Located.dir, file |-> Located.file]
         /\ Located.dir \in DOMAIN world.files \cup {None}
         /\ Located.file \in DOMAIN world.files \cup {None}
<1>1. env.dir \in DOMAIN world.files \cup {None}
  BY WorldsAssumption DEF StartInv
<1>2. getdir \in DOMAIN world.files \cup {None}
  BY <1>1 DEF getdir, StartInv
<1> QED BY <1>2 DEF Located, StartInv

LEMMA StartInit == HostInit => StartInv
<1> SUFFICES ASSUME HostInit PROVE StartInv
  OBVIOUS
<1>1. /\ world \in Worlds /\ env \in world.envs
      /\ config = [dir |-> None, file |-> None]
      /\ stage = "wsock" /\ listed = <<>>
      /\ ifs = [i \in Interface |-> Down(0)]
  BY DEF HostInit
<1>2. listed \in Seq(Interface) /\ Range(listed) = {}
  BY <1>1 DEF Range
<1>3. \A i \in Interface : ifs[i] = Down(ifs[i].held) /\ Partial(i, ifs[i].held)
  BY <1>1 DEF Down, Partial
<1> QED BY <1>1, <1>2, <1>3 DEF StartInv

LEMMA RangeAppended ==
  ASSUME NEW S, NEW s \in Seq(S), NEW e \in S
  PROVE  Append(s, e) \in Seq(S) /\ Range(Append(s, e)) = Range(s) \cup {e}
<1> DEFINE a == Append(s, e)
<1>1. /\ a \in Seq(S) /\ Len(s) \in Nat /\ Len(a) = Len(s) + 1
      /\ DOMAIN a = 1 .. Len(s) + 1 /\ DOMAIN s = 1 .. Len(s)
      /\ \A k \in 1 .. Len(s) : a[k] = s[k]
      /\ a[Len(s) + 1] = e
  OBVIOUS
<1> HIDE DEF a
<1>2. ASSUME NEW x PROVE x \in Range(a) <=> x \in Range(s) \cup {e}
  <2>1. \A k \in DOMAIN a : k \in 1 .. Len(s) \/ k = Len(s) + 1
    BY <1>1
  <2>2. 1 .. Len(s) \subseteq DOMAIN a /\ Len(s) + 1 \in DOMAIN a
    BY <1>1
  <2> QED BY <1>1, <2>1, <2>2 DEF Range
<1>3. Range(a) = Range(s) \cup {e}
  BY <1>2
<1> QED BY <1>1, <1>3 DEF a

\* The interface whose turn it is; the others stay as they are.
LEMMA TurnOf ==
  ASSUME StartInv, NEW i \in Interface, stage = i, stage' = After(i) \/ stage' = "crashed"
  PROVE  /\ stage # "exited" /\ stage' # "exited"
         /\ i \in Pending /\ i \notin Range(listed) /\ Pending' \subseteq Pending \ {i}
<1>1. i \in {"wsock", "csock", "unix"}
  BY DEF Interface
<1>2. stage' \in {"csock", "unix", "ready", "crashed"}
  BY <1>1 DEF After
<1>3. i \in Pending /\ Pending' \subseteq Pending \ {i}
  BY <1>1 DEF Pending, After
<1> QED BY <1>1, <1>2, <1>3 DEF StartInv

LEMMA StartKeeps ==
  ASSUME StartInv, NEW i \in Interface, stage = i, InitInterface PROVE StartInv'
<1>1. config' = Located /\ world' = world /\ env' = env
  BY DEF InitInterface
<1>2. /\ world' \in Worlds /\ env' \in world'.envs
      /\ config' = [dir |-> config'.dir, file |-> config'.file]
      /\ config'.dir \in DOMAIN world'.files \cup {None}
      /\ config'.file \in DOMAIN world'.files \cup {None}
  BY <1>1, LocatedIs DEF StartInv
<1> DEFINE file == Located.file
           t == AddrTable(i, file)
<1>3. \/ Initialised(i, file) \/ Failed(i, file) \/ NotUsable(i, file) \/ Crashed(i, file)
  BY DEF InitInterface
<1> HIDE DEF file
<1>4. stage' = After(i) \/ stage' = "crashed"
  BY <1>3 DEF Initialised, Failed, NotUsable, Crashed
<1>5. /\ stage # "exited" /\ stage' # "exited"
      /\ i \in Pending /\ i \notin Range(listed) /\ Pending' \subseteq Pending \ {i}
  BY <1>4, TurnOf
<1>6. listed \in Seq(Interface) /\ Range(listed) \cap Pending = {}
      /\ ifs = [j \in Interface |-> ifs[j]]
      /\ \A j \in Interface : IF j \in Range(listed) THEN IsUp(j)
         ELSE ifs[j] = Down(ifs[j].held) /\ Partial(j, ifs[j].held)
  BY <1>5 DEF StartInv
<1>7. CASE listed' = listed /\ ifs' = ifs
  <2>1. \A j \in Interface : IsUp(j) => IsUp(j)'
    BY <1>7 DEF IsUp
  <2>2. Range(listed') \cap Pending' = {}
    BY <1>5, <1>6, <1>7
  <2> HIDE DEF Pending
  <2> QED BY <1>2, <1>5, <1>6, <1>7, <2>1, <2>2 DEF StartInv
<1>8. ASSUME NEW n, Partial(i, n), listed' = listed, ifs' = [ifs EXCEPT ![i] = Down(n)]
      PROVE  StartInv'
  <2>1. ifs' = [j \in Interface |-> ifs'[j]]
    BY <1>6, <1>8
  <2>2. ifs'[i] = Down(ifs'[i].held) /\ Partial(i, ifs'[i].held)
    BY <1>6, <1>8 DEF Down
  <2>3. \A j \in Interface \ {i} : ifs'[j] = ifs[j]
    BY <1>6, <1>8
  <2>4. \A j \in Interface \ {i} : IsUp(j) => IsUp(j)'
    BY <2>3 DEF IsUp
  <2>5. Range(listed') \cap Pending' = {}
    BY <1>5, <1>6, <1>8
  <2> HIDE DEF Pending
  <2>6. \A j \in Interface : IF j \in Range(listed') THEN IsUp(j)'
         ELSE ifs'[j] = Down(ifs'[j].held) /\ Partial(j, ifs'[j].held)
    BY <1>5, <1>6, <1>8, <2>2, <2>3, <2>4
  <2> QED BY <1>2, <1>5, <1>6, <1>8, <2>1, <2>5, <2>6 DEF StartInv
<1>9. CASE ifs' = [ifs EXCEPT ![i] = Up(i, t)] /\ listed' = Append(listed, i)
             /\ ~(i # "unix" /\ t = <<>>)
  <2>1. ifs' = [j \in Interface |-> ifs'[j]]
    BY <1>6, <1>9
  <2>2. ifs'[i] = Up(i, t) /\ ifs'[i].table = t
    BY <1>6, <1>9 DEF Up
  <2>3. \A j \in Interface \ {i} : ifs'[j] = ifs[j]
    BY <1>6, <1>9
  <2>4. \A j \in Interface \ {i} : IsUp(j) => IsUp(j)'
    BY <2>3 DEF IsUp
  <2>5. listed' \in Seq(Interface) /\ Range(listed') = Range(listed) \cup {i}
    BY <1>6, <1>9, RangeAppended
  <2>6. Range(listed') \cap Pending' = {}
    BY <1>5, <1>6, <2>5
  <2>7. IF i = "unix" THEN t = <<>> ELSE GoodTable(t)
    <3>1. i = "unix" => t = <<>>
      BY DEF AddrTable
    <3>2. i # "unix" => GoodTable(t)
      BY <1>9, TableTaken DEF StartInv
    <3> QED BY <3>1, <3>2
  <2> HIDE DEF Pending, t
  <2>8. IsUp(i)'
    BY <2>2, <2>7 DEF IsUp
  <2>9. \A j \in Interface : IF j \in Range(listed') THEN IsUp(j)'
         ELSE ifs'[j] = Down(ifs'[j].held) /\ Partial(j, ifs'[j].held)
    BY <1>5, <1>6, <2>3, <2>4, <2>5, <2>8
  <2> QED BY <1>2, <1>5, <2>1, <2>5, <2>6, <2>9 DEF StartInv
<1>10. CASE Initialised(i, file)
  <2>1. \/ ifs' = [ifs EXCEPT ![i] = Down(0)] /\ listed' = listed
        \/ /\ ifs' = [ifs EXCEPT ![i] = Up(i, t)] /\ listed' = Append(listed, i)
           /\ ~(i # "unix" /\ t = <<>>)
    BY <1>10 DEF Initialised, Uninited
  <2>2. Partial(i, 0)
    BY DEF Partial
  <2> QED BY <1>8, <1>9, <2>1, <2>2
<1>11. CASE Failed(i, file)
  <2>1. \/ \E n \in 0 .. (Full(i) - 1) :
             ifs' = [ifs EXCEPT ![i] = Down(n)] /\ listed' = listed
        \/ ifs' = ifs /\ listed' = listed
    BY <1>11 DEF Failed
  <2>2. \A n \in 0 .. (Full(i) - 1) : Partial(i, n)
    BY DEF Partial, Full, BLOCKS, DESCRIPTORS
  <2> QED BY <1>7, <1>8, <2>1, <2>2
<1>12. CASE NotUsable(i, file) \/ Crashed(i, file)
  BY <1>7, <1>12 DEF NotUsable, Crashed
<1> QED BY <1>3, <1>10, <1>11, <1>12

LEMMA ExitKeeps ==
  ASSUME StartInv, UninitInterfaces PROVE StartInv'
<1>1. /\ stage = "ready" /\ stage' = "exited"
      /\ ifs' = [i \in Interface |->
                   IF i \in Range(listed) \ {"unix"} THEN Uninited(i) ELSE ifs[i]]
      /\ UNCHANGED <<world, env, config, listed>>
      /\ regdos'.held = FALSE
  BY DEF UninitInterfaces, Cleaned
<1>2. Pending' = {}
  BY <1>1 DEF Pending
<1>3. ASSUME NEW i \in Interface
      PROVE  IF i \in Range(listed') /\ (stage' = "exited" => i = "unix")
             THEN IsUp(i)'
             ELSE /\ ifs'[i] = Down(ifs'[i].held)
                  /\ stage' = "exited" /\ i \in Range(listed') => ifs'[i].held = 0
                  /\ i \notin Range(listed') => Partial(i, ifs'[i].held)
  <2>1. CASE i \in Range(listed) /\ i # "unix"
    BY <1>1, <2>1 DEF Uninited, Down
  <2>2. CASE ~(i \in Range(listed) /\ i # "unix")
    <3>1. ifs'[i] = ifs[i]
      BY <1>1, <2>2
    <3>2. IsUp(i) => IsUp(i)'
      BY <3>1 DEF IsUp
    <3> QED BY <1>1, <2>2, <3>1, <3>2 DEF StartInv
  <2> QED BY <2>1, <2>2
<1>4. ifs' = [i \in Interface |-> ifs'[i]]
  BY <1>1
<1>5. /\ world' \in Worlds /\ env' \in world'.envs
      /\ config' = [dir |-> config'.dir, file |-> config'.file]
      /\ config'.dir \in DOMAIN world'.files \cup {None}
      /\ config'.file \in DOMAIN world'.files \cup {None}
      /\ listed' \in Seq(Interface)
  BY <1>1 DEF StartInv
<1> QED BY <1>1, <1>2, <1>3, <1>4, <1>5 DEF StartInv

\* A call leaves the interfaces alone and may hang, find the configuration or
\* change what is looked at.
LEMMA CallKeeps ==
  ASSUME StartInv, Called,
         stage' \in {stage, "hung"}, env' \in world.envs,
         \/ config' \in {config, Located}
         \/ \E f \in DOMAIN world.files :
              config' \in {[config EXCEPT !.file = f], [config EXCEPT !.dir = f]}
  PROVE  StartInv'
<1>1. /\ stage = "ready" /\ stage' \in {"ready", "hung"}
      /\ UNCHANGED <<world, listed, ifs, regdos>>
  BY DEF Called
<1>2. /\ config' = [dir |-> config'.dir, file |-> config'.file]
      /\ config'.dir \in DOMAIN world'.files \cup {None}
      /\ config'.file \in DOMAIN world'.files \cup {None}
  <2>1. CASE config' \in {config, Located}
    BY <1>1, <2>1, LocatedIs DEF StartInv
  <2>2. CASE \E f \in DOMAIN world.files : config' = [config EXCEPT !.file = f]
    BY <1>1, <2>2 DEF StartInv
  <2>3. CASE \E f \in DOMAIN world.files : config' = [config EXCEPT !.dir = f]
    BY <1>1, <2>3 DEF StartInv
  <2> QED BY <2>1, <2>2, <2>3
<1>3. Pending' = {}
  BY <1>1 DEF Pending
<1>4. \A i \in Interface : IsUp(i) => IsUp(i)'
  BY <1>1 DEF IsUp
<1> QED BY <1>1, <1>2, <1>3, <1>4 DEF StartInv

LEMMA StartStep ==
  ASSUME StartInv, [HostNext]_hostVars PROVE StartInv'
<1>1. CASE InitInterface
  <2>1. PICK i \in Interface : stage = i
    BY <1>1 DEF InitInterface
  <2> QED BY <1>1, <2>1, StartKeeps
<1>2. CASE UninitInterfaces
  BY <1>2, ExitKeeps
<1>3. CASE gethostname \/ uname
  <2>1. Called /\ config' = NameSought /\ UNCHANGED <<env, stage>>
    BY <1>3 DEF gethostname, uname
  <2>2. config' \in {config, Located}
    BY <2>1 DEF NameSought
  <2> QED BY <2>1, <2>2, CallKeeps DEF StartInv
<1>4. CASE sethostname \/ getdomainname \/ setdomainname
  <2>1. Called /\ UNCHANGED <<env, config, stage>>
    BY <1>4 DEF sethostname, getdomainname, setdomainname
  <2> QED BY <2>1, CallKeeps DEF StartInv
<1>5. CASE res_init
  <2>1. Called /\ config' = Located /\ UNCHANGED env /\ stage' \in {stage, "hung"}
    BY <1>5 DEF res_init
  <2> QED BY <2>1, CallKeeps DEF StartInv
<1>6. CASE putenv
  BY <1>6, CallKeeps DEF putenv
<1>7. CASE config_setfile \/ config_setdir
  <2>1. /\ Called /\ UNCHANGED <<env, stage>>
        /\ \E f \in DOMAIN world.files :
             config' \in {[config EXCEPT !.file = f], [config EXCEPT !.dir = f]}
    BY <1>7 DEF config_setfile, config_setdir
  <2> QED BY <2>1, CallKeeps DEF StartInv
<1>8. CASE UNCHANGED hostVars
  <2>1. UNCHANGED <<world, env, config, stage, listed, ifs, regdos>>
    BY <1>8 DEF hostVars, startVars
  <2>2. Pending' = Pending /\ \A i \in Interface : IsUp(i) => IsUp(i)'
    BY <2>1 DEF Pending, IsUp
  <2> QED BY <2>1, <2>2 DEF StartInv
<1> QED
  BY <1>1, <1>2, <1>3, <1>4, <1>5, <1>6, <1>7, <1>8 DEF HostNext

LEMMA StartUsable == StartInv => InterfacesUsable
<1> SUFFICES ASSUME StartInv PROVE InterfacesUsable
  OBVIOUS
<1>1. \A i \in Interface : Up(i, ifs[i].table).inited /\ Up(i, ifs[i].table).held = Full(i)
  BY DEF Up
<1>2. \A n : Down(n).inited = FALSE
  BY DEF Down
<1>3. Range(listed) \subseteq Interface
  BY DEF StartInv, Range
<1>4. stage = "ready" =>
        \A i \in Range(listed) :
          /\ ifs[i].inited /\ ifs[i].held = Full(i)
          /\ i # "unix" => /\ Len(ifs[i].table) \in 1 .. TABLE_MAX
                           /\ ifs[i].table[1] = Loopback
  BY <1>1, <1>3 DEF StartInv, IsUp, GoodTable
<1>5. stage = "exited" => (\A i \in Range(listed) : ifs[i].held = 0) /\ ~regdos.held
  <2>1. Full("unix") = 0
    BY DEF Full
  <2> QED BY <1>1, <1>3, <2>1 DEF StartInv, IsUp
<1>6. \A i \in Interface : ifs[i].inited => i \in Range(listed)
  BY <1>2 DEF StartInv
<1>7. \A i \in Interface \ Range(listed) : Partial(i, ifs[i].held)
  BY DEF StartInv
<1> QED BY <1>4, <1>5, <1>6, <1>7 DEF InterfacesUsable

-----------------------------------------------------------------------------
(* The names of the host and of its domain. *)

\* What is known of the names while the program runs.
NamesInv ==
  /\ names = [host |-> names.host, node |-> names.node, domain |-> names.domain]
  /\ HostNameSticks

LEMMA NamesStart == HostInit => NamesInv
BY DEF HostInit, NamesInv, HostNameSticks, Unset, NoAnswer

LEMMA NameAsked ==
  ASSUME NEW by, NamesInv, names' = Named(HostName), Answered(by),
         by \in {"gethostname", "uname"}
  PROVE  NamesInv'
<1>1. told # Unset => HostName = told
  BY DEF NamesInv, HostNameSticks, HostName
<1>2. told' = HostName
  BY <1>1 DEF Answered
<1>3. names' = [host |-> told', node |-> <<Head(told')>>,
                domain |-> IF Len(told') > 1 THEN Tail(told') ELSE names.domain]
  BY <1>2 DEF Named
<1>4. /\ reply'.by = by
      /\ by = "gethostname" => reply'.name = told'
      /\ by = "uname" => reply'.name = <<Head(told')>>
  BY <1>2 DEF Answered, Answer
<1> QED BY <1>3, <1>4 DEF NamesInv, HostNameSticks

LEMMA NameSet ==
  ASSUME NamesInv, sethostname PROVE NamesInv'
<1>1. PICK h \in Hosts : names' = Named(h) /\ told' = h
  BY DEF sethostname
<1>2. reply'.by = "none"
  BY DEF sethostname, NoAnswer
<1> QED BY <1>1, <1>2 DEF NamesInv, HostNameSticks, Named

\* The label that is put before a domain stays the first one.
LEMMA LabelBefore ==
  ASSUME NEW x, NEW d, IsSequence(d)
  PROVE  /\ Head(<<x>> \o d) = x /\ Tail(<<x>> \o d) = d
<1> DEFINE T == {d[n] : n \in DOMAIN d} \cup {x}
<1>1. d \in Seq(T) /\ <<x>> \in Seq(T)
  <2>1. {d[n] : n \in DOMAIN d} \subseteq T
    OBVIOUS
  <2> HIDE DEF T
  <2>2. x \in T
    BY DEF T
  <2> QED BY <2>1, <2>2 DEF IsSequence
<1> HIDE DEF T
<1> QED BY <1>1

LEMMA DomainSet ==
  ASSUME NamesInv, setdomainname PROVE NamesInv'
<1>1. PICK d \in Hosts :
         /\ names' = [names EXCEPT !.domain = d, !.host = names.node \o d]
         /\ told' = IF told = Unset THEN Unset ELSE <<Head(told)>> \o d
  BY DEF setdomainname
<1>2. reply'.by = "none"
  BY DEF setdomainname, NoAnswer
<1>3. names' = [host |-> names.node \o d, node |-> names.node, domain |-> d]
  BY <1>1 DEF NamesInv
<1>4. CASE told = Unset
  BY <1>1, <1>2, <1>3, <1>4 DEF NamesInv, HostNameSticks
<1>5. CASE told # Unset
  <2>1. names.node = <<Head(told)>>
    BY <1>5 DEF NamesInv, HostNameSticks
  <2>2. IsSequence(d)
    BY NamesAssumption
  <2>3. Head(told') = Head(told) /\ Tail(told') = d
    BY <1>1, <1>5, <2>2, LabelBefore
  <2> QED BY <1>1, <1>2, <1>3, <2>1, <2>3 DEF NamesInv, HostNameSticks
<1> QED BY <1>4, <1>5

LEMMA NamesKept ==
  ASSUME NamesInv, UNCHANGED <<names, told, reply>> PROVE NamesInv'
BY DEF NamesInv, HostNameSticks

LEMMA NamesStep ==
  ASSUME NamesInv, [HostNext]_hostVars PROVE NamesInv'
<1>1. CASE gethostname
  BY <1>1, NameAsked, NamesKept DEF gethostname
<1>2. CASE uname
  BY <1>2, NameAsked DEF uname
<1>3. CASE sethostname
  BY <1>3, NameSet
<1>4. CASE setdomainname
  BY <1>4, DomainSet
<1>5. CASE getdomainname
  <2>1. reply' = Answer("getdomainname", names.domain)
        /\ UNCHANGED <<names, told>>
    BY <1>5 DEF getdomainname
  <2>2. told # Unset /\ Len(told) > 1 => names.domain = Tail(told) 
    BY DEF NamesInv, HostNameSticks
  <2> QED BY <2>1, <2>2 DEF NamesInv, HostNameSticks, Answer
<1>6. CASE res_init
  <2>1. \/ UNCHANGED <<names, told, reply>>
        \/ names' = Named(HostName) /\ Answered("gethostname")
    BY <1>6 DEF res_init, ResInited
  <2> QED BY <2>1, NameAsked, NamesKept
<1>7. CASE UNCHANGED <<names, told, reply>>
  BY <1>7, NamesKept
<1> QED
  BY <1>1, <1>2, <1>3, <1>4, <1>5, <1>6, <1>7
  DEF HostNext, hostVars, putenv, config_setfile, config_setdir

-----------------------------------------------------------------------------
(* The servers and the search list of the resolver.                        *)

LEMMA RangeJoined ==
  ASSUME NEW T, NEW a \in Seq(T), NEW b \in Seq(T)
  PROVE  a \o b \in Seq(T) /\ Range(a \o b) = Range(a) \cup Range(b)
<1> DEFINE c == a \o b
<1>1. /\ c \in Seq(T) /\ Len(a) \in Nat /\ Len(b) \in Nat
      /\ DOMAIN a = 1 .. Len(a) /\ DOMAIN b = 1 .. Len(b)
      /\ DOMAIN c = 1 .. Len(a) + Len(b)
      /\ \A k \in 1 .. Len(a) : c[k] = a[k]
      /\ \A k \in 1 .. Len(b) : c[Len(a) + k] = b[k]
  OBVIOUS
<1> HIDE DEF c
<1>2. ASSUME NEW x \in Range(c) PROVE x \in Range(a) \cup Range(b)
  <2>1. PICK k \in 1 .. Len(a) + Len(b) : x = c[k]
    BY <1>1 DEF Range
  <2>2. CASE k \in 1 .. Len(a)
    BY <1>1, <2>1, <2>2 DEF Range
  <2>3. CASE k \notin 1 .. Len(a)
    <3>1. k - Len(a) \in 1 .. Len(b) /\ Len(a) + (k - Len(a)) = k
      BY <1>1, <2>3
    <3>2. x = b[k - Len(a)]
      BY <1>1, <2>1, <3>1
    <3> QED BY <1>1, <3>1, <3>2 DEF Range
  <2> QED BY <2>2, <2>3
<1>3. ASSUME NEW x \in Range(a) \cup Range(b) PROVE x \in Range(c)
  <2>1. CASE x \in Range(a)
    <3>1. PICK k \in 1 .. Len(a) : x = a[k]
      BY <1>1, <2>1 DEF Range
    <3>2. k \in DOMAIN c /\ x = c[k]
      BY <1>1, <3>1
    <3> QED BY <3>2 DEF Range
  <2>2. CASE x \in Range(b)
    <3>1. PICK k \in 1 .. Len(b) : x = b[k]
      BY <1>1, <2>2 DEF Range
    <3>2. Len(a) + k \in DOMAIN c /\ x = c[Len(a) + k]
      BY <1>1, <3>1
    <3> QED BY <3>2 DEF Range
  <2> QED BY <2>1, <2>2
<1> QED BY <1>1, <1>2, <1>3 DEF c

\* Sequences one behind the other have all of their members.
LEMMA FlattenedIs ==
  ASSUME NEW T, NEW ss \in Seq(Seq(T))
  PROVE  /\ FlattenSeq(ss) \in Seq(T)
         /\ \A k \in 1 .. Len(ss) : Range(ss[k]) \subseteq Range(FlattenSeq(ss))
<1> DEFINE N == Len(ss)
           S == Seq(T)
           step == [k \in 1 .. N |-> [q \in S |-> q \o ss[k]]]
           flatten[k \in 1 .. N] == IF k = 1 THEN ss[k] ELSE flatten[k - 1] \o ss[k]
           h == [k \in 0 .. N |-> IF k = 0 THEN <<>> ELSE flatten[k]]
           P == [k \in 0 .. N |->
                   {q \in S : \A j \in 1 .. k : Range(ss[j]) \subseteq Range(q)}]
<1>1. N \in Nat /\ \A k \in 1 .. N : ss[k] \in S
  OBVIOUS
<1>2. <<>> \in S
  OBVIOUS
<1>3. FlattenSeq(ss) = IF N = 0 THEN ss ELSE flatten[N]
  BY Zenon DEF FlattenSeq
<1>4. CASE N = 0
  <2>1. ss = <<>>
    BY <1>4
  <2> HIDE DEF flatten
  <2>2. FlattenSeq(ss) = <<>>
    BY <1>3, <1>4, <2>1
  <2> QED BY <1>2, <1>4, <2>2
<1>5. CASE N # 0
  <2>1. \A k \in 1 .. N : \A q \in S : q \o ss[k] \in S
    BY <1>1
  <2> HIDE DEF N, S
  <2>2. step \in [1 .. N -> [S -> S]]
    BY <2>1
  <2> HIDE DEF step
  <2>3. PICK f : Iterates(f, N, S, <<>>, step)
    BY <1>1, <1>2, <2>2, Iteration
  <2>4. ASSUME NEW k \in 1 .. N PROVE f[k - 1] \in S /\ f[k] = f[k - 1] \o ss[k]
    <3>1. f[k - 1] \in S /\ f[k] = step[k][f[k - 1]]
      BY <1>1, <2>3 DEF Iterates
    <3> QED BY <3>1 DEF step
  <2> DEFINE g == [k \in 1 .. N |-> f[k]]
  <2>5. ASSUME NEW k \in 1 .. N PROVE g[k] = IF k = 1 THEN ss[k] ELSE g[k - 1] \o ss[k]
    <3>1. CASE k = 1
      <4>1. f[0] = <<>>
        BY <2>3 DEF Iterates
      <4>2. f[k] = f[k - 1] \o ss[k] /\ k - 1 = 0
        <5>1. k - 1 = 0
          BY <3>1
        <5> HIDE DEF g, flatten, h, P
        <5>2. f[k] = f[k - 1] \o ss[k]
          BY <2>4, Zenon
        <5> QED BY <5>1, <5>2
      <4>3. ss[1] \in Seq(T)
        BY <1>1, <3>1 DEF S
      <4>4. <<>> \o ss[1] = ss[1]
        <5> HIDE DEF g, flatten, h, P
        <5> QED BY <4>3
      <4> QED BY <3>1, <4>1, <4>2, <4>4
    <3>2. CASE k # 1
      <4>1. k - 1 \in 1 .. N
        BY <1>1, <3>2
      <4> QED BY <2>4, <3>2, <4>1
    <3> QED BY <3>1, <3>2
  <2>6. g = [k \in 1 .. N |-> g[k]]
    OBVIOUS
  <2> HIDE DEF g
  <2>7. g = [k \in 1 .. N |-> IF k = 1 THEN ss[k] ELSE g[k - 1] \o ss[k]]
    BY <2>5, <2>6, Zenon
  <2>8. flatten = [k \in 1 .. N |-> IF k = 1 THEN ss[k] ELSE flatten[k - 1] \o ss[k]]
    BY <2>7, Zenon
  <2> HIDE DEF flatten
  <2>9. h[0] \in P[0]
    BY <1>1, <1>2
  <2>10. ASSUME NEW k \in 1 .. N, h[k - 1] \in P[k - 1] PROVE h[k] \in P[k]
    <3>1. k - 1 \in 0 .. N /\ k \in 0 .. N
      BY <1>1
    <3>2. h[k - 1] \in S /\ \A j \in 1 .. k - 1 : Range(ss[j]) \subseteq Range(h[k - 1])
      BY <2>10, <3>1
    <3>3. h[k] = h[k - 1] \o ss[k]
      <4>1. CASE k = 1
        <5>1. h[k - 1] = <<>> /\ h[k] = ss[1]
          BY <2>8, <3>1, <4>1
        <5>2. ss[1] \in Seq(T)
          BY <1>1, <4>1 DEF S
        <5> HIDE DEF h
        <5> QED BY <4>1, <5>1, <5>2
      <4>2. CASE k # 1
        <5>1. h[k - 1] = flatten[k - 1] /\ h[k] = flatten[k]
          BY <3>1, <4>2
        <5>2. flatten[k] = flatten[k - 1] \o ss[k]
          BY <2>8, <4>2
        <5> QED BY <5>1, <5>2
      <4> QED BY <4>1, <4>2
    <3> HIDE DEF h
    <3>4. h[k] \in S /\ Range(h[k]) = Range(h[k - 1]) \cup Range(ss[k])
      BY <1>1, <3>2, <3>3, RangeJoined DEF S
    <3>5. \A j \in 1 .. k : Range(ss[j]) \subseteq Range(h[k])
      <4>1. \A j \in 1 .. k : j \in 1 .. k - 1 \/ j = k
        BY <1>1
      <4> QED BY <3>2, <3>4, <4>1
    <3> QED BY <3>1, <3>4, <3>5
  <2> HIDE DEF h, P
  <2>11. \A k \in 0 .. N : h[k] \in P[k]
    BY <1>1, <2>9, <2>10, AlongEach
  <2>12. h[N] \in P[N] /\ h[N] = flatten[N] /\ N \in 0 .. N
    BY <1>1, <1>5, <2>11 DEF h
  <2>13. flatten[N] \in S /\ \A j \in 1 .. N : Range(ss[j]) \subseteq Range(flatten[N])
    BY <2>12 DEF P
  <2> QED BY <1>3, <1>5, <2>13 DEF N, S
<1> QED BY <1>4, <1>5

\* What is known of the lines of a resolv.conf.
IsConfLines(lines) ==
  IsSequence(lines) /\ \A k \in DOMAIN lines : NamesGiven(lines[k].names)

LEMMA ConfLinesIs ==
  ASSUME NEW file, file \in DOMAIN world.files \cup {None}, world \in Worlds
  PROVE  IsConfLines(ConfLines(file))
<1> DEFINE lines == world.files[file]
           hits == {k \in DOMAIN lines : lines[k].at = <<"main", "resolv.conf">>}
<1>1. ResolvConf(file) =
        IF file = None \/ hits = {} THEN None ELSE lines[Min(hits)].value
  BY Zenon DEF ResolvConf, Profile
<1>2. ASSUME file # None, hits # {} PROVE lines[Min(hits)].value \in DOMAIN world.resolv
  <2>1. hits \in SUBSET Nat
    BY <1>2, WorldsAssumption
  <2>2. \E m \in hits : \A k \in hits : m <= k
    BY <1>2, <2>1, FirstIs
  <2> DEFINE m == CHOOSE x \in hits : \A y \in hits : x =< y
  <2>3. m \in hits
    BY <2>2
  <2>4. Min(hits) = m
    BY Zenon DEF Min
  <2> HIDE DEF m
  <2> QED BY <1>2, <2>3, <2>4, WorldsAssumption
<1> HIDE DEF hits, lines
<1>3. ResolvConf(file) = None \/ ResolvConf(file) \in DOMAIN world.resolv
  BY <1>1, <1>2
<1>4. IsConfLines(<<>>)
  BY DEF IsConfLines, IsSequence
<1>5. ASSUME NEW r \in DOMAIN world.resolv PROVE IsConfLines(world.resolv[r])
  BY WorldsAssumption DEF IsConfLines
<1> QED BY <1>3, <1>4, <1>5 DEF ConfLines

\* A server of an adapter that none before it keeps from being found.
LEMMA AdapterServersAre ==
  ASSUME NEW T, NEW entry, entry.dns \in Seq(T)
  PROVE  /\ AdapterServers(entry) \in Seq(T)
         /\ \A k \in DOMAIN entry.dns :
              (\A m \in 1 .. k : entry.dns[m] # 0) =>
                entry.dns[k] \in Range(AdapterServers(entry))
<1> DEFINE l == entry.dns
           zero == {k \in DOMAIN l : l[k] = 0} \cup {Len(l) + 1}
           z == CHOOSE k \in zero : \A x \in zero : k <= x
<1>1. Len(l) \in Nat /\ DOMAIN l = 1 .. Len(l)
  OBVIOUS
<1>2. AdapterServers(entry) = SubSeq(l, 1, z - 1)
  BY Zenon DEF AdapterServers
<1> HIDE DEF l
<1>3. zero \in SUBSET Nat /\ zero # {} /\ \A x \in zero : x >= 1 /\ x <= Len(l) + 1
  BY <1>1
<1>4. \E k \in zero : \A x \in zero : k <= x
  BY <1>3, FirstIs
<1>5. z \in zero /\ \A x \in zero : z <= x
  BY <1>4
<1>6. z \in Nat /\ z >= 1 /\ z <= Len(l) + 1
  BY <1>3, <1>5
<1>7. z \in DOMAIN l => l[z] = 0
  BY <1>1, <1>5
<1> HIDE DEF z, zero
<1> DEFINE q == SubSeq(l, 1, z - 1)
<1>8. q \in Seq(T) /\ Len(q) = z - 1 /\ \A k \in 1 .. z - 1 : q[k] = l[k]
  BY <1>1, <1>6 DEF l
<1> HIDE DEF q
<1>9. ASSUME NEW k \in DOMAIN l, \A m \in 1 .. k : l[m] # 0 PROVE l[k] \in Range(q)
  <2>1. k \in 1 .. Len(l)
    BY <1>1
  <2>2. z \notin 1 .. k
    <3>1. z \in 1 .. k => z \in DOMAIN l
      BY <1>1, <1>6, <2>1
    <3> QED BY <1>7, <1>9, <3>1
  <2>3. k \in 1 .. z - 1
    BY <1>6, <2>1, <2>2
  <2>4. k \in DOMAIN q /\ q[k] = l[k]
    BY <1>8, <2>3
  <2> QED BY <2>4 DEF Range
<1> QED BY <1>2, <1>8, <1>9 DEF q, l

\* What the interfaces in the list have for tables.
TablesKnown ==
  /\ listed \in Seq(Interface)
  /\ \A i \in Range(listed) :
       /\ IsSequence(ifs[i].table)
       /\ \A k \in DOMAIN ifs[i].table : IsSequence(ifs[i].table[k].dns)

LEMMA IfServersAre ==
  ASSUME TablesKnown
  PROVE  /\ \E T : IfServers \in Seq(T)
         /\ \A i \in Range(listed) : \A e \in Range(ifs[i].table) :
              \A k \in DOMAIN e.dns :
                (\A m \in 1 .. k : e.dns[m] # 0) => e.dns[k] \in Range(IfServers)
<1> DEFINE T == UNION {UNION {Range(ifs[i].table[j].dns) : j \in DOMAIN ifs[i].table} :
                         i \in Range(listed)}
           of(i) == [j \in DOMAIN ifs[i].table |-> AdapterServers(ifs[i].table[j])]
           all == [k \in DOMAIN listed |-> FlattenSeq(of(listed[k]))]
<1>1. ASSUME NEW i \in Range(listed), NEW j \in DOMAIN ifs[i].table
      PROVE  ifs[i].table[j].dns \in Seq(T)
  <2> DEFINE l == ifs[i].table[j].dns
  <2>1. l \in Seq(Range(l))
    BY DEF TablesKnown, IsSequence, Range
  <2>2. Range(l) \subseteq T
    OBVIOUS
  <2> HIDE DEF l, T
  <2> QED BY <2>1, <2>2 DEF l
<1> HIDE DEF T
<1>2. ASSUME NEW i \in Range(listed)
      PROVE  /\ of(i) \in Seq(Seq(T))
             /\ Len(of(i)) = Len(ifs[i].table) /\ DOMAIN ifs[i].table = 1 .. Len(ifs[i].table)
             /\ \A j \in DOMAIN ifs[i].table : of(i)[j] = AdapterServers(ifs[i].table[j])
  <2> DEFINE t == ifs[i].table
             N == Len(t)
  <2>1. N \in Nat /\ DOMAIN t = 1 .. N
    BY DEF TablesKnown, IsSequence
  <2>2. \A j \in 1 .. N : AdapterServers(t[j]) \in Seq(T)
    BY <1>1, <2>1, AdapterServersAre
  <2>3. of(i) = [j \in 1 .. N |-> AdapterServers(t[j])]
    BY <2>1
  <2> HIDE DEF N, t
  <2>4. of(i) \in [1 .. N -> Seq(T)]
    BY <2>2, <2>3
  <2> HIDE DEF of
  <2>5. of(i) \in Seq(Seq(T)) /\ Len(of(i)) = N
    BY <2>1, <2>4
  <2> QED BY <2>1, <2>3, <2>5 DEF N, t
<1> HIDE DEF of
<1>3. /\ listed \in Seq(Interface) /\ Len(listed) \in Nat /\ DOMAIN listed = 1 .. Len(listed)
      /\ \A k \in DOMAIN listed : listed[k] \in Range(listed)
  BY DEF TablesKnown, Range
<1>4. \A i \in Range(listed) :
         /\ FlattenSeq(of(i)) \in Seq(T)
         /\ \A j \in DOMAIN ifs[i].table : Range(of(i)[j]) \subseteq Range(FlattenSeq(of(i)))
  BY <1>2, FlattenedIs
<1>5. all \in Seq(Seq(T)) /\ Len(all) = Len(listed)
      /\ \A k \in DOMAIN listed : all[k] = FlattenSeq(of(listed[k]))
  <2>1. all \in [1 .. Len(listed) -> Seq(T)]
    BY <1>3, <1>4
  <2>2. \A k \in DOMAIN listed : all[k] = FlattenSeq(of(listed[k]))
    OBVIOUS
  <2> HIDE DEF all
  <2> QED BY <1>3, <2>1, <2>2
<1>6. IfServers = FlattenSeq(all)
  BY Zenon DEF IfServers, all, of
<1> HIDE DEF all
<1>7. IfServers \in Seq(T) /\ \A k \in DOMAIN listed : Range(all[k]) \subseteq Range(IfServers)
  BY <1>3, <1>5, <1>6, FlattenedIs
<1>8. ASSUME NEW i \in Range(listed), NEW e \in Range(ifs[i].table), NEW k \in DOMAIN e.dns,
             \A m \in 1 .. k : e.dns[m] # 0
      PROVE  e.dns[k] \in Range(IfServers)
  <2>1. PICK j \in DOMAIN ifs[i].table : e = ifs[i].table[j]
    BY DEF Range
  <2>2. e.dns[k] \in Range(AdapterServers(e))
    BY <1>1, <1>8, <2>1, AdapterServersAre
  <2>3. Range(AdapterServers(e)) = Range(of(i)[j])
    BY <1>2, <2>1
  <2>4. PICK n \in DOMAIN listed : i = listed[n]
    BY DEF Range
  <2>5. Range(all[n]) = Range(FlattenSeq(of(i)))
    BY <1>5, <2>4
  <2> QED BY <1>4, <1>7, <2>1, <2>2, <2>3, <2>5
<1> QED BY <1>7, <1>8

\* The servers that res_init() sets, for these lines.
LEMMA NameServersAre ==
  ASSUME TablesKnown, NEW lines, IsConfLines(lines)
  PROVE  LET l == NameServers(lines)
         IN  /\ Len(l) \in 1 .. MAXNS
             /\ \A i \in Range(listed) : \A e \in Range(ifs[i].table) :
                  \A k \in DOMAIN e.dns :
                    (\A m \in 1 .. k : e.dns[m] # 0) =>
                      e.dns[k] \in Range(l) \/ Len(l) = MAXNS
             /\ (\E k \in DOMAIN lines : NamesServer(lines[k])) =>
                  \E k \in DOMAIN lines :
                    NamesServer(lines[k]) /\ l[1] = lines[k].addr
<1> DEFINE conf == resolv_conf_getdnsaddrs(lines)
           good == {k \in DOMAIN lines : NamesServer(lines[k])}
           both == conf \o IfServers
           l == AtMost(MAXNS, both)
<1>1. MAXNS \in Nat /\ MAXNS >= 1
  BY HostAssumption
<1>2. NameServers(lines) = IF l = <<>> THEN <<0>> ELSE l
  BY Zenon DEF NameServers, getdnsaddrs
<1>3. conf = IF good = {} THEN <<>> ELSE <<lines[Max(good)].addr>>
  BY Zenon DEF resolv_conf_getdnsaddrs
<1>4. PICK U : IfServers \in Seq(U)
  BY IfServersAre
<1> DEFINE T == U \cup {lines[Max(good)].addr}
<1>5. conf \in Seq(T) /\ IfServers \in Seq(T)
  <2>1. lines[Max(good)].addr \in T /\ U \subseteq T
    OBVIOUS
  <2> HIDE DEF T, good, conf
  <2> QED BY <1>3, <1>4, <2>1
<1> HIDE DEF T, conf
<1>6. both \in Seq(T) /\ Range(IfServers) \subseteq Range(both)
      /\ Len(both) \in Nat
  BY <1>5, RangeJoined
<1>7. conf # <<>> => Len(both) >= 1 /\ both[1] = conf[1]
  BY <1>5
<1> HIDE DEF both
<1>8. /\ l \in Seq(T) /\ Len(l) = (IF Len(both) < MAXNS THEN Len(both) ELSE MAXNS)
      /\ \A i \in 1 .. Len(l) : l[i] = both[i]
  BY <1>1, <1>6, AtMostIs
<1> HIDE DEF l
<1>9. Len(NameServers(lines)) \in 1 .. MAXNS
  <2>1. CASE l = <<>>
    BY <1>1, <1>2, <2>1
  <2>2. CASE l # <<>>
    <3>1. Len(l) # 0 /\ Len(l) \in Nat
      BY <1>8, <2>2
    <3> QED BY <1>1, <1>2, <1>6, <1>8, <2>2, <3>1
  <2> QED BY <2>1, <2>2
<1>10. Len(l) < MAXNS => Range(IfServers) \subseteq Range(l)
  <2> SUFFICES ASSUME Len(l) < MAXNS PROVE Range(both) \subseteq Range(l)
    BY <1>6
  <2>1. Len(l) = Len(both)
    BY <1>1, <1>6, <1>8
  <2>2. DOMAIN l = DOMAIN both /\ DOMAIN both = 1 .. Len(both)
    BY <1>6, <1>8, <2>1
  <2> QED BY <1>8, <2>1, <2>2 DEF Range
<1>11. ASSUME NEW i \in Range(listed), NEW e \in Range(ifs[i].table), NEW k \in DOMAIN e.dns,
              \A m \in 1 .. k : e.dns[m] # 0
       PROVE  e.dns[k] \in Range(NameServers(lines)) \/ Len(NameServers(lines)) = MAXNS
  <2>1. e.dns[k] \in Range(IfServers)
    BY <1>11, IfServersAre
  <2>2. CASE Len(l) < MAXNS
    <3>1. e.dns[k] \in Range(l)
      BY <1>10, <2>1, <2>2
    <3>2. l # <<>>
      BY <3>1 DEF Range
    <3> QED BY <1>2, <3>1, <3>2
  <2>3. CASE ~(Len(l) < MAXNS)
    <3>1. Len(l) = MAXNS
      BY <1>1, <1>6, <1>8, <2>3
    <3>2. l # <<>>
      BY <1>1, <3>1
    <3> QED BY <1>2, <3>1, <3>2
  <2> QED BY <2>2, <2>3
<1>12. ASSUME good # {}
       PROVE  \E k \in good : NameServers(lines)[1] = lines[k].addr
  <2>1. good \in SUBSET (1 .. Len(lines)) /\ Len(lines) \in Nat
    BY DEF IsConfLines, IsSequence
  <2> HIDE DEF good
  <2>2. Max(good) \in good
    BY <1>12, <2>1, LastIs
  <2>3. conf = <<lines[Max(good)].addr>>
    BY <1>3, <1>12
  <2>4. conf # <<>> /\ conf[1] = lines[Max(good)].addr
    BY <2>3
  <2>5. 1 \in 1 .. Len(l) /\ l[1] = lines[Max(good)].addr
    BY <1>1, <1>6, <1>7, <1>8, <2>4
  <2>6. l # <<>>
    BY <2>5
  <2> QED BY <1>2, <2>2, <2>5, <2>6
<1> QED BY <1>9, <1>11, <1>12

\* A list of names begins with the first one said.
LEMMA FirstName ==
  ASSUME NEW n, NamesGiven(n), n # <<>>
  PROVE  /\ n[1] # <<>> /\ Len(n) \in Nat /\ Len(n) >= 1
         /\ AtMost(MAXDNSRCH, n)[1] = n[1]
         /\ Len(n) = 1 => AtMost(MAXDNSRCH, n) = <<n[1]>>
<1>1. PICK T : n \in Seq(T)
  BY DEF NamesGiven, IsSequence
<1>2. Len(n) \in Nat /\ Len(n) >= 1 /\ DOMAIN n = 1 .. Len(n)
  BY <1>1
<1>3. n[1] # <<>>
  BY <1>2 DEF NamesGiven
<1>4. MAXDNSRCH \in Nat /\ MAXDNSRCH >= 1
  BY HostAssumption
<1> DEFINE q == AtMost(MAXDNSRCH, n)
<1>5. /\ q \in Seq(T) /\ Len(q) = (IF Len(n) < MAXDNSRCH THEN Len(n) ELSE MAXDNSRCH)
      /\ \A i \in 1 .. Len(q) : q[i] = n[i]
  BY <1>1, <1>4, AtMostIs
<1> HIDE DEF q
<1>6. Len(q) \in Nat /\ Len(q) >= 1 /\ 1 \in 1 .. Len(q) /\ (Len(n) = 1 => Len(q) = 1)
  BY <1>2, <1>4, <1>5
<1>7. q[1] = n[1]
  BY <1>5, <1>6
<1>8. Len(n) = 1 => q = <<n[1]>>
  <2> SUFFICES ASSUME Len(n) = 1 PROVE q = <<n[1]>>
    OBVIOUS
  <2>1. Len(q) = 1
    BY <1>6
  <2> QED BY <1>5, <1>7, <2>1
<1> QED BY <1>2, <1>3, <1>7, <1>8 DEF q

\* Line k says something of the domain and no line up to n behind it does.
LastToSay(lines, n, k) ==
  /\ k \in 1 .. n /\ SaysDomain(lines[k])
  /\ \A m \in 1 .. n : SaysDomain(lines[m]) => m <= k

\* d is what the line l alone says.
AsSaid(d, l) ==
  /\ d.def = l.names[1]
  /\ IF l.key = "domain" THEN d.have = FALSE
     ELSE d.have = TRUE /\ d.list = AtMost(MAXDNSRCH, l.names)

\* The domains after the first n lines.
DomainsAfter(d, lines, n) ==
  /\ d.have \in BOOLEAN
  /\ d.have => d.list[1] = d.def /\ d.def # <<>>
  /\ \A k : LastToSay(lines, n, k) => AsSaid(d, lines[k])

LEMMA LineTaken ==
  ASSUME NEW lines, IsConfLines(lines), NEW n \in 1 .. Len(lines),
         NEW d, DomainsAfter(d, lines, n - 1)
  PROVE  DomainsAfter(ConfLine(d, lines[n]), lines, n)
<1> DEFINE l == lines[n]
<1>1. Len(lines) \in Nat /\ DOMAIN lines = 1 .. Len(lines)
  BY DEF IsConfLines, IsSequence
<1>2. NamesGiven(l.names)
  BY <1>1 DEF IsConfLines
<1>3. CASE ~SaysDomain(l)
  <2>1. ConfLine(d, l) = d
    BY <1>3 DEF ConfLine, SaysDomain
  <2>2. \A k : LastToSay(lines, n, k) => LastToSay(lines, n - 1, k)
    <3> SUFFICES ASSUME NEW k, LastToSay(lines, n, k) PROVE LastToSay(lines, n - 1, k)
      OBVIOUS
    <3>1. k \in 1 .. n /\ k # n
      BY <1>3 DEF LastToSay
    <3>2. k \in 1 .. n - 1 /\ \A m \in 1 .. n - 1 : m \in 1 .. n
      BY <1>1, <3>1
    <3> QED BY <3>2 DEF LastToSay
  <2> QED BY <2>1, <2>2 DEF DomainsAfter
<1>4. CASE SaysDomain(l)
  <2>1. l.key \in {"domain", "search"} /\ l.names # <<>>
    BY <1>4 DEF SaysDomain
  <2>2. l.names[1] # <<>> /\ AtMost(MAXDNSRCH, l.names)[1] = l.names[1]
    BY <1>2, <2>1, FirstName
  <2> DEFINE c == ConfLine(d, l)
  <2>3. c = IF l.key = "domain" THEN DomainLine(d, l.names) ELSE SearchLine(d, l.names)
    BY <2>1 DEF ConfLine
  <2>4. AsSaid(c, l)
    BY <2>1, <2>3 DEF AsSaid, DomainLine, SearchLine
  <2>5. c.have \in BOOLEAN /\ (c.have => c.list[1] = c.def /\ c.def # <<>>)
    BY <2>1, <2>2, <2>3 DEF DomainLine, SearchLine
  <2> HIDE DEF c
  <2>6. \A k : LastToSay(lines, n, k) => k = n
    <3> SUFFICES ASSUME NEW k, LastToSay(lines, n, k) PROVE k = n
      OBVIOUS
    <3>1. k \in 1 .. n /\ n \in 1 .. n /\ n <= k
      BY <1>1, <1>4 DEF LastToSay
    <3> QED BY <1>1, <3>1
  <2>7. DomainsAfter(c, lines, n)
    BY <2>4, <2>5, <2>6 DEF DomainsAfter
  <2> QED BY <2>7 DEF c
<1> QED BY <1>3, <1>4

LEMMA DomainsOfLines ==
  ASSUME NEW lines, IsConfLines(lines), env.localdomain = <<>>
  PROVE  DomainsAfter(Domains(lines), lines, Len(lines))
<1> DEFINE N == Len(lines)
           x == FromEnv
           D == {x.def} \cup {lines[k].names[1] : k \in 1 .. N}
           L == {x.list} \cup {AtMost(MAXDNSRCH, lines[k].names) : k \in 1 .. N}
           S == [def : D, list : L, have : BOOLEAN]
           step == [k \in 1 .. N |-> [q \in S |-> ConfLine(q, lines[k])]]
           upto[k \in 0 .. N] == IF k = 0 THEN x ELSE ConfLine(upto[k - 1], lines[k])
           P == [k \in 0 .. N |-> {q \in S : DomainsAfter(q, lines, k)}]
<1>1. N \in Nat /\ DOMAIN lines = 1 .. N
  BY DEF IsConfLines, IsSequence
<1>2. x = [def |-> res.defdname, list |-> res.dnsrch, have |-> FALSE]
  BY DEF FromEnv
<1>3. Domains(lines) = upto[N]
  BY Zenon DEF Domains
<1> HIDE DEF x
<1>4. x \in S
  BY <1>2
<1>5. ASSUME NEW k \in 1 .. N, NEW q \in S PROVE ConfLine(q, lines[k]) \in S
  <2>1. lines[k].names[1] \in D /\ AtMost(MAXDNSRCH, lines[k].names) \in L
    OBVIOUS
  <2> HIDE DEF D, L
  <2>2. q.def \in D /\ q.list \in L /\ q.have \in BOOLEAN
    OBVIOUS
  <2>3. DomainLine(q, lines[k].names) \in S
    BY <2>1, <2>2 DEF DomainLine
  <2>4. SearchLine(q, lines[k].names) \in S
    BY <2>1, <2>2 DEF SearchLine
  <2> QED BY <2>3, <2>4 DEF ConfLine
<1> HIDE DEF S, N
<1>6. step \in [1 .. N -> [S -> S]]
  BY <1>5
<1> HIDE DEF step
<1>7. PICK f : Iterates(f, N, S, x, step)
  BY <1>1, <1>4, <1>6, Iteration
<1>8. f = [k \in 0 .. N |-> IF k = 0 THEN x ELSE ConfLine(f[k - 1], lines[k])]
  <2>1. ASSUME NEW k \in 1 .. N PROVE f[k] = ConfLine(f[k - 1], lines[k])
    <3>1. f[k - 1] \in S /\ f[k] = step[k][f[k - 1]]
      BY <1>1, <1>7 DEF Iterates
    <3> QED BY <3>1 DEF step
  <2> QED BY <1>1, <1>7, <2>1 DEF Iterates
<1>9. upto = [k \in 0 .. N |-> IF k = 0 THEN x ELSE ConfLine(upto[k - 1], lines[k])]
  BY <1>8, Zenon
<1> HIDE DEF upto
<1>10. upto[0] \in P[0]
  <2>1. 0 \in 0 .. N /\ upto[0] = x
    BY <1>1, <1>9
  <2>2. DomainsAfter(x, lines, 0)
    <3>1. \A k : ~LastToSay(lines, 0, k)
      BY DEF LastToSay
    <3> QED BY <1>2, <3>1 DEF DomainsAfter
  <2> QED BY <1>4, <2>1, <2>2
<1>11. ASSUME NEW k \in 1 .. N, upto[k - 1] \in P[k - 1] PROVE upto[k] \in P[k]
  <2>1. k - 1 \in 0 .. N /\ k \in 0 .. N
    BY <1>1
  <2>2. upto[k - 1] \in S /\ DomainsAfter(upto[k - 1], lines, k - 1)
    BY <1>11, <2>1
  <2>3. upto[k] = ConfLine(upto[k - 1], lines[k])
    BY <1>1, <1>9
  <2>4. upto[k] \in S /\ DomainsAfter(upto[k], lines, k)
    BY <1>5, <2>2, <2>3, LineTaken DEF N
  <2> QED BY <2>1, <2>4
<1> HIDE DEF P
<1>12. \A k \in 0 .. N : upto[k] \in P[k]
  BY <1>1, <1>10, <1>11, AlongEach
<1>13. N \in 0 .. N /\ upto[N] \in P[N]
  BY <1>1, <1>12
<1>14. DomainsAfter(upto[N], lines, N)
  BY <1>13 DEF P
<1> QED BY <1>3, <1>14 DEF N

\* What SearchAgrees says of one reading of the configuration.
Agrees(r, s) ==
  /\ r.dnsrch[1] = r.defdname
  /\ s.local # <<>> => r.dnsrch = AtMost(MAXDNSRCH, s.local)
  /\ s.local = <<>> =>
       \A k \in DOMAIN s.lines :
         SaysDomain(s.lines[k])
           /\ (\A m \in DOMAIN s.lines : SaysDomain(s.lines[m]) => m <= k)
           => r.dnsrch = IF s.lines[k].key = "domain"
                         THEN <<s.lines[k].names[1]>>
                         ELSE AtMost(MAXDNSRCH, s.lines[k].names)

LEMMA SearchSet ==
  ASSUME NEW lines, IsConfLines(lines), NamesGiven(env.localdomain),
         NEW opened, ResInited(lines, opened)
  PROVE  Agrees(res', [lines |-> lines, local |-> env.localdomain])
<1> DEFINE d == Domains(lines)
           asks == d.def = <<>>
           def == IF asks /\ Len(HostName) > 1 THEN Tail(HostName) ELSE d.def
           srch == IF d.have THEN d.list ELSE <<def>>
<1>1. res'.defdname = def /\ res'.dnsrch = srch
  <2> DEFINE ns == NameServers(lines)
             nd == NDots(lines)
             so == IF opened THEN SortList(lines) ELSE res.sort
  <2>1. res' = [inited |-> TRUE, defdname |-> def, dnsrch |-> srch,
                nsaddr |-> ns, ndots |-> nd, sort |-> so]
    BY Zenon DEF ResInited
  <2> HIDE DEF ns, nd, so, def, srch
  <2> QED BY <2>1
<1>2. CASE env.localdomain # <<>>
  <2> DEFINE l == env.localdomain
  <2>1. l[1] # <<>> /\ Len(l) \in Nat /\ Len(l) >= 1
        /\ AtMost(MAXDNSRCH, l)[1] = l[1]
        /\ (Len(l) = 1 => AtMost(MAXDNSRCH, l) = <<l[1]>>)
    BY <1>2, FirstName
  <2>2. d = [def |-> l[1], list |-> AtMost(MAXDNSRCH, l), have |-> Len(l) > 1]
    BY <1>2, Zenon DEF Domains, FromEnv
  <2> HIDE DEF l, d
  <2>3. d.def = l[1] /\ d.list = AtMost(MAXDNSRCH, l) /\ d.have = (Len(l) > 1)
    BY <2>2
  <2>4. def = l[1] /\ srch = AtMost(MAXDNSRCH, l)
    <3>1. ~asks /\ def = l[1]
      BY <2>1, <2>3
    <3> HIDE DEF def, asks
    <3>2. CASE Len(l) > 1
      <4>1. d.have = TRUE
        BY <2>3, <3>2
      <4> QED BY <2>3, <3>1, <4>1
    <3>3. CASE ~(Len(l) > 1)
      <4>1. Len(l) = 1
        <5> DEFINE n == Len(l)
        <5>1. n \in Nat /\ n >= 1 /\ ~(n > 1)
          BY <2>1, <3>3, Zenon
        <5> HIDE DEF n
        <5>2. n = 1
          BY <5>1
        <5> QED BY <5>2 DEF n
      <4> DEFINE more == Len(l) > 1
      <4>2. d.have = more /\ ~more
        BY <2>3, <3>3
      <4> HIDE DEF more
      <4>3. ~d.have
        BY <4>2, Zenon
      <4>4. srch = <<def>>
        BY <4>3, Zenon
      <4> HIDE DEF srch
      <4> QED BY <2>1, <3>1, <4>1, <4>4
    <3> QED BY <3>2, <3>3
  <2> HIDE DEF def, srch
  <2> DEFINE s == [lines |-> lines, local |-> l]
  <2>5. s.lines = lines /\ s.local = l /\ l # <<>>
    BY <1>2 DEF l
  <2> HIDE DEF s
  <2>6. Agrees(res', s)
    BY <1>1, <2>1, <2>4, <2>5 DEF Agrees
  <2> QED BY <2>6 DEF s, l
<1>3. CASE env.localdomain = <<>>
  <2>1. DomainsAfter(d, lines, Len(lines)) /\ DOMAIN lines = 1 .. Len(lines)
    BY <1>3, DomainsOfLines DEF IsConfLines, IsSequence
  <2> HIDE DEF d
  <2>2. d.have \in BOOLEAN /\ (d.have => d.list[1] = d.def /\ d.def # <<>>)
    BY <2>1 DEF DomainsAfter
  <2>3. srch[1] = def
    BY <2>2
  <2>4. ASSUME NEW k \in DOMAIN lines, SaysDomain(lines[k]),
               \A m \in DOMAIN lines : SaysDomain(lines[m]) => m <= k
        PROVE  srch = IF lines[k].key = "domain" THEN <<lines[k].names[1]>>
                      ELSE AtMost(MAXDNSRCH, lines[k].names)
    <3>1. AsSaid(d, lines[k])
      BY <2>1, <2>4 DEF DomainsAfter, LastToSay
    <3>2. lines[k].names[1] # <<>>
      BY <2>4, FirstName DEF IsConfLines, SaysDomain
    <3>3. d.def = lines[k].names[1] /\ def = d.def
      BY <3>1, <3>2 DEF AsSaid
    <3>4. CASE lines[k].key = "domain"
      BY <3>1, <3>3, <3>4 DEF AsSaid
    <3>5. CASE lines[k].key # "domain"
      BY <3>1, <3>5 DEF AsSaid
    <3> QED BY <3>4, <3>5
  <2> HIDE DEF def, srch
  <2> DEFINE s == [lines |-> lines, local |-> env.localdomain]
  <2>5. s.lines = lines /\ s.local = <<>>
    BY <1>3
  <2> HIDE DEF s
  <2>6. Agrees(res', s)
    BY <1>1, <2>3, <2>4, <2>5 DEF Agrees
  <2> QED BY <2>6 DEF s
<1> QED BY <1>2, <1>3

-----------------------------------------------------------------------------
(* The invariant of what a program is told of its host, and the theorems.  *)

\* The resolver is only initialised when the interfaces are up.
SeenInv ==
  /\ seen # {} => stage \in {"ready", "hung", "exited"}
  /\ ServersKept /\ SearchAgrees

\* Without a configuration file, the table of the VxD is the registry's.
FoundInv ==
  stage # "exited" /\ "csock" \in Range(listed) /\ config.file = None =>
    ifs["csock"].table = win9x_getaddrtable(world.reg)

HostInv == StartInv /\ NamesInv /\ SeenInv /\ FoundInv

\* While the library is up, the tables of its interfaces are in order.
LEMMA TablesUp ==
  ASSUME StartInv, stage # "exited" PROVE TablesKnown
<1>1. \A i \in Range(listed) : i \in Interface /\ IsUp(i)
  BY DEF StartInv, Range
<1>2. ASSUME NEW i \in Range(listed)
      PROVE  /\ IsSequence(ifs[i].table)
             /\ \A k \in DOMAIN ifs[i].table : IsSequence(ifs[i].table[k].dns)
  <2>1. CASE ifs[i].table = <<>>
    BY <2>1 DEF IsSequence
  <2>2. CASE GoodTable(ifs[i].table)
    <3>1. DOMAIN ifs[i].table = 1 .. Len(ifs[i].table)
      BY <2>2 DEF GoodTable, IsSequence
    <3> QED BY <2>2, <3>1 DEF GoodTable
  <2> QED BY <1>1, <2>1, <2>2 DEF IsUp
<1> QED BY <1>2 DEF TablesKnown, StartInv

\* A step that leaves the resolver alone, and of the tables keeps what it
\* does not empty.
LEMMA SeenKept ==
  ASSUME StartInv, SeenInv, UNCHANGED <<res, seen>>,
         \/ UNCHANGED <<ifs, listed>> /\ stage' \in {stage, "hung"}
         \/ UninitInterfaces
         \/ seen = {}
  PROVE  SeenInv'
<1>1. CASE UNCHANGED <<ifs, listed>> /\ stage' \in {stage, "hung"}
  BY <1>1 DEF SeenInv, ServersKept, SearchAgrees
<1>2. CASE seen = {}
  BY <1>2 DEF SeenInv, ServersKept, SearchAgrees
<1>3. CASE UninitInterfaces
  <2>1. /\ stage' = "exited" /\ listed' = listed
        /\ ifs' = [i \in Interface |->
                     IF i \in Range(listed) \ {"unix"} THEN Uninited(i) ELSE ifs[i]]
    BY <1>3 DEF UninitInterfaces
  <2>2. Range(listed) \subseteq Interface
    BY DEF StartInv, Range
  <2>3. \A i \in Range(listed) : Range(ifs'[i].table) \subseteq Range(ifs[i].table)
    <3> SUFFICES ASSUME NEW i \in Range(listed)
                 PROVE  Range(ifs'[i].table) \subseteq Range(ifs[i].table)
      OBVIOUS
    <3>1. ifs'[i] = ifs[i] \/ ifs'[i] = Down(0)
      BY <2>1, <2>2 DEF Uninited
    <3>2. Down(0).table = <<>>
      BY DEF Down
    <3>3. Range(<<>>) = {}
      BY DEF Range
    <3> QED BY <3>1, <3>2, <3>3
  <2>4. SearchAgrees'
    BY DEF SeenInv, SearchAgrees
  <2>5. ServersKept'
    BY <2>1, <2>3 DEF SeenInv, ServersKept
  <2> QED BY <2>1, <2>4, <2>5 DEF SeenInv
<1> QED BY <1>1, <1>2, <1>3

LEMMA ResolverSet ==
  ASSUME StartInv, SeenInv, res_init PROVE SeenInv'
<1> DEFINE lines == ConfLines(Located.file)
           opened == ResolvConf(Located.file) # None
<1>1. /\ stage = "ready" /\ UNCHANGED <<world, listed, ifs, regdos>>
      /\ \/ stage' = "hung" /\ UNCHANGED <<res, seen>>
         \/ ResInited(lines, opened) /\ stage' = stage
  BY DEF res_init, Called
<1>2. CASE stage' = "hung" /\ UNCHANGED <<res, seen>>
  BY <1>1, <1>2, SeenKept
<1>3. CASE ResInited(lines, opened) /\ stage' = stage
  <2>1. IsConfLines(lines)
    BY LocatedIs, ConfLinesIs DEF StartInv
  <2>2. TablesKnown
    BY <1>1, TablesUp
  <2>3. NamesGiven(env.localdomain)
    BY WorldsAssumption DEF StartInv
  <2> HIDE DEF lines, opened
  <2> DEFINE s == [lines |-> lines, local |-> env.localdomain]
  <2>4. seen' = {s}
    BY <1>3 DEF ResInited
  <2>5. res'.nsaddr = NameServers(lines)
    <3> DEFINE d == Domains(lines)
               def == IF d.def = <<>> /\ Len(HostName) > 1 THEN Tail(HostName) ELSE d.def
               srch == IF d.have THEN d.list ELSE <<def>>
               ns == NameServers(lines)
               nd == NDots(lines)
               so == IF opened THEN SortList(lines) ELSE res.sort
    <3>1. res' = [inited |-> TRUE, defdname |-> def, dnsrch |-> srch,
                  nsaddr |-> ns, ndots |-> nd, sort |-> so]
      BY <1>3, Zenon DEF ResInited
    <3> HIDE DEF ns, nd, so, def, srch
    <3>2. res'.nsaddr = ns
      BY <3>1
    <3> QED BY <3>2 DEF ns
  <2>6. Agrees(res', s)
    BY <1>3, <2>1, <2>3, SearchSet
  <2>7. s.lines = lines
    OBVIOUS
  <2> HIDE DEF s
  <2>8. SearchAgrees'
    BY <2>4, <2>6 DEF SearchAgrees, Agrees
  <2> DEFINE l == NameServers(lines)
  <2>9. /\ Len(l) \in 1 .. MAXNS
        /\ \A i \in Range(listed) : \A e \in Range(ifs[i].table) :
             \A k \in DOMAIN e.dns :
               (\A m \in 1 .. k : e.dns[m] # 0) =>
                 e.dns[k] \in Range(l) \/ Len(l) = MAXNS
        /\ (\E k \in DOMAIN lines : NamesServer(lines[k])) =>
             \E k \in DOMAIN lines :
               NamesServer(lines[k]) /\ l[1] = lines[k].addr
    BY <2>1, <2>2, NameServersAre, Zenon
  <2> HIDE DEF l
  <2>10. ServersKept'
    BY <1>1, <2>4, <2>5, <2>7, <2>9 DEF ServersKept, l
  <2> QED BY <1>1, <1>3, <2>8, <2>10 DEF SeenInv
<1> QED BY <1>1, <1>2, <1>3

LEMMA SeenStep ==
  ASSUME StartInv, SeenInv, [HostNext]_hostVars PROVE SeenInv'
<1>1. CASE InitInterface /\ UNCHANGED <<names, res, calls, told, reply, seen>>
  <2>1. stage \notin {"ready", "hung", "exited"}
    BY <1>1 DEF InitInterface, Interface
  <2> QED BY <1>1, <2>1, SeenKept DEF SeenInv
<1>2. CASE UninitInterfaces /\ UNCHANGED <<names, res, calls, told, reply, seen>>
  BY <1>2, SeenKept
<1>3. CASE res_init
  BY <1>3, ResolverSet
<1>4. CASE UNCHANGED <<res, seen, ifs, listed, stage>>
  BY <1>4, SeenKept
<1>5. gethostname \/ sethostname \/ uname \/ getdomainname \/ setdomainname
        \/ putenv \/ config_setfile \/ config_setdir
      => UNCHANGED <<res, seen, ifs, listed, stage>>
  BY DEF gethostname, sethostname, uname, getdomainname, setdomainname, putenv,
         config_setfile, config_setdir, Called
<1>6. CASE UNCHANGED hostVars
  BY <1>4, <1>6 DEF hostVars, startVars
<1> QED BY <1>1, <1>2, <1>3, <1>4, <1>5, <1>6 DEF HostNext

\* A step that takes up no file keeps the table of the VxD.
LEMMA FoundKeeps ==
  ASSUME FoundInv, stage # "exited", world' = world,
         config'.file = None => config.file = None,
         "csock" \in Range(listed') => "csock" \in Range(listed),
         ifs'["csock"] = ifs["csock"]
  PROVE  FoundInv'
BY DEF FoundInv

LEMMA FoundStart ==
  ASSUME StartInv, FoundInv, InitInterface PROVE FoundInv'
<1>1. PICK i \in Interface : stage = i
  BY DEF InitInterface
<1>2. config' = Located /\ world' = world
  BY DEF InitInterface
<1>3. config'.file = None => config.file = None
  BY <1>2 DEF Located
<1> DEFINE file == Located.file
           t == AddrTable(i, file)
<1>4. /\ stage' = After(i) \/ stage' = "crashed"
      /\ \/ listed' = listed /\ ifs' = ifs
         \/ listed' = listed /\ \E n : ifs' = [ifs EXCEPT ![i] = Down(n)]
         \/ listed' = Append(listed, i) /\ ifs' = [ifs EXCEPT ![i] = Up(i, t)]
  <2>1. \/ Initialised(i, file) \/ Failed(i, file) \/ NotUsable(i, file) \/ Crashed(i, file)
    BY <1>1 DEF InitInterface
  <2> QED BY <2>1 DEF Initialised, Failed, NotUsable, Crashed, Uninited
<1>5. i \notin Range(listed) /\ stage # "exited"
  BY <1>1, <1>4, TurnOf
<1>6. listed \in Seq(Interface) /\ ifs = [j \in Interface |-> ifs[j]] /\ "csock" \in Interface
  BY DEF StartInv, Interface
<1> HIDE DEF t
<1>7. CASE i # "csock"
  <2>1. "csock" \in Range(listed') => "csock" \in Range(listed)
    <3>1. Range(Append(listed, i)) = Range(listed) \cup {i}
      BY <1>6, RangeAppended
    <3> QED BY <1>4, <1>7, <3>1
  <2>2. ifs'["csock"] = ifs["csock"]
    BY <1>4, <1>6, <1>7
  <2> QED BY <1>2, <1>3, <1>5, <2>1, <2>2, FoundKeeps
<1>8. CASE i = "csock"
  <2>1. CASE listed' = listed
    BY <1>5, <1>8, <2>1 DEF FoundInv
  <2>2. CASE ifs' = [ifs EXCEPT ![i] = Up(i, t)]
    <3>1. ifs'["csock"].table = t
      BY <1>6, <1>8, <2>2 DEF Up
    <3>2. ASSUME file = None PROVE t = win9x_getaddrtable(world.reg)
      <4>1. Profile(file, i, "IPAddress", 0) = 0
        BY <3>2 DEF Profile
      <4>2. getconfig(i, file) = {}
        BY <4>1 DEF getconfig, Usable
      <4> QED BY <1>8, <4>2 DEF t, AddrTable, Detected
    <3> QED BY <1>2, <3>1, <3>2 DEF FoundInv
  <2> QED BY <1>4, <2>1, <2>2
<1> QED BY <1>7, <1>8

LEMMA FoundStep ==
  ASSUME StartInv, FoundInv, [HostNext]_hostVars PROVE FoundInv'
<1>1. CASE InitInterface
  BY <1>1, FoundStart
<1>2. CASE UninitInterfaces
  BY <1>2 DEF UninitInterfaces, FoundInv
<1>3. CASE UNCHANGED <<world, listed, ifs, config, stage>>
  BY <1>3 DEF FoundInv
<1>4. ASSUME Called, stage = "ready", config'.file = None => config.file = None PROVE FoundInv'
  BY <1>4, FoundKeeps DEF Called
<1>5. CASE gethostname \/ uname
  <2>1. Called /\ stage = "ready" /\ config' \in {config, Located}
    BY <1>5 DEF gethostname, uname, NameSought, Called
  <2> QED BY <1>4, <2>1 DEF Located
<1>6. CASE res_init
  <2>1. Called /\ stage = "ready" /\ config' = Located
    BY <1>6 DEF res_init, Called
  <2> QED BY <1>4, <2>1 DEF Located
<1>7. CASE sethostname \/ getdomainname \/ setdomainname \/ putenv
  <2>1. Called /\ stage = "ready" /\ config' = config
    BY <1>7 DEF sethostname, getdomainname, setdomainname, putenv, Called
  <2> QED BY <1>4, <2>1
<1>8. CASE config_setfile \/ config_setdir
  <2>1. Called /\ stage = "ready"
    BY <1>8 DEF config_setfile, config_setdir, Called
  <2>2. config = [dir |-> config.dir, file |-> config.file] /\ None \notin DOMAIN world.files
    BY WorldsAssumption DEF StartInv
  <2>3. config'.file = None => config.file = None
    BY <1>8, <2>2 DEF config_setfile, config_setdir
  <2> QED BY <1>4, <2>1, <2>3
<1>9. CASE UNCHANGED hostVars
  BY <1>3, <1>9 DEF hostVars, startVars
<1> QED BY <1>1, <1>2, <1>5, <1>6, <1>7, <1>8, <1>9 DEF HostNext

\* Without a configuration file, what is said of the registry is said of the
\* table.
LEMMA FoundAdapters ==
  ASSUME StartInv, FoundInv PROVE AdaptersFound
<1> SUFFICES ASSUME stage = "ready", "csock" \in Range(listed), config.file = None
             PROVE  AdaptersFound
  BY DEF AdaptersFound
<1> DEFINE l == ifs["csock"].table
           reg == world.reg
           trees == reg.trees
<1>1. l = win9x_getaddrtable(reg)
  BY DEF FoundInv
<1>2. TreesInOrder(reg)
  BY WorldIs DEF StartInv, IsRegistry
<1> HIDE DEF l, reg
<1>3. ASSUME NEW t \in DOMAIN trees, NEW d \in DOMAIN trees[t], NEW i \in DOMAIN trees[t][d],
             Fixed(trees[t][d][i])
      PROVE  Lists(l, trees[t], d, i)
  <2>1. Listing(l, trees[t], Len(trees[t]))
    BY <1>1, <1>2, RegistryLists
  <2>2. DOMAIN trees[t] = 1 .. Len(trees[t])
    BY <1>2 DEF TreesInOrder, IsSequence
  <2> QED BY <1>3, <2>1, <2>2 DEF Listing
<1>4. ASSUME \A t \in DOMAIN trees : \A d \in DOMAIN trees[t] :
               \A i \in DOMAIN trees[t][d] : trees[t][d][i].ip # Missing
      PROVE  \A p \in DOMAIN l :
               OfDhcp(l[p]) /\ l[p].addr # 0 =>
                 l[p].addr = reg.dhcp[LeasesTo(l, p)].ip
  <2>1. \A i \in Instances(reg) : i.ip # Missing
    BY <1>4 DEF Instances
  <2> QED BY <1>1, <1>2, <2>1, RegistryLeases
<1> QED BY <1>3, <1>4, Zenon DEF AdaptersFound, Fixed, l, reg

\* What a program is told of its host is in order, whatever the world it
\* runs in (src/src/initnt.c, src/src/hstnm.c, src/src/inet/r_init.c).
THEOREM HostInvHolds == HostSpec => []HostInv
<1>1. HostInit => HostInv
  <2>1. HostInit => SeenInv
    BY DEF HostInit, SeenInv, ServersKept, SearchAgrees
  <2>2. HostInit => FoundInv
    BY DEF HostInit, FoundInv, Range
  <2> QED BY <2>1, <2>2, StartInit, NamesStart DEF HostInv
<1>2. HostInv /\ [HostNext]_hostVars => HostInv'
  <2> SUFFICES ASSUME HostInv, [HostNext]_hostVars PROVE HostInv'
    OBVIOUS
  <2> QED BY StartStep, NamesStep, SeenStep, FoundStep DEF HostInv
<1> QED BY <1>1, <1>2, PTL DEF HostSpec

\* An interface that is listed is initialised, with all of its memory and a
\* table that fits, and after exit holds nothing; one that is not never holds
\* all it takes (src/src/initnt.c:192 and :293, src/src/wsock/w_initnt.c:200).
THEOREM InterfacesAlwaysUsable == HostSpec => []InterfacesUsable
<1>1. HostInv => InterfacesUsable
  BY StartUsable DEF HostInv
<1> QED BY <1>1, HostInvHolds, PTL

\* Once a host name was asked for or set, every call goes on answering with
\* that name and its parts (src/src/hstnm.c:89 and :160).
THEOREM HostNameAlwaysSticks == HostSpec => []HostNameSticks
<1>1. HostInv => HostNameSticks
  BY DEF HostInv, NamesInv
<1> QED BY <1>1, HostInvHolds, PTL

\* The resolver has a server, leaves out one of an adapter only when it is
\* full, and asks one of resolv.conf first (src/src/dnsaddr.c:179).
THEOREM ServersAlwaysKept == HostSpec => []ServersKept
<1>1. HostInv => ServersKept
  BY DEF HostInv, SeenInv
<1> QED BY <1>1, HostInvHolds, PTL

\* The search list is that of the environment, or else of the last line that
\* says something, and begins with the default domain
\* (src/src/inet/r_init.c:309, :387, :402 and :521).
THEOREM SearchAlwaysAgrees == HostSpec => []SearchAgrees
<1>1. HostInv => SearchAgrees
  BY DEF HostInv, SeenInv
<1> QED BY <1>1, HostInvHolds, PTL

\* Without a configuration file, every adapter with a static address is in
\* the table, unless the table is full, one before it in its tree could not be
\* read, or one before it in its device names no class or is not bound to
\* MSTCP; and a card with DHCP has the address of the key with its number
\* (src/src/win9x/w9x_addr.c:152, :213, :315 and :656).
THEOREM AdaptersAlwaysFound == HostSpec => []AdaptersFound
<1>1. HostInv => AdaptersFound
  BY FoundAdapters DEF HostInv
<1> QED BY <1>1, HostInvHolds, PTL
=============================================================================

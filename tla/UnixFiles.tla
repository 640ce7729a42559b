----------------------------- MODULE UnixFiles ------------------------------
(***************************************************************************)
(* The file descriptors of one process's Unix domain sockets               *)
(* (src/unix/u_*.c): every socket reads from one mailslot and writes to    *)
(* another, which its calls open and close, fail half way and lose.        *)
(*                                                                         *)
(* What other processes do, and whether LAN Manager obliges, is a choice.  *)
(* The descriptors of the sockets themselves are left to SocketLayer.      *)
(***************************************************************************)
EXTENDS Mailslot

CONSTANTS
    Sock,           \* the descriptors of __lsck_socket[] of Unix domain sockets
    MaxFiles        \* how many files of its own the program has open

VARIABLES
    ms,             \* the tables of Mailslot
    usock,          \* LSCK_SOCKET_UNIX of each socket, with the status bits
    files,          \* the files the program has opened and not closed
    left,           \* history: mailslot files a socket call left open
    exited

vars == <<ms, usock, files, left, exited>>

(***************************************************************************)
(* fd_r and fd_w, and the status bits that say which of them is in use.    *)
(* connect() may succeed without a fd_w, and leave fd_r set when it fails. *)
(***************************************************************************)
Socket ==
    [type : {"stream", "dgram"}, fd_r : Fd \cup {NoFd}, fd_w : Fd \cup {NoFd},
     bound : BOOLEAN, connected : BOOLEAN, listening : BOOLEAN,
     accepted : BOOLEAN]

ASSUME UnixFilesAssumption == NULL \notin Socket /\ IsFiniteSet(Sock)

\* Mutant: the interface data is zeroed and no more.
NewSocket_Zeroed(type) ==
    [type |-> type, fd_r |-> 0, fd_w |-> 0, bound |-> FALSE,
     connected |-> FALSE, listening |-> FALSE, accepted |-> FALSE]

NewSocket(type) ==
    [type |-> type, fd_r |-> NoFd, fd_w |-> NoFd, bound |-> FALSE,
     connected |-> FALSE, listening |-> FALSE, accepted |-> FALSE]

TypeOK ==
    /\ ms \in Tables
    /\ usock \in [Sock -> Socket \cup {NULL}]
    /\ files \subseteq Fd
    /\ left \subseteq Fd
    /\ exited \in BOOLEAN

-----------------------------------------------------------------------------
\* The end of a call on socket x that has opened and forgotten some files.
SetLeaving(x, u, m, forgotten) ==
    /\ usock' = [usock EXCEPT ![x] = u]
    /\ ms' = m
    /\ left' = (left \cap Mailslots(m)) \cup (forgotten \ {NoFd})
    /\ UNCHANGED <<files, exited>>

\* The end of a call that forgets none.
SetTo(x, u, m) == SetLeaving(x, u, m, {})

Is(x, type) == usock[x] # NULL /\ usock[x].type = type

\* The outcomes of __unix_bind() and bind() for a socket that is not bound.
Bound(m, u) ==
    {[m |-> o.m, u |-> [u EXCEPT !.fd_r = o.rv, !.bound = o.rv # NoFd]] :
        o \in OpenedRead(m)}

\* If the socket is bound already, connect() and sendto() leave it alone.
BoundHere(m, u) == IF u.bound THEN {[m |-> m, u |-> u]} ELSE Bound(m, u)

socket(x, type) ==
    /\ usock[x] = NULL
    /\ SetTo(x, NewSocket(type), ms)

bind(x) ==
    /\ usock[x] # NULL /\ ~usock[x].bound
    /\ \E b \in Bound(ms, usock[x]) : SetTo(x, b.u, b.m)

listen(x) ==
    /\ Is(x, "stream") /\ usock[x].bound
    /\ SetTo(x, [usock[x] EXCEPT !.listening = TRUE], ms)

(***************************************************************************)
(* connect(): a file for the server's control mailslot, which is never     *)
(* closed; a mailslot to read from, unless the socket is bound; then the   *)
(* server answers, or the exchange fails or is refused; then a file for    *)
(* what the server reads.  The last open() may fail unseen: the code tests *)
(* the wrong variable.  The path in the answer is looked at only then, and *)
(* a bad one leaves that file too.  __UNIX_UNBINDME closes fd_r but keeps  *)
(* its number.                                                             *)
(***************************************************************************)
ConnectUnopened(x, m, u) == SetTo(x, u, m)

\* connect() gives up, and unbinds the socket if it has bound it.
ConnectFailed(x, m, u, forgotten) ==
    IF usock[x].bound
    THEN SetLeaving(x, u, m, forgotten)
    ELSE SetLeaving(x, [u EXCEPT !.bound = FALSE], Closed(m, u.fd_r), forgotten)

ConnectUnanswered(x, b, fd) == ConnectFailed(x, b.m, b.u, {fd})

ConnectAnswered(x, b, fd) ==
    \E w \in OpenedWrite(b.m) :
        LET u == [b.u EXCEPT !.fd_w = w.rv]
        IN  \/ SetLeaving(x, [u EXCEPT !.connected = TRUE], w.m, {fd})
            \/ ConnectFailed(x, w.m, u, {fd, w.rv})

connect(x) ==
    /\ Is(x, "stream") /\ ~usock[x].connected /\ ~usock[x].listening
    /\ \E o \in OpenedWrite(ms) :
          IF o.rv = NoFd THEN ConnectUnopened(x, o.m, usock[x])
          ELSE \E b \in BoundHere(o.m, usock[x]) :
                  IF ~b.u.bound THEN SetLeaving(x, b.u, b.m, {o.rv})
                  ELSE ConnectUnanswered(x, b, o.rv) \/ ConnectAnswered(x, b, o.rv)

(***************************************************************************)
(* accept() on x makes the socket y.  When it fails, y and its interface   *)
(* data are freed, and the files opened so far are left.                   *)
(***************************************************************************)
accept(x, y) ==
    /\ Is(x, "stream") /\ usock[x].listening /\ ~usock[x].accepted
    /\ usock[y] = NULL
    /\ \E r \in OpenedRead(ms) :
          IF r.rv = NoFd THEN SetTo(y, NULL, r.m)
          ELSE \E w \in OpenedWrite(r.m) :
                  IF w.rv = NoFd THEN SetLeaving(y, NULL, w.m, {r.rv})
                  ELSE \/ SetLeaving(y, NULL, w.m, {r.rv, w.rv})
                       \/ SetTo(y, [NewSocket("stream") EXCEPT
                                           !.fd_r = r.rv, !.fd_w = w.rv,
                                           !.bound = TRUE, !.connected = TRUE,
                                           !.accepted = TRUE],
                                     w.m)

\* sendto() of datagrams; the file is left when a write fails.
sendto(x) ==
    /\ Is(x, "dgram")
    /\ \E b \in BoundHere(ms, usock[x]) :
          IF ~b.u.bound THEN SetTo(x, b.u, b.m)
          ELSE \E w \in OpenedWrite(b.m) :
                  \/ SetTo(x, b.u, Closed(w.m, w.rv))
                  \/ SetLeaving(x, b.u, w.m, {w.rv})

-----------------------------------------------------------------------------
\* Mutant: only the mailslot it reads from is closed.
Released_ReadOnly(m, u) == Closed(m, u.fd_r)

\* What close() does to the files of a socket.
Released(m, u) == Closed(Closed(m, u.fd_r), u.fd_w)

close(x) ==
    /\ usock[x] # NULL
    /\ SetTo(x, NULL, Released(ms, usock[x]))

(***************************************************************************)
(* socketpair(): both sockets are bound; streams get a file to write to    *)
(* each other with, the second of which may be missing, which is not       *)
(* noticed.  When a socket cannot be bound both are closed.                *)
(***************************************************************************)
Writers(m) ==
    UNION {IF v.rv = NoFd THEN {[m |-> v.m, v |-> NoFd, w |-> NoFd]}
           ELSE {[m |-> w.m, v |-> v.rv, w |-> w.rv] : w \in OpenedWrite(v.m)} :
           v \in OpenedWrite(m)}

Paired(x, y, u, v, m) ==
    /\ usock' = [usock EXCEPT ![x] = u, ![y] = v]
    /\ ms' = m
    /\ left' = left \cap Mailslots(m)
    /\ UNCHANGED <<files, exited>>

socketpair(x, y, type) ==
    /\ x # y /\ usock[x] = NULL /\ usock[y] = NULL
    /\ \E b \in Bound(ms, NewSocket(type)) :
          IF ~b.u.bound
          THEN Paired(x, y, NULL, NULL, Released(b.m, b.u))
          ELSE \E c \in Bound(b.m, NewSocket(type)) :
                  IF ~c.u.bound
                  THEN Paired(x, y, NULL, NULL, Released(Released(c.m, b.u), c.u))
                  ELSE IF type = "dgram" THEN Paired(x, y, b.u, c.u, c.m)
                  ELSE \E w \in Writers(c.m) :
                          Paired(x, y,
                                 [b.u EXCEPT !.fd_w = w.v, !.connected = TRUE],
                                 [c.u EXCEPT !.fd_w = w.w, !.connected = TRUE],
                                 w.m)

-----------------------------------------------------------------------------
\* The program opens and closes files of its own.
OpenFile ==
    /\ FreeFds(ms) # {}
    /\ Cardinality(files) < MaxFiles
    /\ ms' = [ms EXCEPT !.file[AllocFd(ms)] = FILE]
    /\ files' = files \cup {AllocFd(ms)}
    /\ UNCHANGED <<usock, left, exited>>

CloseFile(fd) ==
    /\ fd \in files
    /\ ms.file[fd] = FILE
    /\ ms' = Closed(ms, fd)
    /\ files' = files \ {fd}
    /\ UNCHANGED <<usock, left, exited>>

\* Mutant: the mailslots are given up with their entries still open.
Exited_HandlerStays(m) == Uninited(m)

\* The exit handlers, the last that was registered first.
Exited(m) == Uninited(Uninstalled(m))

(***************************************************************************)
(* exit(): __lsck_uninit() closes the sockets in the order of its table,   *)
(* then the mailslots go.                                                  *)
(***************************************************************************)
ReleasedAll(m, order) ==
    LET released[n \in 0 .. Cardinality(Sock)] ==
            IF n = 0 THEN m
            ELSE LET u == usock[order[n]]
                 IN IF u = NULL THEN released[n - 1]
                    ELSE Released(released[n - 1], u)
    IN released[Cardinality(Sock)]

TableOrders ==
    {f \in [1 .. Cardinality(Sock) -> Sock] :
        \A i, j \in 1 .. Cardinality(Sock) : f[i] = f[j] => i = j}

exit ==
    /\ usock' = [x \in Sock |-> NULL]
    /\ \E order \in TableOrders : ms' = Exited(ReleasedAll(ms, order))
    /\ exited' = TRUE
    /\ left' = {}
    /\ files' = {}

Init ==
    /\ ms = NoMailslots
    /\ usock = [x \in Sock |-> NULL]
    /\ files = {}
    /\ left = {}
    /\ exited = FALSE

Call ==
    \/ \E x \in Sock, type \in {"stream", "dgram"} : socket(x, type)
    \/ \E x \in Sock : bind(x) \/ listen(x) \/ connect(x) \/ sendto(x) \/ close(x)
    \/ \E x, y \in Sock : accept(x, y)
    \/ \E x, y \in Sock, type \in {"stream", "dgram"} : socketpair(x, y, type)
    \/ OpenFile
    \/ \E fd \in Fd : CloseFile(fd)
    \/ exit

Next == ~exited /\ Call

Spec == Init /\ [][Next]_vars

-----------------------------------------------------------------------------
(***************************************************************************)
(* The four tables agree whatever failed before.  Closing a file finds its *)
(* entry and its control block only then.                                  *)
(***************************************************************************)
TablesAgree == ~exited => Agree(ms)

(***************************************************************************)
(* Every open mailslot file is in use by a socket, or was left by a call   *)
(* known to leave it: connect(), an accept() or a sendto() that failed.    *)
(* Socket pairs that fail, failed binds and close() leave nothing.         *)
(***************************************************************************)
InUse(u) ==
    IF u = NULL THEN {}
    ELSE {f \in {u.fd_r} : u.bound} \cup {f \in {u.fd_w} : u.connected}

FilesAccounted ==
    ~exited =>
        Mailslots(ms) \subseteq left \cup UNION {InUse(usock[x]) : x \in Sock}

(***************************************************************************)
(* exit() destroys every mailslot of the process but those that an open()  *)
(* made and failed to keep.                                                *)
(***************************************************************************)
ExitDestroys == exited => Mailslots(ms) = {} /\ ms.lan \subseteq ms.lost

=============================================================================

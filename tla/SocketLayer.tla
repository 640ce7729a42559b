----------------------------- MODULE SocketLayer -----------------------------
(***************************************************************************)
(* The socket layer of libsocket (src/*.c): the table of socket            *)
(* descriptors, their memory, the DJGPP file descriptors whose File System *)
(* Extension (FSEXT) handler is __lsck_socket_fsext(), and every call that *)
(* creates, changes or destroys a socket.                                  *)
(*                                                                         *)
(* A program is one DOS process without threads, so a call is one step.    *)
(* Calls come in any order on any descriptor; the interface below may      *)
(* succeed or fail at each of them.                                        *)
(***************************************************************************)
EXTENDS LsckSocket, Naturals, FiniteSets

CONSTANTS
    Lsd,            \* addresses malloc() can return for socket descriptors
    NumSocket,      \* __LSCK_NUM_SOCKET
    Available,      \* interfaces that __lsck_init() found
    OutOfMemory     \* may malloc() fail?

ASSUME LayerAssumption ==
    /\ NULL \notin Lsd
    /\ NumSocket \in Nat \ {0}
    /\ Available \subseteq Iface
    /\ OutOfMemory \in BOOLEAN

Slot == 0 .. NumSocket - 1

VARIABLES
    handler,    \* file descriptors handled by __lsck_socket_fsext()
    data,       \* __FSEXT_get_data(): the lsd of a file descriptor
    table,      \* __lsck_socket[]
    heap,       \* the socket descriptors that are allocated
    sk,         \* the contents of each socket descriptor
    idheap,     \* the blocks of interface data that are allocated
    ret,        \* what the last socket() or accept() returned
    pair,       \* the socketpair() call in progress, if any
    running     \* FALSE once __lsck_uninit() has run at exit

vars == <<handler, data, table, heap, sk, idheap, ret, pair, running>>

\* 0 stands for a new descriptor, EIFACE for an error of the interface and "-"
\* for any other call.
Ret == {"0", "EMFILE", "ENFILE", "ENOBUFS", "EPROTONOSUPPORT", "EINVAL",
        "EOPNOTSUPP", "EFAULT", "EIFACE", "-"}

Family == {"inet", "unix"}

\* Where socketpair() is, and the descriptors it has opened.
Pair == [at : {"idle", "second", "join", "undo"},
         family : Family, type : SocketType, fds : SUBSET Fd]

NoPair == [at |-> "idle", family |-> "unix", type |-> "stream", fds |-> {}]

Init ==
    /\ handler = {}
    /\ data = [f \in Fd |-> NULL]
    /\ table = [i \in Slot |-> NULL]
    /\ heap = {}
    /\ sk = [l \in Lsd |-> Zeroed]
    /\ idheap = {}
    /\ ret = "-"
    /\ pair = NoPair
    /\ running = TRUE

-----------------------------------------------------------------------------
(***************************************************************************)
(* Allocation.                                                             *)
(***************************************************************************)

\* Mutant: the scan gives up one slot early.
FirstFree_SkipsLast(i) ==
    /\ i # NumSocket - 1
    /\ table[i] = NULL /\ \A j \in 0 .. i - 1 : table[j] # NULL

\* The scan of __lsck_socket[] that socket() and accept() share.
FirstFree(i) == table[i] = NULL /\ \A j \in 0 .. i - 1 : table[j] # NULL

\* __FSEXT_alloc_fd() (external): any descriptor that is not in use.
FreeFd == Fd \ handler

\* No file descriptor, or no slot of the table.
Exhausted == FreeFd = {} \/ ~\E i \in Slot : FirstFree(i)

\* The first interface, in the order of if_init_table, whose proto_check()
\* accepts the family.
Offers(family) ==
    Available \cap IF family = "unix" THEN {"unix"} ELSE {"wsock", "csock"}
Picks(family) ==
    {n \in Offers(family) : n = "csock" => "wsock" \notin Available}

\* Mutant: the interface data is stored as the descriptor of the file.
Install_IdataAsData(l, s) ==
    /\ handler' = handler \cup {s.fd}
    /\ data' = [data EXCEPT ![s.fd] = s.idata]
    /\ \E i \in Slot : FirstFree(i) /\ table' = [table EXCEPT ![i] = l]
    /\ heap' = heap \cup {l}

\* l, with contents s, becomes the socket of file descriptor s.fd in the first
\* free slot of the table.
Install(l, s) ==
    /\ handler' = handler \cup {s.fd}
    /\ data' = [data EXCEPT ![s.fd] = l]
    /\ \E i \in Slot : FirstFree(i) /\ table' = [table EXCEPT ![i] = l]
    /\ heap' = heap \cup {l}

NoNewSocket == UNCHANGED <<handler, data, table, heap>>

-----------------------------------------------------------------------------
(***************************************************************************)
(* __socketx(), for socket() and socketpair(): creation on file descriptor *)
(* f, and its failures.                                                    *)
(***************************************************************************)

Create(f, family, type) ==
    /\ f \in FreeFd
    /\ \E n \in Picks(family), l \in Lsd \ heap, d \in Idata \ idheap :
          LET s == NewSocket(f, type, n, d)
          IN  /\ Install(l, s)
              /\ sk' = [sk EXCEPT ![l] = s]
              /\ idheap' = idheap \cup {d}

CreateError(family, e) ==
    \/ Exhausted /\ e = "EMFILE"
    \/ ~Exhausted /\ OutOfMemory /\ e = "ENOBUFS"
    \/ ~Exhausted /\ Picks(family) = {} /\ e = "EPROTONOSUPPORT"

\* When interface->socket() fails, __SOCKET_CLEANUP frees the descriptor but
\* not the interface data, if the VxD interface got as far as allocating it.
CreateRefused(family) ==
    /\ ~Exhausted
    /\ \/ Picks(family) # {} /\ OutOfMemory /\ UNCHANGED idheap
       \/ /\ Picks(family) \cap {"wsock", "csock"} # {}
          /\ \E d \in Idata \ idheap : idheap' = idheap \cup {d}

CreateFails(family, e) ==
    /\ \/ CreateError(family, e) /\ UNCHANGED idheap
       \/ CreateRefused(family) /\ e = "EIFACE"
    /\ NoNewSocket
    /\ UNCHANGED sk

Socket(family, type) ==
    /\ \E f \in Fd : Create(f, family, type)
    /\ ret' = "0"
    /\ UNCHANGED <<pair, running>>

SocketFails(family) ==
    /\ \E e \in Ret : CreateFails(family, e) /\ ret' = e
    /\ UNCHANGED <<pair, running>>

-----------------------------------------------------------------------------
(***************************************************************************)
(* Calls on an open socket f.  Every one of them starts with __fd_to_lsd() *)
(* and the check for a completed non-blocking connect.                     *)
(***************************************************************************)

\* The descriptor of f as the call finds it after the check.
Checked(f) == nonblocking_check(sk[data[f]])

\* A call that leaves t in f's descriptor and changes nothing else.
Returns(f, t) ==
    /\ sk' = [sk EXCEPT ![data[f]] = t]
    /\ ret' = "-"
    /\ NoNewSocket
    /\ UNCHANGED <<idheap, pair, running>>

Bind(f) == \E s \in Checked(f) : \E t \in bind(s) : Returns(f, t)
Connect(f) == \E s \in Checked(f) : \E t \in connect(s) : Returns(f, t)
Listen(f) == \E s \in Checked(f) : \E t \in listen(s) : Returns(f, t)
Sendto(f) == \E s \in Checked(f) : \E t \in sendto(s) : Returns(f, t)
Recvfrom(f) == \E s \in Checked(f) : \E t \in recvfrom(s) : Returns(f, t)

Shutdown(f) ==
    \E s \in Checked(f), how \in {SHUT_RD, SHUT_WR, SHUT_RDWR} :
        \E t \in shutdown(s, how) : Returns(f, t)

\* ioctl(FIONBIO) and fcntl(F_SETFL).
SetMode(f) ==
    \E s \in Checked(f), nonblocking \in BOOLEAN :
        \E t \in iface_fionbio(s, nonblocking) : Returns(f, t)

\* recv(), getsockname(), getpeername(), selectsocket(), getsockopt(),
\* setsockopt() and the other ioctl()s and fcntl()s do no more than the check.
Query(f) == \E s \in Checked(f) : Returns(f, s)

-----------------------------------------------------------------------------
(***************************************************************************)
(* accept().                                                               *)
(***************************************************************************)

AcceptError(s, e) ==
    \/ s.type # "stream" /\ e = "EOPNOTSUPP"
    \/ s.type = "stream" /\ ~accept_allowed(s) /\ e = "EINVAL"
    \/ accept_allowed(s) /\ e = "EFAULT"              \* addr is NULL
    \/ accept_allowed(s) /\ Exhausted /\ e = "ENFILE"
    \/ accept_allowed(s) /\ ~Exhausted /\ OutOfMemory /\ e = "ENOBUFS"

AcceptFails(f) ==
    /\ \E s \in Checked(f) :
          /\ \E e \in Ret : AcceptError(s, e) /\ ret' = e
          /\ sk' = [sk EXCEPT ![data[f]] = s]
    /\ NoNewSocket
    /\ UNCHANGED <<idheap, pair, running>>

\* Mutant: the clean up frees the idata copied from the listening socket.
FreedByFailedAccept_Copied(s, d) == {s.idata}

(***************************************************************************)
(* The interface refuses.  It has already replaced the copied idata by a   *)
(* block d of its own (or by NULL, when malloc() failed), so that the      *)
(* free() of the clean up does not reach the data of the listening socket. *)
(***************************************************************************)
FreedByFailedAccept(s, d) == {d}

AcceptRefused(f) ==
    /\ ~Exhausted
    /\ \E s \in Checked(f) :
          /\ accept_allowed(s)
          /\ \/ /\ OutOfMemory
                /\ idheap' = idheap \ FreedByFailedAccept(s, NULL)
             \/ \E d \in Idata \ idheap :
                   idheap' = (idheap \cup {d}) \ FreedByFailedAccept(s, d)
          /\ \E t \in iface_accept_listener(s) :
                sk' = [sk EXCEPT ![data[f]] = t]
    /\ ret' = "EIFACE"
    /\ NoNewSocket
    /\ UNCHANGED <<pair, running>>

\* The interface data of a new connection.  csock tests the wrong pointer
\* after its malloc() and may carry on with NULL.
AcceptIdata(s) ==
    (Idata \ idheap)
        \cup IF OutOfMemory /\ s.iface = "csock" THEN {NULL} ELSE {}

Accept(f) ==
    /\ \E s \in Checked(f) :
          /\ accept_allowed(s)
          /\ \E newfd \in FreeFd, l \in Lsd \ heap, d \in AcceptIdata(s),
                t \in iface_accept_listener(s) :
                LET nsd == AcceptedSocket(s, newfd, d)
                IN  /\ Install(l, nsd)
                    /\ sk' = [sk EXCEPT ![data[f]] = t, ![l] = nsd]
                    /\ idheap' = idheap \cup ({d} \cap Idata)
    /\ ret' = "0"
    /\ UNCHANGED <<pair, running>>

-----------------------------------------------------------------------------
(***************************************************************************)
(* close() and closesocket().                                              *)
(***************************************************************************)

\* Mutant: closesocket() forgets the table.
Unlist_Forgets(l) == table

\* The table after closesocket() has removed l.
Unlist(l) == [i \in Slot |-> IF table[i] = l THEN NULL ELSE table[i]]

\* closesocket(), once the interface has closed the socket.
Release(l) ==
    /\ idheap' = idheap \ {sk[l].idata}
    /\ table' = Unlist(l)
    /\ heap' = heap \ {l}
    /\ sk' = [sk EXCEPT ![l] = Zeroed]

\* The FSEXT handler's part of close(): closesocket(), then the file
\* descriptor is given back.
CloseFd(f) ==
    /\ Release(data[f])
    /\ handler' = handler \ {f}
    /\ data' = [data EXCEPT ![f] = NULL]

Close(f) ==
    /\ CloseFd(f)
    /\ ret' = "-"
    /\ UNCHANGED <<pair, running>>

\* WSOCK.VXD or SOCK.VXD fails to close: the socket stays.
CloseFails(f) == \E s \in Checked(f) : s.iface # "unix" /\ Returns(f, s)

-----------------------------------------------------------------------------
(***************************************************************************)
(* socketpair() calls __socketx() twice, then the interface's socketpair() *)
(* and, when any of these fails, close() on what it opened.  It is the     *)
(* only call of the layer made of several others, so its steps are the     *)
(* steps of those; no other call is made meanwhile.                        *)
(***************************************************************************)

\* No interface that accepts the protocol: EOPNOTSUPP, and nothing happens.
SocketpairFirst(family, type) ==
    /\ Picks(family) # {}
    /\ \/ \E f \in Fd :
             /\ Create(f, family, type)
             /\ pair' = [at |-> "second", family |-> family, type |-> type,
                         fds |-> {f}]
       \/ \E e \in Ret :
             /\ CreateFails(family, e)
             /\ pair' = [at |-> "second", family |-> family, type |-> type,
                         fds |-> {}]
    /\ ret' = "-"
    /\ UNCHANGED running

SocketpairSecond ==
    /\ pair.at = "second"
    /\ \/ \E f \in Fd :
             /\ Create(f, pair.family, pair.type)
             /\ pair' = [pair EXCEPT !.at = IF pair.fds = {} THEN "undo" ELSE "join",
                                     !.fds = @ \cup {f}]
       \/ \E e \in Ret :
             /\ CreateFails(pair.family, e)
             /\ pair' = [pair EXCEPT !.at = "undo"]
    /\ UNCHANGED <<ret, running>>

\* Only the unix interface can connect a pair.
SocketpairJoin ==
    /\ pair.at = "join"
    /\ pair.family = "unix"
    /\ sk' = [l \in Lsd |-> IF l \in {data[f] : f \in pair.fds}
                            THEN PairedSocket(sk[l]) ELSE sk[l]]
    /\ pair' = NoPair
    /\ NoNewSocket
    /\ UNCHANGED <<idheap, ret, running>>

SocketpairJoinFails ==
    /\ pair.at = "join"
    /\ pair' = [pair EXCEPT !.at = "undo"]
    /\ NoNewSocket
    /\ UNCHANGED <<sk, idheap, ret, running>>

\* A close() that the VxD refuses leaves a socket nobody knows.
SocketpairUndo ==
    /\ pair.at = "undo"
    /\ \/ \E f \in pair.fds :
             /\ \/ CloseFd(f)
                \/ /\ sk[data[f]].iface # "unix"
                   /\ NoNewSocket
                   /\ UNCHANGED <<sk, idheap>>
             /\ pair' = [pair EXCEPT !.fds = @ \ {f}]
       \/ /\ pair.fds = {}
          /\ pair' = NoPair
          /\ NoNewSocket
          /\ UNCHANGED <<sk, idheap>>
    /\ UNCHANGED <<ret, running>>

-----------------------------------------------------------------------------
(***************************************************************************)
(* __lsck_uninit(), registered with atexit(): close every socket in the    *)
(* table, then free its descriptor whether or not the close succeeded.     *)
(***************************************************************************)
Uninit ==
    /\ \E stuck \in SUBSET {l \in heap : sk[l].iface # "unix"} :
          /\ table' = [i \in Slot |->
                          IF table[i] \in stuck THEN table[i] ELSE NULL]
          /\ handler' = {f \in handler : data[f] \in stuck}
          /\ data' = [f \in Fd |-> IF data[f] \in stuck THEN data[f] ELSE NULL]
          /\ idheap' = idheap \ {sk[l].idata : l \in heap \ stuck}
    /\ heap' = {}
    /\ sk' = [l \in Lsd |-> Zeroed]
    /\ running' = FALSE
    /\ ret' = "-"
    /\ UNCHANGED pair

-----------------------------------------------------------------------------
CreateStep ==
    \E family \in Family, type \in SocketType :
        \/ Socket(family, type)
        \/ SocketFails(family)
        \/ SocketpairFirst(family, type)

CallStep(f) ==
    \/ Bind(f)
    \/ Connect(f)
    \/ Listen(f)
    \/ Shutdown(f)
    \/ SetMode(f)
    \/ Sendto(f)
    \/ Recvfrom(f)
    \/ Query(f)
    \/ CloseFails(f)

AcceptStep(f) == Accept(f) \/ AcceptFails(f) \/ AcceptRefused(f)

PairStep ==
    \/ SocketpairSecond
    \/ SocketpairJoin
    \/ SocketpairJoinFails
    \/ SocketpairUndo

\* The program makes its next call.
Idle == running /\ pair.at = "idle"

Next ==
    \/ Idle /\ CreateStep
    \/ Idle /\ \E f \in handler : CallStep(f) \/ AcceptStep(f) \/ Close(f)
    \/ Idle /\ Uninit
    \/ PairStep

Spec == Init /\ [][Next]_vars

-----------------------------------------------------------------------------
(***************************************************************************)
(* Properties.                                                             *)
(***************************************************************************)

\* Type invariant of the socket layer's variables.
TypeOK ==
    /\ handler \subseteq Fd
    /\ data \in [Fd -> Lsd \cup {NULL}]
    /\ table \in [Slot -> Lsd \cup {NULL}]
    /\ heap \subseteq Lsd
    /\ sk \in [Lsd -> LSCK_SOCKET]
    /\ idheap \subseteq Idata
    /\ ret \in Ret
    /\ pair \in Pair
    /\ running \in BOOLEAN

\* A file descriptor handled by the socket layer leads to an allocated
\* descriptor that names it, and no other file descriptor leads anywhere:
\* what __fd_is_socket() and __fd_to_lsd() rely on in every call.
FdOwned ==
    \A f \in Fd :
        IF f \in handler
        THEN data[f] \in heap /\ sk[data[f]].fd = f
        ELSE data[f] = NULL

\* Every allocated descriptor can be reached from its file descriptor.
LsdOwned == \A l \in heap : sk[l].fd \in handler /\ data[sk[l].fd] = l

\* __lsck_socket[] lists every allocated descriptor exactly once and nothing
\* else, so that closesocket() finds what it frees and uninit misses nothing.
TableExact ==
    /\ \A i \in Slot : table[i] # NULL => table[i] \in heap
    /\ \A i, j \in Slot : table[i] = table[j] /\ table[i] # NULL => i = j
    /\ \A l \in heap : \E i \in Slot : table[i] = l

\* While the program runs, file descriptors, table and memory agree whatever
\* sequence of socket(), accept(), socketpair() and close() calls, complete or
\* failed half way, came before: no leak and no dangling pointer.
DescriptorOwnership == running => FdOwned /\ LsdOwned /\ TableExact

\* Two sockets never share interface data, and the interface data of an open
\* socket is allocated: accept() starts from a copy of the listening socket,
\* and its clean up must not free the listening socket's data.
IdataOwnership ==
    \A l \in heap :
        /\ sk[l].idata \in idheap
        /\ \A m \in heap \ {l} : sk[m].idata # sk[l].idata

\* The status bits of every open socket are coherent in any order of calls:
\* only bound streams listen, an accepted socket is bound and connected, a
\* datagram socket never acquires stream state, only a connected socket has
\* been shut down, only wsock has connects in progress.
StateCoherent == \A l \in heap : Coherent(sk[l])

\* socket() and accept() report EMFILE or ENFILE only when the process really
\* is out of file descriptors or every slot of __lsck_socket[] holds an open
\* socket: the last slot is usable and none is lost.
ExhaustionIsReal ==
    ret \in {"EMFILE", "ENFILE"} =>
        handler = Fd \/ Cardinality(heap) = NumSocket

\* A connected socket stays connected until it is closed: no call, and no late
\* answer to an earlier connect, takes the connection away.
StaysConnected ==
    \A l \in heap \cap heap' :
        Has(sk[l], "connected") => Has(sk'[l], "connected")
ConnectedStable == [][StaysConnected]_vars

=============================================================================

----------------------------- MODULE LsckSocket -----------------------------
(***************************************************************************)
(* One libsocket socket descriptor (LSCK_SOCKET, include/lsck/if.h) and    *)
(* what each call of the socket layer (src/*.c) does to it.                *)
(*                                                                         *)
(* The status bits of the C structure are the set "flags".  Two more       *)
(* members stand for the stored addresses: "sockname" for socknamelen > 0  *)
(* and "peername" for peernamelen > 0.  Addresses themselves, message      *)
(* bytes and the backlog are abstracted away.                              *)
(*                                                                         *)
(* A call is an operator from the descriptor to the set of descriptors it  *)
(* can leave behind: one member for every early return and for every       *)
(* answer of the network interface (WSOCK.VXD, SOCK.VXD or the mailslots), *)
(* which is external and may always refuse.                                *)
(***************************************************************************)
CONSTANTS
    Fd,         \* file descriptors DJGPP can hand out
    Idata,      \* addresses malloc() can return for interface data
    NULL        \* the null pointer

ASSUME NULLAssumption == NULL \notin Fd /\ NULL \notin Idata

Iface == {"wsock", "csock", "unix"}

SocketType == {"stream", "dgram"}

Flag == {"bound", "accepted", "connected", "connecting", "blocking",
         "outbound", "inbound", "listening", "sockname", "peername"}

LSCK_SOCKET == [fd    : Fd \cup {NULL},
                type  : SocketType,
                iface : Iface,
                idata : Idata \cup {NULL},
                flags : SUBSET Flag]

Has(s, f) == f \in s.flags
Set(s, F) == [s EXCEPT !.flags = @ \cup F]
Clear(s, F) == [s EXCEPT !.flags = @ \ F]

\* Memory that no socket uses.
Zeroed == [fd |-> NULL, type |-> "stream", iface |-> "unix", idata |-> NULL,
           flags |-> {}]

\* What __socketx() stores before it calls the interface.
NewSocket(fd, type, iface, idata) ==
    [fd |-> fd, type |-> type, iface |-> iface, idata |-> idata,
     flags |-> {"blocking", "inbound", "outbound"}]

-----------------------------------------------------------------------------
(***************************************************************************)
(* Interface helpers.                                                      *)
(***************************************************************************)

(***************************************************************************)
(* The check that starts every call: a pending non-blocking connect is     *)
(* complete once the interface reports the socket writable.                *)
(***************************************************************************)
nonblocking_check(s) ==
    {s} \cup IF /\ s.iface # "unix"
                /\ Has(s, "connecting")
                /\ ~Has(s, "connected")
             THEN {Set(Clear(s, {"connecting"}), {"connected"})}
             ELSE {}

\* FIONBIO: the VxD may refuse; the mailslot interface never records the mode.
iface_fionbio(s, nonblocking) ==
    {s} \cup IF s.iface = "unix" THEN {}
             ELSE IF nonblocking THEN {Clear(s, {"blocking"})}
             ELSE {Set(s, {"blocking"})}

\* A temporary switch of mode around a VxD call.  Switching back may fail, and
\* then the descriptor stays in the temporary mode.
flip_mode(s) ==
    {s, IF Has(s, "blocking") THEN Clear(s, {"blocking"})
                              ELSE Set(s, {"blocking"})}

\* The answers of interface->connect(), with the descriptor it leaves.
iface_connect(s) ==
    CASE s.iface = "wsock" /\ Has(s, "blocking") ->
             {"ok", "failed"} \X flip_mode(s)
      [] s.iface = "wsock" /\ ~Has(s, "blocking") ->
             {"ok", "failed", "wouldblock"} \X {s}
      [] s.iface = "csock" ->
             (IF Has(s, "blocking") THEN {"ok", "failed"} ELSE {"failed"})
                 \X {s}
      [] s.iface = "unix" ->
             \* An unbound socket binds itself to a random local name, and is
             \* unbound again by every later failure.
             {<<"failed", s>>, <<"ok", Set(s, {"bound", "sockname"})>>}

-----------------------------------------------------------------------------
(***************************************************************************)
(* The calls of the socket layer.                                          *)
(***************************************************************************)

bind(s) ==
    IF Has(s, "bound")
    THEN {s}
    ELSE {s,                                      \* bad address
          Set(s, {"bound", "sockname"}),          \* interface bound it
          Clear(s, {"bound", "sockname"})}        \* interface refused

\* Mutant: a connected stream socket may connect again.
connect_refused_Reconnects(s) ==
    \/ ~Has(s, "blocking") /\ Has(s, "connecting")
    \/ Has(s, "listening")

connect_refused(s) ==
    \/ ~Has(s, "blocking") /\ Has(s, "connecting")         \* EALREADY
    \/ Has(s, "connected") /\ s.type = "stream"            \* EISCONN
    \/ Has(s, "listening")                                 \* EOPNOTSUPP

\* How connect() records the interface's answer.
connect_result(answer, s) ==
    CASE answer = "ok" ->
             Clear(Set(s, {"connected", "sockname", "peername"}),
                   {"connecting"})
      [] answer = "wouldblock" ->
             Clear(Set(s, {"connecting", "peername"}), {"connected"})
      [] answer = "failed" ->
             Clear(s, {"connected", "sockname", "peername"})

connect(s) ==
    IF connect_refused(s)
    THEN {s}
    ELSE IF s.type = "dgram"
    THEN {s, Set(s, {"peername"}), Clear(s, {"peername"})}
    ELSE {s} \cup {connect_result(a[1], a[2]) : a \in iface_connect(s)}

\* Mutant: an unbound socket may listen.
listen_Unbound(s) ==
    {s} \cup IF s.type = "stream" THEN {Set(s, {"listening"})} ELSE {}

listen(s) ==
    {s} \cup IF s.type = "stream" /\ Has(s, "bound")
             THEN {Set(s, {"listening"})}
             ELSE {}

SHUT_RD   == {"inbound"}
SHUT_WR   == {"outbound"}
SHUT_RDWR == {"inbound", "outbound"}

\* "how" is the set of directions to shut.
shutdown(s, how) ==
    {s} \cup IF Has(s, "connected") THEN {Clear(s, how)} ELSE {}

\* send(), sendto(): an unbound datagram socket of the csock and
\* unix interfaces is bound on the way.
sendto(s) ==
    {s} \cup IF /\ Has(s, "outbound")
                /\ s.type = "dgram"
                /\ ~Has(s, "bound")
                /\ s.iface \in {"csock", "unix"}
             THEN {Set(s, {"bound", "sockname"}),
                   Clear(s, {"bound", "sockname"})}
             ELSE {}

\* recvfrom(): SOCK.VXD version 0 is called with the mode inverted.
recvfrom(s) ==
    IF Has(s, "inbound") /\ s.iface = "csock" THEN flip_mode(s) ELSE {s}

-----------------------------------------------------------------------------
(***************************************************************************)
(* accept(): who may call it, and the descriptor of the new connection, a  *)
(* copy of the listening one with its own file descriptor and interface    *)
(* data.                                                                   *)
(***************************************************************************)
accept_allowed(s) ==
    /\ s.type = "stream"
    /\ ~Has(s, "accepted")
    /\ Has(s, "bound")
    /\ Has(s, "listening")

AcceptedSocket(s, fd, idata) ==
    [Clear(Set(s, {"accepted", "connected", "peername"}), {"listening"})
        EXCEPT !.fd = fd, !.idata = idata]

\* What interface->accept() does to the listening descriptor itself.
iface_accept_listener(s) ==
    IF s.iface = "csock" /\ Has(s, "blocking") THEN flip_mode(s) ELSE {s}

\* socketpair(): both ends are bound and named, stream ends are connected.
PairedSocket(s) ==
    Set(s, {"bound", "sockname", "peername"}
             \cup IF s.type = "stream" THEN {"connected"} ELSE {})

-----------------------------------------------------------------------------
(***************************************************************************)
(* What the status bits of one descriptor mean together.                   *)
(***************************************************************************)
ListenCoherent(s) ==
    /\ Has(s, "listening") => Has(s, "bound") /\ s.type = "stream"
    /\ Has(s, "accepted") => Has(s, "bound") /\ Has(s, "connected")
ConnectCoherent(s) ==
    /\ s.type = "dgram" =>
          s.flags \cap {"connected", "connecting", "listening", "accepted"} = {}
    /\ s.type = "stream" /\ Has(s, "peername") =>
          Has(s, "connected") \/ Has(s, "connecting")
    /\ Has(s, "sockname") => Has(s, "bound") \/ Has(s, "connected")
    /\ s.iface = "unix" /\ Has(s, "connected") => Has(s, "bound")
ShutCoherent(s) ==
    ~Has(s, "inbound") \/ ~Has(s, "outbound") => Has(s, "connected")
ModeCoherent(s) ==
    /\ Has(s, "connecting") => s.iface = "wsock"
    /\ s.iface = "unix" => Has(s, "blocking")

Coherent(s) ==
    /\ ListenCoherent(s)
    /\ ConnectCoherent(s)
    /\ ShutCoherent(s)
    /\ ModeCoherent(s)

=============================================================================

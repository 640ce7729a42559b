------------------------------- MODULE Remote -------------------------------
(***************************************************************************)
(* rcmd(), rresvport() and ruserok() (src/inet/rcmd.c), rexec() (rexec.c)  *)
(* and bindresvport() (bresvpt.c): commands on remote hosts.               *)
(*                                                                         *)
(* Each step of rcmd() and rexec() is one call on a socket, whose outcome  *)
(* is up to the network and the other programs; a behaviour has one call   *)
(* of these two at most.  ruserok() and bindresvport() are one step, and   *)
(* may be called again and again.                                          *)
(***************************************************************************)
EXTENDS NetLogin, Integers, FiniteSets

CONSTANTS
    NumPorts,           \* ports there are: 2^16
    IPPORT_RESERVED,
    STARTPORT,          \* the first port bindresvport() tries
    MaxAddr,            \* addresses of a host
    Hosts, Netrcs, Envs, Users,         \* for ruserpass()
    Files, Rhosts, Locals, Domains      \* for ruserok()

ASSUME PortsAssumption ==
    /\ NumPorts \in Nat /\ IPPORT_RESERVED \in Nat /\ STARTPORT \in Nat
    /\ STARTPORT < IPPORT_RESERVED /\ IPPORT_RESERVED <= NumPorts

\* What hosts.equiv and its like, as they are read, and the callers name.
ASSUME FilesAssumption ==
    /\ None \notin Locals
    /\ Unasked \notin Domains /\ Domains \subseteq Seq(STRING) \cup {None}
    /\ \A rhost \in Rhosts : rhost \in Seq(STRING)
    /\ \A f \in Files :
          /\ f.owned \in BOOLEAN
          /\ \A lines \in {f.equiv, f.home, f.configured} \ {Missing} :
                \A n \in DOMAIN lines : lines[n].host \in Seq(STRING)

\* In a netrc file a value follows each word that takes one.  Nothing is said of
\* their order, nor of where "default" stands.
Words == Skipped \cup {"default", "machine", "login", "password"}

ASSUME NetrcsAssumption ==
    \A netrc \in Netrcs \ {Missing} :
       /\ netrc \in Seq(STRING)
       /\ \A k \in DOMAIN netrc :
             /\ netrc[k] # None
             /\ netrc[k] \in Words \ {"default"} =>
                   k < Len(netrc) /\ netrc[k + 1] \notin Words

VARIABLES
    fn, want,           \* the function, and whether fd2p is given
    pc,                 \* the socket call it is at
    lport, timo,        \* its local variables
    naddr, addr,        \* addresses of the host; the one in use
    open,               \* the descriptors the call holds: "s", "s2", "s3"
    result,             \* "ok", or the socket call that has failed
    peer,               \* the port the control connection comes from
    busy,               \* ports found in use, if rcmd() comes to them
    port,               \* bindresvport(): the port it tries next
    ldomain,            \* _checkhost(): the domain it has asked for
    domains,            \* history: the local domains at the calls so far
    last                \* history: the last call, its arguments and result

callVars == <<fn, want, pc, lport, timo, naddr, addr, open, result, peer, busy>>
vars == <<callVars, port, ldomain, domains, last>>

Init ==
    /\ fn = "none" /\ want = FALSE /\ pc = "idle"
    /\ lport = 0 /\ timo = 1 /\ naddr = 1 /\ addr = 1
    /\ open = {} /\ result = "none" /\ peer = 0 /\ busy = {}
    /\ port \in STARTPORT .. IPPORT_RESERVED - 1
    /\ ldomain = Unasked /\ domains = {}
    /\ last = [of |-> "none"]

\* Mutant: the port that is in use is tried again.
PortBelow_Same(p) == p

\* The next port down.  Below 0 a number stands for the port it is congruent to,
\* and it is enough to tell the first NumPorts of them apart.
PortBelow(p) == IF p = -NumPorts THEN -1 ELSE p - 1

PortInUse == lport % NumPorts \in busy

\* rresvport() gives up when it comes down to this port from the one above, and
\* only then: not when rcmd() has taken it there or below.
Half == IPPORT_RESERVED \div 2

-----------------------------------------------------------------------------
\* The call returns, holding these descriptors.
Return(success, held) ==
    /\ pc' = "done"
    /\ result' = IF success THEN "ok" ELSE pc
    /\ open' = held
    /\ UNCHANGED <<fn, want, naddr, addr, busy>>

Others == UNCHANGED <<port, ldomain, domains, last>>

\* rcmd() or rexec() is called; gethostbyname() knows naddr addresses.
Call(f, w, n) ==
    /\ pc = "idle"
    /\ fn' = f /\ want' = w /\ naddr' = n /\ pc' = "socket"
    /\ lport' = IF f = "rcmd" THEN IPPORT_RESERVED - 1 ELSE 0
    /\ UNCHANGED <<timo, addr, open, result, peer, port, ldomain, domains>>

\* busy are the ports that bind() or connect() may find in use at some time
\* during the call, 0 standing for a port that bind() chooses.
rcmd(w, n) ==
    /\ Call("rcmd", w, n)
    /\ busy' \in SUBSET (0 .. NumPorts - 1)
    /\ last' = [of |-> "rcmd"]

\* The host is not known: nothing has been opened.
UnknownHost(f) ==
    /\ pc = "idle"
    /\ fn' = f /\ pc' = "done"
    /\ UNCHANGED <<want, lport, timo, naddr, addr, open, result, peer, busy>>
    /\ Others

(***************************************************************************)
(* rresvport(), for the connection and for the second port, to listen at   *)
(* for the control connection: the ports are tried downwards.  The socket  *)
(* counts as open once it is bound.                                        *)
(***************************************************************************)
RcmdSocket ==
    /\ fn = "rcmd" /\ pc \in {"socket", "socket2"}
    /\ IF pc = "socket" THEN open' = open \cup {"s"} /\ pc' = "connect"
                        ELSE open' = open \cup {"s2"} /\ pc' = "announce"
    /\ UNCHANGED <<fn, want, lport, timo, naddr, addr, result, peer, busy>>
    /\ Others

\* bind() finds the port in use: EAGAIN if the next one is Half.
RcmdBindInUse ==
    /\ fn = "rcmd" /\ pc \in {"socket", "socket2"} /\ PortInUse
    /\ lport' = PortBelow(lport)
    /\ IF lport' = Half THEN Return(FALSE, open \ {"s"})
       ELSE UNCHANGED <<fn, want, pc, naddr, addr, open, result, busy>>
    /\ UNCHANGED <<timo, peer>>
    /\ Others

\* socket() fails, or bind() with another error.
RcmdSocketFails ==
    /\ fn = "rcmd" /\ pc \in {"socket", "socket2"}
    /\ Return(FALSE, open \ {"s"})
    /\ UNCHANGED <<lport, timo, peer>>
    /\ Others

\* Without a control connection lport is 0 from here on.
RcmdConnected ==
    /\ fn = "rcmd" /\ pc = "connect"
    /\ lport' = IF want THEN PortBelow(lport) ELSE 0
    /\ pc' = IF want THEN "socket2" ELSE "login"
    /\ UNCHANGED <<fn, want, timo, naddr, addr, open, result, peer, busy>>
    /\ Others

\* The local port is in use for this peer: the next one is tried, down to 0
\* and below.
RcmdInUse ==
    /\ fn = "rcmd" /\ pc = "connect" /\ PortInUse
    /\ open' = open \ {"s"}
    /\ lport' = PortBelow(lport)
    /\ pc' = "socket"
    /\ UNCHANGED <<fn, want, timo, naddr, addr, result, peer, busy>>
    /\ Others

\* The time waited for a server that has refused a connection, doubled.
Waited(t) == 2 * t

Refused ==
    /\ pc = "connect" /\ timo <= 16
    /\ open' = open \ {"s"}
    /\ timo' = Waited(timo)
    /\ pc' = "socket"
    /\ UNCHANGED <<fn, want, lport, naddr, addr, result, peer, busy>>
    /\ Others

\* Another failure, or a refusal once the time is up: the next address.
RcmdNextAddress ==
    /\ fn = "rcmd" /\ pc = "connect" /\ addr < naddr
    /\ open' = open \ {"s"}
    /\ addr' = addr + 1
    /\ pc' = "socket"
    /\ UNCHANGED <<fn, want, lport, timo, naddr, result, peer, busy>>
    /\ Others

RcmdUnreachable ==
    /\ fn = "rcmd" /\ pc = "connect" /\ addr = naddr
    /\ Return(FALSE, open \ {"s"})
    /\ UNCHANGED <<lport, timo, peer>>
    /\ Others

\* Mutant: the listening socket stays open when the port cannot be written.
Dropped_Listener == {"s"}

\* What is closed when the port cannot be written to the server.
Dropped == {"s", "s2"}

\* The number of the port is written to the server.
Announce ==
    /\ fn = "rcmd" /\ pc = "announce"
    /\ \/ /\ pc' = "accept"
          /\ UNCHANGED <<fn, want, naddr, addr, open, result, busy>>
       \/ Return(FALSE, open \ Dropped)
    /\ UNCHANGED <<lport, timo, peer>>
    /\ Others

AcceptFails ==
    /\ pc = "accept"
    /\ lport' = 0
    /\ Return(FALSE, open \ {"s2", "s"})
    /\ UNCHANGED <<timo, peer>>
    /\ Others

\* bad2: *fd2p is closed if there is a port; then s.
Bad2 == IF lport # 0 THEN {"s3", "s"} ELSE {"s"}

\* The control connection must come from a reserved port.
RcmdAccept ==
    /\ fn = "rcmd" /\ pc = "accept"
    /\ peer' \in {IPPORT_RESERVED - 1, IPPORT_RESERVED}
    /\ LET held == (open \ {"s2"}) \cup {"s3"}
       IN \/ /\ peer' < IPPORT_RESERVED
             /\ open' = held
             /\ pc' = "login"
             /\ UNCHANGED <<fn, want, naddr, addr, result, busy>>
          \/ peer' >= IPPORT_RESERVED /\ Return(FALSE, held \ Bad2)
    /\ UNCHANGED <<lport, timo>>
    /\ Others

\* Names and command are written; the server's first byte is 0 or a message.
LoggedIn ==
    /\ pc = "login"
    /\ Return(TRUE, open)
    /\ UNCHANGED <<lport, timo, peer>>
    /\ Others

LoginFails ==
    /\ pc = "login"
    /\ Return(FALSE, open \ Bad2)
    /\ UNCHANGED <<lport, timo, peer>>
    /\ Others

-----------------------------------------------------------------------------
(* rexec(): lport stands for its variable port. *)

rexec(w, n) ==
    /\ Call("rexec", w, n)
    /\ UNCHANGED busy
    /\ \E host \in Hosts, netrc \in Netrcs, env \in Envs, user \in Users :
          \E sent \in ruserpass(env, netrc, host, user) :
             last' = [of |-> "rexec", host |-> host, netrc |-> netrc, env |-> env,
                      user |-> user, sent |-> sent]

RexecSocket ==
    /\ fn = "rexec" /\ pc \in {"socket", "socket2"}
    /\ IF pc = "socket" THEN open' = open \cup {"s"} /\ pc' = "connect"
                        ELSE open' = open \cup {"s2"} /\ pc' = "name"
    /\ UNCHANGED <<fn, want, lport, timo, naddr, addr, result, peer, busy>>
    /\ Others

RexecSocketFails ==
    /\ fn = "rexec" /\ pc \in {"socket", "socket2"}
    /\ Return(FALSE, open \ {"s"})
    /\ UNCHANGED <<lport, timo, peer>>
    /\ Others

RexecConnected ==
    /\ fn = "rexec" /\ pc = "connect"
    /\ pc' = IF want THEN "socket2" ELSE "login"
    /\ UNCHANGED <<fn, want, lport, timo, naddr, addr, open, result, peer, busy>>
    /\ Others

\* The call returns and s stays open.
RexecUnreachable ==
    /\ fn = "rexec" /\ pc = "connect"
    /\ Return(FALSE, open)
    /\ UNCHANGED <<lport, timo, peer>>
    /\ Others

\* bind(), listen(), getsockname() and the port written to the server.
RexecListen ==
    /\ fn = "rexec" /\ pc = "name"
    /\ \/ /\ lport' = IPPORT_RESERVED
          /\ pc' = "accept"
          /\ UNCHANGED <<fn, want, naddr, addr, open, result, busy>>
       \/ /\ Return(FALSE, open \ {"s2", "s"})
          /\ UNCHANGED lport
    /\ UNCHANGED <<timo, peer>>
    /\ Others

RexecAccept ==
    /\ fn = "rexec" /\ pc = "accept"
    /\ peer' \in {IPPORT_RESERVED - 1, IPPORT_RESERVED}
    /\ open' = (open \ {"s2"}) \cup {"s3"}
    /\ pc' = "login"
    /\ UNCHANGED <<fn, want, lport, timo, naddr, addr, result, busy>>
    /\ Others

-----------------------------------------------------------------------------
(* The calls that are one step. *)

\* The domain is asked for at the first line that needs it, once and for all.
Allowed(f, rhost, superuser, ruser, luser, domain) ==
    LET d == Domain(ldomain, domain)
    IN /\ pc = "idle"
       /\ last' = [of |-> "ruserok", files |-> f, rhost |-> rhost,
                   superuser |-> superuser, ruser |-> ruser, luser |-> luser,
                   rv |-> ruserok(f, rhost, superuser, ruser, luser, d)]
       /\ ldomain' = IF AsksDomain(f, rhost, superuser, ruser, luser, d)
                     THEN d ELSE ldomain
       /\ domains' = domains \cup {domain}
       /\ UNCHANGED <<callVars, port>>

\* Mutant: the last port is left out.
NextPort_LastLeft(p) ==
    IF p + 1 >= IPPORT_RESERVED - 1 THEN STARTPORT ELSE p + 1

NextPort(p) == IF p + 1 > IPPORT_RESERVED - 1 THEN STARTPORT ELSE p + 1

\* A try at the port after the last one, unless that one was bound or bind()
\* has failed with another error.
Try(q, bind) ==
    IF q.rv # "EADDRINUSE" THEN q
    ELSE [port |-> NextPort(q.port), rv |-> bind[q.port], at |-> q.port]

(***************************************************************************)
(* As many tries as there are ports, each at the port that follows the     *)
(* last one tried, in this call or an earlier one; bind[p] is what comes   *)
(* of the try at p, and at the port of the last try.                       *)
(***************************************************************************)
Tried(from, bind) ==
    LET Ports == IPPORT_RESERVED - STARTPORT
        tries[n \in 0 .. Ports] ==
            IF n = 0 THEN [port |-> from, rv |-> "EADDRINUSE", at |-> from]
            ELSE Try(tries[n - 1], bind)
    IN tries[Ports]

bindresvport(inet, bind) ==
    LET end == IF inet THEN Tried(port, bind)
               ELSE [port |-> port, rv |-> "EPFNOSUPPORT", at |-> port]
    IN /\ pc = "idle"
       /\ port' = end.port
       /\ last' = [of |-> "bindresvport", bind |-> bind, rv |-> end.rv,
                   at |-> end.at]
       /\ UNCHANGED <<callVars, ldomain, domains>>

Outcomes == [STARTPORT .. IPPORT_RESERVED - 1 -> {"bound", "EADDRINUSE", "error"}]

CallStep ==
    \/ RcmdSocket \/ RcmdBindInUse \/ RcmdSocketFails
    \/ RcmdConnected \/ RcmdInUse \/ Refused \/ RcmdNextAddress
    \/ RcmdUnreachable \/ Announce
    \/ AcceptFails \/ RcmdAccept \/ LoggedIn \/ LoginFails
    \/ RexecSocket \/ RexecSocketFails \/ RexecConnected \/ RexecUnreachable
    \/ RexecListen \/ RexecAccept

Next ==
    \/ CallStep
    \/ \E w \in BOOLEAN, n \in 1 .. MaxAddr : rcmd(w, n) \/ rexec(w, n)
    \/ \E f \in {"rcmd", "rexec"} : UnknownHost(f)
    \/ \E f \in Files, rhost \in Rhosts, superuser \in BOOLEAN,
          ruser, luser \in Locals, domain \in Domains :
             Allowed(f, rhost, superuser, ruser, luser, domain)
    \/ \E inet \in BOOLEAN, bind \in Outcomes : bindresvport(inet, bind)

(***************************************************************************)
(* Fairness: the program goes on, connections are made or fail in the end, *)
(* and the server, once connected, answers or closes the connection.       *)
(***************************************************************************)
Spec == Init /\ [][Next]_vars /\ WF_vars(CallStep)

-----------------------------------------------------------------------------
(***************************************************************************)
(* A call that fails leaves no descriptor open, whatever it had set up by  *)
(* then, but for these: the socket of a rexec() that cannot connect, and   *)
(* the control connection of a rcmd() that fails after it, when its        *)
(* listener was bound to port 0.  A call that succeeds holds what it       *)
(* returns and nothing else.                                               *)
(***************************************************************************)
DescriptorsReturned ==
    (pc = "done" /\ fn # "none") =>
       IF result = "ok" THEN open = {"s"} \cup (IF want THEN {"s3"} ELSE {})
       ELSE \/ open = {}
            \/ fn = "rexec" /\ result = "connect" /\ open = {"s"}
            \/ /\ fn = "rcmd" /\ result \in {"accept", "login"}
               /\ want /\ lport = 0 /\ open = {"s3"}

(***************************************************************************)
(* rcmd() and rexec() return, if one port at least is never in use: the    *)
(* tries at a server that refuses them, at the addresses of the host and   *)
(* at ports in use come to an end, although the ports below Half are tried *)
(* without one.                                                            *)
(***************************************************************************)
CallReturns ==
    (pc = "socket" /\ busy # 0 .. NumPorts - 1) ~> (pc = "done")

(***************************************************************************)
(* A password taken from the netrc file stands in an entry of the host     *)
(* rexec() connects to, and the logins of this entry that stand before it  *)
(* are the one it is sent with.  Of a login behind it, or of a "default"   *)
(* in between, rnetrc() takes no notice.                                   *)
(***************************************************************************)
Listed(netrc, host, name, pass) ==
    \E i, k \in DOMAIN netrc :
        /\ i + 1 < k /\ k < Len(netrc)
        /\ netrc[i] = "machine" /\ Canonical[netrc[i + 1]] = Canonical[host]
        /\ netrc[k] = "password" /\ netrc[k + 1] = pass
        /\ \A n \in i + 2 .. k - 1 :
              /\ netrc[n] # "machine"
              /\ netrc[n] = "login" => netrc[n + 1] = name

PasswordListed ==
    last.of = "rexec" =>
       LET pass == last.sent.pass
       IN \/ pass \in {last.user.pass, Asked, Garbage}
          \/ Listed(last.netrc, last.host, last.sent.name, pass)

(***************************************************************************)
(* ruserok() lets in whom a line names, of the files that count for this   *)
(* user, and nobody else: hosts.equiv never lets in the super-user, and a  *)
(* short host name stands for one of the local domain only.  That is the   *)
(* domain of this call or, once it has been asked for, of an earlier one.  *)
(***************************************************************************)
AccessListed ==
    last.of = "ruserok" =>
       LET f == last.files
           Full(h, d) == IF Len(h) = 1 /\ d # None THEN h \o d ELSE h
           Names(lines, d) ==
              /\ lines # Missing
              /\ \E n \in DOMAIN lines :
                    /\ last.rhost \in {lines[n].host, Full(lines[n].host, d)}
                    /\ \/ lines[n].user = last.ruser
                       \/ lines[n].user = None /\ last.luser = last.ruser
           Lets(d) == \/ ~last.superuser /\ Names(f.equiv, d)
                      \/ f.owned /\ Names(f.home, d)
                      \/ f.owned /\ f.home = Missing /\ Names(f.configured, d)
       IN /\ last.rv => \E d \in domains : Lets(d)
          /\ (\A d \in domains : Lets(d)) => last.rv

(***************************************************************************)
(* bindresvport() says that the ports are in use only when it has tried    *)
(* all of them, wherever the last call has left off; what else it returns  *)
(* has come of the last port it tried.                                     *)
(***************************************************************************)
PortsTried ==
    last.of = "bindresvport" =>
       /\ last.rv = "EADDRINUSE" =>
             \A p \in STARTPORT .. IPPORT_RESERVED - 1 : last.bind[p] = last.rv
       /\ last.rv \in {"bound", "error"} => last.bind[last.at] = last.rv
       /\ port \in STARTPORT .. IPPORT_RESERVED - 1

=============================================================================

---------------------------- MODULE RemoteProofs ----------------------------
(***************************************************************************)
(* The invariants of Remote, for every number of addresses and of ports,   *)
(* and for whatever the files hold.                                        *)
(***************************************************************************)
EXTENDS Remote, Iterations, SequenceTheorems

-----------------------------------------------------------------------------
(***************************************************************************)
(* The descriptors of rcmd() and rexec().                                  *)
(***************************************************************************)
\* What a call in progress holds, by the socket call it is at.
Holds(at, third) ==
    CASE at \in {"idle", "socket"} -> {}
      [] at \in {"connect", "socket2"} -> {"s"}
      [] at \in {"announce", "name", "accept"} -> {"s", "s2"}
      [] at = "login" -> {"s"} \cup IF third THEN {"s3"} ELSE {}

Within == {"socket", "connect", "socket2", "announce", "name", "accept", "login"}

\* The descriptors are known at each call, and rexec() knows its port once it
\* listens.
Held ==
    /\ pc \in Within \cup {"idle", "done"} /\ want \in BOOLEAN
    /\ pc \in Within => fn \in {"rcmd", "rexec"}
    /\ pc = "idle" => fn = "none"
    /\ pc # "done" => open = Holds(pc, want) /\ result = "none"
    /\ pc \in {"announce", "name", "accept", "socket2"} => want
    /\ fn = "rexec" /\ pc \in {"accept", "login"} /\ want => lport # 0
    /\ DescriptorsReturned

LEMMA HeldAtFirst == Init => Held
BY DEF Init, Held, Holds, Within, DescriptorsReturned

LEMMA HeldStays == Held /\ [Next]_vars => Held'
<1> SUFFICES ASSUME Held, [Next]_vars PROVE Held'
  OBVIOUS
<1> USE DEF Held, Holds, Within, DescriptorsReturned
<1>1. CASE RcmdSocket
  BY <1>1 DEF RcmdSocket
<1>2. CASE RcmdSocketFails
  BY <1>2 DEF RcmdSocketFails, Return
<1>9. CASE RcmdBindInUse
  BY <1>9 DEF RcmdBindInUse, Return
<1>3. CASE RcmdConnected
  BY <1>3 DEF RcmdConnected
<1>4. CASE RcmdInUse
  BY <1>4 DEF RcmdInUse
<1>5. CASE Refused
  BY <1>5 DEF Refused
<1>6. CASE RcmdNextAddress
  BY <1>6 DEF RcmdNextAddress
<1>7. CASE RcmdUnreachable
  BY <1>7 DEF RcmdUnreachable, Return
<1>10. CASE Announce
  <2>1. open = {"s", "s2"} /\ open \ Dropped = {}
    BY <1>10 DEF Announce, Dropped
  <2>2. CASE Return(FALSE, open \ Dropped)
    BY <1>10, <2>1, <2>2 DEF Announce, Return
  <2>3. CASE pc' = "accept" /\ UNCHANGED <<fn, want, open, result>>
    <3>1. /\ pc' = "accept" /\ fn' = "rcmd" /\ want' /\ want' \in BOOLEAN
          /\ open' = {"s", "s2"} /\ result' = "none"
      BY <1>10, <2>1, <2>3 DEF Announce
    <3> QED BY <3>1
  <2> QED BY <1>10, <2>2, <2>3 DEF Announce
<1>11. CASE AcceptFails
  BY <1>11 DEF AcceptFails, Return
<1>12. CASE RcmdAccept
  <2> DEFINE held == (open \ {"s2"}) \cup {"s3"}
  <2>1. held = {"s", "s3"} /\ held \ Bad2 = IF lport # 0 THEN {} ELSE {"s3"}
    BY <1>12 DEF RcmdAccept, Bad2
  <2> HIDE DEF held
  <2>4. fn = "rcmd" /\ want /\ result = "none"
    BY <1>12 DEF RcmdAccept
  <2>2. CASE open' = held /\ pc' = "login" /\ UNCHANGED <<fn, want, result>>
    <3>1. Holds("login", TRUE) = {"s", "s3"}
      OBVIOUS
    <3>2. /\ pc' = "login" /\ fn' = "rcmd" /\ want' = want /\ want
          /\ result' = "none"
          /\ open' = Holds("login", TRUE)
      BY <2>1, <2>2, <2>4, <3>1
    <3> HIDE DEF Holds
    <3> QED BY <3>2
  <2>3. CASE Return(FALSE, held \ Bad2) /\ UNCHANGED lport
    BY <1>12, <2>1, <2>3 DEF RcmdAccept, Return
  <2> QED BY <1>12, <2>2, <2>3 DEF RcmdAccept, held
<1>13. CASE LoggedIn
  BY <1>13 DEF LoggedIn, Return
<1>14. CASE LoginFails
  BY <1>14 DEF LoginFails, Return, Bad2
<1>15. CASE RexecSocket
  BY <1>15 DEF RexecSocket
<1>16. CASE RexecSocketFails
  BY <1>16 DEF RexecSocketFails, Return
<1>17. CASE RexecConnected
  BY <1>17 DEF RexecConnected
<1>18. CASE RexecUnreachable
  BY <1>18 DEF RexecUnreachable, Return
<1>19. CASE RexecListen
  <2>1. open = {"s", "s2"} /\ open \ {"s2", "s"} = {} /\ IPPORT_RESERVED # 0
    BY <1>19, PortsAssumption DEF RexecListen
  <2>2. CASE Return(FALSE, open \ {"s2", "s"})
    BY <1>19, <2>1, <2>2 DEF RexecListen, Return
  <2>3. CASE /\ lport' = IPPORT_RESERVED /\ pc' = "accept"
             /\ UNCHANGED <<fn, want, open, result>>
    <3>1. /\ pc' = "accept" /\ fn' = "rexec" /\ want' /\ want' \in BOOLEAN
          /\ open' = {"s", "s2"} /\ result' = "none" /\ lport' # 0
      BY <1>19, <2>1, <2>3 DEF RexecListen
    <3> QED BY <3>1
  <2> QED BY <1>19, <2>2, <2>3 DEF RexecListen
<1>20. CASE RexecAccept
  BY <1>20 DEF RexecAccept
<1>21. ASSUME NEW w \in BOOLEAN, NEW n \in 1 .. MaxAddr, rcmd(w, n) \/ rexec(w, n)
       PROVE  Held'
  BY <1>21 DEF rcmd, rexec, Call
<1>22. ASSUME NEW f \in {"rcmd", "rexec"}, UnknownHost(f) PROVE Held'
  BY <1>22 DEF UnknownHost
<1>23. ASSUME NEW f, NEW rhost, NEW superuser, NEW ruser, NEW luser, NEW domain,
              Allowed(f, rhost, superuser, ruser, luser, domain)
       PROVE  Held'
  BY <1>23 DEF Allowed, callVars
<1>24. ASSUME NEW inet, NEW bind, bindresvport(inet, bind) PROVE Held'
  BY <1>24 DEF bindresvport, callVars
<1>25. CASE UNCHANGED vars
  BY <1>25 DEF vars, callVars
<1> QED BY <1>1, <1>2, <1>3, <1>4, <1>5, <1>6, <1>7, <1>9, <1>10, <1>11,
           <1>12, <1>13, <1>14, <1>15, <1>16, <1>17, <1>18, <1>19, <1>20,
           <1>21, <1>22, <1>23, <1>24, <1>25 DEF Next, CallStep

\* A call that fails closes what it has opened, at each of the places where it
\* can fail: the labels bad and bad2 of rcmd() and rexec().
THEOREM DescriptorsAlwaysReturned == Spec => []DescriptorsReturned
<1>1. Held => DescriptorsReturned
  BY DEF Held
<1> QED BY HeldAtFirst, HeldStays, <1>1, PTL DEF Spec

-----------------------------------------------------------------------------
(***************************************************************************)
(* The last call: each step leaves it alone or makes one of these.         *)
(***************************************************************************)
IsRexec(r) ==
    \E host \in Hosts, netrc \in Netrcs, env \in Envs, user \in Users :
       \E sent \in ruserpass(env, netrc, host, user) :
          r = [of |-> "rexec", host |-> host, netrc |-> netrc, env |-> env,
               user |-> user, sent |-> sent]

LEMMA LastCall ==
    ASSUME [Next]_vars
    PROVE  \/ /\ last' = last \/ last' = [of |-> "rcmd"] \/ IsRexec(last')
              /\ UNCHANGED <<port, ldomain, domains>>
           \/ /\ \E f \in Files, rhost \in Rhosts, superuser \in BOOLEAN,
                    ruser, luser \in Locals, domain \in Domains :
                    Allowed(f, rhost, superuser, ruser, luser, domain)
              /\ port' = port
           \/ /\ \E inet \in BOOLEAN, bind \in Outcomes : bindresvport(inet, bind)
              /\ UNCHANGED <<ldomain, domains>>
<1>1. CASE CallStep
  BY <1>1 DEF CallStep, Others, RcmdSocket, RcmdBindInUse, RcmdSocketFails,
     RcmdConnected, RcmdInUse, Refused, RcmdNextAddress, RcmdUnreachable,
     Announce, AcceptFails, RcmdAccept, LoggedIn, LoginFails,
     RexecSocket, RexecSocketFails, RexecConnected, RexecUnreachable,
     RexecListen, RexecAccept
<1>2. ASSUME NEW w \in BOOLEAN, NEW n \in 1 .. MaxAddr, rcmd(w, n)
      PROVE  last' = [of |-> "rcmd"] /\ UNCHANGED <<port, ldomain, domains>>
  BY <1>2 DEF rcmd, Call
<1>3. ASSUME NEW w \in BOOLEAN, NEW n \in 1 .. MaxAddr, rexec(w, n)
      PROVE  IsRexec(last') /\ UNCHANGED <<port, ldomain, domains>>
  BY <1>3 DEF rexec, Call, IsRexec
<1>4. ASSUME NEW f \in {"rcmd", "rexec"}, UnknownHost(f)
      PROVE  UNCHANGED <<last, port, ldomain, domains>>
  BY <1>4 DEF UnknownHost, Others
<1>5. ASSUME NEW f \in Files, NEW rhost \in Rhosts, NEW superuser \in BOOLEAN,
             NEW ruser \in Locals, NEW luser \in Locals, NEW domain \in Domains,
             Allowed(f, rhost, superuser, ruser, luser, domain)
      PROVE  port' = port
  BY <1>5 DEF Allowed
<1>6. ASSUME NEW inet \in BOOLEAN, NEW bind \in Outcomes, bindresvport(inet, bind)
      PROVE  UNCHANGED <<ldomain, domains>>
  BY <1>6 DEF bindresvport
<1>7. CASE UNCHANGED vars
  BY <1>7 DEF vars
<1> QED BY <1>1, <1>2, <1>3, <1>4, <1>5, <1>6, <1>7 DEF Next

-----------------------------------------------------------------------------
(***************************************************************************)
(* ruserok().                                                              *)
(***************************************************************************)
\* The full name of a host of the local domain.
FullName(host, domain) ==
    IF Len(host) = 1 /\ domain # None THEN host \o domain ELSE host

\* A host is the one of a line if the line has its name or its short name.
LEMMA HostNamed ==
    ASSUME NEW rhost \in Seq(STRING), NEW host \in Seq(STRING),
           NEW domain \in Seq(STRING) \cup {None}
    PROVE  _checkhost(rhost, host, domain)
             <=> rhost \in {host, FullName(host, domain)}
<1>1. CASE domain = None
  BY <1>1 DEF _checkhost, FullName, Short
<1>2. CASE domain # None
  <2> DEFINE full == host \o domain
  <2>1. domain \in Seq(STRING)
    BY <1>2
  <2>2. /\ full \in Seq(STRING) /\ Len(full) = Len(host) + Len(domain)
        /\ \A i \in 1 .. Len(host) + Len(domain) :
              full[i] = IF i <= Len(host) THEN host[i] ELSE domain[i - Len(host)]
    BY <2>1, ConcatProperties
  <2> HIDE DEF full
  <2>3. ASSUME Len(rhost) > 1, host = <<Head(rhost)>>, domain = Tail(rhost)
        PROVE  Len(host) = 1 /\ rhost = full
    <3>1. /\ rhost # <<>> /\ Head(rhost) = rhost[1] /\ Len(host) = 1
          /\ host[1] = rhost[1]
      BY <2>3
    <3>2. /\ Len(domain) = Len(rhost) - 1
          /\ \A i \in 1 .. Len(domain) : domain[i] = rhost[i + 1]
      BY <2>3, <3>1, HeadTailProperties
    <3>3. Len(full) = Len(rhost)
      BY <2>2, <3>1, <3>2
    <3>4. \A i \in 1 .. Len(rhost) : rhost[i] = full[i]
      <4> TAKE i \in 1 .. Len(rhost)
      <4>1. full[i] = IF i <= 1 THEN host[i] ELSE domain[i - 1]
        BY <2>2, <3>1, <3>2
      <4>2. CASE i = 1
        BY <3>1, <4>1, <4>2
      <4>3. CASE i # 1
        <5>1. i - 1 \in 1 .. Len(domain) /\ i - 1 + 1 = i
          BY <3>2, <4>3
        <5> QED BY <3>2, <4>1, <4>3, <5>1
      <4> QED BY <4>2, <4>3
    <3> QED BY <2>2, <3>1, <3>3, <3>4, SeqEqual
  <2>4. ASSUME Len(host) = 1, rhost = full, rhost # host
        PROVE  Len(rhost) > 1 /\ host = <<Head(rhost)>> /\ domain = Tail(rhost)
    <3>1. domain # <<>>
      BY <2>4, ConcatEmptySeq DEF full
    <3>2. Len(domain) \in Nat /\ Len(domain) # 0
      BY <2>1, <3>1, EmptySeq
    <3>3. Len(rhost) = 1 + Len(domain) /\ Len(rhost) > 1
      BY <2>2, <2>4, <3>2
    <3>4. rhost # <<>> /\ Head(rhost) = rhost[1] /\ rhost[1] = host[1]
      BY <2>2, <2>4, <3>3
    <3>5. host = <<Head(rhost)>>
      BY <2>4, <3>4
    <3>6. /\ Tail(rhost) \in Seq(STRING) /\ Len(Tail(rhost)) = Len(domain)
          /\ \A i \in 1 .. Len(domain) : Tail(rhost)[i] = rhost[i + 1]
      BY <3>3, <3>4, HeadTailProperties
    <3>7. \A i \in 1 .. Len(domain) : domain[i] = Tail(rhost)[i]
      <4> TAKE i \in 1 .. Len(domain)
      <4>1. i + 1 \in 1 .. Len(host) + Len(domain) /\ ~(i + 1 <= Len(host))
            /\ i + 1 - Len(host) = i
        BY <2>4, <3>2
      <4> QED BY <2>2, <2>4, <3>6, <4>1
    <3> QED BY <2>1, <3>3, <3>5, <3>6, <3>7, SeqEqual
  <2>5. FullName(host, domain) = IF Len(host) = 1 THEN full ELSE host
    BY <1>2 DEF FullName, full
  <2> QED BY <1>2, <2>3, <2>4, <2>5 DEF _checkhost, Short
<1> QED BY <1>1, <1>2

\* A line of such a file names the host and the user.
Names(lines, rhost, luser, ruser, domain) ==
    /\ lines # Missing
    /\ \E n \in DOMAIN lines :
          /\ rhost \in {lines[n].host, FullName(lines[n].host, domain)}
          /\ \/ lines[n].user = ruser
             \/ lines[n].user = None /\ luser = ruser

LEMMA UserNamed ==
    ASSUME NEW lines, NEW rhost \in Rhosts, NEW luser \in Locals, NEW ruser \in Locals,
           NEW domain \in Seq(STRING) \cup {None},
           lines # Missing => \A n \in DOMAIN lines : lines[n].host \in Seq(STRING)
    PROVE  _validuser(lines, rhost, luser, ruser, domain)
             <=> Names(lines, rhost, luser, ruser, domain)
<1>1. rhost \in Seq(STRING) /\ ruser # None
  BY FilesAssumption
<1>2. CASE lines = Missing
  BY <1>2 DEF _validuser, Admits, Names
<1>3. CASE lines # Missing
  <2>1. ASSUME NEW n \in DOMAIN lines
        PROVE  _checkhost(rhost, lines[n].host, domain)
                 <=> rhost \in {lines[n].host, FullName(lines[n].host, domain)}
    BY <1>1, <1>3, HostNamed
  <2>2. ASSUME NEW n \in DOMAIN lines
        PROVE  ruser = (IF lines[n].user = None THEN luser ELSE lines[n].user)
                 <=> \/ lines[n].user = ruser
                     \/ lines[n].user = None /\ luser = ruser
    BY <1>1
  <2> QED BY <1>3, <2>1, <2>2 DEF _validuser, Admits, Names
<1> QED BY <1>2, <1>3

\* The files that count let the user in, with this local domain.
LetsIn(f, rhost, superuser, ruser, luser, domain) ==
    \/ ~superuser /\ Names(f.equiv, rhost, luser, ruser, domain)
    \/ f.owned /\ Names(f.home, rhost, luser, ruser, domain)
    \/ /\ f.owned /\ f.home = Missing
       /\ Names(f.configured, rhost, luser, ruser, domain)

LEMMA AccessGiven ==
    ASSUME NEW f \in Files, NEW rhost \in Rhosts, NEW superuser \in BOOLEAN,
           NEW ruser \in Locals, NEW luser \in Locals, NEW domain \in Domains
    PROVE  ruserok(f, rhost, superuser, ruser, luser, domain)
             <=> LetsIn(f, rhost, superuser, ruser, luser, domain)
<1> DEFINE valid(lines) == _validuser(lines, rhost, luser, ruser, domain)
           named(lines) == Names(lines, rhost, luser, ruser, domain)
<1>1. ASSUME NEW lines \in {f.equiv, f.home, f.configured}
      PROVE  valid(lines) <=> named(lines)
  <2>1. /\ domain \in Seq(STRING) \cup {None}
        /\ lines # Missing => \A n \in DOMAIN lines : lines[n].host \in Seq(STRING)
    BY FilesAssumption
  <2> QED BY <2>1, UserNamed
<1>2. f.home = Missing => ~named(f.home)
  BY DEF Names
<1> HIDE DEF named
<1>3. ruserok(f, rhost, superuser, ruser, luser, domain)
        <=> \/ ~superuser /\ named(f.equiv)
            \/ f.owned /\ named(RhostsFile(f))
  BY <1>1 DEF ruserok, Equiv, EquivCounts, RhostsFile
<1>4. named(RhostsFile(f))
        <=> named(f.home) \/ (f.home = Missing /\ named(f.configured))
  BY <1>2 DEF RhostsFile
<1>5. ruserok(f, rhost, superuser, ruser, luser, domain)
        <=> \/ ~superuser /\ named(f.equiv)
            \/ f.owned /\ named(f.home)
            \/ f.owned /\ f.home = Missing /\ named(f.configured)
  BY <1>3, <1>4
<1> QED BY <1>5 DEF named, LetsIn

\* The static domain is the local domain of some call so far.
DomainHad == ldomain \in domains \cup {Unasked} /\ domains \subseteq Domains

\* AccessListed in terms of LetsIn.
ListedFor(call, had) ==
    call.of = "ruserok" =>
       LET lets(d) == LetsIn(call.files, call.rhost, call.superuser, call.ruser,
                             call.luser, d)
       IN /\ call.rv => \E d \in had : lets(d)
          /\ (\A d \in had : lets(d)) => call.rv

\* ruserok() lets in the users that hosts.equiv or the .rhosts file of the owner
\* name, with the local domain of one of the calls so far, and never the
\* super-user by hosts.equiv: ruserok(), _validuser() and _checkhost().
THEOREM AccessAlwaysListed == Spec => []AccessListed
<1>3. AccessListed <=> ListedFor(last, domains)
  BY DEF AccessListed, ListedFor, LetsIn, Names, FullName
<1>4. AccessListed' <=> ListedFor(last', domains')
  BY DEF AccessListed, ListedFor, LetsIn, Names, FullName
<1>1. Init => AccessListed /\ DomainHad
  BY DEF Init, AccessListed, DomainHad
<1>2. AccessListed /\ DomainHad /\ [Next]_vars => (AccessListed /\ DomainHad)'
  <2> SUFFICES ASSUME AccessListed, DomainHad, [Next]_vars
               PROVE  AccessListed' /\ DomainHad'
    OBVIOUS
  <2>1. CASE UNCHANGED <<last, ldomain, domains>>
    <3>1. ListedFor(last', domains')
      BY <1>3, <2>1
    <3> QED BY <1>4, <2>1, <3>1 DEF DomainHad
  <2>2. CASE last' = [of |-> "rcmd"] /\ UNCHANGED <<ldomain, domains>>
    BY <2>2 DEF AccessListed, DomainHad
  <2>3. CASE IsRexec(last') /\ UNCHANGED <<ldomain, domains>>
    <3>1. last'.of = "rexec"
      BY <2>3 DEF IsRexec
    <3> QED BY <2>3, <3>1 DEF AccessListed, DomainHad
  <2>4. ASSUME NEW f \in Files, NEW rhost \in Rhosts, NEW superuser \in BOOLEAN,
               NEW ruser \in Locals, NEW luser \in Locals, NEW domain \in Domains,
               Allowed(f, rhost, superuser, ruser, luser, domain)
        PROVE  AccessListed' /\ DomainHad'
    <3> DEFINE d == Domain(ldomain, domain)
               rv == ruserok(f, rhost, superuser, ruser, luser, d)
    <3>1. /\ last' = [of |-> "ruserok", files |-> f, rhost |-> rhost,
                      superuser |-> superuser, ruser |-> ruser, luser |-> luser,
                      rv |-> rv]
          /\ ldomain' \in {d, ldomain} /\ domains' = domains \cup {domain}
      BY <2>4 DEF Allowed
    <3>2. d \in domains' /\ d \in Domains
      BY <3>1 DEF Domain, DomainHad
    <3> HIDE DEF d
    <3>3. rv <=> LetsIn(f, rhost, superuser, ruser, luser, d)
      BY <3>2, AccessGiven
    <3> HIDE DEF rv
    <3>4. /\ last'.of = "ruserok" /\ last'.files = f /\ last'.rhost = rhost
          /\ last'.superuser = superuser /\ last'.ruser = ruser
          /\ last'.luser = luser /\ last'.rv = rv
      BY <3>1
    <3>5. /\ rv => \E e \in domains' : LetsIn(f, rhost, superuser, ruser, luser, e)
          /\ (\A e \in domains' : LetsIn(f, rhost, superuser, ruser, luser, e)) => rv
      BY <3>2, <3>3
    <3>6. AccessListed'
      <4>1. ListedFor(last', domains')
        BY <3>4, <3>5 DEF ListedFor
      <4> QED BY <1>4, <4>1
    <3>7. DomainHad'
      BY <3>1, <3>2 DEF DomainHad
    <3> QED BY <3>6, <3>7
  <2>5. ASSUME NEW inet, NEW bind, bindresvport(inet, bind)
        PROVE  AccessListed' /\ DomainHad'
    BY <2>5 DEF bindresvport, AccessListed, DomainHad
  <2> QED BY <2>1, <2>2, <2>3, <2>4, <2>5, LastCall
<1> QED BY <1>1, <1>2, PTL DEF Spec

-----------------------------------------------------------------------------
(***************************************************************************)
(* bindresvport().  The ports are tried in a circle that starts where the  *)
(* last call has left off.                                                 *)
(***************************************************************************)
AllPorts == STARTPORT .. IPPORT_RESERVED - 1
Result == {"bound", "EADDRINUSE", "error"}
Tries == [port : AllPorts, rv : Result, at : AllPorts]

\* After n tries at ports in use: these are the ports from the first on, up to
\* the last or round to the next to be tried.
Round(q, first, n, bind) ==
    \/ /\ q.port = first + n
       /\ \A p \in AllPorts :
             first <= p /\ p < q.port => bind[p] = "EADDRINUSE"
    \/ /\ q.port = first + n - (IPPORT_RESERVED - STARTPORT)
       /\ \A p \in AllPorts :
             first <= p \/ p < q.port => bind[p] = "EADDRINUSE"

TriedSoFar(q, first, n, bind) ==
    /\ q \in Tries
    /\ IF q.rv = "EADDRINUSE" THEN Round(q, first, n, bind) ELSE bind[q.at] = q.rv

LEMMA TryAgain ==
    ASSUME NEW bind \in [AllPorts -> Result], NEW first \in AllPorts,
           NEW n \in Nat, n < IPPORT_RESERVED - STARTPORT,
           NEW q, TriedSoFar(q, first, n, bind)
    PROVE  TriedSoFar(Try(q, bind), first, n + 1, bind)
<1> DEFINE r == Try(q, bind)
<1>1. CASE q.rv # "EADDRINUSE"
  BY <1>1 DEF TriedSoFar, Try
<1>2. CASE q.rv = "EADDRINUSE"
  <2>1. q.port \in AllPorts /\ Round(q, first, n, bind)
    BY <1>2 DEF TriedSoFar, Tries
  <2>2. r = [port |-> NextPort(q.port), rv |-> bind[q.port], at |-> q.port]
    BY <1>2 DEF Try
  <2> HIDE DEF r
  <2>3. /\ STARTPORT \in Nat /\ IPPORT_RESERVED \in Nat
        /\ STARTPORT < IPPORT_RESERVED
    BY PortsAssumption DEF AllPorts
  <2>4. NextPort(q.port) \in AllPorts
    BY <2>1, <2>3 DEF NextPort, AllPorts
  <2>5. /\ r \in Tries /\ r.port = NextPort(q.port)
        /\ r.rv = bind[q.port] /\ r.at = q.port
    BY <2>1, <2>2, <2>4 DEF Tries
  <2>6. bind[r.at] = r.rv
    BY <2>5
  <2>7. ASSUME r.rv = "EADDRINUSE" PROVE Round(r, first, n + 1, bind)
    <3>1. CASE /\ q.port = first + n
               /\ \A p \in AllPorts : first <= p /\ p < q.port => bind[p] = "EADDRINUSE"
      <4>1. CASE q.port + 1 > IPPORT_RESERVED - 1
        <5>1. /\ q.port = IPPORT_RESERVED - 1 /\ r.port = STARTPORT
              /\ r.port = first + (n + 1) - (IPPORT_RESERVED - STARTPORT)
          BY <2>1, <2>3, <2>5, <3>1, <4>1 DEF NextPort, AllPorts
        <5>2. ASSUME NEW p \in AllPorts, first <= p \/ p < r.port PROVE bind[p] = "EADDRINUSE"
          <6>1. first <= p /\ (p < q.port \/ p = q.port)
            BY <2>3, <5>1, <5>2 DEF AllPorts
          <6> QED BY <2>5, <2>7, <3>1, <6>1
        <5> QED BY <5>1, <5>2 DEF Round
      <4>2. CASE ~(q.port + 1 > IPPORT_RESERVED - 1)
        <5>1. r.port = q.port + 1 /\ r.port = first + (n + 1)
          BY <2>1, <2>3, <2>5, <3>1, <4>2 DEF NextPort, AllPorts
        <5>2. ASSUME NEW p \in AllPorts, first <= p, p < r.port PROVE bind[p] = "EADDRINUSE"
          <6>1. p < q.port \/ p = q.port
            BY <2>1, <2>3, <5>1, <5>2 DEF AllPorts
          <6> QED BY <2>5, <2>7, <3>1, <5>2, <6>1
        <5> QED BY <5>1, <5>2 DEF Round
      <4> QED BY <4>1, <4>2
    <3>2. CASE /\ q.port = first + n - (IPPORT_RESERVED - STARTPORT)
               /\ \A p \in AllPorts : first <= p \/ p < q.port => bind[p] = "EADDRINUSE"
      <4>1. CASE q.port + 1 > IPPORT_RESERVED - 1
        <5>1. q.port < first /\ first <= IPPORT_RESERVED - 1
          BY <2>1, <2>3, <3>2 DEF AllPorts
        <5> QED BY <2>1, <2>3, <4>1, <5>1 DEF AllPorts
      <4>2. CASE ~(q.port + 1 > IPPORT_RESERVED - 1)
        <5>1. /\ r.port = q.port + 1
              /\ r.port = first + (n + 1) - (IPPORT_RESERVED - STARTPORT)
          BY <2>1, <2>3, <2>5, <3>2, <4>2 DEF NextPort, AllPorts
        <5>2. ASSUME NEW p \in AllPorts, first <= p \/ p < r.port PROVE bind[p] = "EADDRINUSE"
          <6>1. first <= p \/ p < q.port \/ p = q.port
            BY <2>1, <2>3, <5>1, <5>2 DEF AllPorts
          <6> QED BY <2>5, <2>7, <3>2, <6>1
        <5> QED BY <5>1, <5>2 DEF Round
      <4> QED BY <4>1, <4>2
    <3> QED BY <2>1, <3>1, <3>2 DEF Round
  <2>8. TriedSoFar(r, first, n + 1, bind)
    BY <2>5, <2>6, <2>7 DEF TriedSoFar
  <2> QED BY <2>8 DEF r
<1> QED BY <1>1, <1>2

\* The tries of a call, after as many of them as there are ports.
LEMMA TriesEnd ==
    ASSUME NEW bind \in [AllPorts -> Result], NEW first \in AllPorts
    PROVE  TriedSoFar(Tried(first, bind), first, IPPORT_RESERVED - STARTPORT, bind)
<1> DEFINE N == IPPORT_RESERVED - STARTPORT
           start == [port |-> first, rv |-> "EADDRINUSE", at |-> first]
           step == [i \in 1 .. N |-> [q \in Tries |-> Try(q, bind)]]
           tries[n \in 0 .. N] ==
               IF n = 0 THEN [port |-> first, rv |-> "EADDRINUSE", at |-> first]
               ELSE Try(tries[n - 1], bind)
           P == [n \in 0 .. N |-> {q \in Tries : TriedSoFar(q, first, n, bind)}]
<1>1. /\ STARTPORT \in Nat /\ IPPORT_RESERVED \in Nat
      /\ STARTPORT < IPPORT_RESERVED /\ N \in Nat
  BY PortsAssumption
<1>2. start \in Tries
  BY DEF Tries, Result
<1>3. \A q \in Tries : Try(q, bind) \in Tries
  <2> SUFFICES ASSUME NEW q \in Tries PROVE Try(q, bind) \in Tries
    OBVIOUS
  <2>1. CASE q.rv # "EADDRINUSE"
    BY <2>1 DEF Try
  <2>2. CASE q.rv = "EADDRINUSE"
    <3>1. q.port \in AllPorts /\ bind[q.port] \in Result
      BY DEF Tries
    <3>2. NextPort(q.port) \in AllPorts
      BY <1>1, <3>1 DEF NextPort, AllPorts
    <3>3. Try(q, bind) = [port |-> NextPort(q.port), rv |-> bind[q.port], at |-> q.port]
      BY <2>2 DEF Try
    <3> QED BY <3>1, <3>2, <3>3 DEF Tries
  <2> QED BY <2>1, <2>2
<1>4. step \in [1 .. N -> [Tries -> Tries]]
  BY <1>3
<1>5. PICK f : Iterates(f, N, Tries, start, step)
  <2> HIDE DEF start, step, N, tries, P
  <2> QED BY <1>1, <1>2, <1>4, Iteration, Zenon
<1>6. f \in [0 .. N -> Tries] /\ f[0] = start
  BY <1>5 DEF Iterates
<1>7. ASSUME NEW i \in 1 .. N PROVE f[i] = Try(f[i - 1], bind)
  <2>1. i - 1 \in 0 .. N
    BY <1>1
  <2>2. f[i - 1] \in Tries /\ f[i] = step[i][f[i - 1]]
    BY <1>5, <1>6, <2>1 DEF Iterates
  <2> QED BY <2>2
<1>8. f = [n \in 0 .. N |-> IF n = 0 THEN start ELSE Try(f[n - 1], bind)]
  <2> HIDE DEF start
  <2> QED BY <1>6, <1>7
<1>9. tries = [n \in 0 .. N |-> IF n = 0 THEN [port |-> first, rv |-> "EADDRINUSE", at |-> first]
                               ELSE Try(tries[n - 1], bind)]
  BY <1>8
<1>10. Tried(first, bind) = tries[N]
  BY Zenon DEF Tried
<1> HIDE DEF tries
<1>11. tries[0] \in P[0]
  <2>1. tries[0] = start /\ 0 \in 0 .. N
    BY <1>1, <1>9
  <2>2. Round(start, first, 0, bind)
    BY <1>1 DEF Round, AllPorts
  <2>3. TriedSoFar(start, first, 0, bind)
    BY <1>2, <2>2 DEF TriedSoFar
  <2> HIDE DEF start
  <2> QED BY <1>2, <2>1, <2>3
<1>12. ASSUME NEW i \in 1 .. N, tries[i - 1] \in P[i - 1] PROVE tries[i] \in P[i]
  <2>1. i \in 0 .. N /\ i - 1 \in 0 .. N /\ i - 1 \in Nat /\ i - 1 < N /\ i # 0
        /\ i - 1 + 1 = i
    BY <1>1
  <2>2. tries[i] = Try(tries[i - 1], bind)
    BY <1>9, <2>1
  <2>3. TriedSoFar(tries[i - 1], first, i - 1, bind)
    BY <1>12, <2>1
  <2>4. TriedSoFar(tries[i], first, i - 1 + 1, bind)
    <3> DEFINE m == i - 1
               q == tries[i - 1]
    <3>1. m \in Nat /\ m < IPPORT_RESERVED - STARTPORT /\ TriedSoFar(q, first, m, bind)
      BY <2>1, <2>3
    <3> HIDE DEF m, q
    <3>2. TriedSoFar(Try(q, bind), first, m + 1, bind)
      BY <3>1, TryAgain
    <3> QED BY <2>2, <3>2 DEF m, q
  <2>5. TriedSoFar(tries[i], first, i, bind)
    BY <2>1, <2>4
  <2>6. tries[i] \in Tries
    BY <2>5 DEF TriedSoFar
  <2> QED BY <2>1, <2>5, <2>6
<1>13. tries[N] \in P[N]
  <2>1. \A i \in 0 .. N : tries[i] \in P[i]
    <3> HIDE DEF N, P
    <3> QED BY <1>1, <1>11, <1>12, AlongEach
  <2> HIDE DEF P
  <2> QED BY <1>1, <2>1
<1> QED
  <2>1. TriedSoFar(tries[N], first, N, bind)
    BY <1>1, <1>13
  <2> QED BY <1>10, <2>1

(***************************************************************************)
(* bindresvport() says that the ports are in use only when it has tried    *)
(* every port and each was: the round that starts anywhere comes back to   *)
(* its first port, unless bind() succeeds or fails with another error.     *)
(***************************************************************************)
THEOREM PortsAlwaysTried == Spec => []PortsTried
<1> DEFINE Inv == PortsTried /\ port \in AllPorts
<1>1. Init => Inv
  BY DEF Init, PortsTried, AllPorts
<1>2. Inv /\ [Next]_vars => Inv'
  <2> SUFFICES ASSUME Inv, [Next]_vars PROVE Inv'
    OBVIOUS
  <2>1. CASE last' = last /\ port' = port
    BY <2>1 DEF PortsTried
  <2>2. CASE last' = [of |-> "rcmd"] /\ port' = port
    BY <2>2 DEF PortsTried
  <2>3. CASE IsRexec(last') /\ port' = port
    BY <2>3 DEF PortsTried, IsRexec
  <2>4. ASSUME NEW f, NEW rhost, NEW superuser, NEW ruser, NEW luser, NEW domain,
               Allowed(f, rhost, superuser, ruser, luser, domain)
        PROVE  Inv'
    BY <2>4 DEF PortsTried, Allowed
  <2>5. ASSUME NEW inet \in BOOLEAN, NEW bind \in Outcomes, bindresvport(inet, bind)
        PROVE  Inv'
    <3> DEFINE tried == Tried(port, bind)
               end == IF inet THEN tried
                      ELSE [port |-> port, rv |-> "EPFNOSUPPORT", at |-> port]
    <3>1. /\ port' = end.port
          /\ last' = [of |-> "bindresvport", bind |-> bind, rv |-> end.rv, at |-> end.at]
      BY <2>5 DEF bindresvport
    <3>2. TriedSoFar(tried, port, IPPORT_RESERVED - STARTPORT, bind)
      BY TriesEnd DEF AllPorts, Outcomes, Result
    <3> HIDE DEF tried
    <3>3. last'.bind = bind /\ last'.rv = end.rv /\ last'.at = end.at
      BY <3>1
    <3>4. port' \in AllPorts /\ tried.port \in AllPorts
      BY <3>1, <3>2 DEF TriedSoFar, Tries
    <3>5. ASSUME end.rv = "EADDRINUSE" PROVE \A p \in AllPorts : bind[p] = "EADDRINUSE"
      <4>1. inet /\ tried.rv = "EADDRINUSE"
        BY <3>5
      <4>2. /\ STARTPORT \in Nat /\ IPPORT_RESERVED \in Nat
            /\ tried.port \in AllPorts /\ port \in AllPorts
        BY <3>4, PortsAssumption
      <4>3. Round(tried, port, IPPORT_RESERVED - STARTPORT, bind)
        BY <3>2, <4>1 DEF TriedSoFar
      <4>4. tried.port # port + (IPPORT_RESERVED - STARTPORT)
        BY <4>2 DEF AllPorts
      <4>5. /\ tried.port = port
            /\ \A p \in AllPorts : port <= p \/ p < tried.port => bind[p] = "EADDRINUSE"
        BY <4>2, <4>3, <4>4 DEF Round, AllPorts
      <4> QED BY <4>2, <4>5 DEF AllPorts
    <3>6. end.rv \in {"bound", "error"} => bind[end.at] = end.rv
      BY <3>2 DEF TriedSoFar
    <3> HIDE DEF end
    <3> QED BY <3>3, <3>4, <3>5, <3>6 DEF PortsTried, AllPorts
  <2> HIDE DEF Inv
  <2> QED BY <2>1, <2>2, <2>3, <2>4, <2>5, LastCall
<1> QED BY <1>1, <1>2, PTL DEF Spec

-----------------------------------------------------------------------------
(***************************************************************************)
(* rnetrc().  What is known when n tokens of the file have been read.      *)
(***************************************************************************)
Inside == {"entry", "value", "login", "password"}
Places == Inside \cup {"outside", "skipped", "machine", "done"}
Known(V) == [at : Places, name : V, pass : V]

\* The last token read is the one that has led to this place.
Behind(netrc, at, n) ==
    /\ at \in {"machine", "login", "password"} => n >= 1 /\ netrc[n] = at
    /\ at = "value" => n >= 1 /\ netrc[n] \in Skipped
    /\ at = "entry" => n >= 1 /\ netrc[n] \notin {"login", "password"}

\* The entry that is being read began at i, and its logins agree with the name.
Began(netrc, h, q, n, i) ==
    /\ netrc[i] = "machine" /\ Canonical[netrc[i + 1]] = Canonical[h]
    /\ \A p \in i + 1 .. n : netrc[p] # "machine"
    /\ \A p \in i + 1 .. n - 1 : netrc[p] = "login" => q.name = netrc[p + 1]

SoFar(netrc, h, pass, q, n) ==
    /\ Behind(netrc, q.at, n)
    /\ q.at \in Inside => \E i \in 1 .. n - 1 : Began(netrc, h, q, n, i)
    /\ q.pass # pass => q.pass # None /\ Listed(netrc, h, q.name, q.pass)

LEMMA TokenKnown ==
    ASSUME NEW V, NEW q \in Known(V), NEW t \in V, NEW host
    PROVE  Token(host, q, t) \in Known(V)
<1>1. q.at \in Places /\ q.name \in V /\ q.pass \in V
  BY DEF Known
<1> QED BY <1>1 DEF Token, AfterLogin, Known, Places, Inside

\* The grammar of a file, at one of its tokens.
LEMMA Written ==
    ASSUME NEW netrc \in Netrcs \ {Missing}, NEW k \in 1 .. Len(netrc)
    PROVE  /\ netrc[k] # None
           /\ netrc[k] \in Words \ {"default"} =>
                 k < Len(netrc) /\ netrc[k + 1] \notin Words
<1>1. k \in DOMAIN netrc
  BY NetrcsAssumption
<1> QED BY <1>1, NetrcsAssumption

\* A password read in an entry is listed with the name known by then.
LEMMA PasswordStands ==
    ASSUME NEW netrc \in Netrcs \ {Missing}, NEW h, NEW q,
           NEW n \in 1 .. Len(netrc), NEW i \in 1 .. n - 1,
           Began(netrc, h, q, n, i), netrc[n] = "password", n < Len(netrc)
    PROVE  Listed(netrc, h, q.name, netrc[n + 1])
<1>1. DOMAIN netrc = 1 .. Len(netrc) /\ Len(netrc) \in Nat
  BY NetrcsAssumption
<1>2. netrc[i] = "machine" /\ Canonical[netrc[i + 1]] = Canonical[h]
  BY DEF Began
<1>3. i + 1 # n
  <2>1. i \in 1 .. Len(netrc) /\ netrc[i] \in Words \ {"default"}
    BY <1>1, <1>2 DEF Words
  <2>2. netrc[i + 1] \notin Words
    BY <2>1, Written
  <2> QED BY <2>2 DEF Words
<1>4. i \in DOMAIN netrc /\ n \in DOMAIN netrc /\ i + 1 < n
  BY <1>1, <1>3
<1>5. \A p \in i + 2 .. n - 1 :
         netrc[p] # "machine" /\ (netrc[p] = "login" => netrc[p + 1] = q.name)
  <2> TAKE p \in i + 2 .. n - 1
  <2>1. p \in i + 1 .. n /\ p \in i + 1 .. n - 1
    BY <1>1, <1>4
  <2> QED BY <2>1 DEF Began
<1> QED BY <1>2, <1>4, <1>5 DEF Listed

\* Without a name there was no login before the password: it is listed with
\* whatever name is found later.
LEMMA ListedForAny ==
    ASSUME NEW netrc \in Netrcs \ {Missing}, NEW h, NEW pass, NEW name,
           Listed(netrc, h, None, pass)
    PROVE  Listed(netrc, h, name, pass)
<1>1. PICK i, k \in DOMAIN netrc :
        /\ i + 1 < k /\ k < Len(netrc)
        /\ netrc[i] = "machine" /\ Canonical[netrc[i + 1]] = Canonical[h]
        /\ netrc[k] = "password" /\ netrc[k + 1] = pass
        /\ \A n \in i + 2 .. k - 1 :
              /\ netrc[n] # "machine"
              /\ netrc[n] = "login" => netrc[n + 1] = None
  BY DEF Listed
<1>2. DOMAIN netrc = 1 .. Len(netrc) /\ Len(netrc) \in Nat
  BY NetrcsAssumption
<1>3. ASSUME NEW n \in i + 2 .. k - 1 PROVE netrc[n] # "login"
  <2>1. n + 1 \in 1 .. Len(netrc)
    BY <1>1, <1>2
  <2>2. netrc[n + 1] # None
    BY <2>1, Written
  <2> QED BY <1>1, <2>2
<1> QED BY <1>1, <1>3 DEF Listed

\* One more token of the file is read.
LEMMA ReadOn ==
    ASSUME NEW netrc \in Netrcs \ {Missing}, NEW h, NEW pass, NEW V,
           NEW q \in Known(V), NEW n \in Nat, n < Len(netrc),
           SoFar(netrc, h, pass, q, n)
    PROVE  SoFar(netrc, h, pass, Token(Canonical[h], q, netrc[n + 1]), n + 1)
<1> DEFINE t == netrc[n + 1]
           r == Token(Canonical[h], q, t)
<1>1. /\ n + 1 \in 1 .. Len(netrc) /\ Len(netrc) \in Nat
      /\ q.at \in Places
  <2>1. Len(netrc) \in Nat
    BY NetrcsAssumption
  <2> QED BY <2>1 DEF Known
<1>2. t # None
  BY <1>1, Written
<1>3. /\ Behind(netrc, q.at, n)
      /\ q.at \in Inside => \E i \in 1 .. n - 1 : Began(netrc, h, q, n, i)
      /\ q.pass # pass => q.pass # None /\ Listed(netrc, h, q.name, q.pass)
  BY DEF SoFar
\* A value follows the word that takes it.
<1>4. q.at \in {"machine", "login", "password", "value"} => n \in 1 .. Len(netrc) /\ t \notin Words
  <2> SUFFICES ASSUME q.at \in {"machine", "login", "password", "value"}
               PROVE  n \in 1 .. Len(netrc) /\ t \notin Words
    OBVIOUS
  <2>1. n \in 1 .. Len(netrc) /\ netrc[n] \in Words \ {"default"}
    BY <1>1, <1>3 DEF Behind, Words, Skipped
  <2> QED BY <2>1, Written
<1>5. q = [at |-> q.at, name |-> q.name, pass |-> q.pass]
  BY DEF Known
<1> HIDE DEF t
\* Outside of an entry nothing is taken.
<1>6. CASE q.at \in {"outside", "skipped", "done"}
  <2>1. r.at \in {"outside", "skipped", "machine", "done"} /\ r.name = q.name /\ r.pass = q.pass
    BY <1>5, <1>6 DEF Token
  <2>2. r.at = "machine" => t = "machine"
    BY <1>5, <1>6 DEF Token
  <2> HIDE DEF r
  <2>3. Behind(netrc, r.at, n + 1)
    BY <1>1, <2>1, <2>2 DEF Behind, t
  <2>4. r.at \notin Inside
    BY <2>1 DEF Inside
  <2> QED BY <1>3, <2>1, <2>3, <2>4 DEF SoFar, r, t
<1>7. CASE q.at = "machine"
  <2>1. /\ r.name = q.name /\ r.pass = q.pass /\ r.at \in {"entry", "outside"}
        /\ r.at = "entry" => Canonical[t] = Canonical[h]
    BY <1>5, <1>7 DEF Token
  <2> HIDE DEF r
  <2>2. netrc[n] = "machine" /\ n \in 1 .. Len(netrc) /\ t \notin Words
    BY <1>3, <1>4, <1>7 DEF Behind
  <2>3. Behind(netrc, r.at, n + 1)
    BY <1>1, <2>1, <2>2 DEF Behind, t, Words
  <2>4. r.at = "entry" => Began(netrc, h, r, n + 1, n)
    BY <1>1, <2>1, <2>2 DEF Began, t, Words
  <2>5. r.at \in Inside => \E i \in 1 .. n + 1 - 1 : Began(netrc, h, r, n + 1, i)
    BY <1>1, <2>1, <2>2, <2>4 DEF Inside
  <2> QED BY <1>3, <2>1, <2>3, <2>5 DEF SoFar, r, t
\* In an entry.
<1>8. ASSUME q.at \in Inside PROVE SoFar(netrc, h, pass, r, n + 1)
  <2>1. PICK i \in 1 .. n - 1 : Began(netrc, h, q, n, i)
    BY <1>3, <1>8
  <2>2. n \in 1 .. Len(netrc) /\ i \in 1 .. n + 1 - 1 /\ i + 1 <= n
    BY <1>1, <2>1
  <2>4. ASSUME /\ r.name = q.name \/ q.name = None
               /\ t # "machine"
               /\ netrc[n] = "login" => r.name = t
        PROVE  Began(netrc, h, r, n + 1, i)
    <3>1. n + 1 - 1 = n
      BY <2>2
    <3>2. ASSUME NEW p \in i + 1 .. n + 1 PROVE netrc[p] # "machine"
      <4>1. CASE p = n + 1
        BY <2>4, <4>1 DEF t
      <4>2. CASE p # n + 1
        <5>1. p \in i + 1 .. n
          BY <2>2, <4>2
        <5> QED BY <2>1, <5>1 DEF Began
      <4> QED BY <4>1, <4>2
    <3>3. ASSUME NEW p \in i + 1 .. n PROVE netrc[p] = "login" => r.name = netrc[p + 1]
      <4>1. CASE p = n
        BY <2>4, <4>1 DEF t
      <4>2. CASE p # n
        <5>1. p \in i + 1 .. n - 1 /\ p + 1 \in 1 .. Len(netrc)
          BY <1>1, <2>2, <4>2
        <5>2. netrc[p + 1] # None
          BY <5>1, Written
        <5> QED BY <2>1, <2>4, <5>1, <5>2 DEF Began
      <4> QED BY <4>1, <4>2
    <3> HIDE DEF r
    <3> QED BY <2>1, <3>1, <3>2, <3>3 DEF Began
  <2>5. CASE q.at = "entry"
    <3>1. /\ r.name = q.name /\ r.pass = q.pass
          /\ r.at \in {"done", "login", "password", "value", "entry"}
          /\ t = "machine" => r.at = "done"
          /\ r.at \in {"login", "password"} => t = r.at
          /\ r.at = "value" => t \in Skipped
          /\ r.at = "entry" => t \notin {"login", "password"}
      <4> DEFINE at == CASE t = "machine" -> "done"
                         [] t = "login" -> "login"
                         [] t = "password" -> "password"
                         [] t \in Skipped -> "value"
                         [] OTHER -> "entry"
      <4>1. r = [q EXCEPT !.at = at]
        BY <2>5 DEF Token
      <4>2. /\ t = "machine" => at = "done"
            /\ t = "login" => at = "login"
            /\ t = "password" => at = "password"
            /\ t \in Skipped => at = "value"
            /\ t \notin {"machine", "login", "password"} \cup Skipped => at = "entry"
        BY DEF Skipped
      <4> HIDE DEF at, r
      <4>3. r.name = q.name /\ r.pass = q.pass /\ r.at = at
        BY <1>5, <4>1
      <4> QED BY <4>2, <4>3
    <3>2. netrc[n] \notin {"login", "password"}
      BY <1>3, <2>5 DEF Behind
    <3>3. Behind(netrc, r.at, n + 1)
      <4> HIDE DEF r
      <4> QED BY <1>1, <3>1 DEF Behind, t
    <3>4. r.at \in Inside => Began(netrc, h, r, n + 1, i)
      <4>1. r.at \in Inside => t # "machine"
        <5> HIDE DEF r
        <5> QED BY <3>1 DEF Inside
      <4> QED BY <2>4, <3>1, <3>2, <4>1
    <3> HIDE DEF r
    <3> QED BY <1>3, <2>2, <3>1, <3>3, <3>4 DEF SoFar
  <2>6. CASE q.at = "value"
    <3>1. r.name = q.name /\ r.pass = q.pass /\ r.at = "entry"
      BY <1>5, <2>6 DEF Token
    <3>2. netrc[n] \in Skipped /\ t \notin Words
      BY <1>3, <1>4, <2>6 DEF Behind
    <3>3. Behind(netrc, r.at, n + 1)
      <4> HIDE DEF r
      <4> QED BY <1>1, <3>1, <3>2 DEF Behind, t, Words
    <3>4. Began(netrc, h, r, n + 1, i)
      BY <2>4, <3>1, <3>2 DEF Words, Skipped
    <3> HIDE DEF r
    <3> QED BY <1>3, <2>2, <3>1, <3>3, <3>4 DEF SoFar
  <2>7. CASE q.at = "login"
    <3>1. /\ r.name = (IF q.name = None THEN t ELSE q.name) /\ r.pass = q.pass
          /\ r.at = (IF q.name \in {None, t} THEN "entry" ELSE "outside")
      BY <1>5, <2>7 DEF Token, AfterLogin
    <3>2. netrc[n] = "login" /\ t \notin Words
      BY <1>3, <1>4, <2>7 DEF Behind
    <3>3. Behind(netrc, r.at, n + 1)
      <4> HIDE DEF r
      <4> QED BY <1>1, <3>1, <3>2 DEF Behind, t, Words
    <3>4. r.at \in Inside => Began(netrc, h, r, n + 1, i)
      BY <2>4, <3>1, <3>2 DEF Words, Inside
    <3>5. q.pass # pass => Listed(netrc, h, r.name, q.pass)
      BY <1>3, <3>1, ListedForAny
    <3> HIDE DEF r
    <3> QED BY <1>3, <2>2, <3>1, <3>3, <3>4, <3>5 DEF SoFar
  <2>8. CASE q.at = "password"
    <3>1. /\ r.pass = (IF q.pass = None THEN t ELSE q.pass) /\ r.name = q.name
          /\ r.at = "entry"
      BY <1>5, <2>8 DEF Token
    <3>2. netrc[n] = "password" /\ t \notin Words
      BY <1>3, <1>4, <2>8 DEF Behind
    <3>3. Behind(netrc, r.at, n + 1)
      <4> HIDE DEF r
      <4> QED BY <1>1, <3>1, <3>2 DEF Behind, t, Words
    <3>4. Began(netrc, h, r, n + 1, i)
      BY <1>2, <2>4, <3>1, <3>2 DEF Words
    <3>5. Listed(netrc, h, q.name, t)
      BY <1>1, <2>1, <2>2, <3>2, PasswordStands DEF t
    <3> HIDE DEF r
    <3> QED BY <1>2, <1>3, <2>2, <3>1, <3>3, <3>4, <3>5 DEF SoFar
  <2> QED BY <1>8, <2>5, <2>6, <2>7, <2>8 DEF Inside
<1> QED BY <1>1, <1>6, <1>7, <1>8 DEF Places, t

\* What rnetrc() makes of the name and the password it is given.
LEMMA NetrcRead ==
    ASSUME NEW netrc \in Netrcs, NEW h, NEW user
    PROVE  LET q == rnetrc(netrc, Canonical[h], user)
           IN q.pass # user.pass =>
                 /\ netrc # Missing /\ q.pass # None
                 /\ Listed(netrc, h, q.name, q.pass)
<1>1. CASE netrc = Missing
  BY <1>1 DEF rnetrc
<1>2. CASE netrc # Missing
  <2> DEFINE N == Len(netrc)
             host == Canonical[h]
             V == {user.name, user.pass} \cup {netrc[i] : i \in 1 .. N}
             start == [at |-> "outside", name |-> user.name, pass |-> user.pass]
             step == [i \in 1 .. N |-> [q \in Known(V) |-> Token(host, q, netrc[i])]]
             read[n \in 0 .. N] ==
                 IF n = 0 THEN [at |-> "outside", name |-> user.name, pass |-> user.pass]
                 ELSE Token(host, read[n - 1], netrc[n])
             P == [n \in 0 .. N |->
                      {q \in Known(V) : SoFar(netrc, h, user.pass, q, n)}]
  <2>1. netrc \in Netrcs \ {Missing} /\ N \in Nat
    BY <1>2, NetrcsAssumption
  <2>2. start \in Known(V)
    BY DEF Known, Places
  <2>3. \A i \in 1 .. N : \A q \in Known(V) : Token(host, q, netrc[i]) \in Known(V)
    <3> SUFFICES ASSUME NEW i \in 1 .. N, NEW q \in Known(V)
                 PROVE  Token(host, q, netrc[i]) \in Known(V)
      OBVIOUS
    <3>1. netrc[i] \in V
      OBVIOUS
    <3> HIDE DEF V, host
    <3> QED BY <3>1, TokenKnown
  <2> HIDE DEF V
  <2>4. step \in [1 .. N -> [Known(V) -> Known(V)]]
    BY <2>3
  <2>5. PICK f : Iterates(f, N, Known(V), start, step)
    <3> HIDE DEF N, start, step, read, P
    <3> QED BY <2>1, <2>2, <2>4, Iteration, Zenon
  <2>6. f \in [0 .. N -> Known(V)] /\ f[0] = start
    BY <2>5 DEF Iterates
  <2>7. ASSUME NEW i \in 1 .. N PROVE f[i] = Token(host, f[i - 1], netrc[i])
    <3>1. i - 1 \in 0 .. N
      BY <2>1
    <3>2. f[i - 1] \in Known(V) /\ f[i] = step[i][f[i - 1]]
      BY <2>5, <2>6, <3>1 DEF Iterates
    <3> QED BY <3>2
  <2>8. f = [n \in 0 .. N |-> IF n = 0 THEN start ELSE Token(host, f[n - 1], netrc[n])]
    <3> HIDE DEF start, host
    <3> QED BY <2>6, <2>7
  <2>9. read = [n \in 0 .. N |->
                   IF n = 0 THEN [at |-> "outside", name |-> user.name, pass |-> user.pass]
                   ELSE Token(host, read[n - 1], netrc[n])]
    BY <2>8
  <2>10. rnetrc(netrc, host, user) = [name |-> read[N].name, pass |-> read[N].pass]
    BY <1>2, Zenon DEF rnetrc
  <2> HIDE DEF read
  <2>11. read[0] \in P[0]
    <3>1. read[0] = start /\ 0 \in 0 .. N
      BY <2>1, <2>9
    <3>2. SoFar(netrc, h, user.pass, start, 0)
      BY DEF SoFar, Behind, Inside
    <3> HIDE DEF start
    <3> QED BY <2>2, <3>1, <3>2
  <2>12. ASSUME NEW i \in 1 .. N, read[i - 1] \in P[i - 1] PROVE read[i] \in P[i]
    <3> DEFINE m == i - 1
               q == read[m]
    <3>1. /\ i \in 0 .. N /\ m \in 0 .. N /\ m \in Nat /\ m < Len(netrc) /\ i # 0
          /\ m + 1 = i
      BY <2>1
    <3>2. read[i] = Token(host, q, netrc[i])
      BY <2>9, <3>1
    <3>3. q \in Known(V) /\ SoFar(netrc, h, user.pass, q, m)
      BY <2>12, <3>1
    <3> HIDE DEF m, q
    <3>4. SoFar(netrc, h, user.pass, Token(Canonical[h], q, netrc[m + 1]), m + 1)
      BY <2>1, <3>1, <3>3, ReadOn
    <3>5. SoFar(netrc, h, user.pass, read[i], i)
      BY <3>1, <3>2, <3>4
    <3>6. read[i] \in Known(V)
      BY <2>3, <3>2, <3>3
    <3> QED BY <3>1, <3>5, <3>6
  <2>13. read[N] \in P[N]
    <3>1. \A i \in 0 .. N : read[i] \in P[i]
      <4> HIDE DEF N, P
      <4> QED BY <2>1, <2>11, <2>12, AlongEach
    <3> HIDE DEF P
    <3> QED BY <2>1, <3>1
  <2>14. SoFar(netrc, h, user.pass, read[N], N)
    BY <2>1, <2>13
  <2> QED BY <1>2, <2>10, <2>14 DEF SoFar
<1> QED BY <1>1, <1>2

(***************************************************************************)
(* A password that rexec() takes from the netrc file stands in an entry of *)
(* the host it connects to, and the logins before it in the entry are the  *)
(* one that is sent with it: token() and rnetrc() of rusrpass.c, for every *)
(* file in which a value follows each word that takes one.                 *)
(***************************************************************************)
THEOREM PasswordAlwaysListed == Spec => []PasswordListed
<1>1. Init => PasswordListed
  BY DEF Init, PasswordListed
<1>2. PasswordListed /\ [Next]_vars => PasswordListed'
  <2> SUFFICES ASSUME PasswordListed, [Next]_vars PROVE PasswordListed'
    OBVIOUS
  <2>1. CASE last' = last
    BY <2>1 DEF PasswordListed
  <2>2. CASE last' = [of |-> "rcmd"]
    BY <2>2 DEF PasswordListed
  <2>3. CASE IsRexec(last')
    <3>1. PICK host \in Hosts, netrc \in Netrcs, env \in Envs, user \in Users :
            \E sent \in ruserpass(env, netrc, host, user) :
              last' = [of |-> "rexec", host |-> host, netrc |-> netrc, env |-> env,
                       user |-> user, sent |-> sent]
      BY <2>3 DEF IsRexec
    <3>2. PICK sent \in ruserpass(env, netrc, host, user) :
              last' = [of |-> "rexec", host |-> host, netrc |-> netrc, env |-> env,
                       user |-> user, sent |-> sent]
      BY <3>1
    <3> DEFINE Read(e) == IF None \in {e.name, e.pass}
                          THEN rnetrc(netrc, Canonical[host], e) ELSE e
    <3>3. PICK e \in renv(env, Canonical[host], user) : sent = Complete(Read(e))
      BY <3>2 DEF ruserpass
    <3>4. e.pass \in {user.pass, Garbage}
      BY <3>3 DEF renv
    <3> DEFINE f == Read(e)
    <3>5. sent = [name |-> IF f.name = None THEN Asked ELSE f.name,
                  pass |-> IF f.pass = None THEN Asked ELSE f.pass]
      BY <3>3 DEF Complete
    <3>6. f.pass # e.pass => /\ netrc # Missing /\ f.pass # None
                            /\ Listed(netrc, host, f.name, f.pass)
      <4>1. LET q == rnetrc(netrc, Canonical[host], e)
            IN q.pass # e.pass => /\ netrc # Missing /\ q.pass # None
                                  /\ Listed(netrc, host, q.name, q.pass)
        BY NetrcRead
      <4> QED BY <4>1
    <3> HIDE DEF f
    <3>7. /\ sent.name = IF f.name = None THEN Asked ELSE f.name
          /\ sent.pass = IF f.pass = None THEN Asked ELSE f.pass
      BY <3>5
    <3>8. f.pass # e.pass => Listed(netrc, host, sent.name, f.pass)
      BY <3>6, <3>7, ListedForAny
    <3>9. \/ sent.pass \in {user.pass, Asked, Garbage}
          \/ Listed(netrc, host, sent.name, sent.pass)
      BY <3>4, <3>6, <3>7, <3>8
    <3>10. /\ last'.host = host /\ last'.netrc = netrc /\ last'.user = user
           /\ last'.sent = sent
      BY <3>2
    <3> QED BY <3>9, <3>10 DEF PasswordListed
  <2>4. ASSUME NEW g, NEW rhost, NEW superuser, NEW ruser, NEW luser, NEW domain,
               Allowed(g, rhost, superuser, ruser, luser, domain)
        PROVE  PasswordListed'
    BY <2>4 DEF PasswordListed, Allowed
  <2>5. ASSUME NEW inet, NEW bind, bindresvport(inet, bind) PROVE PasswordListed'
    BY <2>5 DEF bindresvport, PasswordListed
  <2> QED BY <2>1, <2>2, <2>3, <2>4, <2>5, LastCall
<1> QED BY <1>1, <1>2, PTL DEF Spec
=============================================================================

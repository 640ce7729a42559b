----------------------------- MODULE HostLookup -----------------------------
(***************************************************************************)
(* gethostbyname(), gethostbyaddr(), gethostent(), sethostent() and        *)
(* endhostent(): src/inet/ghstnmad.c and shstent.c.                        *)
(*                                                                         *)
(* A name is a sequence of labels, the last one Root when it ends in a     *)
(* dot.  A host is a record [name, aliases, addrs].  What the resolver     *)
(* returns for a query is a record [rc, rrs, astray, room] of h_errno, the *)
(* answer's records [type, owner, data], what they are taken for once a    *)
(* CNAME has been passed over without its data, and the texts of them that *)
(* fit in hostbuf; the Resolver modules show how it gets it.  A record of  *)
(* another class or with an address of another length is of type           *)
(* "foreign", one with a name that cannot be expanded "malformed".         *)
(***************************************************************************)
EXTENDS HostConf, Integers

CONSTANTS
    Inputs,             \* [hosts, conf, env, dns]: files and environment
    HostNames, Addresses, \* what can be looked up; addresses are numbers
    Bytes, ByteBits,    \* of so many bytes, of so many bits each
    Root,               \* the empty label
    Localname,          \* gethostname()
    inet_addr,          \* of each name made of digits, its value or None
    MAXADDRS,           \* entries of h_addr_ptrs[], with the NULL at its end
    ForwardAnswers, ReverseAnswers, \* to queries of type A and PTR
    Null, Aborts        \* no result; the program has called abort()

\* What is returned instead of a host has no addresses.
ASSUME NullAssumption ==
    /\ Null # Aborts /\ "addrs" \notin DOMAIN Null \cup DOMAIN Aborts
    /\ None \notin Service

IsSequence(s) == s \in Seq({s[n] : n \in DOMAIN s})

(***************************************************************************)
(* The files, the environment and the answers.  A line of the hosts file   *)
(* has a name, and no name there ends in a dot.  The names in an answer    *)
(* are names, and a query for addresses gets no record of type PTR.        *)
(***************************************************************************)
ASSUME InputsAssumption ==
    /\ Bytes \in Nat /\ ByteBits \in Nat /\ MAXADDRS \in Nat /\ MAXADDRS >= 2
    /\ \A i \in Inputs :
          /\ i.hosts # Missing =>
                /\ IsSequence(i.hosts)
                /\ \A n \in DOMAIN i.hosts : i.hosts[n].kind = "entry" =>
                      /\ IsSequence(i.hosts[n].names) /\ i.hosts[n].names # <<>>
                      /\ \A k \in DOMAIN i.hosts[n].names :
                            LET name == i.hosts[n].names[k]
                            IN name = <<>> \/ Last(name) # Root
          /\ i.conf # Missing =>
                /\ IsSequence(i.conf)
                /\ \A n \in DOMAIN i.conf :
                      i.conf[n].cmd \in {"order", "trim"} => IsSequence(i.conf[n].args)
          /\ i.env.order # None => IsSequence(i.env.order)
    /\ \A ans \in ForwardAnswers \cup ReverseAnswers :
          /\ ans.room \in Nat
          /\ IsSequence(ans.rrs) /\ IsSequence(ans.astray)
          /\ Len(ans.astray) = Len(ans.rrs)
          /\ \A rrs \in {ans.rrs, ans.astray} : \A n \in DOMAIN rrs :
                /\ rrs[n].type \in {"PTR", "CNAME"} => IsSequence(rrs[n].data)
                /\ rrs[n].type = "A" => IsSequence(rrs[n].owner)
    /\ \A ans \in ForwardAnswers : \A rrs \in {ans.rrs, ans.astray} :
          \A n \in DOMAIN rrs : rrs[n].type # "PTR"

(***************************************************************************)
(* _gethtbyname() does not look whether an address still fits in its own   *)
(* array of MAXADDRS addresses: no name in the hosts file has more.        *)
(***************************************************************************)
ASSUME HostsFileAssumption ==
    \A i \in Inputs : i.hosts # Missing =>
       \A m \in DOMAIN i.hosts : i.hosts[m].kind = "entry" =>
          \A name \in Range(i.hosts[m].names) :
             Cardinality({n \in DOMAIN i.hosts :
                            /\ i.hosts[n].kind = "entry"
                            /\ name \in Range(i.hosts[n].names)}) <= MAXADDRS

VARIABLES
    input,              \* the files and environment of this program
    services,           \* what init_services() has found out, or None
    hosts, hostdb,      \* hostf; whether HOSTDB holds its name
    stay, vc,           \* RES_STAYOPEN; whether the resolver keeps a socket
    h_errno,
    call                \* history: the last call

hostVars == <<input, services, hosts, hostdb, stay, vc, h_errno, call>>

-----------------------------------------------------------------------------
(* Domain trimming. *)

\* dotrimdomain(): domains are cut off one after the other.
Trim(domains, name) ==
    LET Cut(n, d) == IF Len(n) > Len(d) /\ IsSuffix(d, n)
                     THEN SubSeq(n, 1, Len(n) - Len(d)) ELSE n
        trimmed[n \in 0 .. Len(domains)] ==
            IF n = 0 THEN name ELSE Cut(trimmed[n - 1], domains[n])
    IN trimmed[Len(domains)]

trim_domains(domains, hp) ==
    IF hp \in {Null, Aborts} THEN hp
    ELSE [hp EXCEPT !.name = Trim(domains, @),
                    !.aliases = [n \in DOMAIN @ |-> Trim(domains, @[n])]]

-----------------------------------------------------------------------------
(* Answers of the name server. *)

\* The record that is read as the nth.
RecordAt(ans, h, n) == IF h.stray THEN ans.astray[n] ELSE ans.rrs[n]

\* The owner of the nth record still fits in hostbuf, and so does its data.
OwnerFits(ans, n) == 2 * n - 1 <= ans.room
DataFits(ans, n) == 2 * n <= ans.room

(***************************************************************************)
(* A CNAME of a query for addresses.  When the array of aliases is full    *)
(* its data is not read and taken for the next record.                     *)
(***************************************************************************)
Canonical(h, rr, fits) ==
    IF Len(h.aliases) >= MAXALIASES - 1 THEN [h EXCEPT !.stray = TRUE]
    ELSE [h EXCEPT !.aliases = Append(@, rr.owner),
                   !.name = IF fits THEN rr.data ELSE @,
                   !.over = ~fits]

\* Mutant: the address that finds no more room in the array replaces the last.
Address_Overwrites(h, rr, fits) ==
    LET addrs == IF Len(h.addrs) < MAXADDRS - 1 THEN Append(h.addrs, rr.data)
                 ELSE [h.addrs EXCEPT ![Len(h.addrs)] = rr.data]
    IN [h EXCEPT !.name = IF h.addrs = <<>> THEN rr.owner ELSE @,
                 !.addrs = IF fits THEN addrs ELSE @,
                 !.over = ~fits]

\* An address, the first of which gives the host its name.
Address(h, rr, fits) ==
    [h EXCEPT !.name = IF h.addrs = <<>> THEN rr.owner ELSE @,
              !.addrs = IF fits /\ Len(@) < MAXADDRS - 1 THEN Append(@, rr.data)
                        ELSE @,
              !.over = ~fits]

Over(h) == [h EXCEPT !.over = TRUE]

\* What getanswer() does with the nth record, whose data may fit.
Answer(qtype, h, rr, fits) ==
    CASE rr.type = "foreign" -> h
      [] rr.type = "malformed" -> Over(h)
      [] rr.type = "CNAME" /\ qtype = "A" -> Canonical(h, rr, fits)
      [] rr.type = "CNAME" /\ qtype = "PTR" -> [h EXCEPT !.over = ~fits]
      [] rr.type = "PTR" ->
            IF fits THEN Over([h EXCEPT !.name = rr.data, !.found = TRUE])
            ELSE Over(h)
      [] rr.type = "A" -> Address(h, rr, fits)
      [] OTHER -> Over([h EXCEPT !.aborts = TRUE])

Unanswered == [name |-> <<>>, aliases |-> <<>>, addrs |-> <<>>, stray |-> FALSE,
               found |-> FALSE, over |-> FALSE, aborts |-> FALSE]

AnswerAt(qtype, ans, h, n) ==
    IF h.over THEN h
    ELSE IF ~OwnerFits(ans, n) THEN Over(h)
    ELSE Answer(qtype, h, RecordAt(ans, h, n), DataFits(ans, n))

\* The records one after the other.
Answered(qtype, ans) ==
    LET h[n \in 0 .. Len(ans.rrs)] ==
            IF n = 0 THEN Unanswered ELSE AnswerAt(qtype, ans, h[n - 1], n)
    IN h[Len(ans.rrs)]

getanswer(qtype, ans) ==
    LET h == Answered(qtype, ans)
    IN CASE h.aborts -> Aborts
         [] ~h.aborts /\ ~h.found /\ h.addrs = <<>> -> Null
         [] OTHER -> [name |-> h.name, aliases |-> h.aliases, addrs |-> h.addrs]

-----------------------------------------------------------------------------
(* The hosts file. *)

Lines == input.hosts
Entry(i) == [name |-> Lines[i].names[1], aliases |-> Tail(NamesKept(Lines[i])),
             addrs |-> <<Lines[i].key>>]

AllEntries == Ahead(Lines, Rewound(Lines))
Naming(name) == {i \in AllEntries : name \in Range(NamesKept(Lines[i]))}

_sethtent(f) == Rewound(Lines)

\* Mutant: the resolver's options are not looked at.
_endhtent(f, staying) == IF staying THEN f ELSE Shut

\* These lines, as they are read.
InOrder(I) ==
    LET read[n \in 0 .. Len(Lines)] ==
            IF n = 0 THEN <<>>
            ELSE IF n \in I THEN Append(read[n - 1], n) ELSE read[n - 1]
    IN read[Len(Lines)]

\* The exclusive or of two addresses.
Xor(a, b) ==
    LET Bit(x, n) == (x \div 2^n) % 2
        sum[n \in 0 .. Bytes * ByteBits] ==
            IF n = 0 THEN 0
            ELSE sum[n - 1] + IF Bit(a, n - 1) # Bit(b, n - 1) THEN 2^(n - 1) ELSE 0
    IN sum[Bytes * ByteBits]

\* The bytes of a number in the other order.
Swapped(a) ==
    LET Byte(n) == (a \div 2^(ByteBits * n)) % 2^ByteBits
        sum[n \in 0 .. Bytes] ==
            IF n = 0 THEN 0 ELSE sum[n - 1] * 2^ByteBits + Byte(n - 1)
    IN sum[Bytes]

\* The address nearest to one of the local host's, in whose numbers alone the
\* bytes are in the host's order, changes places with the first.
NearestFirst(addrs) ==
    LET locals == InOrder(Naming(Localname))
        pairs == (DOMAIN locals) \X (DOMAIN addrs)
        Value(p) == Xor(Lines[locals[p[1]]].key, Swapped(addrs[p[2]]))
        best == {p \in pairs : \A q \in pairs : Value(p) <= Value(q)}
        first == CHOOSE p \in best :
                    \A q \in best : p[1] < q[1] \/ (p[1] = q[1] /\ p[2] <= q[2])
    IN IF best = {} THEN addrs
       ELSE [addrs EXCEPT ![1] = addrs[first[2]], ![first[2]] = addrs[1]]

\* With "multi on" the name is that of the last entry that has it as an
\* alias, and the aliases are those of the first entry that has any.
AllOf(name, I) ==
    LET alias == {i \in I : Lines[i].names[1] # name}
        some  == {i \in I : Len(NamesKept(Lines[i])) > 1}
        last  == CHOOSE i \in alias : \A j \in alias : i >= j
        seq   == InOrder(I)
    IN [name    |-> IF alias = {} THEN name ELSE Lines[last].names[1],
        aliases |-> IF some = {} THEN <<>> ELSE Entry(Least(some)).aliases,
        addrs   |-> NearestFirst([n \in DOMAIN seq |-> Lines[seq[n]].key])]

(***************************************************************************)
(* What a call has found out so far: the result, h_errno, the state of the *)
(* hosts file, the services asked, the one that has answered, and whether  *)
(* the call returns without asking others.                                 *)
(***************************************************************************)
Start == [rv |-> Null, err |-> h_errno, at |-> hosts, db |-> hostdb,
          asked |-> {}, by |-> None, over |-> FALSE]

Found(r, service, hp) ==
    [r EXCEPT !.rv = hp, !.err = "NETDB_SUCCESS", !.by = service,
              !.over = TRUE]

NotFound(r, err) == [r EXCEPT !.rv = Null, !.err = err, !.by = None]

Asked(r, service) == [r EXCEPT !.asked = @ \cup {service}]

\* _sethtent(), _gethtent() up to an entry of I or the end, _endhtent().
Scanned(r, I) ==
    [Asked(r, "hosts") EXCEPT
        !.at = _endhtent(ReadTo(Lines, _sethtent(r.at), I), stay),
        !.db = TRUE]

\* _gethtbyname().
HostByName(c, name, r) ==
    LET I == Naming(name) \cap Ahead(Lines, _sethtent(r.at))
        q == Scanned(r, IF c.multi THEN {} ELSE I)
    IN IF I = {} THEN NotFound(q, "HOST_NOT_FOUND")
       ELSE Found(q, "hosts",
                  trim_domains(c.trim, IF c.multi THEN AllOf(name, I)
                                       ELSE Entry(Least(I))))

\* res_search() and getanswer().
BindByName(c, ans, r) ==
    LET hp == getanswer("A", ans)
        q  == Asked(r, "bind")
    IN CASE ans.rc # "NETDB_SUCCESS" -> NotFound(q, ans.rc)
         [] ans.rc = "NETDB_SUCCESS" /\ hp = Null -> NotFound(q, "TRY_AGAIN")
         [] OTHER -> Found(q, "bind", trim_domains(c.trim, hp))

\* The loop of gethostbyname() over the services.
AskByName(c, name, ans, q, service) ==
    CASE q.over -> q
      [] ~q.over /\ service = "bind"  -> BindByName(c, ans, q)
      [] ~q.over /\ service = "hosts" -> HostByName(c, Trim(c.trim, name), q)
      [] OTHER -> q

ByName(c, name, ans, r) ==
    LET q[n \in 0 .. Len(c.order)] ==
            IF n = 0 THEN r ELSE AskByName(c, name, ans, q[n - 1], c.order[n])
    IN q[Len(c.order)]

\* _gethtbyaddr(): no trimming, and one address.
HostByAddr(addr, r) ==
    LET I == {i \in Ahead(Lines, _sethtent(r.at)) : Lines[i].key = addr}
        q == Scanned(r, I)
    IN IF I = {} THEN NotFound(q, "HOST_NOT_FOUND")
       ELSE Found(q, "hosts", Entry(Least(I)))

\* Mutant: the name is compared and the address is not.
Confirms_NameOnly(hp, name, addr) == hp.name = name

\* The host that gethostbyname() returns has the name and the address.
Confirms(hp, name, addr) == hp.name = name /\ addr \in Range(hp.addrs)

(***************************************************************************)
(* With "nospoof on" the name the server gave is looked up, without        *)
(* trimming, by all the services; what it is not confirmed by is final.    *)
(***************************************************************************)
Verified(c, addr, name, fwd, r) ==
    LET q == ByName([c EXCEPT !.trim = <<>>], Append(name, Root), fwd, r)
    IN CASE q.rv = Aborts -> q
         [] q.rv \notin {Null, Aborts} /\ Confirms(q.rv, name, addr) ->
               Found(q, "bind", trim_domains(c.trim, q.rv))
         [] OTHER -> [NotFound(q, "HOST_NOT_FOUND") EXCEPT !.over = TRUE]

\* res_query() of the address in in-addr.arpa, and getanswer().
BindByAddr(c, addr, rev, fwd, r) ==
    LET hp == getanswer("PTR", rev)
        q  == Asked(r, "bind")
    IN CASE rev.rc # "NETDB_SUCCESS" -> NotFound(q, rev.rc)
         [] rev.rc = "NETDB_SUCCESS" /\ hp = Null ->
               NotFound(q, "HOST_NOT_FOUND")
         [] rev.rc = "NETDB_SUCCESS" /\ hp = Aborts -> Found(q, "bind", Aborts)
         [] OTHER ->
               IF c.spoof THEN Verified(c, addr, hp.name, fwd, q)
               ELSE Found(q, "bind",
                          trim_domains(c.trim, [hp EXCEPT !.addrs = <<addr>>]))

\* The loop of gethostbyaddr() over the services.
AskByAddr(c, addr, rev, fwd, q, service) ==
    CASE q.over -> q
      [] ~q.over /\ service = "bind"  -> BindByAddr(c, addr, rev, fwd, q)
      [] ~q.over /\ service = "hosts" -> HostByAddr(addr, q)
      [] OTHER -> q

ByAddr(c, addr, rev, fwd, r) ==
    LET q[n \in 0 .. Len(c.order)] ==
            IF n = 0 THEN r ELSE AskByAddr(c, addr, rev, fwd, q[n - 1], c.order[n])
    IN q[Len(c.order)]

-----------------------------------------------------------------------------
(* The calls. *)

Running == call.rv # Aborts

\* What init_services() has found out before, or finds out now.
Configured ==
    IF services # None THEN services
    ELSE init_services(input.conf, input.env, input.dns)

(***************************************************************************)
(* A call that returns r.  The resolver keeps a connection open, if it has *)
(* one, as long as RES_STAYOPEN is set.                                    *)
(***************************************************************************)
Returns(fn, r, arg, fwd) ==
    /\ hosts' = r.at
    /\ hostdb' = r.db
    /\ h_errno' = r.err
    /\ IF "bind" \in r.asked THEN vc' \in {FALSE, stay} ELSE UNCHANGED vc
    /\ call' = [fn |-> fn, arg |-> arg, rv |-> r.rv, by |-> r.by,
                asked |-> r.asked, fwd |-> fwd]
    /\ UNCHANGED <<input, stay>>

NoAnswer == [rc |-> "HOST_NOT_FOUND", rrs |-> <<>>, astray |-> <<>>, room |-> 0]

\* The answers to a query, if one may be sent.
Answers(replies, sent) ==
    IF sent /\ "bind" \in Range(Configured.order) THEN replies ELSE {NoAnswer}

\* gethostbyname() of a name made of digits and dots asks nobody.
gethostbyname_numeric(name) ==
    /\ Running
    /\ name \in DOMAIN inet_addr
    /\ LET a == inet_addr[name]
           host == [name |-> name, aliases |-> <<>>, addrs |-> <<a>>]
       IN Returns("byname", IF a = None THEN NotFound(Start, "HOST_NOT_FOUND")
                            ELSE Found(Start, None, host), name, NoAnswer)
    /\ UNCHANGED services

gethostbyname(name) ==
    /\ Running
    /\ name \notin DOMAIN inet_addr
    /\ services' = Configured
    /\ \E ans \in Answers(ForwardAnswers, TRUE) :
          Returns("byname", ByName(Configured, name, ans, Start), name, ans)

gethostbyaddr(addr) ==
    /\ Running
    /\ services' = Configured
    /\ \E rev \in Answers(ReverseAnswers, TRUE),
          fwd \in Answers(ForwardAnswers, Configured.spoof) :
          Returns("byaddr", ByAddr(Configured, addr, rev, fwd, Start), addr, fwd)

\* An address of a family other than AF_INET.
gethostbyaddr_family ==
    /\ Running
    /\ Returns("byaddr", NotFound(Start, "NETDB_INTERNAL"), None, NoAnswer)
    /\ UNCHANGED services

\* _gethtent(): HOSTDB is empty until a lookup has filled it in.
NextHost(r) ==
    LET f == IF r.at.open \/ r.db THEN Opened(Lines, r.at) ELSE r.at
        I == Ahead(Lines, f)
        q == [Asked(r, "hosts") EXCEPT !.at = ReadTo(Lines, f, I)]
    IN IF I = {} THEN NotFound(q, "HOST_NOT_FOUND")
       ELSE Found(q, "hosts", Entry(Least(I)))

Iterated(order) ==
    LET q[n \in 0 .. Len(order)] ==
            IF n = 0 THEN Start
            ELSE IF q[n - 1].over \/ order[n] # "hosts" THEN q[n - 1]
            ELSE NextHost(q[n - 1])
    IN q[Len(order)]

gethostent ==
    /\ Running
    /\ services' = Configured
    /\ Returns("ent", Iterated(Configured.order), None, NoAnswer)

\* sethostent(): an option is set, and none is taken back.
sethostent(stayopen) ==
    /\ Running
    /\ stay' = (stay \/ stayopen)
    /\ call' = [call EXCEPT !.fn = "set", !.rv = Null]
    /\ UNCHANGED <<input, services, hosts, hostdb, vc, h_errno>>

\* Mutant: the file is closed before the option is taken back.
endhostent_CloseFirst == _endhtent(hosts, stay)

\* endhostent(): _endhtent() once RES_STAYOPEN is taken back.
Closed == _endhtent(hosts, FALSE)

endhostent ==
    /\ Running
    /\ stay' = FALSE
    /\ vc' = FALSE
    /\ hosts' = Closed
    /\ call' = [call EXCEPT !.fn = "end", !.rv = Null]
    /\ UNCHANGED <<input, services, hostdb, h_errno>>

HostInit ==
    /\ input \in Inputs
    /\ services = None
    /\ hosts = Shut
    /\ hostdb = FALSE
    /\ stay = FALSE
    /\ vc = FALSE
    /\ h_errno = "NETDB_SUCCESS"
    /\ call = [fn |-> "none", arg |-> None, rv |-> Null, by |-> None,
               asked |-> {}, fwd |-> NoAnswer]

HostNext ==
    \/ \E name \in HostNames : gethostbyname_numeric(name) \/ gethostbyname(name)
    \/ \E addr \in Addresses : gethostbyaddr(addr)
    \/ gethostbyaddr_family
    \/ gethostent
    \/ \E stayopen \in BOOLEAN : sethostent(stayopen)
    \/ endhostent

-----------------------------------------------------------------------------
Conf == init_services(input.conf, input.env, input.dns)

\* The records of an answer that have addresses: those whose texts fit and which
\* no malformed record precedes.
Offering(ans) ==
    IF ans.rc # "NETDB_SUCCESS" THEN {}
    ELSE {n \in DOMAIN ans.rrs :
            /\ ans.rrs[n].type = "A" /\ DataFits(ans, n)
            /\ \A m \in 1 .. n : ans.rrs[m].type # "malformed"}

Offered(ans) == {ans.rrs[n].data : n \in Offering(ans)}

\* So many aliases that one of them makes getanswer() lose its place.
Astray(ans) ==
    Cardinality({n \in DOMAIN ans.rrs : ans.rrs[n].type = "CNAME"}) >= MAXALIASES

\* A record of a type that getanswer() has no case for.
Unexpected(ans) ==
    \E n \in DOMAIN ans.rrs :
       ans.rrs[n].type \notin {"A", "CNAME", "PTR", "foreign", "malformed"}

(***************************************************************************)
(* These are addresses of the answer, each record's once and in the order  *)
(* of the records: all, or the first that the array holds.                 *)
(***************************************************************************)
FirstOf(addrs, ans) ==
    \E from \in [DOMAIN addrs -> Offering(ans)] :
       /\ \A n \in DOMAIN addrs : addrs[n] = ans.rrs[from[n]].data
       /\ \A m, n \in DOMAIN addrs : m < n => from[m] < from[n]
       /\ \A k \in Offering(ans) \ Range(from) :
             Len(addrs) = MAXADDRS - 1 /\ \A n \in DOMAIN addrs : from[n] < k

\* The addresses a service has for a name.
AddressesAt(service, name, ans) ==
    CASE service = "hosts" -> {Lines[i].key : i \in Naming(Trim(Conf.trim, name))}
      [] service = "bind"  -> Offered(ans)
      [] OTHER -> {}

\* Those a service returns of the ones it has.
Serves(service, addrs, known, multi, ans) ==
    CASE service = "bind" -> FirstOf(addrs, ans)
      [] service # "bind" /\ multi -> Range(addrs) = known
      [] OTHER -> addrs # <<>> /\ Range(addrs) \subseteq known

(***************************************************************************)
(* gethostbyname() answers from the first service of the order that knows  *)
(* the name: with the first MAXADDRS - 1 addresses of DNS in their order,  *)
(* or with addresses of the hosts file, all of them if "multi on" is set;  *)
(* whatever earlier calls did to the hosts file's stream and wherever an   *)
(* iteration of it stands.  It aborts only because of a record of a type   *)
(* it has no case for.  An answer with so many aliases that getanswer()    *)
(* loses its place in it is the exception.                                 *)
(***************************************************************************)
ByNameRight ==
    (call.fn = "byname" /\ call.asked # {} /\ ~Astray(call.fwd)) =>
       LET Known(n) == AddressesAt(Conf.order[n], call.arg, call.fwd)
           knowing == {n \in DOMAIN Conf.order : Known(n) # {}}
       IN CASE call.rv = Aborts -> call.by = "bind" /\ Unexpected(call.fwd)
            [] call.rv = Null -> knowing = {}
            [] OTHER ->
                 /\ knowing # {} /\ call.by = Conf.order[Least(knowing)]
                 /\ Serves(call.by, call.rv.addrs, Known(Least(knowing)),
                           Conf.multi, call.fwd)

(***************************************************************************)
(* With "nospoof on" gethostbyaddr() returns what DNS says of an address   *)
(* only if DNS, asked for the name, gives that address back; an answer in  *)
(* which getanswer() loses its place is excepted.                          *)
(***************************************************************************)
AddressConfirmed ==
    (call.fn = "byaddr" /\ call.by = "bind" /\ Running) =>
       /\ call.arg \in Range(call.rv.addrs)
       /\ Conf.spoof /\ ~Astray(call.fwd) => call.arg \in Offered(call.fwd)

(***************************************************************************)
(* Nothing stays open that sethostent() did not ask for: not the hosts     *)
(* file after a lookup, nor the resolver's socket; and nothing at all      *)
(* after endhostent().                                                     *)
(***************************************************************************)
NothingLeftOpen ==
    /\ vc => stay
    /\ call.fn \in {"byname", "byaddr"} /\ "hosts" \in call.asked =>
          (hosts.open => stay)
    /\ call.fn = "end" => ~hosts.open /\ ~vc

=============================================================================

------------------------------ MODULE MCLookup ------------------------------
(* The lookups for TLC. *)
EXTENDS Lookup, TLC

CONSTANTS networks, servicesdb, protocols,
          tcp, udp, anyProto, nameA, nameB, nameC

\* Labels.
h1 == <<"h1">>
Name(h) == <<h, "dom">>
HostLine(names, a) == [kind |-> "entry", names |-> names, key |-> a]
Junk(k) == [kind |-> k]

\* Two hosts, one of them with two addresses, an alias in the domain, the
\* local host with an alias too many, a comment and a line without newline.
mcHosts ==
    <<HostLine(<<<<"h1">>>>, 4), Junk("comment"),
      HostLine(<<<<"h2">>, <<"h1", "dom">>>>, 2),
      HostLine(<<<<"h1">>, <<"local">>, <<"h2">>>>, 3), Junk("torn")>>

Cmd(cmd, args) == [cmd |-> cmd, args |-> args]
NoEnv == [order |-> None, spoof |-> None, multi |-> None,
          addtrim |-> None, overtrim |-> None]

mcConfs ==
    { Missing,
      <<Cmd("order", <<"hosts", "bind">>), Cmd("trim", <<<<"dom">>>>),
        Cmd("nospoof", <<"on">>)>>,
      <<Cmd("comment", <<>>), Cmd("order", <<"bind", "nis", "hosts">>),
        Cmd("multi", <<"on">>), Cmd("alert", <<"on">>), Cmd("nospoof", <<"on">>)>>,
      <<Cmd("order", <<"bind", "wins">>), Cmd("order", <<"hosts">>)>>,
      <<Cmd("multi", <<"yes">>)>> }

mcEnvs ==
    { NoEnv, [NoEnv EXCEPT !.order = <<"hosts", "bind">>],
      [NoEnv EXCEPT !.spoof = "warn", !.addtrim = <<<<"dom">>>>],
      [NoEnv EXCEPT !.multi = "on", !.overtrim = <<>>] }

mcInputs ==
    {[hosts |-> h, conf |-> c, env |-> e, dns |-> d] :
        h \in {Missing, mcHosts}, c \in mcConfs, e \in mcEnvs, d \in BOOLEAN}

mcNames == {<<"h1">>, <<"h1", "dom">>, <<"h2", "dom">>, <<"1.2.3.4">>, <<"9.9">>}
mc_inet_addr == (<<"1.2.3.4">> :> 1) @@ (<<"9.9">> :> None)
mcLocalname == <<"local">>
mcAddresses == {2, 5}

A(name, a) == [type |-> "A", owner |-> name, data |-> a]
RR(type, name, data) == [type |-> type, owner |-> name, data |-> data]
\* An answer of which so many texts fit, and one that all of hostbuf holds.
Full(rrs, room) ==
    [rc |-> "NETDB_SUCCESS", rrs |-> rrs, room |-> room,
     astray |-> [n \in DOMAIN rrs |-> RR("foreign", <<>>, 0)]]
Ok(rrs) == Full(rrs, 2 * Len(rrs))
Fail(rc) == [rc |-> rc, rrs |-> <<>>, astray |-> <<>>, room |-> 0]

\* h1 is an alias of an alias, once the first has been read the third record is
\* found where it is not.
Stray == <<RR("CNAME", Name("h1"), Name("h2")), RR("CNAME", Name("h2"), Name("h3")),
           A(Name("h3"), 2)>>

mcForward ==
    { Fail("HOST_NOT_FOUND"), Fail("TRY_AGAIN"), Fail("NO_DATA"),
      Ok(<<A(Name("h1"), 4), A(Name("h1"), 7), A(Name("h1"), 5)>>),
      Full(<<A(Name("h1"), 4), A(Name("h1"), 7)>>, 3),
      Full(<<RR("CNAME", Name("h2"), Name("h1")), A(Name("h1"), 2)>>, 1),
      Ok(<<RR("CNAME", Name("h2"), Name("h1")), A(Name("h1"), 2)>>),
      Ok(<<RR("CNAME", Name("h2"), Name("h1")), RR("malformed", <<>>, 0)>>),
      [Ok(Stray) EXCEPT !.astray[3] = A(<<"h2">>, 6)],
      Ok(<<RR("foreign", Name("h1"), 0), A(Name("h1"), 5), RR("SIG", Name("h1"), 0)>>) }

mcReverse ==
    { Fail("TRY_AGAIN"), Ok(<<>>),
      Ok(<<RR("PTR", <<"5", "arpa">>, Name("h1"))>>),
      Ok(<<RR("CNAME", <<"5", "arpa">>, <<"5", "net", "arpa">>),
           RR("PTR", <<"5", "net", "arpa">>, Name("h2"))>>),
      Ok(<<RR("SIG", <<"5", "arpa">>, 0)>>) }

\* The other databases.
mcKinds == {networks, servicesdb, protocols}
\* htons(80) and htons(143).
Port80 == 20480
Port143 == 36608

Line3(names, key, proto) ==
    [kind |-> "entry", names |-> names, key |-> key, proto |-> proto]
mcFileOf ==
    (networks :> <<Junk("comment"), Line3(<<nameA>>, inet_network(<<10>>), anyProto),
                   Line3(<<nameB, nameC>>, inet_network(<<192, 168, 1>>), anyProto)>>)
    @@ (servicesdb :> <<Line3(<<nameA, nameC>>, Port80, tcp), Junk("comment"),
                        Line3(<<nameA>>, Port80, udp), Junk("torn"),
                        Line3(<<nameB, nameC, nameA>>, Port143, udp)>>)
    @@ (protocols :> Missing)

\* Addresses of hosts of the networks of the file, and of one that is not.
mcHostAddrs == {<<10, 0, 0, 1>>, <<192, 168, 1, 7>>, <<130, 88, 12, 200>>}
mcAliases == {nameA, nameB, nameC}
mcProtos == {tcp, udp}
mcKeys == {Port80, Port143} \cup {inet_netof(in) : in \in mcHostAddrs}

(***************************************************************************)
(* The number written in front of the zero parts of an address is that of  *)
(* its network, and inet_makeaddr() puts the address together again.       *)
(***************************************************************************)
ASSUME NumbersOfHosts ==
    \A in \in mcHostAddrs :
        /\ in = inet_makeaddr(inet_netof(in), inet_lnaof(in))
        /\ \E n \in 1 .. 3 : inet_netof(in) = inet_network(SubSeq(in, 1, n))

\* What is returned instead of a host.
mcNull == [null |-> TRUE]
mcAborts == [aborts |-> TRUE]
=============================================================================

----------------------------- MODULE MCHostInfo -----------------------------
(***************************************************************************)
(* An instance of HostInfo.  The worlds of the first kind have adapters in *)
(* the registry in many arrangements and no configuration; those of the    *)
(* second have configuration files and a program that makes several calls. *)
(***************************************************************************)
EXTENDS HostInfo

Config(section, key, value) == [at |-> <<section, key>>, value |-> value]

NoLine == [key |-> "other", addr |-> 0, names |-> <<>>, sort |-> <<>>]
NameserverLine(a) == [NoLine EXCEPT !.key = "nameserver", !.addr = a]
NamesLine(key, n) == [NoLine EXCEPT !.key = key, !.names = n]
SortLine(s) == [NoLine EXCEPT !.key = "sortlist", !.sort = s]

----------------------------------------------------------------------------
(* Registries.  An adapter at a place has an address of its own.           *)

Card == [class |-> "Net", driver |-> TRUE, bindings |-> "mstcp",
         kind |-> "ethernet", ip |-> 0, mask |-> TRUE, gw |-> 40]

Kinds == {"static", "nomask", "dhcp", "dialup", "unbound", "dead",
          "cantread", "other"}

Instance(kind, place) ==
  CASE kind = "static"   -> [Card EXCEPT !.ip = 20 + place]
    [] kind = "nomask"   -> [Card EXCEPT !.ip = 20 + place, !.mask = FALSE,
                                         !.gw = Missing]
    [] kind = "dhcp"     -> Card
    [] kind = "dialup"   -> [Card EXCEPT !.kind = "dialup"]
    [] kind = "unbound"  -> [Card EXCEPT !.bindings = "none"]
    [] kind = "dead"     -> [Card EXCEPT !.bindings = "dead"]
    [] kind = "cantread" -> [Card EXCEPT !.class = "cantread"]
    [] kind = "other"    -> [Card EXCEPT !.class = "other"]

Lease(ip, valid, options) ==
  [ip |-> ip, mask |-> TRUE, valid |-> valid, options |-> options]

\* A lease with a router, a server and names; and one in which the number of
\* the router option occurs as data first.
Leases == {<<Lease(31, TRUE, <<3, 1, 41, 6, 2, 51, 52, 12, 1, 201, 15, 1, 202>>),
             Lease(32, TRUE, <<6, 1, 3, 3, 1, 41>>)>>,
           <<Lease(31, FALSE, <<>>), Lease(32, TRUE, <<>>)>>, <<>>}

Trees(k1, k2, k3, k4) ==
  << << <<Instance(k1, 1), Instance(k2, 2)>>, <<Instance(k3, 3)>> >>,
     << >>, << <<Instance(k4, 4)>> >> >>

Registry(trees, dhcp, dialup) ==
  [trees |-> trees, dhcp |-> dhcp, dialup |-> dialup, beyond |-> 7,
   hostname |-> <<203>>, domain |-> <<204>>, nameservers |-> <<53, Garbled>>,
   dnsenabled |-> TRUE]

Vxds == {[wsock |-> w, wsock2 |-> w2, loader |-> l, sock |-> TRUE] :
           w, w2, l \in BOOLEAN}

----------------------------------------------------------------------------
(* Configurations.                                                         *)

SomeReg == Registry(Trees("dhcp", "static", "nomask", "static"),
                    CHOOSE l \in Leases : l # <<>> /\ l[1].valid, TRUE)

Files ==
  [A |-> <<Config("main", "hostname", <<101, 102>>),
           Config("main", "resolv.conf", "one"),
           Config("wsock", "Enabled", FALSE),
           Config("wsock", "Enabled", TRUE)>>,
   B |-> <<Config("main", "resolv.conf", "two"),
           Config("wsock", "IPAddress", 61), Config("wsock", "IPMask", 62),
           Config("wsock", "DNS1Address", 63),
           Config("wsock", "DNS2Address", Garbled)>>,
   C |-> <<Config("main", "hostname", <<103>>),
           Config("csock", "IPAddress", 61), Config("csock", "IPMask", 62)>>]

Resolv ==
  [one |-> <<NameserverLine(71), NameserverLine(72), NameserverLine(Garbled),
             NamesLine("search", << <<111>>, <<112>>, <<113>> >>),
             NamesLine("domain", << <<114>> >>),
             [NoLine EXCEPT !.key = "options", !.addr = 20]>>,
   two |-> <<NamesLine("domain", << <<114>> >>),
             NamesLine("search", << <<111>>, <<112>>, <<113>> >>),
             SortLine(<<[net |-> 81, masked |-> TRUE],
                        [net |-> Garbled, masked |-> FALSE],
                        [net |-> 82, masked |-> FALSE],
                        [net |-> Garbled, masked |-> TRUE]>>)>>]

\* MAXRESOLVSORT lets the last of these pairs be reached, and not.
ShortSort == [Resolv EXCEPT !.two =
                <<@[1], @[2], SortLine(<<[net |-> 81, masked |-> TRUE]>>)>>]

Env(dir, hostname, localdomain) ==
  [dir |-> dir, hostname |-> hostname, localdomain |-> localdomain,
   ndots |-> Missing]

\* Adapters in every arrangement, and nothing else.
AdapterWorlds ==
  {[win |-> "95", ini |-> FALSE, calls |-> 0, files |-> Files,
    resolv |-> Resolv, envs |-> {Env(None, <<>>, <<>>)},
    vxd |-> [wsock |-> FALSE, wsock2 |-> FALSE, loader |-> TRUE,
             sock |-> TRUE],
    reg |-> Registry(Trees(k1, k2, k3, k4), l, d)] :
      k1, k2, k3 \in Kinds, k4 \in {"static", "dhcp"}, l \in Leases,
      d \in BOOLEAN}

\* Every system and set of VxDs, to start on.
StartWorlds ==
  {[win |-> w, ini |-> i, calls |-> 0, files |-> Files, resolv |-> Resolv,
    envs |-> {Env(d, <<>>, <<>>) : d \in {None, "A", "B", "C"}},
    vxd |-> v, reg |-> SomeReg] :
      w \in {"none", "311", "95"}, i \in BOOLEAN, v \in Vxds}

\* A program that makes several calls, with adapters and without.
CallWorlds ==
  {[win |-> w, ini |-> FALSE, calls |-> 4, files |-> Files, resolv |-> r,
    envs |-> {Env(None, <<>>, <<>>), Env("A", <<>>, <<>>),
              Env("B", <<>>, <<>>), Env("C", <<>>, <<>>),
              Env("A", <<104, 105>>, <<>>),
              Env("B", <<>>, << <<106>>, <<107>> >>)},
    vxd |-> [wsock |-> FALSE, wsock2 |-> FALSE, loader |-> TRUE,
             sock |-> TRUE],
    reg |-> SomeReg] :
      w \in {"none", "95"}, r \in {Resolv, ShortSort}}

MCWorlds == AdapterWorlds \cup StartWorlds \cup CallWorlds

MCHosts == {<<108>>, <<109, 110>>}

MCNetBiosName == <<115>>
=============================================================================

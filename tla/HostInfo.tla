------------------------------ MODULE HostInfo ------------------------------
(***************************************************************************)
(* What a program is told of its host: the host and domain names           *)
(* (src/src/hstnm.c, src/src/uname.c) and the servers and search list of   *)
(* the resolver (src/src/dnsaddr.c, src/src/inet/r_init.c).  They come     *)
(* from the environment, configuration files and the adapters' tables, and *)
(* are remembered by some of the calls.                                    *)
(***************************************************************************)
EXTENDS Interfaces

CONSTANTS Worlds,        \* the worlds a program may start in
          Hosts,         \* the names it may set
          RES_MAXNDOTS,
          MAXNS, MAXDNSRCH, MAXRESOLVSORT,
          NetBiosName    \* the name that DJGPP's gethostname() gives

VARIABLES names,         \* hostname (or Unset), nodename, domainname
          res,           \* the resolver's state, _res
          calls,         \* calls made so far; world.calls bounds them
          told, reply,   \* history of the names told, see HostNameSticks
          seen           \* history of res_init(), see SearchAgrees

hostVars == <<startVars, names, res, calls, told, reply, seen>>

Unset == <<Missing>>
NoAnswer == [by |-> "none", name |-> Unset]

ASSUME HostAssumption ==
  MAXNS \in Nat \ {0} /\ MAXDNSRCH \in Nat \ {0} /\ MAXRESOLVSORT \in Nat

NamesGiven(n) == IsSequence(n) /\ \A k \in DOMAIN n : n[k] # <<>>

\* Registries and files are sequences of what they contain; a byte is a
\* number, a name that is read or set is not empty, and None is no file.
ASSUME WorldsAssumption ==
  \A w \in Worlds :
    /\ IsSequence(w.reg.trees)
    /\ \A t \in DOMAIN w.reg.trees :
         /\ IsSequence(w.reg.trees[t])
         /\ \A d \in DOMAIN w.reg.trees[t] : IsSequence(w.reg.trees[t][d])
    /\ IsSequence(w.reg.nameservers) /\ w.reg.beyond \in Nat
    /\ \A n \in DOMAIN w.reg.dhcp : w.reg.dhcp[n].options \in Seq(Nat)
    /\ \A r \in DOMAIN w.resolv :
         /\ IsSequence(w.resolv[r])
         /\ \A k \in DOMAIN w.resolv[r] : NamesGiven(w.resolv[r][k].names)
    /\ None \notin DOMAIN w.files
    /\ \A f \in DOMAIN w.files :
         /\ DOMAIN w.files[f] \subseteq Nat
         /\ \A k \in DOMAIN w.files[f] :
              w.files[f][k].at = <<"main", "resolv.conf">> =>
                w.files[f][k].value \in DOMAIN w.resolv
    /\ \A e \in w.envs :
         /\ NamesGiven(e.localdomain)
         /\ e.dir = None \/ e.dir \in DOMAIN w.files

ASSUME NamesAssumption == \A h \in Hosts : IsSequence(h) /\ h # <<>>

HostInit ==
  /\ world \in Worlds /\ env \in world.envs
  /\ config = [dir |-> None, file |-> None]
  /\ stage = "wsock" /\ listed = <<>>
  /\ ifs = [i \in Interface |-> Down(0)]
  /\ regdos = [count |-> 0, held |-> FALSE]
  /\ names = [host |-> Unset, node |-> <<NoLabel>>, domain |-> <<>>]
  /\ res = [inited |-> FALSE, defdname |-> <<>>, dnsrch |-> <<>>,
            nsaddr |-> <<>>, ndots |-> 0, sort |-> <<>>]
  /\ calls = 0 /\ told = Unset /\ reply = NoAnswer /\ seen = {}

Called ==
  /\ stage = "ready" /\ calls < world.calls
  /\ calls' = calls + 1
  /\ UNCHANGED <<world, listed, ifs, regdos>>

----------------------------------------------------------------------------
(* Host and domain names.                                                  *)

\* The first adapter with a name, in the order of the interfaces.
AdapterNames ==
  LET Named(i) == SelectSeq([k \in DOMAIN ifs[i].table |->
                               ifs[i].table[k].hostname],
                            LAMBDA h : h # <<>>)
  IN  FlattenSeq([k \in DOMAIN listed |-> Named(listed[k])])

ConfiguredName == Profile(Located.file, "main", "hostname", <<>>)

LookedUpName ==
  CASE env.hostname # <<>> -> env.hostname
    [] env.hostname = <<>> /\ ConfiguredName # <<>> -> ConfiguredName
    [] env.hostname = <<>> /\ ConfiguredName = <<>> ->
         IF AdapterNames # <<>> THEN AdapterNames[1] ELSE NetBiosName

\* Mutant: the name is looked up each time.
HostName_NotKept == LookedUpName

\* A name that is known is not looked up again.
HostName == IF names.host # Unset THEN names.host ELSE LookedUpName

\* The configuration file is looked for when the environment has no name.
NameSought ==
  IF names.host = Unset /\ env.hostname = <<>> THEN Located ELSE config

\* The node is the first label, the domain the rest; a name without a dot
\* leaves the domain as it was.
Named(host) ==
  [host |-> host, node |-> <<Head(host)>>,
   domain |-> IF Len(host) > 1 THEN Tail(host) ELSE names.domain]

Answer(by, name) == [by |-> by, name |-> name]

Answered(by) ==
  /\ told' = IF told = Unset THEN HostName ELSE told
  /\ reply' = Answer(by, IF by = "uname" THEN <<Head(HostName)>> ELSE HostName)

\* A buffer that is too small leaves everything as it was.
gethostname ==
  /\ Called
  /\ config' = NameSought
  /\ \/ names' = Named(HostName) /\ Answered("gethostname")
     \/ UNCHANGED <<names, told, reply>>
  /\ UNCHANGED <<env, stage, res, seen>>

\* uname() asks gethostname() with room enough.
uname ==
  /\ Called
  /\ config' = NameSought
  /\ names' = Named(HostName) /\ Answered("uname")
  /\ UNCHANGED <<env, stage, res, seen>>

\* It looks for no name; the domain is empty before another call has.
getdomainname ==
  /\ Called
  /\ reply' = Answer("getdomainname", names.domain)
  /\ UNCHANGED <<env, config, stage, names, res, told, seen>>

sethostname ==
  /\ Called
  /\ \E h \in Hosts : names' = Named(h) /\ told' = h
  /\ reply' = NoAnswer
  /\ UNCHANGED <<env, config, stage, res, seen>>

\* The host name is put together from the node, which is empty before the
\* host name is known.
setdomainname ==
  /\ Called
  /\ \E d \in Hosts :
       /\ names' = [names EXCEPT !.domain = d, !.host = names.node \o d]
       /\ told' = IF told = Unset THEN Unset ELSE <<Head(told)>> \o d
  /\ reply' = NoAnswer
  /\ UNCHANGED <<env, config, stage, res, seen>>

----------------------------------------------------------------------------
(* The resolver.                                                           *)

ResolvConf(file) == Profile(file, "main", "resolv.conf", None)

ConfLines(file) ==
  IF ResolvConf(file) = None THEN <<>> ELSE world.resolv[ResolvConf(file)]

NamesServer(l) == l.key = "nameserver" /\ l.addr # Garbled

\* Each nameserver line is stored at the same place of the list, so that the
\* last one is all that is left.
resolv_conf_getdnsaddrs(lines) ==
  LET good == {k \in DOMAIN lines : NamesServer(lines[k])}
  IN  IF good = {} THEN <<>> ELSE <<lines[Max(good)].addr>>

\* The servers of an adapter, up to the first that is zero.
AdapterServers(entry) ==
  LET zero == {k \in DOMAIN entry.dns : entry.dns[k] = 0}
                \cup {Len(entry.dns) + 1}
  IN  SubSeq(entry.dns, 1, (CHOOSE k \in zero : \A z \in zero : k <= z) - 1)

IfServers ==
  FlattenSeq([k \in DOMAIN listed |->
    FlattenSeq([j \in DOMAIN ifs[listed[k]].table |->
      AdapterServers(ifs[listed[k]].table[j])])])

\* Mutant: the adapters' servers are only used without a resolv.conf.
getdnsaddrs_Either(lines) ==
  IF resolv_conf_getdnsaddrs(lines) # <<>>
  THEN resolv_conf_getdnsaddrs(lines) ELSE IfServers

getdnsaddrs(lines) == resolv_conf_getdnsaddrs(lines) \o IfServers

\* INADDR_ANY when there is none.
NameServers(lines) ==
  LET l == AtMost(MAXNS, getdnsaddrs(lines)) IN IF l = <<>> THEN <<0>> ELSE l

\* Mutant: domain leaves an earlier search list in force.
DomainLine_KeepsList(s, names_) == [s EXCEPT !.def = names_[1]]

\* LOCALDOMAIN and search name several domains, of which the first is the
\* default; domain names one and revokes the list.
DomainLine(s, names_) == [def |-> names_[1], list |-> s.list, have |-> FALSE]
SearchLine(s, names_) ==
  [def |-> names_[1], list |-> AtMost(MAXDNSRCH, names_), have |-> TRUE]

FromEnv ==
  IF env.localdomain = <<>>
  THEN [def |-> res.defdname, list |-> res.dnsrch, have |-> FALSE]
  ELSE [def |-> env.localdomain[1],
        list |-> AtMost(MAXDNSRCH, env.localdomain),
        have |-> Len(env.localdomain) > 1]

ConfLine(s, l) ==
  CASE l.names = <<>> -> s
    [] l.names # <<>> /\ l.key = "domain" -> DomainLine(s, l.names)
    [] l.names # <<>> /\ l.key = "search" -> SearchLine(s, l.names)
    [] OTHER -> s

Domains(lines) ==
  IF env.localdomain # <<>> THEN FromEnv
  ELSE LET upto[k \in 0 .. Len(lines)] ==
             IF k = 0 THEN FromEnv ELSE ConfLine(upto[k - 1], lines[k])
       IN  upto[Len(lines)]

\* The pairs of a sortlist: a network and perhaps a mask.  One that is no
\* address is skipped, unless a mask follows it: that is never got past.
SortList(lines) ==
  LET all  == FlattenSeq([k \in DOMAIN lines |-> lines[k].sort])
      good == SelectSeq(all, LAMBDA p : p.net # Garbled)
  IN  AtMost(MAXRESOLVSORT, good)

SortListHangs(lines) ==
  \E k \in DOMAIN lines : \E i \in DOMAIN lines[k].sort :
    /\ lines[k].sort[i].net = Garbled /\ lines[k].sort[i].masked
    /\ Len(SortList(SubSeq(lines, 1, k - 1)))
         + Cardinality({j \in 1..i : lines[k].sort[j].net # Garbled})
         < MAXRESOLVSORT

\* The environment, or else the last options line.
NDots(lines) ==
  LET l == SelectSeq(lines, LAMBDA x : x.key = "options")
      n == CASE env.ndots # Missing -> env.ndots
             [] env.ndots = Missing -> IF l = <<>> THEN 1 ELSE Last(l).addr
  IN  IF n <= RES_MAXNDOTS THEN n ELSE RES_MAXNDOTS

\* Without a resolv.conf the sort list of an earlier call remains.
ResInited(lines, opened) ==
  LET d == Domains(lines)
      \* The default domain is that of the host, if nothing else says so.
      asks == d.def = <<>>
      def  == IF asks /\ Len(HostName) > 1 THEN Tail(HostName) ELSE d.def
  IN  /\ res' = [inited |-> TRUE, defdname |-> def,
                 dnsrch |-> IF d.have THEN d.list ELSE <<def>>,
                 nsaddr |-> NameServers(lines), ndots |-> NDots(lines),
                 sort |-> IF opened THEN SortList(lines) ELSE res.sort]
      /\ IF asks THEN names' = Named(HostName) /\ Answered("gethostname")
         ELSE UNCHANGED <<names, told, reply>>
      /\ seen' = {[lines |-> lines, local |-> env.localdomain]}

res_init ==
  /\ Called
  /\ config' = Located
  /\ LET lines == ConfLines(Located.file)
     IN  IF SortListHangs(lines)
         THEN stage' = "hung" /\ UNCHANGED <<names, told, reply, res, seen>>
         ELSE /\ ResInited(lines, ResolvConf(Located.file) # None)
              /\ UNCHANGED stage
  /\ UNCHANGED env

----------------------------------------------------------------------------
(* The program changes what the library looks at.                          *)

putenv ==
  /\ Called
  /\ env' \in world.envs
  /\ UNCHANGED <<config, stage, names, res, told, reply, seen>>

\* __lsck_config_setfile() and __lsck_config_setdir().
config_setfile ==
  /\ Called
  /\ \E f \in DOMAIN world.files : config' = [config EXCEPT !.file = f]
  /\ UNCHANGED <<env, stage, names, res, told, reply, seen>>

config_setdir ==
  /\ Called
  /\ \E f \in DOMAIN world.files : config' = [config EXCEPT !.dir = f]
  /\ UNCHANGED <<env, stage, names, res, told, reply, seen>>

HostNext ==
  \/ (InitInterface \/ UninitInterfaces)
     /\ UNCHANGED <<names, res, calls, told, reply, seen>>
  \/ gethostname \/ sethostname \/ uname
  \/ getdomainname \/ setdomainname
  \/ res_init
  \/ putenv \/ config_setfile \/ config_setdir

HostSpec == HostInit /\ [][HostNext]_hostVars

----------------------------------------------------------------------------
(* Properties.                                                             *)

\* What an interface holds that could not be initialised: nothing, or what it
\* had taken when it failed.
Partial(i, n) == n = 0 \/ n < Full(i)

\* An interface in the list is initialised, holds all its memory and, unless
\* it is the mailslots, has a table that begins with the loopback device and
\* fits; one that is not in the list is not initialised, and holds all it
\* takes at no time, whichever step of it failed; and after the exit handlers
\* the listed ones hold nothing, and no block is left for the registry
\* (src/src/initnt.c:258, the early returns of src/src/wsock/w_initnt.c,
\* src/src/win9x/regdos/regdosz.c:213).
InterfacesUsable ==
  /\ stage = "ready" =>
       \A i \in Range(listed) :
         /\ ifs[i].inited /\ ifs[i].held = Full(i)
         /\ i # "unix" => /\ Len(ifs[i].table) \in 1..TABLE_MAX
                          /\ ifs[i].table[1] = Loopback
  /\ stage = "exited" =>
       (\A i \in Range(listed) : ifs[i].held = 0) /\ ~regdos.held
  /\ \A i \in Interface : ifs[i].inited => i \in Range(listed)
  /\ \A i \in Interface \ Range(listed) : Partial(i, ifs[i].held)

\* Once a host name was asked for or set, all calls go on answering the same,
\* with the domain that was set since, whatever becomes of the environment
\* and the configuration; node and domain are the parts of that name
\* (src/src/hstnm.c:89 and :160).
HostNameSticks ==
  told # Unset =>
    /\ reply.by = "gethostname" => reply.name = told
    /\ reply.by = "uname" => reply.name = <<Head(told)>>
    /\ reply.by = "getdomainname" /\ Len(told) > 1 => reply.name = Tail(told)
    /\ names.host = told /\ names.node = <<Head(told)>>
    /\ Len(told) > 1 => names.domain = Tail(told)

\* The resolver always has a server, and leaves out a server of an adapter
\* only when it has MAXNS others; and where resolv.conf names servers, it is
\* one of those that is asked first (src/src/dnsaddr.c:179,
\* src/src/inet/r_init.c:358).
ServersKept ==
  \A s \in seen :
    /\ Len(res.nsaddr) \in 1..MAXNS
    /\ \A i \in Range(listed) : \A e \in Range(ifs[i].table) :
         \A k \in DOMAIN e.dns :
           (\A m \in 1..k : e.dns[m] # 0) =>
             e.dns[k] \in Range(res.nsaddr) \/ Len(res.nsaddr) = MAXNS
    /\ (\E k \in DOMAIN s.lines : NamesServer(s.lines[k])) =>
         \E k \in DOMAIN s.lines :
           NamesServer(s.lines[k]) /\ res.nsaddr[1] = s.lines[k].addr

\* The servers that resolv.conf lists, in its order.
ServersListed(lines) ==
  LET good == SelectSeq(lines, NamesServer)
  IN  [k \in DOMAIN good |-> good[k].addr]

\* "Up to MAXNS (currently 3) name servers may be listed, one per keyword.  If
\* there are multiple servers, the resolver library queries them in the order
\* listed" (src/config.txt:251): the resolver's servers begin with those that
\* resolv.conf lists.  The code stores each of them over the one before it
\* (src/src/dnsaddr.c:113).
NameserversInOrder ==
  \A s \in seen : IsPrefix(AtMost(MAXNS, ServersListed(s.lines)), res.nsaddr)

SaysDomain(l) == l.key \in {"domain", "search"} /\ l.names # <<>>

\* The search list begins with the default domain.  It is that of the
\* environment, or else of the last domain or search line that says
\* something (src/src/inet/r_init.c:309, :387, :402 and :521).
SearchAgrees ==
  \A s \in seen :
    /\ res.dnsrch[1] = res.defdname
    /\ s.local # <<>> => res.dnsrch = AtMost(MAXDNSRCH, s.local)
    /\ s.local = <<>> =>
         \A k \in DOMAIN s.lines :
           SaysDomain(s.lines[k])
             /\ (\A m \in DOMAIN s.lines : SaysDomain(s.lines[m]) => m <= k)
             => res.dnsrch = IF s.lines[k].key = "domain"
                             THEN <<s.lines[k].names[1]>>
                             ELSE AtMost(MAXDNSRCH, s.lines[k].names)

\* The adapters of Windows 9x.  Whether an instance is one to be listed:
Adapter(i) == /\ i.class = "Net" /\ i.driver /\ i.bindings = "mstcp"
              /\ i.kind = "ethernet" /\ i.ip # Missing

\* whether it keeps those behind it in its tree from being looked at, as one
\* that cannot be read does,
EndsTree(i) == \/ i.class = "missing"
               \/ i.class = "Net" /\ \/ ~i.driver
                                     \/ i.bindings \notin {"mstcp", "none"}
                                     \/ /\ i.bindings = "mstcp"
                                        /\ i.kind = "unreadable"

\* or those behind it in its device: one without a class, on which the code
\* leaves the loop over the device that it means to go on with
\* (src/src/win9x/w9x_addr.c:213), and one that is well readable and not
\* bound to MSTCP, whose last binding leaves the loop's condition false (:315),
EndsDevice(i) == \/ i.class = "cantread"
                 \/ i.class = "Net" /\ i.driver /\ i.bindings = "none"

\* whether a table has it, or why it does not:
Lists(table, tree, d, i) ==
  \/ Len(table) = TABLE_MAX
  \/ \E e \in Range(table) : e.fixed /\ e.addr = tree[d][i].ip
  \/ \E c \in 1 .. d : \E j \in DOMAIN tree[c] :
       (c < d \/ j < i) /\ EndsTree(tree[c][j])
  \/ \E j \in 1 .. i - 1 : EndsDevice(tree[d][j])

\* and which entries are of cards that use DHCP.
OfDhcp(e) == e.hw = "ethernet" /\ ~e.fixed
LeasesTo(table, p) == Cardinality({q \in 1 .. p : OfDhcp(table[q])})

\* Every adapter with a static address is in the table, unless the table is
\* full, something before it in its tree could not be read, or before it in
\* its device is one without a class or without a binding to MSTCP, behind
\* which the code does not look; and, if all addresses could be read, those of
\* the n-th card with DHCP are those of the n-th key of the DHCP client
\* (src/src/win9x/w9x_addr.c:152, :213, :315 and :656).
AdaptersFound ==
  stage = "ready" /\ "csock" \in Range(listed) /\ config.file = None =>
    LET table == ifs["csock"].table
        trees == world.reg.trees
    IN  /\ \A t \in DOMAIN trees : \A d \in DOMAIN trees[t] :
             \A i \in DOMAIN trees[t][d] :
               Adapter(trees[t][d][i]) /\ trees[t][d][i].ip > 0
                 => Lists(table, trees[t], d, i)
        /\ (\A t \in DOMAIN trees : \A d \in DOMAIN trees[t] :
              \A i \in DOMAIN trees[t][d] : trees[t][d][i].ip # Missing) =>
             \A p \in DOMAIN table :
               OfDhcp(table[p]) /\ table[p].addr # 0 =>
                 table[p].addr = world.reg.dhcp[LeasesTo(table, p)].ip
=============================================================================

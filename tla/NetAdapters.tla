---------------------------- MODULE NetAdapters ----------------------------
(***************************************************************************)
(* The table of network adapters that an interface is given when it starts *)
(* (src/src/win9x, src/src/win3x, src/src/addr.c).                         *)
(*                                                                         *)
(* Windows 9x keeps one registry key for each adapter, under three keys    *)
(* that list devices and their instances; an adapter's addresses are in    *)
(* keys that its instance names, or, for DHCP, in a list of keys numbered  *)
(* in the order of the adapters.  A registry is a record:                  *)
(*   trees    for each of the three keys, its devices; a device is the     *)
(*            sequence of its instances                                    *)
(*   dhcp     the keys DhcpInfo00, DhcpInfo01, ...                         *)
(*   dialup   whether a dial-up connection is active                       *)
(*   hostname, domain, nameservers, dnsenabled                             *)
(*            the values of the MSTCP key                                  *)
(*   beyond   the byte behind the value of a DHCP key, which the code may  *)
(*            read                                                         *)
(* A name is a sequence of labels, the first the host's own.  Labels,      *)
(* addresses and the bytes of a DHCP option list are numbers; one number   *)
(* stands for the four bytes of an address, and for a label of a name.     *)
(***************************************************************************)
EXTENDS Integers, FiniteSets, SequencesExt

CONSTANTS TABLE_MAX,      \* LSCK_IF_ADDR_TABLE_MAX
          DNS_MAX         \* LSCK_IF_ADDR_INET_DNS_MAX

ASSUME TableAssumption ==
  TABLE_MAX \in Nat \ {0, 1} /\ DNS_MAX \in Nat \ {0}

\* Whether s is a sequence, of whatever values.
IsSequence(s) == s \in Seq({s[n] : n \in DOMAIN s})

Missing == -1             \* a registry value that is not there
Garbled == -2             \* a text that is no address
LOOPBACK == 127
NoLabel == 0              \* the empty text, as a label

DHCP_OPT_ROUTER == 3
DHCP_OPT_DNS == 6
DHCP_OPT_HOST_NAME == 12
DHCP_OPT_DOMAIN_NAME == 15

----------------------------------------------------------------------------
(* One entry of a table: LSCK_IF_ADDR_INET.  number is the last byte of    *)
(* the made-up hardware address of a dial-up adapter.                      *)

Blank == [hw |-> "none", number |-> 0, fixed |-> FALSE, addr |-> 0,
          mask |-> FALSE, gw |-> 0, hostname |-> <<>>, domainname |-> <<>>,
          dns |-> <<>>]

Loopback == [Blank EXCEPT !.hw = "virtual", !.fixed = TRUE, !.mask = TRUE,
                          !.addr = LOOPBACK]

\* inet_aton() of a text that is no address leaves its result alone; the
\* callers compare its answer with -1, which it never is.
Aton(v) == IF v = Garbled THEN 0 ELSE v

\* The domain is appended to a host name without a dot.
FullName(host, domain) ==
  IF Len(host) > 1 \/ domain = <<>> THEN host
  ELSE (IF host = <<>> THEN <<NoLabel>> ELSE host) \o domain

AtMost(n, list) == SubSeq(list, 1, IF Len(list) < n THEN Len(list) ELSE n)

----------------------------------------------------------------------------
(* Static addresses.  key is the NetTrans key of an adapter.               *)

mstcp_getdnsaddrs(reg) ==
  IF reg.dnsenabled THEN reg.nameservers ELSE <<>>

Static(key) == [Blank EXCEPT !.hw = "ethernet", !.fixed = TRUE,
                             !.addr = Aton(key.ip)]

\* Without a mask the code gives up, and what it has so far is used.
getstaticaddr(key, reg) ==
  IF ~key.mask THEN Static(key)
  ELSE [Static(key) EXCEPT
          !.mask = TRUE,
          !.gw = IF key.gw = Missing THEN 0 ELSE Aton(key.gw),
          !.hostname = FullName(reg.hostname, reg.domain),
          !.domainname = reg.domain,
          !.dns = LET l == AtMost(DNS_MAX, mstcp_getdnsaddrs(reg))
                  IN  [i \in DOMAIN l |-> Aton(l[i])]]

----------------------------------------------------------------------------
(* DHCP addresses.  The options of a lease are a list of bytes: option,    *)
(* length, data, and so on.  The code takes the first byte that equals the *)
(* option it wants, be it an option, a length or data.                     *)

Byte(options, i, reg) == IF i <= Len(options) THEN options[i] ELSE reg.beyond

OptionData(options, opt, reg) ==
  LET at == {i \in DOMAIN options : options[i] = opt}
      i  == CHOOSE m \in at : \A k \in at : m <= k
  IN  IF at = {} THEN <<>>
      ELSE [k \in 1..Byte(options, i + 1, reg) |->
              Byte(options, i + 1 + k, reg)]

getoptaddrs(opt, options, reg, max) ==
  AtMost(max, OptionData(options, opt, reg))

\* A key that does not exist, or says of itself that it is not valid.
DhcpKey(n, reg) ==
  IF n + 1 \in DOMAIN reg.dhcp /\ reg.dhcp[n + 1].valid
  THEN {reg.dhcp[n + 1]} ELSE {}

Leased(key, d, reg) ==
  LET gw     == getoptaddrs(DHCP_OPT_ROUTER, d.options, reg, 1)
      domain == OptionData(d.options, DHCP_OPT_DOMAIN_NAME, reg)
  IN  [Blank EXCEPT
         !.hw = "ethernet", !.addr = d.ip, !.mask = TRUE,
         !.gw = IF gw # <<>> THEN gw[1]
                ELSE IF key.gw = Missing THEN 0 ELSE Aton(key.gw),
         !.hostname = FullName(OptionData(d.options, DHCP_OPT_HOST_NAME, reg),
                               domain),
         !.domainname = domain,
         !.dns = getoptaddrs(DHCP_OPT_DNS, d.options, reg, DNS_MAX)]

\* Without an address or a mask in the lease, what there is so far is used.
getdynamicaddr(n, key, reg) ==
  LET t == [Blank EXCEPT !.hw = "ethernet"]
  IN  IF DhcpKey(n, reg) = {} THEN t
      ELSE LET d == CHOOSE k \in DhcpKey(n, reg) : TRUE
           IN  IF d.ip = 0 \/ ~d.mask THEN [t EXCEPT !.addr = d.ip]
               ELSE Leased(key, d, reg)

----------------------------------------------------------------------------
(* The enumeration.  s.table is what has been found, s.dialup and s.dhcp   *)
(* number the adapters, s.go says how far the loops are still running.     *)
(* An instance says how its keys can be read:                              *)
(*   class     "Net", "other", or the error "cantread" or "missing"         *)
(*   driver    whether its Driver value and its Net key can be read        *)
(*   bindings  "mstcp", "none", or "unreadable"; "dead" when the MSTCP key *)
(*             it names or the keys that one names cannot be opened        *)
(*   kind      "dialup", "ethernet", another kind, or "unreadable"         *)
(*   ip, mask, gw   the values of its NetTrans key                         *)

NothingFound ==
  [table |-> <<Loopback>>, dialup |-> -1, dhcp |-> -1, go |-> "on"]

Stop(s, what) == [s EXCEPT !.go = what]

Add(s, entry) == [s EXCEPT !.table = Append(@, entry)]

\* Mutant: every card takes a DHCP number, not only those that use DHCP.
getethcardaddrs_EachCounted(s, i, reg) ==
  IF i.ip = Missing THEN Add(s, [Blank EXCEPT !.hw = "ethernet"])
  ELSE IF i.ip # 0
       THEN Add([s EXCEPT !.dhcp = @ + 1], getstaticaddr(i, reg))
  ELSE Add([s EXCEPT !.dhcp = @ + 1], getdynamicaddr(s.dhcp + 1, i, reg))

getethcardaddrs(s, i, reg) ==
  IF i.ip = Missing THEN Add(s, [Blank EXCEPT !.hw = "ethernet"])
  ELSE IF i.ip # 0 THEN Add(s, getstaticaddr(i, reg))
  ELSE Add([s EXCEPT !.dhcp = @ + 1], getdynamicaddr(s.dhcp + 1, i, reg))

\* An inactive dial-up adapter takes a number and no place.
DialUp(s, reg) ==
  LET c == [s EXCEPT !.dialup = @ + 1]
  IN  IF reg.dialup
      THEN Add(c, [Blank EXCEPT !.hw = "dialup", !.number = c.dialup])
      ELSE c

NetDevice(s, i, reg) ==
  CASE i.kind = "unreadable" -> Stop(s, "tree")
    [] i.kind = "dialup"     -> DialUp(s, reg)
    [] i.kind = "ethernet"   -> getethcardaddrs(s, i, reg)
    [] OTHER                 -> Add(s, Blank)

\* What happens at one instance.  An error ends the enumeration of its tree,
\* except where the code takes it for the end of the list it is in.
Bound(s, i, reg) ==
  CASE i.bindings = "none"  -> Stop(s, "device")
    [] i.bindings = "mstcp" -> NetDevice(s, i, reg)
    [] OTHER                -> Stop(s, "tree")

EnumInstance(s, i, reg) ==
  IF s.go # "on" THEN s
  ELSE CASE i.class = "cantread" -> Stop(s, "device")
         [] i.class = "missing"  -> Stop(s, "tree")
         [] i.class = "Net"      ->
              IF Len(s.table) >= TABLE_MAX THEN Stop(s, "device")
              ELSE IF ~i.driver THEN Stop(s, "tree")
              ELSE Bound(s, i, reg)
         [] OTHER                -> s

EnumDevice(s, device, reg) ==
  IF s.go = "tree" THEN s
  ELSE LET upto[k \in 0 .. Len(device)] ==
             IF k = 0 THEN Stop(s, "on")
             ELSE EnumInstance(upto[k - 1], device[k], reg)
       IN  upto[Len(device)]

enuminterfaces(s, tree, reg) ==
  LET upto[k \in 0 .. Len(tree)] ==
        IF k = 0 THEN Stop(s, "on")
        ELSE EnumDevice(upto[k - 1], tree[k], reg)
  IN  upto[Len(tree)]

\* The tables of Windows 9x and, below, of Windows 3.x.
win9x_getaddrtable(reg) ==
  LET upto[k \in 0 .. Len(reg.trees)] ==
        IF k = 0 THEN NothingFound
        ELSE enuminterfaces(upto[k - 1], reg.trees[k], reg)
  IN  upto[Len(reg.trees)].table

\* The value of Interfaces in system.ini is first split at "=", which it does
\* not contain, so nothing is left to split at commas: the list is empty
\* whenever the value is there, and there is none when it is not.
systemini_getinterfaces(present) == IF present THEN {<<>>} ELSE {}

\* No list, no table; an empty list, the loopback device alone.
win3x_getaddrtable(present) ==
  IF systemini_getinterfaces(present) = {} THEN <<>> ELSE <<Loopback>>
=============================================================================

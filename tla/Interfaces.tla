----------------------------- MODULE Interfaces -----------------------------
(***************************************************************************)
(* How the library starts: where it looks for its configuration            *)
(* (src/src/config.c, src/src/ini.c), and which interfaces it finds usable *)
(* (src/src/initnt.c and the *_initnt.c of each interface).                *)
(*                                                                         *)
(* The world outside does not change while the program runs:               *)
(*   win      the version of Windows: "none", "nt", "311" or "95"          *)
(*   vxd      which VxDs can be loaded and have an entry point             *)
(*   reg      the registry (NetAdapters)                                   *)
(*   ini      whether system.ini lists interfaces                          *)
(*   files    the lines of each configuration file                         *)
(*   resolv   the lines of each resolv.conf                                *)
(* A line of a configuration file has the section and key it sets, and a   *)
(* value.  env is the environment of the program, one of world.envs.       *)
(***************************************************************************)
EXTENDS NetAdapters

VARIABLES world, env,
          config,      \* the directory and the file in use, or None
          stage,       \* which interface is next, then "ready", "exited"
          listed,      \* __lsck_interface[]
          ifs,         \* for each interface: inited, what it holds, table
          regdos       \* calls of the registry so far, the memory for them

startVars == <<world, env, config, stage, listed, ifs, regdos>>

Interface == {"wsock", "csock", "unix"}

None == "none"

\* The blocks of DPMI memory and the segment descriptors of __wsock_init().
BLOCKS == 6
DESCRIPTORS == 6
Full(i) == IF i = "wsock" THEN BLOCKS + DESCRIPTORS ELSE 0

----------------------------------------------------------------------------
(* The configuration file.                                                 *)

\* __lsck_config_getdir() and __lsck_config_getfile(): both remember what
\* they found, and the file is not looked for again when the directory or the
\* environment changes.  The default file of a directory has its name here.
getdir == IF config.dir # None THEN config.dir ELSE env.dir

Located ==
  IF config.file # None \/ getdir = None THEN config
  ELSE [dir |-> getdir, file |-> getdir]

\* GetPrivateProfileString(): the first line that sets the key.
Profile(file, section, key, default) ==
  LET lines == world.files[file]
      hits  == {k \in DOMAIN lines : lines[k].at = <<section, key>>}
  IN  IF file = None \/ hits = {} THEN default ELSE lines[Min(hits)].value

\* Addresses given in the configuration file, for one interface.  The list of
\* DNS servers ends at the first that is missing or no address.
DnsKey == <<"DNS1Address", "DNS2Address", "DNS3Address", "DNS4Address">>

Usable(v) == v # 0 /\ v # Garbled

ConfiguredDns(section, file) ==
  LET Server(k) == Profile(file, section, DnsKey[k], 0)
      ends == {k \in 1..DNS_MAX : ~Usable(Server(k))} \cup {DNS_MAX + 1}
      n    == (CHOOSE k \in ends : \A e \in ends : k <= e) - 1
  IN  [k \in 1..n |-> Server(k)]

getconfig(section, file) ==
  LET ip   == Profile(file, section, "IPAddress", 0)
      mask == Profile(file, section, "IPMask", 0)
      gw   == Profile(file, section, "Gateway", 0)
      host == Profile(file, "main", "hostname", <<>>)
  IN  IF ~Usable(ip) \/ ~Usable(mask) THEN {}
      ELSE {[Blank EXCEPT !.hw = "ethernet", !.addr = ip, !.mask = TRUE,
                          !.gw = IF Usable(gw) THEN gw ELSE 0,
                          !.hostname = AtMost(1, host),
                          !.domainname = IF host = <<>> THEN host
                                         ELSE Tail(host),
                          !.dns = ConfiguredDns(section, file)]}

\* A configured host name without a dot: a null pointer is copied from.
CopiesNull(section, file) ==
  /\ getconfig(section, file) # {}
  /\ Len(Profile(file, "main", "hostname", <<>>)) = 1

----------------------------------------------------------------------------
(* The registry, reached through a block of DOS memory.                    *)

\* Every call of a registry function starts the module, which counts the
\* calls and takes the block, and has it freed at exit, before the first.
\* An enumeration makes several calls: one or two here.
RegistryCalled ==
  \E n \in 1..2 : regdos' = [count |-> regdos.count + n, held |-> TRUE]

\* Without the block, the call writes through a null selector.
NoDosMemory == regdos.count = 0

\* regdos_cleanup2() takes back all of the calls, and with the last the block.
Cleaned(r) == [count |-> 0, held |-> FALSE]

----------------------------------------------------------------------------
(* The interfaces.                                                         *)

Enabled(i, file) == Profile(file, i, "Enabled", TRUE)

Windows == world.win \in {"311", "95"}

\* WSOCK.VXD works, and WSOCK2.VXD, which it would not work with, is absent.
CanInit(i, file) ==
  /\ Enabled(i, file)
  /\ i = "wsock" => Windows /\ world.vxd.wsock /\ ~world.vxd.wsock2
  /\ i = "csock" => Windows /\ world.vxd.loader /\ world.vxd.sock

Detected(i) ==
  IF i = "wsock" /\ world.win = "311" THEN win3x_getaddrtable(world.ini)
  ELSE win9x_getaddrtable(world.reg)

AddrTable(i, file) ==
  IF i = "unix" THEN <<>>
  ELSE IF getconfig(i, file) # {}
       THEN <<Loopback, CHOOSE e \in getconfig(i, file) : TRUE>>
  ELSE Detected(i)

\* Whether that looks into the registry.
AsksRegistry(i, file) ==
  /\ i # "unix" /\ getconfig(i, file) = {}
  /\ ~(i = "wsock" /\ world.win = "311")

Up(i, table) == [inited |-> TRUE, held |-> Full(i), table |-> table]
Down(held) == [inited |-> FALSE, held |-> held, table |-> <<>>]

\* Mutant: __wsock_uninit() frees the memory and forgets the descriptors.
Uninited_KeepsDescriptors(i) == Down(IF i = "wsock" THEN DESCRIPTORS ELSE 0)

\* What __wsock_uninit() and __csock_uninit() leave; the latter holds nothing.
Uninited(i) == Down(0)

After(i) == CASE i = "wsock" -> "csock" [] i = "csock" -> "unix"
              [] i = "unix" -> "ready"

\* An interface for which no table is found is shut down again.
Initialised(i, file) ==
  /\ CanInit(i, file)
  /\ ~CopiesNull(i, file)
  /\ IF AsksRegistry(i, file) THEN RegistryCalled ELSE UNCHANGED regdos
  /\ LET t == AddrTable(i, file)
     IN  IF i # "unix" /\ t = <<>>
         THEN ifs' = [ifs EXCEPT ![i] = Uninited(i)] /\ UNCHANGED listed
         ELSE /\ ifs' = [ifs EXCEPT ![i] = Up(i, t)]
              /\ listed' = Append(listed, i)
  /\ stage' = After(i)

\* __wsock_init() fails after n allocations and keeps them; the mailslot
\* handler of the Unix domain cannot be installed.
Failed(i, file) ==
  /\ CanInit(i, file)
  /\ \/ /\ i = "wsock"
        /\ \E n \in 0..(Full(i) - 1) : ifs' = [ifs EXCEPT ![i] = Down(n)]
     \/ i = "unix" /\ UNCHANGED ifs
  /\ stage' = After(i)
  /\ UNCHANGED <<listed, regdos>>

NotUsable(i, file) ==
  /\ ~CanInit(i, file)
  /\ stage' = After(i)
  /\ UNCHANGED <<listed, ifs, regdos>>

Crashed(i, file) ==
  /\ CanInit(i, file)
  /\ \/ CopiesNull(i, file)
     \/ AsksRegistry(i, file) /\ NoDosMemory
  /\ stage' = "crashed"
  /\ UNCHANGED <<listed, ifs, regdos>>

\* One round of the loop of __lsck_init(), which runs before main().
InitInterface ==
  \E i \in Interface :
    /\ stage = i
    /\ config' = Located
    /\ \/ Initialised(i, Located.file)
       \/ Failed(i, Located.file)
       \/ NotUsable(i, Located.file)
       \/ Crashed(i, Located.file)
    /\ UNCHANGED <<world, env>>

\* The handlers at exit.  That of __lsck_uninit() is only installed when there
\* is an interface; __unix_uninit() does nothing.
UninitInterfaces ==
  /\ stage = "ready"
  /\ stage' = "exited"
  /\ ifs' = [i \in Interface |->
               IF i \in Range(listed) \ {"unix"} THEN Uninited(i) ELSE ifs[i]]
  /\ regdos' = Cleaned(regdos)
  /\ UNCHANGED <<world, env, config, listed>>
=============================================================================

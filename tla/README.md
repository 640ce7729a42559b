# A TLA+ development of libsocket

libsocket is a Berkeley sockets library for DJGPP programs. It runs in a DOS
box under Windows 3.x or 9x and has no network code of its own: every socket
belongs to an *interface*, which reaches Winsock through one of two VxDs, or
which imitates Unix domain sockets with LAN Manager mailslots. On top of the
sockets it carries a resolver, the host and service databases and the remote
commands of BSD, and it finds its own configuration in files and the registry.

The development has one specification for each part that keeps state of its
own. They meet where the code calls from one into the other.

| module | what it is |
| --- | --- |
| `LsckSocket` | one socket descriptor and what each call does to its status bits |
| `SocketLayer` | the table of descriptors, the file descriptors and the memory behind them, and every call that changes them |
| `SocketIo` | data through one connected socket of a VxD: reads, writes, vectored I/O, peeks, modes, `select()` |
| `UnixStream` | stream sockets of the Unix domain interface, between several processes |
| `Mailslot` | the tables of mailslots, control blocks, entries and descriptors of one process |
| `UnixFiles` | the mailslot files of the Unix domain sockets of one process, on top of `Mailslot` |
| `NetAdapters` | the table of network adapters, out of the registry of Windows 9x or the files of Windows 3.x |
| `Interfaces` | how the library starts: configuration files, VxDs, interfaces; and how it stops |
| `HostInfo` | host and domain names, the servers and search list of the resolver, on top of `Interfaces` |
| `ResSend` | `res_send()`: one query, by datagrams and circuits, over a network that loses, delays and repeats |
| `ResSearch` | `res_search()` on top of `ResSend` |
| `NameService` | what a resolver promises; `ResSearch` implements it |
| `EntryFile` | a file of entries read through a stream that several functions share |
| `HostConf` | `host.conf` and its environment variables |
| `HostLookup` | `gethostbyname()`, `gethostbyaddr()` and the iteration of hosts |
| `NetDb` | the networks, services and protocols databases |
| `InetAddr` | network numbers and the classes of addresses |
| `Lookup` | the host lookups and the databases together, as one specification |
| `NetLogin` | `.netrc`, `hosts.equiv` and `.rhosts` |
| `Remote` | `rcmd()`, `rexec()`, `bindresvport()` and the sockets they use |
| `MC*` | instances for TLC, with what their constants stand for |
| `*Proofs` | theorems, checked by TLAPS |
| `Iterations` | lemmas about loops, for the proofs |

## 1. Inventory

### Parts of the system

| component | source | state | operations | modelled |
| --- | --- | --- | --- | --- |
| Socket descriptors and calls | `src/src/*.c` | `__lsck_socket[]`, one `LSCK_SOCKET` per socket (fd, type, status bits, both addresses, interface data) | `socket`, `socketpair`, `bind`, `connect`, `listen`, `accept`, `send*`, `recv*`, `shutdown`, `getsockname`, ..., `closesocket` | state: yes; data and modes of a stream: yes; option values: no |
| File system extension | `src/src/fsext.c` | DJGPP's handler and data per file descriptor | `read`, `write`, `close`, `ioctl`, `fcntl`, `select` on a socket | dispatch, `close`, data, readiness; not `dup` and `fstat` |
| Vectored I/O | `src/src/readv.c`, `writev.c` | none | `readv`, `writev` | yes |
| Initialisation and exit | `src/src/initnt.c`, `if.c` | `__lsck_inited`, `__lsck_interface[]` | probe the interfaces; close everything at exit | yes |
| WSOCK.VXD interface | `src/src/wsock/` | one VxD socket per descriptor, DPMI memory, a buffer shared with the VxD, a pending non-blocking connect | VxD calls, each with a parameter block | effect on the descriptor, start and exit, data, `select()` |
| SOCK.VXD interface | `src/src/csock/` | VxD descriptor table and socket number | VxD calls, some with the blocking mode inverted | the same |
| Unix domain streams | `src/src/unix/u_*.c` | `LSCK_SOCKET_UNIX`: two mailslots, a secret, two sequence numbers | the handshake, data, close | yes, without non-blocking mode |
| Unix domain datagrams | `src/src/unix/u_*.c` | the same | one message per datagram | their files |
| Mailslots | `src/src/unix/mailslot.c`, `mail_fse.c` | control blocks, entries, descriptors, a DOS buffer | create, open, read, write, poll, delete | yes, without `ioctl` and `fcntl` |
| Configuration and host information | `src/src/config.c`, `ini.c`, `hstnm.c`, `uname.c`, `dnsaddr.c`, `addr.c` | directory and file of the configuration, three names, the tables of adapters | ask and set names, list servers | yes |
| Windows 3.x and 9x information, registry | `src/src/win3x`, `win9x` | values of INI files and the registry; a block of DOS memory | walk adapters, leases, names | yes; the calls of the registry only as answers |
| Resolver | `src/src/inet/r_*.c` | `_res`, the static socket of `res_send()` | `res_init`, `res_search`, `res_query`, `res_send` | yes; not the bytes of messages |
| Host lookups | `src/src/inet/ghstnmad.c` | host.conf as read, the hosts file's stream, `h_errno` | `gethostbyname`, `gethostbyaddr`, `gethostent`, ... | yes, without NIS |
| Other databases | `src/src/inet/g*ent.c`, `i_*.c` | a stream and a flag for each | `getXent`, `setXent`, `endXent`, look-ups, network numbers | yes |
| rcmd and rexec | `src/src/inet/rcmd.c`, `rexec.c`, `rusrpass.c`, `bresvpt.c` | the port tried next; locals over many socket calls | `rcmd`, `rexec`, `rresvport`, `bindresvport`, `ruserok`, `ruserpass` | yes |
| Messages | `src/src/inet/r_comp.c`, `r_mkqry.c`, `r_debug.c`, `i_nsap.c` | none | texts and addresses to and from bytes | no |
| Netgroups | `src/src/netgroup` | none without YP | | no |
| Setup program, demos, tests, tools | `src/setup`, `src/demo`, ... | | | no |

`PROJECT.json` lists them one by one with the reason for each part left out.

### How they interact

A program calls a POSIX function on a file descriptor. DJGPP finds the FSEXT
handler of that descriptor; `__fd_is_socket()` and `__fd_to_lsd()` go the same
way for calls that are not file calls. The handler is the only thing that tells
a socket from a file and its data pointer the only way to the descriptor, so
the file descriptor, its pointer, the descriptor and the slot of
`__lsck_socket[]` must agree at all times, while four different functions
create and destroy parts of them.

The call then checks and changes the status bits and calls the function of the
interface through the descriptor. The interface has its own data, hung from
the descriptor, and changes some of the bits itself.

In the Unix domain, that function writes messages to mailslots that other
processes read. The processes share nothing else. Mailslots are themselves
files of the process, found through tables of their own.

Before `main()` the interfaces are probed one after the other; each fills in a
table of adapters. Host names and name servers come from these tables, the
environment and configuration files, some of them remembered and some not. The
resolver takes its servers from there and asks them through sockets; the host
lookups combine it with the hosts file; `rcmd()` and `rexec()` look up a host
and then use several sockets at once.

### What is hard

* *Sequences of calls.* The library is not threaded: one DOS process makes one
  call at a time. But calls come in any order, the interface or `malloc()` may
  fail in the middle, and each early return undoes a different part of the
  work. A non-blocking connect completes at an arbitrary later call.
* *Processes.* Unix domain sockets of different processes do run concurrently.
* *Lost messages.* A mailslot loses nothing, but reading one reads everything
  in it, and the callers use the first message. Datagrams of the resolver are
  lost, late and repeated.
* *State kept between calls.* The resolver keeps its socket, with answers
  nobody read on it, and decides on `errno` of an earlier step. The databases
  share one stream between iterations and look-ups. `bindresvport()` goes on
  where it left off. Names are remembered while their sources change.
* *Waiting.* Every blocking read and write of a mailslot polls without limit.
  The resolver must come to an end whatever its servers do.

The hazards behind these, each at its line, are in `PROJECT.json`.

## 2. The socket layer

### State and code

`LsckSocket.tla` writes a descriptor as a record. Its `flags` are the one-bit
members of `LSCK_SOCKET`, with two more for "a local name is stored" and "a
peer name is stored"; the names themselves, the backlog and message bytes are
left out. A call is an operator from the descriptor to the *set* of descriptors
it may leave: one for each early return and each answer of the interface. The
interfaces differ, and the operators say where: only `wsock` records a pending
connect, `wsock` and `csock` change the blocking mode around a VxD call and may
fail to change it back, `unix` never records the mode and binds an unbound
socket that connects.

`SocketLayer.tla` has the rest of the layer's state:

| variable | code |
| --- | --- |
| `handler`, `data` | what `__FSEXT_alloc_fd()` and `__FSEXT_set_data()` leave in DJGPP |
| `table` | `__lsck_socket[]` |
| `heap`, `sk` | the allocated `LSCK_SOCKET`s and their contents |
| `idheap` | the allocated interface data |
| `ret` | the result of the last `socket()` or `accept()`, as far as it tells failures apart |
| `pair` | where `socketpair()` is |
| `running` | whether `__lsck_uninit()` has run |

One call is one step, because nothing else of the process runs meanwhile.
`socketpair()` is the exception: it calls `__socketx()`, the interface and
`close()`, so its steps are theirs, and no other call is allowed in between.
Every call on an open socket begins with `nonblocking_check`, as in the code.
`Spec` is a program that closes its sockets with `close()`.

### Properties

* `DescriptorOwnership`: while the program runs, file descriptors, table and
  allocated descriptors correspond exactly. It is what every call relies on
  and what each failure path must restore.
* `IdataOwnership`: no two sockets share interface data, and the data of an
  open socket is allocated. `accept()` starts from a byte copy of the listening
  descriptor, pointer included, and its clean-up frees `nsd->idata`. That is
  harmless only because each interface replaces the pointer before its first
  failure.
* `StateCoherent`: the status bits stay a legal combination: only bound stream
  sockets listen, only `wsock` has a pending connect, only a connected socket
  has been shut down, a datagram socket never acquires stream state, and so on.
* `ExhaustionIsReal`: `EMFILE` and `ENFILE` mean what they say.
* `ConnectedStable`: no step takes a connection from an open socket. The
  `connected` bit is cleared by a failed `connect()`, so this rests on the
  guards that keep a connected stream socket from getting that far.

## 3. Streams of the Unix domain

### State and code

`UnixStream.tla` has a set of client processes and a set of servers. A process
owns one socket it creates itself; `accept()` gives a server one more for each
request it takes. `usock` is `LSCK_SOCKET_UNIX` with mailslot names in place of
descriptors, `box` the contents of every mailslot and `call` the read or write
that a process is polling. A call is thus two steps or more, one to make it and
one for each read or write that succeeds, and other processes run in between:

| call | steps |
| --- | --- |
| `connect()` | `Connect` (open, bind, choose a secret), `RequestSent`, `ReplyRead` |
| `accept()` | `Accept`, `RequestRead` (which opens the two mailslots), `ReplySent` |
| `send()` | `Send`, `DataSent` |
| `recv()`, also with `MSG_PEEK` | `Recv`, `Received` |
| `close()` | `Close`; also part of `Received`, when the peer's close arrives |

`sent` and `got` are history of the present connection, used by the properties.
`sent` also bounds the number of messages; the code's sequence numbers are
never compared with anything on receipt, and are replaced by a count.

LAN Manager is external. The documentation says what the authors take it for
("written using the assumption that local mailslots are 100% reliable",
`src/src/lsck.txi`): nothing is lost, duplicated or reordered. A write fails if
the mailslot does not exist or is full, and opening for writing always succeeds
because nothing is opened until the first write. `Drain` is the loop of
`__mailslot_read()`: it reads until the mailslot is empty, and its callers use
the first message. The bytes behind the first message land behind the caller's
structure; what they overwrite is not modelled, so the model says what happens
when they overwrite nothing that matters.

`bind()` puts the working directory before a relative address, and `connect()`
does not (`src/src/unix/u_bind.c:72`, `u_connct.c:71` and 100): the processes of
`Relative` bind such an address, `Named`, and connect to, or name in their
requests, the one without a directory, `Bare`, which is of a mailslot that nobody
creates. `accept()` may fail after it has read a request, because one of the two
mailslots cannot be opened; the request is lost then and nobody answers it.

`random()` is assumed not to repeat. A secret is therefore a client and a
count of its connects. This matters to `PeerAgreement` and `DataFromPeer`,
which the code can promise no better than its random numbers do.

### Properties

* `PeerAgreement`: a client that `connect()` has connected writes to the very
  socket that `accept()` opened for its request, and that socket, while open,
  writes to it. Late replies to earlier requests and requests of other clients
  to a listening address that also connects must not complete a connect.
* `DataFromPeer`: what `recv()` returns was sent on this connection by the
  peer, in order and once, although earlier connections used the same mailslot.
* `ResetIsReal`: `ECONNRESET` only when the peer of this connection has closed.
* `FirstServed`: a client whose request is first in the mailslot of a server
  that is in `accept()` returns from `connect()`, unless that `accept()` fails:
  then the client polls for ever, as does one bound to a relative address, whom
  no reply reaches.

### Fairness

`FairSpec`, which `FirstServed` is about, adds weak fairness of `Progress(a)` for each process `a`. Windows
schedules every DOS box, and the loops of `mail_fse.c` (lines 383-390 and
429-439) repeat a read or a write until it succeeds; a step of `Progress` is
such a success. Nothing is assumed about the calls that programs make, which is
why `FirstServed` speaks of a server that is already in `accept()`.

## 4. Data through a socket

`SocketIo` is one connected stream socket of either VxD, and a peer. The bytes
in each direction are numbered, so that a lost, repeated or swapped byte shows.
`vxd` is what the VxD holds (its mode, bytes that came in, bytes to go out),
`SocketD` the buffer that all `wsock` sockets share with WSOCK.VXD, `call` the
call in progress. A call is a sequence of VxD calls: `wsock` waits with an
event before it reads, `csock` turns the mode round, reads, and turns it back.
Between any two of them the peer goes on (`Network`). `readv()` and `writev()`
are the same calls once for each buffer.

* `StreamKept`: whatever mixture of reads, peeks, vectored reads and writes,
  the program reads the bytes of the peer in order, once each, and the VxD was
  given exactly the bytes the program believes written. The partial results of
  `readv()` and `writev()` are what makes this delicate.
* `ReadsWait`: a read that gives nothing has a reason. The mode the program
  asked for must survive the switches within `recvfrom()`, one of which may
  fail.
* `ReadyIsTrue`: what `select()` said holds when the program acts on it.

The program clears `errno` before a call, and passes `MSG_PEEK` to `wsock`
only: on `csock`, `recvfrom()` drops the flag (section 11). The data type of
the parameter of `FIONBIO` is taken from `if.h:177`.

## 5. The files of Unix domain sockets

`Mailslot` holds four tables that must agree: DJGPP's descriptors, the entries
of `__mailslot_fsext[]`, the control blocks `__mailslot[]` and the mailslots
that LAN Manager keeps. Each operation is the set of its outcomes, because any
of its steps may fail: an entry, a descriptor, memory or the mailslot itself
may be missing. `close()` looks through both tables for a number and reads
address 0 where an entry is empty; what it reads there is the constant
`NullWord`, assumed to be no descriptor and no handle.

`UnixFiles` is the calls on Unix domain sockets, each with the files it opens
and forgets. `left` is history: the files that `connect()`, a failed
`accept()` or a failed `sendto()` are known to leave. A `connect()` leaves the
server's mailslot in any case and, when the reply has a bad path, the one it has
opened for writing, too (`src/src/unix/u_connct.c:135` and 144). After a failed
`connect()` the socket still holds the number of a file that was closed and may
belong to something else by now; the model has that too.

* `TablesAgree`: the tables agree whatever failed before.
* `FilesAccounted`: no other call loses a file.
* `ExitDestroys`: at exit the order of the handlers (sockets, then entries,
  then control blocks) leaves no file and no mailslot, except mailslots that
  `open()` made and failed to keep.

`OpenFile` and `CloseFile` are files of the program itself, of which there are
at most `MaxFiles`; they take descriptors in between.

## 6. The resolver

`ResSend` is `res_send()`, one step for each socket call. The network is
external: a datagram is lost when nothing arrives before `Timeout`; `Receive`
delivers any answer to a query that was sent over this socket, also one of an
earlier call, also twice, also from an address that is no name server. A
circuit delivers in order until it is lost; the rest of an answer that does not
fit the buffer is read by `Flush`. `ResSearch` adds the search list, the alias,
the numbering of queries (modulo `IdSpace`) and `sethostent()`.

* `AnswerIsOurs`: the answer returned is to the query of this call.
* `KeptSocket`: between calls no socket is open that the program did not want
  kept; a circuit leads to the server that the next call asks.
* `CircuitsBounded`: at most one circuit for each server, and one more after a
  reset.
* `RefusalIsReal`: the search stops early on `ECONNREFUSED` only if its last
  query got no answer; this depends on each step that sets or clears `errno`.
* `ImplementsService`: `ResSearch` implements `NameService`. It claims that a
  name does not exist, or has no such data, only if a server said so of one of
  the names it tried in this search; and every search returns.

*Fairness.* `WF_vars(SendStep)`, `WF_vars(SearchStep)`: the processor goes on,
and a read from a circuit is answered or fails. Reads from a circuit have no
time limit in the code; that they end is an assumption about TCP.
`WF_vars(Timeout)`: a wait is not renewed for ever. The code starts the wait
anew for every datagram that is not the answer, so this assumes that such
datagrams do not arrive for ever, each within the time limit.

## 7. Hosts, networks, services and protocols

`EntryFile` is a stream over a file of entries, comments and lines without a
newline. `HostLookup` uses it with `HostConf` (the order of services, `multi`,
`trim`, `nospoof`); what DNS answers is any member of a set of answers, and
section 6 is about how the resolver gets it. `NetDb` uses it for the other
three databases, and `InetAddr` for the numbers of networks. `Lookup` puts them
together: the hosts and each of the databases share no state, so a behaviour is
about one of them.

`getanswer()` is modelled record by record with its limits: an answer has `room`
for so many texts in the buffer, of which each record takes two, and a record
that does not fit ends the result; addresses behind the first `MAXADDRS` - 1 are
passed over. A `CNAME` behind the first `MAXALIASES` - 1 is not read to its end
(`src/src/inet/ghstnmad.c:695`), so that what follows is read where it is not:
an answer has a second sequence of records, `astray`, for what is found there.
`addrsort()` is not compiled: its calls stand under `RESOLVSORT`, which
`ghstnmad.c` does not get from `r_opts.h` without `USE_OPTIONS_H`. (`r_init.c`
includes that file and does read sort lists.)

Addresses of hosts are numbers of `Bytes` bytes of `ByteBits` bits (2 of 2 in the
run): the choice of the nearest address with `multi` compares them bit by bit,
the local one in the host's byte order and the other in the network's
(`Swapped`), as the code does. `InputsAssumption`
says what the files and answers look like: an entry of the hosts file has a
name and none that ends in a dot, names in answers are sequences of labels, and
a query for addresses gets no PTR record. The dot matters: `gethostbyaddr()`
with `nospoof` asks all services for the name with a dot at its end, and an
entry with such a name would be taken for the confirmation of DNS.

* `ByNameRight`: the answer is that of the first service of the order that
  knows the name, wherever an iteration has left the stream. From DNS it has the
  first addresses of the answer, in its order and each record once (`FirstOf`),
  all of them unless the array or the buffer is full; with `multi`, all of the
  hosts file. The program is aborted for a record of an unexpected type and for
  nothing else. Answers in which `getanswer()` has lost its place (`Astray`) are
  excepted: their addresses may be any.
* `AddressConfirmed`: with `nospoof`, an address is believed only if its name
  leads back to it.
* `NothingLeftOpen`, `OpenAsAsked`: streams and the resolver's socket are open
  exactly when the program asked for it.
* `LookupFindsFirst`, `IterationComplete`: of `NetDb`, for look-ups between the
  steps of an iteration. `getservbyport()` compares an `int` with a `short`, so
  that it never finds a port whose number in network order is 2^15 or more;
  `AsShort` and `TooLarge` say so (section 11).

The assumption `NumbersOfHosts` of `MCLookup` checks `InetAddr` on an address
of each class: `inet_network()` of what is written in front is the number that
`inet_netof()` computes.

## 8. Remote commands

`Remote` is one call of `rcmd()` or `rexec()` at a time, one step for each
socket call, with the descriptors it holds in `open`. The outcome of each call
is a choice. `NetLogin` is `.netrc` and `.rhosts` as operators, a step for each
token and line.

`rcmd()` comes down from port to port in two loops: `rresvport()` when `bind()`
finds one in use, and its own when `connect()` does. The first gives up when it
comes to `Half`; the second has no such test, and once it has taken `lport`
there or below, neither stops at it any more. `busy` is the set of the ports
that are in use during the call. A port number below 0 stands for the port it is
congruent to, so `PortBelow` goes round `NumPorts` of them; that an `int` would
overflow in the end is left out.

* `DescriptorsReturned`: each of the failure paths closes what was opened,
  except `rexec()` that fails at `connect()`, and `rcmd()` that fails at
  `accept()` or later when its second socket has got port 0.
* `CallReturns`: the loops over addresses, ports in use and refusals end, if one
  port at least is never in use. Fairness is `WF_vars(CallStep)`: the program
  goes on, and a server that was reached answers or closes the connection.
* `PasswordListed`: a password of the file comes from an entry of this host, and
  a login before it in that entry is the one it is sent with. About the words of
  the file it is only assumed that a value follows each that takes one
  (`NetrcsAssumption`). It says nothing of a login behind the password, and
  nothing of a `default` in between: the code takes no notice of either
  (section 11).
* `AccessListed`: who `ruserok()` lets in. A short name in a file stands for a
  host of the local domain, and that is the one of the first time it was needed:
  `ldomain` is the static variable of `_checkhost()`, `domains` the history of
  what it was at the calls. (`nodomain` is modelled, as `None`; `getdomainname()`
  does not fail in this library, so the run has no such domain.)
* `PortsTried`: `bindresvport()` says `EADDRINUSE` only if all ports are taken;
  another error, and a family that is not `AF_INET`, end it at once.

## 9. The host and its interfaces

`Interfaces` runs the interfaces' initialisation one by one in a `world` that
does not change (Windows version, loadable VxDs, registry, files). `ifs` holds
for each the DPMI blocks and descriptors it allocated and its table of
adapters; `regdos` is the DOS memory for registry calls, whose first call may
fail. `NetAdapters` fills the tables. `HostInfo` is what a program then asks.

* `InterfacesUsable`: an interface is listed exactly if it is initialised, and
  then it holds all it needs. One that has failed keeps what it had taken when it
  did, which nothing frees (`Partial`), but never all of it. The listed ones hold
  nothing after exit.
* `HostNameSticks`: once told, the host name and its parts stay the same in
  `gethostname()`, `uname()` and `getdomainname()`, although each computes it
  from sources that change.
* `ServersKept`: the resolver has a server, the servers of the adapters are only
  displaced when `MAXNS` others are there, and one of `resolv.conf` comes first.
* `NameserversInOrder`: all servers of `resolv.conf` come first, in its order.
  The code does not do so; it is the property of `nameservers_lost`.
* `SearchAgrees`: search list and default domain belong together.
* `AdaptersFound`: no adapter with a fixed address is missed, unless the table
  is full or one before it ends the walk: in its tree, one whose keys cannot be
  read (`EndsTree`), or in its device, one without a class or one that is not
  bound to MSTCP, though there is nothing wrong with it (`EndsDevice`); and the n-th lease goes to the n-th card. The latter holds
  only if every card has a readable address: one without gets an entry that
  looks like a card with DHCP and takes no number.

`TABLE_MAX` is at least 2, the loopback device and an adapter; the code has
room for more (`LSCK_IF_ADDR_TABLE_MAX`). `WorldsAssumption` and
`NamesAssumption` say what a world is made of: registry and files are sequences
of any length, bytes are numbers, no name that is read or set is empty.

## 10. What is checked

| run | instance | properties |
| --- | --- | --- |
| `layer_wsock` | 3 file descriptors, 2 slots, 2 descriptors, 2 blocks of interface data, `wsock`, failing `malloc()`; about 260 000 states | `TypeOK`, `DescriptorOwnership`, `ExhaustionIsReal`, `ConnectedStable` |
| `layer_csock_unix` | the same with `csock` and `unix`, `malloc()` succeeding; about 135 000 | `IdataOwnership`, `StateCoherent` |
| `socket_io` | each VxD, buffers of one and two parts, 2 bytes each way; about 1 700 000 | `StreamKept`, `ReadsWait`, `ReadyIsTrue` |
| `unix_files` | 2 sockets, 4 descriptors, 3 entries and control blocks, 3 handles, 1 file of the program; about 760 000 | `TypeOK`, `TablesAgree`, `FilesAccounted`, `ExitDestroys` |
| `stream_data` | 1 server, 1 client, 2 connects, 2 messages each way; about 2 100 000 | `DataFromPeer`, `ResetIsReal` |
| `stream_served` | 1 server, 2 clients, one of them with a relative address, 3 connects, 2 messages per mailslot, no data, `FairSpec`; about 340 000 | `TypeOK`, `PeerAgreement`, `FirstServed` |
| `resolver` | 2 servers, 2 rounds, 2 query ids, 1 late answer, 1 domain, 3 names | all of section 6 |
| `lookup` | a hosts file of 5 lines, 5 contents of host.conf, 4 environments, 10 answers; the three other databases; about 42 000 | all of section 7 |
| `remote` | 5 ports, of which the first 4 are reserved, 2 addresses, 4 netrc files, 6 combinations of host lists, 2 local domains; about 930 000 | all of section 8 |
| `host_info` | 8 kinds of adapter in 4 places, 3 sets of leases, Windows 3.x and 9x, several configurations; about 360 000 | all of section 9 but `NameserversInOrder` |

Two more runs show a property violated, `requests_lost` and `nameservers_lost`
(section 11).

*Bounds.* The hazards of the socket layer need two sockets: an accepted one
next to its listening one, the second end of a pair, the last slot next to an
occupied one. With two slots and three file descriptors the table fills before
the descriptors run out. `malloc()` fails only in the first of the two runs:
with `csock`, a failing `malloc()` breaks `IdataOwnership` (section 11). `Slot`
is exact; the C scan also reads one element past a full table, and both
outcomes lead to the failure that `Exhausted` stands for.

In the stream runs, `MaxConnect = 2` gives an earlier connection whose
messages are still around; two clients give a request behind another in the
same mailslot; `Room = 2` lets a mailslot fill up and a close message be lost;
two messages give one that is queued behind another. `AllConnects` bounds the
connects of all clients together: with 3, one of the two connects again.

In `unix_files` the four descriptors are fewer than what two connected sockets
and a file need, so that a closed descriptor is given to something else; and the
tables of three entries and of three control blocks fill, as do the handles. The
two tables have one size in the code, `MAILSLOT_MAX`, and fill at the same time
as long as they agree; that an `open()` makes a mailslot for which there is no
entry then never happens, and is left to the theorems.

In `lookup` an array of 2 addresses and of 1 alias (`MAXADDRS`, `MAXALIASES`),
and answers longer than their buffer, reach every limit of `getanswer()`. In
`remote` the netrc files have a password before the login and a `default` behind
an entry without password; with `Half` at 2 and port 0 below it, the ports are
tried past `Half` and below 0. In `resolver` two servers and
two rounds give every way on (same server, next server, next round, give up),
and two ids let an answer of an earlier query carry the number of this one. In
`socket_io` the shared buffer has one byte, so that every longer read takes two
VxD calls. `MaxConnect`, `MaxSend`, `Room`, `MaxLate`, `MaxIn`, `MaxOut`,
`MaxFiles`, `AllConnects` and the number of calls in `host_info` are the bounds
that the code does not have.

*Deadlock* is checked in `resolver` and `socket_io`. The other runs stop where
the program does: after exit, in `abort()` (`lookup`, on a bad answer), at the
end of a call, or in a process that polls for ever.

*Symmetry* is used where every definition treats the values alike: file
descriptors, memory and interface data in the socket layer, sockets in
`unix_files`. It is not used for liveness.

## 11. Where the code and its documents differ

The run `requests_lost` finds `QueueServed` violated: a request behind another
in the server's mailslot is read with it and lost, and its client polls for
ever, although `src/src/lsck.txi` promises reliable local mailslots.

The run `nameservers_lost` finds `NameserversInOrder` violated: each nameserver
line of `resolv.conf` is stored over the one before it, because
`src/src/dnsaddr.c:113` does not advance `count`, so that of the servers listed
only the last is asked. `src/config.txt:251` promises up to `MAXNS` of them,
"one per keyword", asked "in the order listed".

These were also met while modelling. The models do what the code does, and the
properties of the passing runs are stated so that they hold of it:

* A failed second `connect()` on `wsock` leaves a connect pending, and the
  socket may be declared connected without a peer name.
* A failed `connect()` on a bound Unix domain socket wipes the local name; it
  closes the file it reads from and keeps its number
  (`src/src/unix/u_connct.c:118`, the macro at line 42).
* `closesocket()` called by the program leaves handler and data of the file
  descriptor behind (`src/src/fsext.c:219`).
* `__csock_accept()` tests the wrong pointer after `malloc()`
  (`src/src/csock/c_accept.c:65`); `accept()` promises `ENOMEM`.
* In the Unix domain, a packet that `recv()` rejects ends its loop and its
  length is returned (`src/src/unix/u_recv.c:187`); two data messages read
  together lose the second (lines 134 and 148).
* `accept()` returns `EFAULT` for a null address (`src/src/accept.c:89`), which
  the change log says was fixed (`src/changes.txt:161`).
* `write()` that fails in the interface returns 0 or reports `EAGAIN`
  (`src/src/fsext.c:90`).
* `recvfrom()` on `csock` drops `MSG_PEEK`, so that a peek consumes
  (`src/src/csock/c_recv.c:108`).
* `F_GETFL` reports the mode inverted in all three interfaces, and `FIONBIO`
  takes only 1 for true in two of them.
* The name of the hosts file (`HOSTDB`, `src/src/inet/ghstnmad.c:99`) is empty
  until a look-up in the hosts file has set it (line 1225): a `gethostent()`
  before that finds nothing, and `sethostent()` does not help.
* `getservbyport()` is given a port in network order and compares it with
  `s_port`, a `short` (`src/src/inet/gsrvbypt.c:51`, `src/include/netdb.h:115`):
  `htons(143)` never matches, though the file has the entry.
* `default` does not end an entry of `.netrc`, as `src/config.txt:676` says, nor
  begin one: the words behind it are read as those of the entry before, so that
  an entry without a password is given that of `default`; and a password is taken
  before the login behind it is compared (`src/src/inet/rusrpass.c:326`). Both
  send a password with a login that it is not for.
* In an answer of DNS with `MAXALIASES` aliases or more, one is left unread and
  its data taken for the next record (`src/src/inet/ghstnmad.c:695`).
* The nearest of several addresses of the hosts file is looked for with one of
  the two in the wrong byte order (`src/src/inet/ghstnmad.c:1497`).
* A relative address of a Unix domain socket is one mailslot for `bind()` and
  another for `connect()` (`src/src/unix/u_bind.c:72`, `u_connct.c:71`).
* `accept()` that fails behind the request, and `connect()` with a bad reply,
  leave mailslots open; the client of the former is not told
  (`src/src/unix/u_accept.c:88`, `u_connct.c:144`).
* `rcmd()` may try ports down to 0 and below (`src/src/inet/rcmd.c:167`); the
  number it then writes to the server may be negative.
* A change of the local domain is not noticed by `ruserok()`
  (`src/src/inet/rcmd.c:534`).
* An adapter without a class ends its device, where a comment has the loop
  "Continue after this error" (`src/src/win9x/w9x_addr.c:211`), and so does one
  that is not bound to MSTCP (line 315).
* An interface whose start fails keeps its memory and descriptors until the
  program ends (`src/src/wsock/w_initnt.c:237`).

## 12. What is proved

`LibraryProofs.tla` proves, for every set of file descriptors, descriptors
and interface data, every size of the table, every set of interfaces, and
whether or not `malloc()` may fail:

| theorem | states |
| --- | --- |
| `TypeCorrect` | `Spec => []TypeOK` |
| `OwnershipHolds` | `Spec => []DescriptorOwnership` |
| `CoherenceHolds` | `Spec => []StateCoherent` |
| `ConnectionsStay` | `Spec => ConnectedStable` |
| `IdataHolds` | `Spec => []IdataOwnership`, assuming that `csock` is not available or that `malloc()` does not fail |
| `ExhaustionTruthful` | `Spec => []ExhaustionIsReal` |

The assumptions are those of the modules: `NULL` is no file descriptor and no
address, the table has at least one slot, the available interfaces are
interfaces. The assumption of `IdataHolds` is needed: see `__csock_accept()` in
section 11.

None of the properties is inductive alone. A call follows `data[f]`, so the
type of the descriptors after it needs `FdOwned`; `Release` clears the slot of
`data[f]`, so the table stays exact only if that descriptor was the one of `f`;
`socketpair()` joins or closes the descriptors it remembers, so they must still
be open. The inductive invariant `IInv` is the conjunction of types, ownership
while the program runs, the coherence of every open descriptor, and `PairOK`,
which says that a `socketpair()` in progress names open file descriptors of a
running program. The argument has three layers:

1. The lemmas about `LsckSocket`: each call on one descriptor keeps its type and its file
   descriptor (`Keeps`) and, if it is coherent, its coherence and its
   connection (`Preserves`). One lemma per call.
2. `UpdateOwned`, `InstallOwned`, `CloseOwned`: the three ways in which a step
   changes the tables preserve their ownership.
3. One lemma per group of actions, combined by `NextInv`. `ConnectionsStay`
   follows from the invariant and `Preserves`; `IdataHolds` adds
   `IdataOwnership` to the invariant, and `ExhaustionTruthful` what an `ENFILE`
   means until the next call: every slot is taken (`RetInv`). That as many
   sockets as slots are open follows because the table is a bijection between
   its slots in use and the open sockets (`FullTableCounts`).

For the host, the same module proves, for any worlds: registries with any number
of trees, devices and instances, any configuration files, `resolv.conf` files,
leases and environments, and any limits of the tables:

| theorem | states |
| --- | --- |
| `InterfacesAlwaysUsable` | `HostSpec => []InterfacesUsable` |
| `HostNameAlwaysSticks` | `HostSpec => []HostNameSticks` |
| `ServersAlwaysKept` | `HostSpec => []ServersKept` |
| `SearchAlwaysAgrees` | `HostSpec => []SearchAgrees` |
| `AdaptersAlwaysFound` | `HostSpec => []AdaptersFound` |

The assumptions are `TableAssumption`, `HostAssumption`, `WorldsAssumption` and
`NamesAssumption`. `HostInv` is the inductive invariant:

* `StartInv` says of each interface whether it is up, given the list and the
  stage of the start, and that the table of one that is up begins with the
  loopback device, fits and has servers in order. It needs that an interface
  comes up once (`Pending`), and that what it takes for a table is one
  (`TableTaken`): from the configuration file, from Windows 3.x or from the
  registry.
* `NamesInv` is `HostNameSticks` with the type of the names. The property is
  inductive because it ties `told` to the three names themselves and not only
  to the replies: `Named` and `setdomainname()` change them together.
* `SeenInv` says what the resolver has after `res_init()`, and that it has
  nothing before the interfaces are up: servers are only taken from tables that
  stay. `SearchSet` and `NameServersAre` are about the loops of `res_init()`
  over `resolv.conf` and over the tables.
* `FoundInv`: without a configuration file the table of `csock` is what the
  registry gives. This is kept because `__lsck_config_getfile()` never forgets a
  file that it found.

`AdaptersAlwaysFound` rests on the walk through the registry, three loops in
each other. `DeviceTurns`, `TreeTurns` and `RegistryTurns` turn each into a
sequence of states, and `DeviceLists`, `TreeLists` and `RegistryLists` carry
along it what is already in the table or why it is not; `InstanceTurn` is the
step, and `Extends` the reason that what was found stays. For the leases,
`LeasesKept` counts the cards with DHCP in the table together with the number
that the walk keeps, and `RegistryKeeps` carries it through all three loops.

`UnixFilesProofs.tla` proves, for all sets of sockets, descriptors, entries,
handles and control blocks, of which the sockets are finitely many:

| theorem | states |
| --- | --- |
| `TypesOfFilesHold` | `Spec => []TypeOK` |
| `TablesAlwaysAgree` | `Spec => []TablesAgree` |
| `FilesAlwaysAccounted` | `Spec => []FilesAccounted` |
| `ExitAlwaysDestroys` | `Spec => []ExitDestroys` |
| `ClosedFine` | whatever descriptor is closed, the tables still agree, every mailslot is still known, no other file is opened, and that one is closed |

The assumptions are those of the modules: what the code reads at address 0
(`NullWord`) is neither a descriptor nor a handle, `NULL` is no entry and
no socket, and there are finitely many sockets. None of the properties is
inductive alone. `mailslot_close()` takes the first entry and the first control
block that hold a number; that these are the ones of the file it was asked to
close holds only if no number occurs twice, which is `TablesAgree`. A close that
removes the wrong entry loses a file. And the exit handlers destroy what they
find in the tables, so every mailslot that exists must have been known all the
time (`AllKnown`). The invariant `IInv` is `TypeOK`, `ExitDestroys` and, until
the process exits, `Fine(ms)` (the tables typed and in agreement, and every
mailslot known) and `FilesAccounted`.

1. `FirstIn` (by the least-number principle) says what the two scans find;
   `DestroyedBlock` and `ClosedFine` follow from it, and `EnteredSound` and
   `CreatedSound` say what the steps of an `open()` leave, failures included.
2. `SetLeavingAccounts` and `PairedAccounts` are the two ways in which the
   calls end: files put into a socket, and files put into two.
3. `ReleasedAllFine` and `UninstalledFine` carry `Fine` through the loops of the
   exit handlers, over the sockets and over the control blocks.
4. One lemma for each call (`...Accounts`), combined by the step theorem.

`Iterations.tla` is about loops. The models write a loop as a recursive function
of the turns done, and such a definition means the choice of a function that
satisfies its equation, which says nothing until there is one. `Iteration`
constructs it for a loop over a set of values, and `Along` and `AlongEach` carry
an invariant of the loop from its start to each turn; all of them rest on the
least-number principle of the library (`Climb`). The proofs that follow use them
for the loops over buffers, ports, tokens, lines, records and services.

`SocketIoProofs.tla` proves, for every set of sockets of either VxD and any
version of it, any size of the shared buffer and of what the VxD holds, any
number and length of a call's buffers, and any number of bytes:

| theorem | states |
| --- | --- |
| `StreamAlwaysKept` | `Spec => []StreamKept` |
| `ReadsAlwaysWait` | `Spec => []ReadsWait` |
| `ReadyAlwaysTrue` | `Spec => []ReadyIsTrue` |

`IoAssumption` asks that sizes are positive and that a call has room for a byte.
The properties speak of a call when it has returned; the invariant `IInv`
follows the bytes and the mode through its stages:

* `Streams`: what the program got, what the call holds for it (`Held`) and what
  the VxD still has are the bytes of the peer, in this order and without a gap,
  and what was peeked at follows what was got; unless the connection was reset,
  which discards the last part.
* `ModeAsAsked`: the VxD's mode is the library's, and the one the program asked
  for, except within a `recvfrom()` that inverts it, when the old mode is in the
  variable of the call; or a switch has failed.
* `Reasons`: a read that ends with nothing has met the end of the stream, or
  may not wait.
* `ReadyUntilUsed`: what `select()` has promised stays true until the program
  reads or writes.
* `Types` and `Staged`: which calls come to which stages.

The loops of `readv()` and `writev()` over their buffers are where the bytes
could be split wrongly; lemmas on taking the first bytes of a sequence
(`FirstType` and those after it) show that they are not.

`RemoteProofs.tla` proves, for any number of addresses, ports in use, files,
hosts, users, domains and any range of ports:

| theorem | states |
| --- | --- |
| `DescriptorsAlwaysReturned` | `Spec => []DescriptorsReturned` |
| `AccessAlwaysListed` | `Spec => []AccessListed` |
| `PortsAlwaysTried` | `Spec => []PortsTried` |
| `PasswordAlwaysListed` | `Spec => []PasswordListed` |

* `Held` is the invariant of the first: which descriptors a call holds at each
  of its socket calls, and why (`peer`, `want`).
* `AccessAlwaysListed` rests on `DomainHad`, that the domain `_checkhost()` keeps
  was the local one at some call so far, and on the loop over the lines doing
  what the property says without it (`HostNamed`, `UserNamed`, `AccessGiven`).
* `PortsAlwaysTried`: after `n` tries (`Round`) the ports tried are those from
  the first on, up to the last or round to the next, as long as each was in use;
  `TriedSoFar` says of the other case that it came of the last port. The port
  that `bindresvport()` remembers is in the range, whatever happened before.
* `PasswordAlwaysListed`: `SoFar` says what is known when `n` tokens of the
  netrc file have been read. A token names a login or a password because of the
  one before it, an entry began at some `machine` (`Began`, whose logins so far
  are the one sent), and a password that differs from the one at the start is
  listed in an entry of this host.

`NetrcsAssumption` asks of a netrc file that a value follows each word that takes
one, and is no such word itself. The order of the words is free.

`LookupProofs.tla` proves, for every hosts file, `host.conf`, environment,
answer of the servers and file of a database, and any limits of addresses,
aliases and the buffer:

| theorem | states |
| --- | --- |
| `ByNameAlwaysRight` | `Spec => []ByNameRight` |
| `AddressAlwaysConfirmed` | `Spec => []AddressConfirmed` |
| `NothingStaysOpen` | `Spec => []NothingLeftOpen` |
| `LookupAlwaysFirst` | `Spec => []LookupFindsFirst` |
| `IterationAlwaysComplete` | `Spec => []IterationComplete` |
| `OpenAlwaysAsAsked` | `Spec => []OpenAsAsked` |
| `AddressComesBack` | `inet_makeaddr()` of `inet_netof()` and `inet_lnaof()` is the address again |

The assumptions are `NullAssumption`, `InputsAssumption` and
`HostsFileAssumption` (section 7) and `FileOfAssumption`.

* The databases: `Stream` says that an open stream is in a file and that the
  entries seen are those between the place where the iteration began and the
  place where the stream is. `ReadOn` and `PlaceRead` keep it through a step of
  an iteration and through a lookup, which moves the stream.
* What a lookup returns is the work of loops in loops. Each has a lemma on what
  it returns, from the inside outwards: `AnsweredIs` (the records of an answer), `GetanswerA` and `GetanswerPTR` (a host has the addresses of the
  answer, if it has any), `AllOfIs` (the host with all addresses of a file),
  `HostGives` and `BindGives` (one service), `ByNameIs` (the services in their
  order: the first `n` do not know the name, or the first that does has given
  its addresses), and `ByAddrIs`. `Verifies` is the one for `nospoof`: because
  no line of the hosts file has a name with a dot at its end (`Rooted`), only
  DNS can have confirmed it.
* `AfterRecords` is the invariant of the loop over an answer: the addresses so
  far are those of records so far, each once and in their order, and if one was
  passed over the array is full (`Taken`); the place in the answer is lost only
  after `MAXALIASES` aliases (`KeepsPlace`); and once the loop has ended no later
  record would have given an address, but where the program is aborted.
  `OneMoreAddress` and `NoMoreAddress` are its two interesting steps.
* `HostsInv` is the invariant of the calls: what `init_services()` found out is
  what it would find out now, and what is open is wanted. `ConfIs` says that
  every `host.conf` and environment makes a list of services, wrong lines
  included.
* `AddressComesBack` splits on the class and works on the four bytes. It needs
  that the number of a network is below 128, 65536 or 2^24 according to its
  class, which is how `inet_makeaddr()` recognises it.

`ResolverProofs.tla` proves, for every number of name servers, of rounds and of
queries, every set of questions and every id the program may have used before:

| theorem | states |
| --- | --- |
| `AnswersAreOurs` | `Spec => []AnswerIsOurs` |
| `SocketsAreKept` | `Spec => []KeptSocket` |
| `CircuitsAreBounded` | `Spec => []CircuitsBounded` |
| `RefusalsAreReal` | `Spec => []RefusalIsReal` |
| `SearchesServe` | `Spec => Service!Init /\ [][Service!Next]_(Service!vars)` |

The last one is the safety part of the refinement that the run checks as
`ImplementsService`: `ResSearch` and `ResSend` do what `NameService` promises.
The assumptions are `ResAssumption` and `SearchAssumption`. The invariant `IInv`
adds to the properties what they rest on:

* which kind of socket `res_send()` holds at which of its steps (`SocketFits`):
  a datagram is read from a datagram socket only, a virtual circuit is never
  asked a second time, and a socket that is kept is one of the two;
* which part of an answer is still unread in the circuit at each step
  (`PipeFits`): what is accepted starts where an answer starts;
* how often each server was asked at most, given the round and the server the
  loop has reached (`CircuitsFit`);
* `ErrnoFits` and `SearchFits`: a refused connection, or a failure that the
  search remembers until its end, is backed by what the servers did.

`NextServerFits`, `ReturnFits` and `AcceptFits` are the ways in which a step
leaves an attempt; each action has a lemma of its own that cites them.
`AskFits`, `AnotherQuery`, `DoneFits` and `SearchEnds` do the same for the
search, and also map its step to one of `NameService` or to a stutter.

`UnixStreamProofs.tla` proves, for every set of servers and clients, any number
of `connect()` and `send()` calls, and mailslots of any size:

| theorem | states |
| --- | --- |
| `PeersAgree` | `Spec => []PeerAgreement` |
| `DataComesFromPeer` | `Spec => []DataFromPeer` |
| `ResetsAreReal` | `Spec => []ResetIsReal` |
| `TypesHold` | `Spec => []TypeOK` |

The assumptions are `StreamAssumption` and `NullAssumption`: `NULL` is no path,
secret, message or result, and a process is not a socket that `accept()`
returned. None of these properties is inductive, because each of them speaks of
sockets and is broken by a message that is still in a mailslot. `IInv` says what
the messages promise:

* A request is in one place only (`Unique`): its client polls to write it, or
  it is in one mailslot, or one socket of `accept()` serves it. This is where
  the proof uses that `random()` does not repeat itself.
* Each message, written or about to be, fits the mailslot it is for
  (`MessageFits`). A request names a mailslot that its client reads, a reply
  names the mailslot of a socket made for it, data goes from one end of its
  connection to the other, and the close message of an end says that this end
  will not write again (`Gone` of a client, `Spent` of a server).
* A client that connects or is connected reads the mailslot that its request,
  or the socket that serves it, has the name of (`Addresses`).
* The data in a mailslot is in the order it was sent, what was received comes
  before all of it, and its sender has counted it (`Increasing`, `ItemFits`,
  `Written`).

Most steps make no secret and open no connection (`Quiet`). `StepFits` proves
the invariant for those, given how the step changes one socket, one call and
the mailslots; `Delivered`, `Drained` and `ClosedBoxes` are the three ways in
which mailslots change. Each action has one lemma. The two that are not quiet,
`Connect` and a `RequestRead` that accepts, are proved conjunct by conjunct:
`Connect` uses that no message mentions a secret that is new (`NewSecret`), the
other that the request it reads is not served yet.

### What is only model-checked

* Liveness: `FirstServed`, `CallReturns` and the liveness of `NameService`,
  which `ImplementsService` includes.

## 13. Not modelled

* *Messages of the resolver* (`r_comp.c`, `r_mkqry.c`, `r_debug.c`, `i_nsap.c`):
  conversions of names and records to bytes, and their printing. The models
  above take a message for the query it answers.
* *Netgroups*: compiled without YP their functions are stubs
  (`src/src/netgroup/gnetgent.c:249`); the NIS branches of the look-ups are
  compiled out for the same reason.
* *Unix domain*: datagram messages (their files are in `UnixFiles`),
  non-blocking mode, partial sends, sequence numbers, which no one compares.
* *Interfaces*: the layout of VxD parameter blocks, asynchronous sends, the
  descriptor table of SOCK.VXD, `SIOCGIF*` and the values of options.
* *Files*: `dup()` and `fstat()` of a socket, `fcntl()` and `ioctl()` of a
  mailslot, the lexical level of INI files, a failing `malloc()` in the host
  information.
* *Numbers*: text that is no number in `inet_network()` and `inet_addr()`;
  `inet_makeaddr()` of a network of 2^24 and more; addresses are bytes, in
  network order.
* *A DOS box that Windows closes in the middle of a call.* The exit handlers
  do not run then, and what the VxDs do about it is not in the repository.
* *Setup program, demos, tests, tools*: they use the library or install it.

## 14. What could follow

* `WireNames`: the compression of names (`dn_comp()` and `dn_expand()`), each
  the inverse of the other over bounded names.
* An abstract stream that `UnixStream` implements, then datagrams and
  non-blocking mode in `UnixStream`.

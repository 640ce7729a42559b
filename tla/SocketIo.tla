------------------------------ MODULE SocketIo ------------------------------
(***************************************************************************)
(* Data through a connected stream socket of the wsock or csock interface: *)
(* read(), write(), readv(), writev(), recv(), recvfrom(), the readiness   *)
(* that select() asks for, and the mode that fcntl() and ioctl() set       *)
(* (src/src/fsext.c, readv.c, writev.c, wsock/*.c, csock/*.c).             *)
(*                                                                         *)
(* WSOCK.VXD and SOCK.VXD are external: what they answer is taken from how *)
(* the code uses them.  A call of the program is a sequence of calls of    *)
(* the VxD, between which the peer and the network go on.  The bytes in    *)
(* each direction are numbered 1, 2, ...                                   *)
(***************************************************************************)
EXTENDS Integers, SequencesExt

CONSTANTS Sockets,       \* the kinds of socket: interface and VxD version
          BUFFER,        \* the size of SocketD, the buffer shared with WSOCK.VXD
          ROOM,          \* the bytes that the VxD holds for sending
          Lengths,       \* the lengths of the buffers of a call
          MaxIn, MaxOut  \* bounds: the bytes sent each way

ASSUME IoAssumption ==
  /\ Sockets \subseteq {"wsock", "csock"} \X Nat
  /\ BUFFER \in Nat \ {0} /\ ROOM \in Nat \ {0}
  /\ MaxIn \in Nat /\ MaxOut \in Nat
  /\ \A lens \in Lengths :   \* a call has room for a byte
        lens \in Seq(Nat) /\ \E i \in DOMAIN lens : lens[i] > 0

VARIABLES
  lsd,       \* the socket: interface, version, blocking, inbound, outbound
  vxd,       \* the VxD: its mode, what came in (rx, eof, reset), what it
             \* holds for the peer (tx) and all it ever took (out)
  SocketD,   \* the contents of the shared buffer
  call,      \* the call in progress
  sent,      \* how many bytes the peer has sent
  seen       \* history, for the properties

vars == <<lsd, vxd, SocketD, call, sent, seen>>

Idle == [op |-> "none", at |-> "none", lens |-> <<>>, peek |-> FALSE,
         flag |-> FALSE, ready |-> {}, failed |-> FALSE,
         rv |-> 0, err |-> "ok", data |-> <<>>]

NoReply == [rv |-> -1, err |-> "ok"]

\* got, wrote: the bytes the program has read and believes written; peeked:
\* what it has seen since by peeking; asked: whether it asked for blocking
\* calls; slipped: whether a switch of mode within a call has failed since; ready:
\* what it was told it can do and has not done since; reply: what the last
\* read gave.
Init ==
  /\ \E s \in Sockets :
       lsd = [iface |-> s[1], version |-> s[2], blocking |-> TRUE,
              inbound |-> TRUE, outbound |-> TRUE]
  /\ vxd = [nonblock |-> FALSE, rx |-> <<>>, eof |-> FALSE, reset |-> FALSE,
            tx |-> 0, out |-> <<>>]
  /\ SocketD = <<>> /\ call = Idle /\ sent = 0
  /\ seen = [got |-> <<>>, wrote |-> 0, peeked |-> <<>>, asked |-> TRUE,
             slipped |-> FALSE, ready |-> {},
             reply |-> NoReply]

----------------------------------------------------------------------------
(* The network.                                                            *)

Network ==
  /\ ~vxd.reset
  /\ \/ /\ sent < MaxIn /\ ~vxd.eof
        /\ sent' = sent + 1
        /\ vxd' = [vxd EXCEPT !.rx = Append(@, sent + 1)]
     \/ /\ ~vxd.eof /\ vxd' = [vxd EXCEPT !.eof = TRUE] /\ UNCHANGED sent
     \/ /\ vxd.tx > 0 /\ vxd' = [vxd EXCEPT !.tx = @ - 1] /\ UNCHANGED sent
     \/ /\ vxd' = [vxd EXCEPT !.reset = TRUE, !.rx = <<>>] /\ UNCHANGED sent
  /\ UNCHANGED <<lsd, SocketD, call, seen>>

----------------------------------------------------------------------------
(* What a call gives back.                                                 *)

Reads == {"recv", "recvfrom", "read", "readv"}

\* How many bytes the first n buffers of a call hold, and all of them.
Ends(lens) ==
  LET ends[n \in 0..Len(lens)] == IF n = 0 THEN 0 ELSE ends[n - 1] + lens[n]
  IN  ends

Total(lens) == Ends(lens)[Len(lens)]

First(n, s) == SubSeq(s, 1, IF n < Len(s) THEN n ELSE Len(s))

\* Mutant: every buffer of readv() is filled from the start.
Slices_Rewound(data, lens) == [i \in DOMAIN lens |-> First(lens[i], data)]

\* What readv() copies to each of its buffers.
Slices(data, lens) ==
  [i \in DOMAIN lens |->
     LET pos == Ends(lens)[i - 1]
     IN  First(lens[i], SubSeq(data, pos + 1, Len(data)))]

\* __lsck_socket_fsext(): a read that would block gives 0, and so does a
\* write that fails, for whatever reason.
Answer(op, rv, err) ==
  IF rv = -1 /\ (op = "write" \/ (op = "read" /\ err = "again"))
  THEN [rv |-> 0, err |-> "again"]
  ELSE [rv |-> rv, err |-> err]

\* readv() and writev() are a read() and a write().
Under(op) == CASE op = "readv" -> "read" [] op = "writev" -> "write"
               [] OTHER -> op

Return(c, rv, err, data) ==
  LET a == Answer(Under(c.op), rv, err)
      d == IF c.op = "readv" THEN FlattenSeq(Slices(data, c.lens)) ELSE data
      n == IF c.op \notin Reads /\ a.rv > 0 THEN a.rv ELSE 0
  IN  /\ call' = Idle
      /\ seen' = [seen EXCEPT
                    !.reply = IF c.op \in Reads THEN a ELSE NoReply,
                    !.got = IF c.peek THEN @ ELSE @ \o d,
                    !.peeked = IF c.peek THEN d
                               ELSE IF d # <<>> THEN <<>> ELSE @,
                    !.wrote = @ + n,
                    !.ready = @ \ {IF c.op \in Reads THEN "read" ELSE "write"}]

----------------------------------------------------------------------------
(* Receiving.                                                              *)

Started(c) == call' = c /\ UNCHANGED <<lsd, vxd, SocketD, sent, seen>>

Flips(op) == op = "recvfrom" /\ lsd.iface = "csock" /\ lsd.version = 0

\* csock refuses MSG_PEEK or does not have it: the program keeps to wsock.
Read(op, lens, peek) ==
  /\ call = Idle
  /\ peek => lsd.iface = "wsock" /\ op \in {"recv", "recvfrom"}
  /\ LET c == [Idle EXCEPT !.op = op, !.lens = lens, !.peek = peek,
                           !.at = IF Flips(op) THEN "flip" ELSE "vxd"]
     IN  IF lsd.inbound THEN Started(c)
         ELSE Return(c, 0, "ok", <<>>) /\ UNCHANGED <<lsd, vxd, SocketD, sent>>

Arrived == vxd.rx # <<>> \/ vxd.eof

Consumed(d) ==
  IF call.peek THEN vxd
  ELSE [vxd EXCEPT !.rx = SubSeq(@, Len(d) + 1, Len(@))]

Fails(err) == Return(call, -1, err, <<>>) /\ UNCHANGED <<lsd, vxd, SocketD, sent>>

\* __wsock_recv() and __wsock_recvfrom(): no more than the buffer holds.  A
\* blocking call that finds nothing waits and then asks again, once.
WsockReceives ==
  /\ Arrived /\ ~vxd.reset
  /\ LET d == First(BUFFER, First(Total(call.lens), vxd.rx))
     IN  /\ SocketD' = d \o SubSeq(SocketD, Len(d) + 1, Len(SocketD))
         /\ vxd' = Consumed(d)
         /\ Return(call, Len(d), "ok", First(Len(d), SocketD'))
         /\ UNCHANGED <<lsd, sent>>

WsockRecv ==
  /\ call.at \in {"vxd", "again"} /\ call.op \in Reads /\ lsd.iface = "wsock"
  /\ \/ WsockReceives
     \/ vxd.reset /\ Fails("error")
     \/ /\ ~Arrived /\ ~vxd.reset
        /\ call.at = "again" \/ ~lsd.blocking
        /\ Fails("again")
     \/ /\ ~Arrived /\ ~vxd.reset /\ call.at = "vxd" /\ lsd.blocking
        /\ Started([call EXCEPT !.at = "wait"])

\* __wsock_select_wait(): the VxD may refuse to set up or clear up.
WsockWait ==
  /\ call.at = "wait"
  /\ \/ Fails("error")
     \/ /\ Arrived \/ vxd.reset
        /\ call' = [call EXCEPT !.at = "again"]
        /\ UNCHANGED <<lsd, vxd, SocketD, sent, seen>>

\* SOCK.VXD waits by itself; version 0 takes the modes of recvfrom() for each
\* other.
Waits == IF Flips(call.op) THEN vxd.nonblock ELSE ~vxd.nonblock

CsockResult(rv, err, d) ==
  IF Flips(call.op)
  THEN /\ call' = [call EXCEPT !.at = "restore", !.rv = rv, !.err = err,
                               !.data = d]
       /\ UNCHANGED seen
  ELSE Return(call, rv, err, d)

CsockRecv ==
  /\ call.at = "vxd" /\ call.op \in Reads /\ lsd.iface = "csock"
  /\ \/ /\ Arrived /\ ~vxd.reset
        /\ LET d == First(Total(call.lens), vxd.rx)
           IN  vxd' = Consumed(d) /\ CsockResult(Len(d), "ok", d)
     \/ vxd.reset /\ CsockResult(-1, "error", <<>>) /\ UNCHANGED vxd
     \/ /\ ~Arrived /\ ~vxd.reset /\ ~Waits
        /\ CsockResult(-1, "again", <<>>) /\ UNCHANGED vxd
  /\ UNCHANGED <<lsd, SocketD, sent>>

----------------------------------------------------------------------------
(* The mode.  param is the number given to ioctl(FIONBIO).                 *)

\* csock takes 1 alone to mean non-blocking.
Nonblocking(param) == IF lsd.iface = "csock" THEN param = 1 ELSE param # 0

FionbioOk(param) ==
  /\ vxd' = [vxd EXCEPT !.nonblock = Nonblocking(param)]
  /\ lsd' = [lsd EXCEPT !.blocking = ~Nonblocking(param)]

\* The VxD may refuse.
Fionbio(param) ==
  /\ call = Idle
  /\ \/ /\ FionbioOk(param)
        /\ seen' = [seen EXCEPT !.asked = (param = 0), !.slipped = FALSE,
                                !.reply = NoReply]
     \/ UNCHANGED <<lsd, vxd, seen>>
  /\ UNCHANGED <<SocketD, call, sent>>

\* fcntl(F_SETFL), with or without O_NONBLOCK, is left to the interface, which
\* makes an ioctl() of it.  That of WSOCK.VXD answers -1, which is taken to
\* say that it was done as well.
SetflParam(nonblock) == IF nonblock THEN 1 ELSE 0
Setfl(nonblock) == Fionbio(SetflParam(nonblock))

\* Mutant: after recvfrom() the inverted mode is set again.
RestoredFlag_Same(flag) == flag

\* __csock_recvfrom() inverts the mode and then inverts it back.
RestoredFlag(flag) == ~flag

Switch(flag) ==
  \/ /\ FionbioOk(IF flag THEN 1 ELSE 0) /\ UNCHANGED seen
  \/ /\ seen' = [seen EXCEPT !.slipped = TRUE] /\ UNCHANGED <<lsd, vxd>>

CsockFlip ==
  /\ call.at = "flip"
  /\ Switch(lsd.blocking)
  /\ call' = [call EXCEPT !.at = "vxd", !.flag = lsd.blocking]
  /\ UNCHANGED <<SocketD, sent>>

CsockRestore ==
  /\ call.at = "restore"
  /\ Switch(RestoredFlag(call.flag))
  /\ call' = [call EXCEPT !.at = "done"]
  /\ UNCHANGED <<SocketD, sent>>

CsockDone ==
  /\ call.at = "done"
  /\ Return(call, call.rv, call.err, call.data)
  /\ UNCHANGED <<lsd, vxd, SocketD, sent>>

----------------------------------------------------------------------------
(* Sending.  The program goes on from the last byte it believes written.   *)

Write(op, lens) ==
  /\ call = Idle
  /\ seen.wrote + Total(lens) <= MaxOut
  /\ LET c == [Idle EXCEPT !.op = op, !.lens = lens, !.at = "vxd"]
     IN  IF lsd.outbound THEN Started(c)
         ELSE /\ Return(c, -1, "error", <<>>)
              /\ UNCHANGED <<lsd, vxd, SocketD, sent>>

Given == [i \in 1..Total(call.lens) |-> seen.wrote + i]

\* SOCK.VXD reads the program's memory, WSOCK.VXD the shared buffer.
Outgoing == IF lsd.iface = "wsock" THEN First(BUFFER, Given) ELSE Given

\* The VxD takes as much as it has room for, and says how much.
Send ==
  /\ call.at = "vxd" /\ call.op \notin Reads
  /\ \/ /\ ~vxd.reset /\ vxd.tx < ROOM
        /\ LET d == First(ROOM - vxd.tx, Outgoing)
           IN  /\ vxd' = [vxd EXCEPT !.tx = @ + Len(d), !.out = @ \o d]
               /\ Return(call, Len(d), "ok", <<>>)
        /\ SocketD' = IF lsd.iface = "wsock"
                      THEN Outgoing \o SubSeq(SocketD, Len(Outgoing) + 1,
                                              Len(SocketD))
                      ELSE SocketD
        /\ UNCHANGED <<lsd, sent>>
     \/ vxd.reset /\ Fails("error")
     \/ ~vxd.reset /\ vxd.tx = ROOM /\ vxd.nonblock /\ Fails("again")

----------------------------------------------------------------------------
(* Readiness: __FSEXT_ready asks for each event in turn.                   *)

Ready(condition) ==
  CASE condition = "read"   -> Arrived \/ vxd.reset
    [] condition = "write"  -> vxd.tx < ROOM \/ vxd.reset
    [] condition = "except" -> vxd.reset

\* Mutant: the socket is put on all three lists, whatever the event.
Listed_All(event) == {"read", "write", "except"}

\* The lists on which __wsock_select() or __csock_select() puts the socket.
Listed(event) == {event}

Selected(event) == \E c \in Listed(event) : Ready(c)

NextEvent(event) == CASE event = "read" -> "write" [] event = "write" -> "except"
                      [] event = "except" -> "told"

AskReady ==
  /\ call = Idle
  /\ Started([Idle EXCEPT !.op = "ready", !.at = "read"])

\* One selectsocket(): an answer, or an error of the VxD.  The list of sockets
\* has a buffer of its own.
Select ==
  /\ call.op = "ready" /\ call.at \in {"read", "write", "except"}
  /\ \/ call' = [call EXCEPT
                   !.at = NextEvent(@),
                   !.ready = IF Selected(call.at)
                             THEN @ \cup {call.at} ELSE @]
     \/ call' = [call EXCEPT !.at = NextEvent(@), !.failed = TRUE]
  /\ UNCHANGED <<lsd, vxd, SocketD, sent, seen>>

Told ==
  /\ call.at = "told"
  /\ call' = Idle
  /\ seen' = [seen EXCEPT
                !.ready = IF call.failed THEN {} ELSE call.ready,
                !.reply = NoReply]
  /\ UNCHANGED <<lsd, vxd, SocketD, sent>>

\* SOCK.VXD knows no shutdown; what WSOCK.VXD makes of it is not modelled.
Shutdown ==
  /\ call = Idle
  /\ \E how \in SUBSET {"in", "out"} \ {{}} :
       lsd' = [lsd EXCEPT !.inbound = @ /\ "in" \notin how,
                          !.outbound = @ /\ "out" \notin how]
  /\ UNCHANGED <<vxd, SocketD, call, sent, seen>>

Buffers(op) ==
  {l \in Lengths : Len(l) = 1 \/ op \in {"readv", "writev"}}

Next ==
  \/ Network
  \/ \E op \in Reads : \E lens \in Buffers(op), peek \in BOOLEAN :
       Read(op, lens, peek)
  \/ \E op \in {"write", "send", "writev"} : \E lens \in Buffers(op) :
       Write(op, lens)
  \/ WsockRecv \/ WsockWait
  \/ CsockRecv \/ CsockFlip \/ CsockRestore \/ CsockDone
  \/ Send
  \/ \E param \in 0..2 : Fionbio(param)
  \/ \E nonblock \in BOOLEAN : Setfl(nonblock)
  \/ AskReady \/ Select \/ Told
  \/ Shutdown

Spec == Init /\ [][Next]_vars

----------------------------------------------------------------------------
(* Properties.                                                             *)

OneTo(n) == [i \in 1..n |-> i]

\* Whatever calls the program mixes, it reads the bytes the peer sent in their
\* order, none twice, none lost, what it peeks at being what comes next; and
\* the VxD has been given the bytes the program believes written and no others
\* (src/src/readv.c:81, src/src/wsock/w_recv.c:89, src/src/fsext.c:66).
StreamKept ==
  /\ IsPrefix(seen.got \o seen.peeked, OneTo(sent))
  /\ call = Idle => vxd.out = OneTo(seen.wrote)

\* A read that gives the program nothing has a reason: the peer has closed,
\* the program has shut the socket, there was an error, or it would have
\* blocked and the program had asked for that to be told, unless SOCK.VXD
\* refused to be switched back (src/src/csock/c_recv.c:114).
ReadsWait ==
  LET r == seen.reply
  IN  r.rv = 0 \/ r.err = "again" =>
        IF r.err = "again" THEN ~seen.asked \/ seen.slipped
        ELSE vxd.eof \/ ~lsd.inbound

\* What select() says can be done without blocking still can when the program
\* comes to do it (src/src/fsext.c:95, src/src/wsock/w_select.c:82).
ReadyIsTrue == call = Idle => \A c \in seen.ready : Ready(c)
=============================================================================

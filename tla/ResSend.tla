------------------------------ MODULE ResSend -------------------------------
(***************************************************************************)
(* res_send() of the resolver (src/inet/r_send.c): one query is sent to    *)
(* the name servers in turn until one of them answers it, by datagrams or  *)
(* by a virtual circuit, over a socket that later queries may find open.   *)
(*                                                                         *)
(* The network and the servers are external.  A datagram may be lost,      *)
(* delayed beyond the call that asked for it, answered twice or from       *)
(* another address; a circuit delivers in order until it is lost.  What is *)
(* sent to a socket that has been closed is lost.  No query or answer hook *)
(* is set, and pfcode (set by dig only) is 0.                              *)
(***************************************************************************)
EXTENDS Naturals, Sequences, FiniteSets

CONSTANTS
    NServers,       \* _res.nscount
    Retry,          \* _res.retry
    IdSpace,        \* how many query ids there are (65536)
    Question,       \* names a program asks for
    Failure,        \* what a call that fails leaves in errno
    MaxLate         \* earlier queries whose answer may still come

ASSUME ResAssumption ==
    /\ NServers \in Nat \ {0}
    /\ Retry \in Nat \ {0}
    /\ IdSpace \in Nat \ {0}
    /\ MaxLate \in Nat

VARIABLES
    options,        \* _res.options: RES_USEVC, RES_STAYOPEN, RES_IGNTC
    sock,           \* the statics s, vc and connected, with what is on its way
    call,           \* the local variables of the call
    ans,            \* the answer buffer: the last message read into it
    errno,
    pc              \* where the call is, "returned" or "idle"

sendVars == <<options, sock, call, ans, errno, pc>>

Options == [usevc : BOOLEAN, stayopen : BOOLEAN, igntc : BOOLEAN]
Servers == 0 .. NServers - 1
Query == [id : 0 .. IdSpace - 1, q : Question]
Rcode == {"data", "nodata", "nxdomain", "servfail", "refused"}

(***************************************************************************)
(* A message: the query it answers, the result it reports (an answer count *)
(* of zero is "nodata"; NOTIMP is handled as REFUSED), whether it is       *)
(* truncated, and whether it came from an address that is no name server.  *)
(***************************************************************************)
Message ==
    {m \in [query : Query, rcode : Rcode, tc : BOOLEAN, stray : BOOLEAN] :
        m.tc => m.rcode = "data"}

\* The answer buffer as res_query() hands it over: its rcode is NOERROR.
Blank(query) ==
    [query |-> query, rcode |-> "nodata", tc |-> FALSE, stray |-> FALSE]

(***************************************************************************)
(* The socket.  "sent" holds the queries sent over it; "pipe" what the     *)
(* server (peer) has written to a circuit and nobody has read: the length  *)
(* of an answer, the part of it that fits the buffer, and the rest.  A     *)
(* read that fails while the rest is flushed leaves it dead, yet open.     *)
(***************************************************************************)
Closed == [kind |-> "none", connected |-> FALSE, sent |-> {},
           peer |-> 0, pipe |-> <<>>, dead |-> FALSE]
Datagram == [Closed EXCEPT !.kind = "dg"]
Circuit(n) == [Closed EXCEPT !.kind = "vc", !.peer = n]

AnswerParts(m, long) ==
    << <<"len", m>>, <<"body", m>> >> \o
        IF long THEN << <<"rest", m>> >> ELSE <<>>

(***************************************************************************)
(* The locals as the call starts.  "circuits" is history: how many times   *)
(* each server was asked over a circuit.                                   *)
(***************************************************************************)
NewCall(query) ==
    [query |-> query, try |-> 0, ns |-> 0, v_circuit |-> options.usevc,
     badns |-> {}, gotsomewhere |-> FALSE, connreset |-> FALSE,
     terrno |-> "ETIMEDOUT", ok |-> FALSE,
     circuits |-> [n \in Servers |-> 0]]

-----------------------------------------------------------------------------
Return(c, success, e) ==
    /\ call' = [c EXCEPT !.ok = success]
    /\ errno' = e
    /\ pc' = "returned"

(***************************************************************************)
(* next_ns: the next server, the next round, or the end of the call.  Each *)
(* way here has closed the socket.                                         *)
(***************************************************************************)
NextServer(c, e) ==
    /\ sock' = Closed
    /\ IF c.ns + 1 \in Servers
       THEN /\ call' = [c EXCEPT !.ns = @ + 1]
            /\ pc' = "same_ns"
            /\ errno' = e
       ELSE IF c.try + 1 < Retry
       THEN /\ call' = [c EXCEPT !.ns = 0, !.try = @ + 1]
            /\ pc' = "same_ns"
            /\ errno' = e
       ELSE Return(c, FALSE, IF c.v_circuit THEN c.terrno
                             ELSE IF c.gotsomewhere THEN "ETIMEDOUT"
                             ELSE "ECONNREFUSED")

\* The server failed in a way that asking again will not mend.
Reject(c, e) == NextServer([c EXCEPT !.badns = @ \cup {c.ns}], e)

\* Mutant: a circuit is kept open whichever server it leads to.
Keep_AnyServer(c) ==
    options.stayopen /\ (c.v_circuit => options.usevc)

\* Whether the socket stays open after an answer.
Keep(c) ==
    options.stayopen /\ (c.v_circuit => (options.usevc /\ c.ns = 0))

Accept(c, sk, e) ==
    /\ sock' = IF Keep(c) THEN sk ELSE Closed
    /\ Return(c, TRUE, e)

-----------------------------------------------------------------------------
\* A server that was rejected earlier is passed over.
SkipBadServer ==
    /\ pc = "same_ns" /\ call.ns \in call.badns
    /\ NextServer(call, errno)
    /\ UNCHANGED <<options, ans>>

(***************************************************************************)
(* The datagram branch, up to the wait.  connect() on a datagram socket    *)
(* only says where send() sends to; sendto() names the server itself.      *)
(***************************************************************************)
SendDatagram ==
    /\ pc = "same_ns" /\ call.ns \notin call.badns /\ ~call.v_circuit
    /\ LET c == call
           sk == IF sock.kind = "dg" THEN sock ELSE Datagram
           connecting == NServers = 1 \/ (call.try = 0 /\ call.ns = 0)
       IN \/ /\ sock.kind # "dg"                    \* no socket
             /\ sock' = Closed
             /\ \E e \in Failure : Return(c, FALSE, e)
          \/ \E e \in Failure : Reject(c, e)   \* not sent
          \/ /\ sock' = [sk EXCEPT !.connected = connecting,
                                   !.sent = @ \cup {c.query}]
             /\ call' = c
             /\ pc' = "wait"
             /\ UNCHANGED errno
    /\ UNCHANGED <<options, ans>>

\* select() reports that the time is over: the socket is closed as well.
Timeout ==
    /\ pc = "wait"
    /\ NextServer([call EXCEPT !.gotsomewhere = TRUE], errno)
    /\ UNCHANGED <<options, ans>>

\* select() or recvfrom() fails.
WaitFails ==
    /\ pc = "wait"
    /\ \E e \in Failure : NextServer(call, e)
    /\ UNCHANGED <<options, ans>>

\* res_isourserver() and res_queriesmatch(): an answer to this query.
IsAnswer(m, c) == m.query.id = c.query.id /\ ~m.stray /\ m.query.q = c.query.q

\* Mutant: errno is not reset before recvfrom().
ErrnoReset_Dropped == errno

\* errno before recvfrom() reads an answer.
ErrnoReset == "0"

(***************************************************************************)
(* A datagram arrives.  It is read into the answer buffer before anything  *)
(* is known about it; one that does not answer the query is dropped, and   *)
(* the wait starts anew.                                                   *)
(***************************************************************************)
Receive(m) ==
    /\ pc = "wait" /\ m.query \in sock.sent
    /\ ans' = m
    /\ LET c == [call EXCEPT !.gotsomewhere = TRUE]
       IN \/ /\ ~IsAnswer(m, c)
             /\ call' = c
             /\ errno' = ErrnoReset
             /\ UNCHANGED <<sock, pc>>
          \/ /\ IsAnswer(m, c) /\ m.rcode \in {"servfail", "refused"}
             /\ Reject(c, ErrnoReset)
          \/ /\ IsAnswer(m, c) /\ m.rcode \notin {"servfail", "refused"}
             /\ m.tc /\ ~options.igntc
             /\ sock' = Closed
             /\ call' = [c EXCEPT !.v_circuit = TRUE]
             /\ errno' = ErrnoReset
             /\ pc' = "same_ns"
          \/ /\ IsAnswer(m, c) /\ m.rcode \notin {"servfail", "refused"}
             /\ m.tc => options.igntc
             /\ Accept(c, sock, ErrnoReset)
    /\ UNCHANGED options

-----------------------------------------------------------------------------
\* Mutant: asking over a circuit does not end the rounds.
OneRound_Dropped(c) == c

\* "Use virtual circuit; at most one attempt per server."
OneRound(c) == [c EXCEPT !.try = Retry]

(***************************************************************************)
(* The circuit branch, up to the first read.  What the server answers is   *)
(* chosen as the query is written: an answer, long for the buffer or not,  *)
(* that the reads get unless the circuit is lost.                          *)
(***************************************************************************)
SendCircuit ==
    /\ pc = "same_ns" /\ call.ns \notin call.badns /\ call.v_circuit
    /\ LET c == [OneRound(call) EXCEPT !.circuits[call.ns] = @ + 1]
           sk == IF sock.kind = "vc" THEN sock ELSE Circuit(c.ns)
           err == IF sock.kind = "vc" THEN errno ELSE "0"
       IN \/ /\ sock.kind # "vc"                    \* no socket
             /\ sock' = Closed
             /\ \E e \in Failure : Return(c, FALSE, e)
          \/ \E e \in Failure :               \* no circuit, not written
                Reject([c EXCEPT !.terrno = e], e)
          \/ /\ \E r \in Rcode, long \in BOOLEAN :
                LET m == [query |-> c.query, rcode |-> r, tc |-> FALSE,
                          stray |-> FALSE]
                IN sock' = [sk EXCEPT !.pipe = @ \o AnswerParts(m, long)]
             /\ call' = c
             /\ pc' = "vc_length"
             /\ errno' = err
    /\ UNCHANGED <<options, ans>>

\* A read that fails sets errno; one that meets the end of the data does not.
ReadError == {"ECONNRESET", "ETIMEDOUT", errno}

(***************************************************************************)
(* "Requery the server instead of trying a new one.  We only allow one     *)
(* reset per query to prevent looping."                                    *)
(***************************************************************************)
ReadLength ==
    /\ pc = "vc_length"
    /\ \/ /\ ~sock.dead
          /\ sock' = [sock EXCEPT !.pipe = Tail(@)]
          /\ pc' = "vc_body"
          /\ UNCHANGED <<call, errno>>
       \/ \E e \in ReadError :
            LET c == [call EXCEPT !.terrno = e]
            IN IF e = "ECONNRESET" /\ ~call.connreset
               THEN /\ sock' = Closed
                    /\ call' = [c EXCEPT !.connreset = TRUE]
                    /\ errno' = e
                    /\ pc' = "same_ns"
               ELSE NextServer(c, e)
    /\ UNCHANGED <<options, ans>>

\* Mutant: the rest of a long answer is left in the circuit.
More_NotFlushed(pipe) == FALSE

More(pipe) == Len(pipe) > 1 /\ pipe[2][1] = "rest"

ReadBody ==
    /\ pc = "vc_body"
    /\ \/ LET m == Head(sock.pipe)[2]
              sk == [sock EXCEPT !.pipe = Tail(@)]
          IN /\ ans' = [m EXCEPT !.tc = More(sock.pipe)]
             /\ IF More(sock.pipe)
                THEN /\ sock' = sk
                     /\ pc' = "vc_flush"
                     /\ UNCHANGED <<call, errno>>
                ELSE Accept(call, sk, errno)
       \/ \* a part of the answer may have been read
          /\ ans' \in {ans, Head(sock.pipe)[2]}
          /\ \E e \in ReadError : NextServer([call EXCEPT !.terrno = e], e)
    /\ UNCHANGED options

\* "Flush rest of answer so connection stays in synch."
Flush ==
    /\ pc = "vc_flush"
    /\ \/ Accept(call, [sock EXCEPT !.pipe = Tail(@)], errno)
       \/ \E e \in ReadError : Accept(call, [sock EXCEPT !.dead = TRUE], e)
    /\ UNCHANGED <<options, ans>>

SendStep ==
    \/ SkipBadServer \/ SendDatagram \/ WaitFails
    \/ SendCircuit \/ ReadLength \/ ReadBody \/ Flush

\* What the network delivers to a datagram socket.
Arrival == \E m \in Message : Receive(m)

-----------------------------------------------------------------------------
(***************************************************************************)
(* What res_send() returns is an answer to the query of this call, however *)
(* late, twice or from elsewhere other answers come: on a datagram socket  *)
(* kept open between calls because they are dropped, on a circuit because  *)
(* the calls before left nothing unread in it.                             *)
(***************************************************************************)
AnswerIsOurs ==
    pc = "returned" /\ call.ok => ans.query = call.query /\ ~ans.stray

(***************************************************************************)
(* Between calls no socket is open but one the program asked to keep, and  *)
(* a circuit leads to the first server: the one the next call asks.        *)
(***************************************************************************)
KeptSocket ==
    /\ pc = "idle" /\ sock # Closed => options.stayopen
    /\ pc = "idle" /\ sock.kind = "vc" => options.usevc
    /\ pc = "vc_length" => sock.peer = call.ns

(***************************************************************************)
(* A server is asked over a circuit once per call, and only one server     *)
(* once more, after a reset (r_send.c: "at most one attempt per server",   *)
(* "one reset per query to prevent looping").                              *)
(***************************************************************************)
CircuitsBounded ==
    /\ \A n \in Servers : call.circuits[n] <= IF call.connreset THEN 2 ELSE 1
    /\ Cardinality({n \in Servers : call.circuits[n] = 2}) <= 1

=============================================================================

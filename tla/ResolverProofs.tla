--------------------------- MODULE ResolverProofs ---------------------------
(***************************************************************************)
(* Theorems about ResSearch and the ResSend below it: the answer returned  *)
(* is to the query of the call, what is kept between calls, how often a    *)
(* server is asked over a circuit, and the steps of a name service.        *)
(***************************************************************************)
EXTENDS ResSearch, FiniteSetTheorems, SequenceTheorems, TLAPS

-----------------------------------------------------------------------------
\* Types.

Errno == Failure \cup {"0", "ETIMEDOUT", "ECONNRESET", "ECONNREFUSED"}

Answer == [query : Query, rcode : Rcode, tc : BOOLEAN, stray : BOOLEAN]

Part == {"len", "body", "rest"} \X Answer

SocketType ==
    [kind : {"none", "dg", "vc"}, connected : BOOLEAN, sent : SUBSET Query,
     peer : Servers, pipe : Seq(Part), dead : BOOLEAN]

CallType ==
    [query : Query, try : 0 .. Retry, ns : Servers, v_circuit : BOOLEAN,
     badns : SUBSET Servers, gotsomewhere : BOOLEAN, connreset : BOOLEAN,
     terrno : Errno, ok : BOOLEAN, circuits : [Servers -> Nat]]

SendTypes ==
    /\ options \in Options
    /\ sock \in SocketType
    /\ call \in CallType
    /\ ans \in Answer
    /\ errno \in Errno
    /\ pc \in {"idle", "same_ns", "wait", "vc_length", "vc_body", "vc_flush",
               "returned", "too_long"}

-----------------------------------------------------------------------------
\* How many circuits a call has made.

CircuitsFit(c) ==
    /\ c.try # Retry => \A n \in Servers : c.circuits[n] = 0
    /\ c.try = Retry => c.v_circuit
    /\ \A n \in Servers : n > c.ns => c.circuits[n] = 0
    /\ \A n \in Servers : c.circuits[n] <= IF c.connreset THEN 2 ELSE 1
    /\ \A m, n \in Servers :
           c.circuits[m] = 2 /\ c.circuits[n] = 2 => m = n

\* The server that is next has been asked before only if it was reset.
Unasked(c) ==
    c.circuits[c.ns] # 0 =>
        c.connreset /\ \A n \in Servers : c.circuits[n] <= 1

CircuitsInv == CircuitsFit(call) /\ (pc = "same_ns" => Unasked(call))

-----------------------------------------------------------------------------
\* The socket, and what is in it, at each step of the call.

Resting == {"idle", "returned", "too_long"}
InCircuit == {"vc_length", "vc_body", "vc_flush"}

SocketFits ==
    /\ pc \in Resting /\ sock # Closed => options.stayopen
    /\ pc \in Resting /\ sock.kind = "vc" => options.usevc /\ sock.peer = 0
    /\ pc = "same_ns" /\ sock.kind = "vc" =>
           options.usevc /\ sock.peer = 0 /\ call.ns = 0
    /\ pc = "wait" => sock.kind = "dg" /\ ~call.v_circuit
    /\ pc \in InCircuit =>
           sock.kind = "vc" /\ sock.peer = call.ns /\ call.v_circuit

Ours == {m \in Answer : m.query = call.query /\ ~m.stray}

\* An answer m to this query, from its i-th part on.
AnswerFrom(pipe, i) ==
    /\ Len(pipe) \in {3 - i, 4 - i}
    /\ \E m \in Ours : i <= 2 => pipe[3 - i] = <<"body", m>>
    /\ Len(pipe) = 4 - i => pipe[4 - i][1] = "rest"

PipeFits ==
    /\ pc \notin InCircuit /\ ~sock.dead => Len(sock.pipe) = 0
    /\ pc = "vc_length" /\ ~sock.dead => AnswerFrom(sock.pipe, 1)
    /\ pc = "vc_body" => ~sock.dead /\ AnswerFrom(sock.pipe, 2)
    /\ pc = "vc_flush" => ~sock.dead /\ Len(sock.pipe) = 1 /\ ans \in Ours

\* errno says ECONNREFUSED only after a failure, which closes the socket.
ErrnoFits ==
    /\ pc # "idle" /\ sock.kind = "vc" => errno # "ECONNREFUSED"
    /\ pc = "returned" /\ call.ok => errno # "ECONNREFUSED"

SendInv ==
    /\ SendTypes /\ CircuitsInv /\ SocketFits /\ PipeFits /\ ErrnoFits
    /\ AnswerIsOurs

-----------------------------------------------------------------------------
\* The search: what it remembers of failures, a server has said.

SearchType ==
    [name : Name, opts : SearchOptions,
     at : {"idle", "alias", "first", "list", "last"}, i : 0 .. NDomains,
     saved : {NULL, "HOST_NOT_FOUND", "TRY_AGAIN", "NO_RECOVERY", "NO_DATA"},
     got_nodata : BOOLEAN, got_servfail : BOOLEAN, refused : BOOLEAN,
     learnt : SUBSET {"found", "denied", "empty"},
     reply : {"found", "denied", "empty", "unknown"}]

Founded(e, learnt) == Reply(e) \in learnt \cup {"unknown"}

SearchFits(s) ==
    /\ s \in SearchType
    /\ ~s.refused
    /\ s.saved # NULL => Founded(s.saved, s.learnt)
    /\ s.got_nodata => "empty" \in s.learnt

IInv == SendInv /\ SearchFits(search) /\ resId \in 0 .. IdSpace - 1

-----------------------------------------------------------------------------
\* An answer in a circuit where nothing else is.
LEMMA Written ==
  ASSUME NEW m \in Ours, NEW long \in BOOLEAN,
         NEW pipe \in Seq(Part), Len(pipe) = 0
  PROVE  /\ pipe \o AnswerParts(m, long) \in Seq(Part)
         /\ AnswerFrom(pipe \o AnswerParts(m, long), 1)
<1> DEFINE two == << <<"len", m>>, <<"body", m>> >>
           one == << <<"rest", m>> >>
<1>1. two \in Seq(Part) /\ Len(two) = 2 /\ two[2] = <<"body", m>>
  BY SMT DEF Part, Ours
<1>2. one \in Seq(Part) /\ Len(one) = 1 /\ one[1] = <<"rest", m>>
  BY SMT DEF Part, Ours
<1>3. AnswerParts(m, long) = IF long THEN two \o one ELSE two \o <<>>
  BY DEF AnswerParts
<1> HIDE DEF two, one
<1>4. pipe = <<>>
  BY EmptySeq
<1>5. two \o <<>> = two
  BY <1>1, ConcatEmptySeq, Zenon
<1>6. /\ two \o one \in Seq(Part) /\ Len(two \o one) = 3
      /\ (two \o one)[2] = two[2] /\ (two \o one)[3] = one[1]
  <2>1. /\ two \o one \in Seq(Part) /\ Len(two \o one) = Len(two) + Len(one)
        /\ \A i \in 1 .. Len(two) + Len(one) : (two \o one)[i] =
               IF i <= Len(two) THEN two[i] ELSE one[i - Len(two)]
    BY <1>1, <1>2, ConcatProperties, Zenon
  <2> QED BY <1>1, <1>2, <2>1, SMT
<1>7. pipe \o AnswerParts(m, long) = AnswerParts(m, long)
  BY <1>1, <1>3, <1>4, <1>5, <1>6, ConcatEmptySeq
<1>8. <<"rest", m>>[1] = "rest"
  OBVIOUS
<1>9. CASE long
  <2>1. AnswerParts(m, long) = two \o one
    BY <1>3, <1>9
  <2> HIDE DEF AnswerParts
  <2> QED BY <1>1, <1>2, <1>6, <1>7, <1>8, <2>1, SMT DEF AnswerFrom
<1>10. CASE ~long
  <2>1. AnswerParts(m, long) = two
    BY <1>3, <1>5, <1>10
  <2> QED BY <1>1, <1>7, <2>1, SMT DEF AnswerFrom
<1> QED BY <1>9, <1>10

LEMMA LengthRead ==
  ASSUME NEW pipe \in Seq(Part), AnswerFrom(pipe, 1)
  PROVE  Tail(pipe) \in Seq(Part) /\ AnswerFrom(Tail(pipe), 2)
<1>1. Len(pipe) \in {2, 3} /\ pipe # <<>>
  BY EmptySeq, SMT DEF AnswerFrom
<1>2. /\ Tail(pipe) \in Seq(Part) /\ Len(Tail(pipe)) = Len(pipe) - 1
      /\ \A i \in 1 .. Len(Tail(pipe)) : Tail(pipe)[i] = pipe[i + 1]
  BY <1>1, HeadTailProperties
<1>3. /\ Tail(pipe)[1] = pipe[2]
      /\ Len(pipe) = 3 => Tail(pipe)[2] = pipe[3]
  BY <1>1, <1>2, SMT
<1> QED BY <1>1, <1>2, <1>3, SMT DEF AnswerFrom

LEMMA BodyRead ==
  ASSUME NEW pipe \in Seq(Part), AnswerFrom(pipe, 2)
  PROVE  /\ Head(pipe)[2] \in Ours
         /\ Tail(pipe) \in Seq(Part)
         /\ Len(Tail(pipe)) = IF More(pipe) THEN 1 ELSE 0
         /\ More(pipe) \in BOOLEAN
<1>1. Len(pipe) \in {1, 2} /\ pipe # <<>>
  BY EmptySeq, SMT DEF AnswerFrom
<1>2. Tail(pipe) \in Seq(Part) /\ Len(Tail(pipe)) = Len(pipe) - 1
  BY <1>1, HeadTailProperties
<1>3. More(pipe) <=> Len(pipe) = 2
  BY <1>1, SMT DEF More, AnswerFrom
<1>4. Head(pipe) = pipe[1]
  BY <1>1, SMT
<1>5. PICK m \in Ours : pipe[1] = <<"body", m>>
  BY SMT DEF AnswerFrom
<1>6. Head(pipe)[2] = m
  BY <1>4, <1>5
<1>7. More(pipe) \in BOOLEAN
  BY DEF More
<1> QED BY <1>1, <1>2, <1>3, <1>5, <1>6, <1>7, SMT

-----------------------------------------------------------------------------
\* The ways in which a step leaves the call.
LEMMA ClosedSocket ==
  /\ Closed \in SocketType
  /\ Closed.kind = "none" /\ Closed.peer = 0 /\ Len(Closed.pipe) = 0
  /\ Closed.sent = {} /\ ~Closed.dead
<1>1. 0 \in Servers
  BY ResAssumption, SMT DEF Servers
<1>2. <<>> \in Seq(Part) /\ Len(<<>>) = 0
  BY EmptySeq
<1> QED BY <1>1, <1>2, SMT DEF Closed, SocketType

LEMMA ReturnFits ==
  ASSUME options \in Options, options' = options, ans' \in Answer,
         NEW c \in CallType, CircuitsFit(c),
         NEW success \in BOOLEAN, NEW e \in Errno, Return(c, success, e),
         sock' \in SocketType,
         sock' # Closed => options.stayopen,
         sock'.kind = "vc" =>
             options.usevc /\ sock'.peer = 0 /\ e # "ECONNREFUSED",
         ~sock'.dead => Len(sock'.pipe) = 0,
         success => /\ ans'.query = c.query /\ ~ans'.stray
                    /\ e # "ECONNREFUSED"
  PROVE  SendInv'
<1>1. /\ call' = [c EXCEPT !.ok = success] /\ errno' = e /\ pc' = "returned"
      /\ call' \in CallType
      /\ call'.query = c.query /\ call'.ok = success /\ call'.try = c.try
      /\ call'.ns = c.ns /\ call'.v_circuit = c.v_circuit
      /\ call'.connreset = c.connreset /\ call'.circuits = c.circuits
  BY SMT DEF Return, CallType
<1>2. SendTypes'
  BY <1>1 DEF SendTypes
<1>3. CircuitsInv'
  BY <1>1 DEF CircuitsInv, CircuitsFit
<1>4. SocketFits' /\ PipeFits' /\ ErrnoFits'
  BY <1>1 DEF SocketFits, PipeFits, ErrnoFits, Resting, InCircuit
<1>5. AnswerIsOurs'
  BY <1>1 DEF AnswerIsOurs
<1> QED BY <1>2, <1>3, <1>4, <1>5 DEF SendInv

LEMMA NextServerFits ==
  ASSUME options \in Options, options' = options, ans' \in Answer,
         NEW c \in CallType, CircuitsFit(c), NEW e \in Errno, NextServer(c, e)
  PROVE  SendInv'
<1>1. sock' = Closed
  BY DEF NextServer
<1>2. CASE c.ns + 1 \in Servers \/ c.try + 1 < Retry
  <2>1. /\ pc' = "same_ns" /\ errno' = e
        /\ \/ c.ns + 1 \in Servers /\ call' = [c EXCEPT !.ns = c.ns + 1]
           \/ /\ c.try + 1 < Retry
              /\ call' = [c EXCEPT !.ns = 0, !.try = c.try + 1]
    BY <1>2, Zenon DEF NextServer
  <2>2. /\ call' \in CallType
        /\ call'.v_circuit = c.v_circuit
        /\ call'.connreset = c.connreset /\ call'.circuits = c.circuits
        /\ \/ c.ns + 1 \in Servers /\ call'.ns = c.ns + 1 /\ call'.try = c.try
           \/ c.try + 1 < Retry /\ call'.ns = 0 /\ call'.try = c.try + 1
    <3>1. CASE c.ns + 1 \in Servers /\ call' = [c EXCEPT !.ns = c.ns + 1]
      BY <3>1, SMT DEF CallType
    <3>2. CASE /\ c.try + 1 < Retry
               /\ call' = [c EXCEPT !.ns = 0, !.try = c.try + 1]
      <4>1. c.try + 1 \in 0 .. Retry /\ 0 \in Servers
        BY <3>2, ResAssumption, SMT DEF CallType, Servers
      <4>2. call' \in CallType
        BY <3>2, <4>1, Zenon DEF CallType
      <4>3. /\ call'.v_circuit = c.v_circuit /\ call'.connreset = c.connreset
            /\ call'.circuits = c.circuits
            /\ call'.ns = 0 /\ call'.try = c.try + 1
        BY <3>2, SMT DEF CallType
      <4> QED BY <3>2, <4>2, <4>3
    <3> QED BY <2>1, <3>1, <3>2
  <2>3. SendTypes'
    BY <1>1, <2>1, <2>2, ClosedSocket DEF SendTypes
  <2>4. c.try \in 0 .. Retry /\ c.ns \in Servers /\ c.circuits \in [Servers -> Nat]
    BY DEF CallType
  <2>5. CircuitsFit(call') /\ Unasked(call')
    <3>1. CASE c.ns + 1 \in Servers /\ call'.ns = c.ns + 1 /\ call'.try = c.try
      <4>1. \A n \in Servers : n > c.ns + 1 => n > c.ns
        BY <2>4, ResAssumption, SMT DEF Servers
      <4>2. c.ns + 1 > c.ns
        BY <2>4, ResAssumption, SMT DEF Servers
      <4> QED BY <2>2, <3>1, <4>1, <4>2, Zenon DEF CircuitsFit, Unasked
    <3>2. CASE c.try + 1 < Retry /\ call'.ns = 0 /\ call'.try = c.try + 1
      <4>1. c.try # Retry /\ c.try + 1 # Retry
        BY <2>4, <3>2, ResAssumption, SMT
      <4>2. 0 \in Servers
        BY ResAssumption, SMT DEF Servers
      <4> QED BY <2>2, <3>2, <4>1, <4>2, Zenon DEF CircuitsFit, Unasked
    <3> QED BY <2>2, <3>1, <3>2
  <2>6. CircuitsInv'
    BY <2>5 DEF CircuitsInv, CircuitsFit, Unasked
  <2>7. SocketFits' /\ PipeFits' /\ ErrnoFits' /\ AnswerIsOurs'
    BY <1>1, <2>1, ClosedSocket
       DEF SocketFits, PipeFits, ErrnoFits, AnswerIsOurs, Resting, InCircuit
  <2> QED BY <2>3, <2>6, <2>7 DEF SendInv
<1>3. CASE ~(c.ns + 1 \in Servers \/ c.try + 1 < Retry)
  <2> DEFINE error == IF c.v_circuit THEN c.terrno
                      ELSE IF c.gotsomewhere THEN "ETIMEDOUT"
                      ELSE "ECONNREFUSED"
  <2>1. Return(c, FALSE, error)
    BY <1>3, Zenon DEF NextServer
  <2>2. error \in Errno
    BY DEF Errno, CallType
  <2> HIDE DEF error
  <2> QED BY <1>1, <2>1, <2>2, ClosedSocket, ReturnFits
<1> QED BY <1>2, <1>3

LEMMA RejectFits ==
  ASSUME options \in Options, options' = options, ans' \in Answer,
         NEW c \in CallType, CircuitsFit(c), NEW e \in Errno, Reject(c, e)
  PROVE  SendInv'
<1> DEFINE d == [c EXCEPT !.badns = @ \cup {c.ns}]
<1>1. /\ d \in CallType
      /\ d.try = c.try /\ d.ns = c.ns /\ d.v_circuit = c.v_circuit
      /\ d.connreset = c.connreset /\ d.circuits = c.circuits
  BY DEF CallType
<1>2. NextServer(d, e)
  BY DEF Reject
<1> HIDE DEF d
<1>3. CircuitsFit(d)
  BY <1>1 DEF CircuitsFit
<1> QED BY <1>1, <1>2, <1>3, NextServerFits

LEMMA AcceptFits ==
  ASSUME options \in Options, options' = options, ans' \in Answer,
         NEW c \in CallType, CircuitsFit(c), NEW e \in Errno,
         NEW sk \in SocketType, Accept(c, sk, e),
         sk.kind = "vc" => c.v_circuit /\ sk.peer = c.ns,
         ~sk.dead => Len(sk.pipe) = 0,
         ans'.query = c.query, ~ans'.stray, e # "ECONNREFUSED"
  PROVE  SendInv'
<1>1. Return(c, TRUE, e) /\ sock' = IF Keep(c) THEN sk ELSE Closed
  BY DEF Accept
<1>2. CASE Keep(c)
  <2>1. options.stayopen /\ (sk.kind = "vc" => options.usevc /\ sk.peer = 0)
    BY <1>2 DEF Keep
  <2> QED BY <1>1, <1>2, <2>1, ReturnFits
<1>3. CASE ~Keep(c)
  BY <1>1, <1>3, ClosedSocket, ReturnFits
<1> QED BY <1>2, <1>3

-----------------------------------------------------------------------------
\* Each step of res_send().
LEMMA SendSame == SendInv /\ UNCHANGED sendVars => SendInv'
BY DEF SendInv, sendVars, SendTypes, CircuitsInv, CircuitsFit, Unasked,
       SocketFits, PipeFits, AnswerFrom, Ours, ErrnoFits, AnswerIsOurs

LEMMA SkipBadServerFits == SendInv /\ SkipBadServer => SendInv'
<1> SUFFICES ASSUME SendInv, SkipBadServer PROVE SendInv'
  OBVIOUS
<1> QED BY NextServerFits DEF SendInv, SendTypes, CircuitsInv, SkipBadServer

LEMMA SendDatagramFits == SendInv /\ SendDatagram => SendInv'
<1> SUFFICES ASSUME SendInv, SendDatagram PROVE SendInv'
  OBVIOUS
<1>1. /\ options \in Options /\ options' = options
      /\ ans \in Answer /\ ans' = ans
      /\ call \in CallType /\ CircuitsFit(call)
      /\ sock \in SocketType /\ errno \in Errno
      /\ pc = "same_ns" /\ ~call.v_circuit
  BY DEF SendInv, SendTypes, CircuitsInv, SendDatagram
<1>2. Failure \subseteq Errno
  BY DEF Errno
<1> DEFINE sk == IF sock.kind = "dg" THEN sock ELSE Datagram
           connecting == NServers = 1 \/ (call.try = 0 /\ call.ns = 0)
<1>3. CASE sock' = Closed /\ \E e \in Failure : Return(call, FALSE, e)
  <2>1. PICK e \in Failure : Return(call, FALSE, e)
    BY <1>3
  <2> QED BY <1>1, <1>2, <1>3, <2>1, ClosedSocket, ReturnFits
<1>4. CASE \E e \in Failure : Reject(call, e)
  BY <1>1, <1>2, <1>4, RejectFits
<1>5. CASE /\ sock' = [sk EXCEPT !.connected = connecting,
                                 !.sent = @ \cup {call.query}]
           /\ call' = call /\ pc' = "wait" /\ errno' = errno
  <2>1. /\ sk \in SocketType /\ sk.kind = "dg"
        /\ ~sk.dead => Len(sk.pipe) = 0
    <3>1. CASE sock.kind = "dg"
      BY <1>1, <3>1 DEF SendInv, PipeFits, InCircuit
    <3>2. CASE sock.kind # "dg"
      BY <3>2, ClosedSocket, SMT DEF Datagram, SocketType
    <3> QED BY <3>1, <3>2
  <2> HIDE DEF sk
  <2>2. connecting \in BOOLEAN
    OBVIOUS
  <2> HIDE DEF connecting
  <2>3. /\ sock' \in SocketType
        /\ sock'.kind = "dg" /\ sock'.dead = sk.dead /\ sock'.pipe = sk.pipe
    <3>1. call.query \in Query
      BY <1>1 DEF CallType
    <3> QED BY <1>5, <2>1, <2>2, <3>1 DEF SocketType
  <2>4. SendTypes'
    BY <1>1, <1>5, <2>3 DEF SendTypes
  <2>5. CircuitsInv'
    BY <1>1, <1>5 DEF CircuitsInv, CircuitsFit
  <2>6. SocketFits' /\ PipeFits' /\ ErrnoFits' /\ AnswerIsOurs'
    BY <1>1, <1>5, <2>1, <2>3
       DEF SocketFits, PipeFits, ErrnoFits, AnswerIsOurs, Resting, InCircuit
  <2> QED BY <2>4, <2>5, <2>6 DEF SendInv
<1> QED BY <1>1, <1>3, <1>4, <1>5, Zenon DEF SendDatagram

LEMMA Waiting ==
  ASSUME SendInv, pc = "wait"
  PROVE  LET c == [call EXCEPT !.gotsomewhere = TRUE]
         IN /\ c \in CallType /\ CircuitsFit(c)
            /\ c.query = call.query /\ c.ns = call.ns /\ c.try = call.try
            /\ c.circuits = call.circuits /\ ~c.v_circuit
            /\ c.connreset = call.connreset
            /\ \A n \in Servers : c.circuits[n] = 0
<1> DEFINE c == [call EXCEPT !.gotsomewhere = TRUE]
<1>1. call \in CallType /\ CircuitsFit(call) /\ ~call.v_circuit
  BY DEF SendInv, SendTypes, CircuitsInv, SocketFits
<1>2. /\ c \in CallType
      /\ c.query = call.query /\ c.ns = call.ns /\ c.try = call.try
      /\ c.circuits = call.circuits /\ c.v_circuit = call.v_circuit
      /\ c.connreset = call.connreset
  BY <1>1 DEF CallType
<1> HIDE DEF c
<1>3. CircuitsFit(c)
  BY <1>1, <1>2 DEF CircuitsFit
<1>4. \A n \in Servers : c.circuits[n] = 0
  BY <1>1, <1>2 DEF CircuitsFit
<1> QED BY <1>1, <1>2, <1>3, <1>4 DEF c

LEMMA TimeoutFits == SendInv /\ Timeout => SendInv'
<1> SUFFICES ASSUME SendInv, Timeout PROVE SendInv'
  OBVIOUS
<1> DEFINE c == [call EXCEPT !.gotsomewhere = TRUE]
<1>1. c \in CallType /\ CircuitsFit(c)
  BY Waiting DEF Timeout
<1>2. NextServer(c, errno)
  BY DEF Timeout
<1> HIDE DEF c
<1> QED BY <1>1, <1>2, NextServerFits DEF SendInv, SendTypes, Timeout

LEMMA WaitFailsFits == SendInv /\ WaitFails => SendInv'
<1> SUFFICES ASSUME SendInv, WaitFails PROVE SendInv'
  OBVIOUS
<1>1. PICK e \in Failure : NextServer(call, e)
  BY DEF WaitFails
<1>2. e \in Errno
  BY DEF Errno
<1> QED
  BY <1>1, <1>2, NextServerFits
     DEF SendInv, SendTypes, CircuitsInv, WaitFails

LEMMA ReceiveFits ==
  ASSUME SendInv, NEW m \in Message, Receive(m)
  PROVE  SendInv'
<1> DEFINE c == [call EXCEPT !.gotsomewhere = TRUE]
<1>1. /\ c \in CallType /\ CircuitsFit(c)
      /\ c.query = call.query /\ c.ns = call.ns
      /\ c.circuits = call.circuits /\ ~c.v_circuit
      /\ \A n \in Servers : c.circuits[n] = 0
  BY Waiting DEF Receive
<1>2. /\ options \in Options /\ options' = options
      /\ sock \in SocketType /\ pc = "wait"
      /\ sock.kind = "dg" /\ (~sock.dead => Len(sock.pipe) = 0)
  BY DEF SendInv, SendTypes, Receive, SocketFits, PipeFits, InCircuit
<1>3. m \in Answer /\ ans' = m
  BY DEF Message, Answer, Receive
<1>4. ErrnoReset \in Errno /\ ErrnoReset # "ECONNREFUSED"
  BY DEF ErrnoReset, Errno
<1>5. CASE call' = c /\ errno' = ErrnoReset /\ UNCHANGED <<sock, pc>>
  <2> HIDE DEF c
  <2>1. SendTypes'
    BY <1>1, <1>2, <1>3, <1>4, <1>5 DEF SendTypes
  <2>2. CircuitsInv'
    BY <1>1, <1>2, <1>5 DEF CircuitsInv, CircuitsFit
  <2>3. SocketFits' /\ PipeFits' /\ ErrnoFits' /\ AnswerIsOurs'
    BY <1>1, <1>2, <1>5
       DEF SocketFits, PipeFits, ErrnoFits, AnswerIsOurs, Resting, InCircuit
  <2> QED BY <2>1, <2>2, <2>3 DEF SendInv
<1>6. CASE Reject(c, ErrnoReset)
  <2> HIDE DEF c
  <2> QED BY <1>1, <1>2, <1>3, <1>4, <1>6, RejectFits
<1>7. CASE /\ sock' = Closed
           /\ call' = [c EXCEPT !.v_circuit = TRUE]
           /\ errno' = ErrnoReset /\ pc' = "same_ns"
  <2> HIDE DEF c
  <2>1. /\ call' \in CallType /\ call'.v_circuit
        /\ call'.query = c.query /\ call'.ns = c.ns /\ call'.try = c.try
        /\ call'.circuits = c.circuits /\ call'.connreset = c.connreset
    BY <1>1, <1>7 DEF CallType
  <2>2. SendTypes'
    BY <1>2, <1>3, <1>4, <1>7, <2>1, ClosedSocket DEF SendTypes
  <2>3. c.ns \in Servers
    BY <1>1 DEF CallType
  <2>4. CircuitsInv'
    BY <1>1, <2>1, <2>3 DEF CircuitsInv, CircuitsFit, Unasked
  <2>5. SocketFits' /\ PipeFits' /\ ErrnoFits' /\ AnswerIsOurs'
    BY <1>7, ClosedSocket
       DEF SocketFits, PipeFits, ErrnoFits, AnswerIsOurs, Resting, InCircuit
  <2> QED BY <2>2, <2>4, <2>5 DEF SendInv
<1>8. CASE IsAnswer(m, c) /\ Accept(c, sock, ErrnoReset)
  <2>1. m.query = c.query /\ ~m.stray
    <3>1. m.query \in Query /\ c.query \in Query
      BY <1>1, <1>3 DEF Answer, CallType
    <3>2. m.query.id = c.query.id /\ m.query.q = c.query.q /\ ~m.stray
      BY <1>8 DEF IsAnswer
    <3> HIDE DEF c
    <3> QED BY <3>1, <3>2, SMT DEF Query
  <2> HIDE DEF c
  <2> QED BY <1>1, <1>2, <1>3, <1>4, <1>8, <2>1, AcceptFits
<1> QED BY <1>5, <1>6, <1>7, <1>8, Zenon DEF Receive

\* The server that is next may be asked over a circuit.
LEMMA AskedFits ==
  ASSUME NEW c \in CallType, CircuitsFit(c), Unasked(c), c.v_circuit
  PROVE  LET d == [OneRound(c) EXCEPT !.circuits[c.ns] = @ + 1]
         IN /\ d \in CallType /\ CircuitsFit(d)
            /\ d.query = c.query /\ d.ns = c.ns /\ d.v_circuit
<1> DEFINE d == [OneRound(c) EXCEPT !.circuits[c.ns] = @ + 1]
<1>1. /\ c.ns \in Servers /\ c.circuits \in [Servers -> Nat]
      /\ c.connreset \in BOOLEAN
  BY DEF CallType
<1>2. Retry \in 0 .. Retry
  BY ResAssumption, SMT
<1>3. OneRound(c) = [c EXCEPT !.try = Retry] /\ OneRound(c) \in CallType
  BY <1>2 DEF OneRound, CallType
<1>4. /\ OneRound(c).query = c.query /\ OneRound(c).ns = c.ns
      /\ OneRound(c).v_circuit = c.v_circuit /\ OneRound(c).try = Retry
      /\ OneRound(c).connreset = c.connreset
      /\ OneRound(c).circuits = c.circuits
  BY <1>3 DEF CallType
<1>5. /\ d.query = c.query /\ d.ns = c.ns
      /\ d.v_circuit = c.v_circuit /\ d.try = Retry
      /\ d.connreset = c.connreset
      /\ d.circuits = [c.circuits EXCEPT ![c.ns] = @ + 1]
  BY <1>3, <1>4 DEF CallType
<1>6. [c.circuits EXCEPT ![c.ns] = @ + 1] \in [Servers -> Nat]
  BY <1>1, SMT
<1>7. d \in CallType
  <2>1. d = [OneRound(c) EXCEPT !.circuits =
                 [c.circuits EXCEPT ![c.ns] = @ + 1]]
    BY <1>3, <1>4 DEF CallType
  <2> QED BY <1>3, <1>6, <2>1 DEF CallType
<1> HIDE DEF d
<1>8. /\ d.circuits[c.ns] = c.circuits[c.ns] + 1
      /\ \A n \in Servers \ {c.ns} : d.circuits[n] = c.circuits[n]
  BY <1>1, <1>5
<1>9. \A n \in Servers : n > d.ns => d.circuits[n] = 0
  <2>1. \A n \in Servers : n > c.ns => n # c.ns
    BY <1>1, ResAssumption, SMT DEF Servers
  <2> QED BY <1>5, <1>8, <2>1 DEF CircuitsFit
<1>10. ASSUME c.circuits[c.ns] = 0 PROVE CircuitsFit(d)
  <2>1. \A n \in Servers :
            d.circuits[n] = c.circuits[n] \/ (n = c.ns /\ d.circuits[n] = 1)
    BY <1>8, <1>10
  <2>2. \A n \in Servers : d.circuits[n] <= IF d.connreset THEN 2 ELSE 1
    <3> SUFFICES ASSUME NEW n \in Servers
                 PROVE  d.circuits[n] <= IF c.connreset THEN 2 ELSE 1
      BY <1>5
    <3>1. c.circuits[n] <= IF c.connreset THEN 2 ELSE 1
      BY DEF CircuitsFit
    <3>2. 1 <= IF c.connreset THEN 2 ELSE 1
      BY <1>1, SMT
    <3> QED BY <2>1, <3>1, <3>2
  <2>3. \A m, n \in Servers :
            d.circuits[m] = 2 /\ d.circuits[n] = 2 => m = n
    BY <2>1 DEF CircuitsFit
  <2> QED BY <1>5, <1>9, <2>2, <2>3 DEF CircuitsFit
<1>11. ASSUME c.circuits[c.ns] # 0 PROVE CircuitsFit(d)
  <2>1. c.connreset /\ \A n \in Servers : c.circuits[n] <= 1
    BY <1>11 DEF Unasked
  <2>2. \A n \in Servers : d.circuits[n] <= IF d.connreset THEN 2 ELSE 1
    BY <1>1, <1>5, <1>8, <2>1, SMT
  <2>3. \A n \in Servers : d.circuits[n] = 2 => n = c.ns
    BY <1>1, <1>8, <2>1, SMT
  <2>4. \A m, n \in Servers :
            d.circuits[m] = 2 /\ d.circuits[n] = 2 => m = n
    BY <2>3
  <2> QED BY <1>5, <1>9, <2>2, <2>4 DEF CircuitsFit
<1> QED BY <1>5, <1>7, <1>10, <1>11 DEF d

LEMMA SendCircuitFits == SendInv /\ SendCircuit => SendInv'
<1> SUFFICES ASSUME SendInv, SendCircuit PROVE SendInv'
  OBVIOUS
<1> DEFINE c == [OneRound(call) EXCEPT !.circuits[call.ns] = @ + 1]
           sk == IF sock.kind = "vc" THEN sock ELSE Circuit(c.ns)
           err == IF sock.kind = "vc" THEN errno ELSE "0"
           m(r) == [query |-> c.query, rcode |-> r, tc |-> FALSE, stray |-> FALSE]
<1>1. /\ options \in Options /\ options' = options
      /\ ans \in Answer /\ ans' = ans
      /\ call \in CallType /\ CircuitsFit(call) /\ Unasked(call)
      /\ call.v_circuit
      /\ sock \in SocketType /\ errno \in Errno /\ pc = "same_ns"
  BY DEF SendInv, SendTypes, CircuitsInv, SendCircuit
<1>2. Failure \subseteq Errno
  BY DEF Errno
<1>3. /\ c \in CallType /\ CircuitsFit(c)
      /\ c.query = call.query /\ c.ns = call.ns /\ c.v_circuit
  BY <1>1, AskedFits
<1>4. \/ sock' = Closed /\ \E e \in Failure : Return(c, FALSE, e)
      \/ \E e \in Failure : Reject([c EXCEPT !.terrno = e], e)
      \/ /\ \E r \in Rcode, long \in BOOLEAN :
               sock' = [sk EXCEPT !.pipe = @ \o AnswerParts(m(r), long)]
         /\ call' = c /\ pc' = "vc_length" /\ errno' = err
  BY Zenon DEF SendCircuit
<1>5. /\ sk \in SocketType /\ sk.kind = "vc" /\ sk.peer = c.ns
      /\ ~sk.dead => Len(sk.pipe) = 0
      /\ err \in Errno /\ err # "ECONNREFUSED"
  <2> HIDE DEF c
  <2>1. CASE sock.kind = "vc"
    BY <1>1, <1>3, <2>1
       DEF SendInv, SocketFits, PipeFits, ErrnoFits, InCircuit
  <2>2. CASE sock.kind # "vc"
    <3>1. sk = Circuit(c.ns) /\ err = "0" /\ c.ns \in Servers
      BY <1>3, <2>2 DEF CallType
    <3>2. /\ Circuit(c.ns) \in SocketType /\ Circuit(c.ns).kind = "vc"
          /\ Circuit(c.ns).peer = c.ns /\ Circuit(c.ns).pipe = Closed.pipe
      BY <3>1, ClosedSocket DEF Circuit, SocketType
    <3> QED BY <3>1, <3>2, ClosedSocket DEF Errno
  <2> QED BY <2>1, <2>2
<1> HIDE DEF c, sk, err
<1>6. CASE sock' = Closed /\ \E e \in Failure : Return(c, FALSE, e)
  <2>1. PICK e \in Failure : Return(c, FALSE, e)
    BY <1>6
  <2> QED BY <1>1, <1>2, <1>3, <1>6, <2>1, ClosedSocket, ReturnFits
<1>7. CASE \E e \in Failure : Reject([c EXCEPT !.terrno = e], e)
  <2>1. PICK e \in Failure : Reject([c EXCEPT !.terrno = e], e)
    BY <1>7
  <2> DEFINE d == [c EXCEPT !.terrno = e]
  <2>2. /\ d \in CallType
        /\ d.try = c.try /\ d.ns = c.ns /\ d.v_circuit = c.v_circuit
        /\ d.connreset = c.connreset /\ d.circuits = c.circuits
    BY <1>2, <1>3 DEF CallType
  <2>3. Reject(d, e)
    BY <2>1
  <2> HIDE DEF d
  <2>4. CircuitsFit(d)
    BY <1>3, <2>2 DEF CircuitsFit
  <2> QED BY <1>1, <1>2, <2>2, <2>3, <2>4, RejectFits
<1>8. CASE /\ \E r \in Rcode, long \in BOOLEAN :
                 sock' = [sk EXCEPT !.pipe = @ \o AnswerParts(m(r), long)]
           /\ call' = c /\ pc' = "vc_length" /\ errno' = err
  <2>1. PICK r \in Rcode, long \in BOOLEAN :
                 sock' = [sk EXCEPT !.pipe = @ \o AnswerParts(m(r), long)]
    BY <1>8
  <2>2. /\ m(r) \in Answer /\ m(r).query = c.query /\ ~m(r).stray
    BY <1>3 DEF Answer, CallType
  <2> HIDE DEF m
  <2>3. sk.pipe \in Seq(Part)
    BY <1>5 DEF SocketType
  <2>4. sk.pipe \o AnswerParts(m(r), long) \in Seq(Part)
    <3>1. /\ <<"len", m(r)>> \in Part /\ <<"body", m(r)>> \in Part
          /\ <<"rest", m(r)>> \in Part
      BY <2>2 DEF Part
    <3>2. AnswerParts(m(r), long) \in Seq(Part)
      BY <3>1, SMT DEF AnswerParts
    <3> QED BY <2>3, <3>2, ConcatProperties
  <2>5. /\ sock' \in SocketType /\ sock'.kind = "vc" /\ sock'.peer = c.ns
        /\ sock'.dead = sk.dead
        /\ sock'.pipe = sk.pipe \o AnswerParts(m(r), long)
    BY <1>5, <2>1, <2>4 DEF SocketType
  <2>6. SendTypes'
    BY <1>1, <1>3, <1>5, <1>8, <2>5 DEF SendTypes
  <2>7. CircuitsInv'
    BY <1>3, <1>8 DEF CircuitsInv, CircuitsFit
  <2>8. SocketFits' /\ ErrnoFits' /\ AnswerIsOurs'
    BY <1>3, <1>5, <1>8, <2>5
       DEF SocketFits, ErrnoFits, AnswerIsOurs, Resting, InCircuit
  <2>9. PipeFits'
    <3>1. m(r) \in Ours
      BY <1>3, <2>2 DEF Ours
    <3>2. Ours' = Ours
      BY <1>3, <1>8 DEF Ours
    <3>3. ~sk.dead => AnswerFrom(sock'.pipe, 1)
      BY <1>5, <2>3, <2>5, <3>1, Written
    <3>4. ~sk.dead => AnswerFrom(sock.pipe, 1)'
      BY <3>2, <3>3, Zenon DEF AnswerFrom
    <3> QED BY <1>8, <2>5, <3>4 DEF PipeFits, InCircuit
  <2> QED BY <2>6, <2>7, <2>8, <2>9 DEF SendInv
<1> QED BY <1>4, <1>6, <1>7, <1>8

LEMMA ReadErrors ==
  SendInv => ReadError \subseteq Errno
BY DEF ReadError, Errno, SendInv, SendTypes

\* In a circuit the call may go on to the next server with another terrno.
LEMMA CircuitLost ==
  ASSUME SendInv, options' = options, ans' \in Answer, pc \in InCircuit,
         NEW e \in ReadError, NextServer([call EXCEPT !.terrno = e], e)
  PROVE  SendInv'
<1> DEFINE c == [call EXCEPT !.terrno = e]
<1>1. options \in Options /\ call \in CallType /\ CircuitsFit(call)
  BY DEF SendInv, SendTypes, CircuitsInv
<1>2. e \in Errno
  BY ReadErrors
<1>3. /\ c \in CallType
      /\ c.try = call.try /\ c.ns = call.ns /\ c.v_circuit = call.v_circuit
      /\ c.connreset = call.connreset /\ c.circuits = call.circuits
  BY <1>1, <1>2 DEF CallType
<1>4. NextServer(c, e)
  OBVIOUS
<1> HIDE DEF c
<1>5. CircuitsFit(c)
  BY <1>1, <1>3 DEF CircuitsFit
<1> QED BY <1>1, <1>2, <1>3, <1>4, <1>5, NextServerFits

LEMMA InTheCircuit ==
  ASSUME SendInv, pc \in InCircuit
  PROVE  /\ options \in Options /\ ans \in Answer /\ errno \in Errno
         /\ call \in CallType /\ CircuitsFit(call) /\ call.v_circuit
         /\ sock \in SocketType /\ sock.kind = "vc" /\ sock.peer = call.ns
         /\ sock.pipe \in Seq(Part) /\ errno # "ECONNREFUSED"
         /\ \A e \in ReadError : e # "ECONNREFUSED"
<1>1. errno # "ECONNREFUSED"
  BY DEF SendInv, SocketFits, ErrnoFits, InCircuit
<1> QED BY <1>1 DEF SendInv, SendTypes, CircuitsInv, SocketFits, SocketType, ReadError

LEMMA ReadLengthFits == SendInv /\ ReadLength => SendInv'
<1> SUFFICES ASSUME SendInv, ReadLength PROVE SendInv'
  OBVIOUS
<1>1. pc = "vc_length" /\ pc \in InCircuit /\ options' = options /\ ans' = ans
  BY DEF ReadLength, InCircuit
<1>2. CASE /\ ~sock.dead /\ sock' = [sock EXCEPT !.pipe = Tail(@)]
           /\ pc' = "vc_body" /\ UNCHANGED <<call, errno>>
  <2>1. AnswerFrom(sock.pipe, 1)
    BY <1>1, <1>2 DEF SendInv, PipeFits
  <2>2. Tail(sock.pipe) \in Seq(Part) /\ AnswerFrom(Tail(sock.pipe), 2)
    BY <1>1, <2>1, InTheCircuit, LengthRead
  <2>3. /\ sock' \in SocketType /\ sock'.kind = "vc" /\ sock'.peer = call.ns
        /\ ~sock'.dead /\ sock'.pipe = Tail(sock.pipe)
    BY <1>1, <1>2, <2>2, InTheCircuit DEF SocketType
  <2>4. SendTypes'
    BY <1>1, <1>2, <2>3, InTheCircuit DEF SendTypes
  <2>5. CircuitsInv'
    BY <1>1, <1>2, InTheCircuit DEF CircuitsInv, CircuitsFit
  <2>6. SocketFits' /\ ErrnoFits' /\ AnswerIsOurs'
    BY <1>1, <1>2, <2>3, InTheCircuit
       DEF SocketFits, ErrnoFits, AnswerIsOurs, Resting, InCircuit
  <2>7. PipeFits'
    <3>1. Ours' = Ours
      BY <1>2 DEF Ours
    <3>2. AnswerFrom(sock.pipe, 2)'
      BY <2>2, <2>3, <3>1, Zenon DEF AnswerFrom
    <3> QED BY <1>2, <2>3, <3>2 DEF PipeFits, InCircuit
  <2> QED BY <2>4, <2>5, <2>6, <2>7 DEF SendInv
<1>3. ASSUME NEW e \in ReadError, e = "ECONNRESET", ~call.connreset,
             sock' = Closed, errno' = e, pc' = "same_ns",
             call' = [[call EXCEPT !.terrno = e] EXCEPT !.connreset = TRUE]
      PROVE  SendInv'
  <2>1. e \in Errno
    BY <1>3, ReadErrors
  <2>2. /\ call' \in CallType /\ call'.connreset
        /\ call'.try = call.try /\ call'.ns = call.ns
        /\ call'.v_circuit = call.v_circuit
        /\ call'.circuits = call.circuits
    BY <1>1, <1>3, <2>1, InTheCircuit DEF CallType
  <2>3. SendTypes'
    BY <1>1, <1>3, <2>1, <2>2, ClosedSocket, InTheCircuit DEF SendTypes
  <2>4. CircuitsInv'
    <3>1. \A n \in Servers : call.circuits[n] <= 1
      BY <1>1, <1>3, InTheCircuit DEF CircuitsFit
    <3>2. \A n \in Servers : call.circuits[n] \in Nat
      BY <1>1, InTheCircuit DEF CallType
    <3>3. \A n \in Servers : call'.circuits[n] <= IF call'.connreset THEN 2 ELSE 1
      BY <2>2, <3>1, <3>2, SMT
    <3>4. CircuitsFit(call)
      BY <1>1, InTheCircuit
    <3> QED BY <1>3, <2>2, <3>1, <3>3, <3>4 DEF CircuitsInv, CircuitsFit, Unasked
  <2>5. SocketFits' /\ PipeFits' /\ ErrnoFits' /\ AnswerIsOurs'
    BY <1>3, ClosedSocket
       DEF SocketFits, PipeFits, ErrnoFits, AnswerIsOurs, Resting, InCircuit
  <2> QED BY <2>3, <2>4, <2>5 DEF SendInv
<1>4. ASSUME NEW e \in ReadError, NextServer([call EXCEPT !.terrno = e], e)
      PROVE  SendInv'
  BY <1>1, <1>4, InTheCircuit, CircuitLost
<1> QED BY <1>2, <1>3, <1>4, Zenon DEF ReadLength

LEMMA ReadBodyFits == SendInv /\ ReadBody => SendInv'
<1> SUFFICES ASSUME SendInv, ReadBody PROVE SendInv'
  OBVIOUS
<1> DEFINE m == Head(sock.pipe)[2]
           sk == [sock EXCEPT !.pipe = Tail(@)]
<1>1. pc = "vc_body" /\ pc \in InCircuit /\ options' = options
  BY DEF ReadBody, InCircuit
<1>2. ~sock.dead /\ AnswerFrom(sock.pipe, 2)
  BY <1>1 DEF SendInv, PipeFits
<1>3. /\ m \in Ours /\ Tail(sock.pipe) \in Seq(Part)
      /\ Len(Tail(sock.pipe)) = IF More(sock.pipe) THEN 1 ELSE 0
      /\ More(sock.pipe) \in BOOLEAN
  BY <1>1, <1>2, InTheCircuit, BodyRead
<1>4. /\ sk \in SocketType /\ sk.kind = "vc" /\ sk.peer = call.ns
      /\ ~sk.dead /\ sk.pipe = Tail(sock.pipe)
  BY <1>1, <1>2, <1>3, InTheCircuit DEF SocketType
<1>5. m \in Answer /\ m.query = call.query /\ ~m.stray
  BY <1>3 DEF Ours
<1>6. \/ /\ ans' = [m EXCEPT !.tc = More(sock.pipe)]
         /\ IF More(sock.pipe)
            THEN sock' = sk /\ pc' = "vc_flush" /\ UNCHANGED <<call, errno>>
            ELSE Accept(call, sk, errno)
      \/ /\ ans' \in {ans, m}
         /\ \E e \in ReadError : NextServer([call EXCEPT !.terrno = e], e)
  BY Zenon DEF ReadBody
<1> HIDE DEF m, sk
<1>7. CASE ans' = [m EXCEPT !.tc = More(sock.pipe)]
  <2>1. ans' \in Answer /\ ans'.query = call.query /\ ~ans'.stray
    BY <1>3, <1>5, <1>7 DEF Answer
  <2>2. CASE ~More(sock.pipe) /\ Accept(call, sk, errno)
    BY <1>1, <1>3, <1>4, <2>1, <2>2, InTheCircuit, AcceptFits
  <2>3. CASE /\ More(sock.pipe) /\ sock' = sk /\ pc' = "vc_flush"
             /\ UNCHANGED <<call, errno>>
    <3>1. SendTypes'
      BY <1>1, <1>4, <2>1, <2>3, InTheCircuit DEF SendTypes
    <3>2. CircuitsInv'
      BY <1>1, <2>3, InTheCircuit DEF CircuitsInv, CircuitsFit
    <3>3. SocketFits' /\ ErrnoFits' /\ AnswerIsOurs'
      BY <1>1, <1>4, <2>3, InTheCircuit
         DEF SocketFits, ErrnoFits, AnswerIsOurs, Resting, InCircuit
    <3>4. PipeFits'
      BY <1>3, <1>4, <2>1, <2>3 DEF PipeFits, InCircuit, Ours
    <3> QED BY <3>1, <3>2, <3>3, <3>4 DEF SendInv
  <2>4. CASE /\ ans' \in {ans, m}
             /\ \E e \in ReadError : NextServer([call EXCEPT !.terrno = e], e)
    BY <1>1, <2>1, <2>4, CircuitLost
  <2> QED BY <1>6, <2>2, <2>3, <2>4
<1>8. CASE /\ ans' \in {ans, m}
           /\ \E e \in ReadError : NextServer([call EXCEPT !.terrno = e], e)
  BY <1>1, <1>5, <1>8, InTheCircuit, CircuitLost
<1> QED BY <1>6, <1>7, <1>8

LEMMA FlushFits == SendInv /\ Flush => SendInv'
<1> SUFFICES ASSUME SendInv, Flush PROVE SendInv'
  OBVIOUS
<1>1. /\ pc = "vc_flush" /\ pc \in InCircuit
      /\ options' = options /\ ans' = ans
  BY DEF Flush, InCircuit
<1>2. ~sock.dead /\ Len(sock.pipe) = 1 /\ ans \in Ours
  BY <1>1 DEF SendInv, PipeFits
<1>3. ans.query = call.query /\ ~ans.stray
  BY <1>2 DEF Ours
<1>4. ASSUME Accept(call, [sock EXCEPT !.pipe = Tail(@)], errno)
      PROVE  SendInv'
  <2> DEFINE sk == [sock EXCEPT !.pipe = Tail(@)]
  <2>1. sock.pipe # <<>>
    BY <1>2, SMT
  <2>2. Tail(sock.pipe) \in Seq(Part) /\ Len(Tail(sock.pipe)) = 0
    BY <1>1, <1>2, <2>1, InTheCircuit, HeadTailProperties, SMT
  <2>3. /\ sk \in SocketType /\ sk.peer = call.ns
        /\ sk.pipe = Tail(sock.pipe)
    BY <1>1, <2>2, InTheCircuit DEF SocketType
  <2>4. Accept(call, sk, errno)
    BY <1>4
  <2> HIDE DEF sk
  <2> QED BY <1>1, <1>3, <2>2, <2>3, <2>4, InTheCircuit, AcceptFits
<1>5. ASSUME NEW e \in ReadError, Accept(call, [sock EXCEPT !.dead = TRUE], e)
      PROVE  SendInv'
  <2> DEFINE sk == [sock EXCEPT !.dead = TRUE]
  <2>1. sk \in SocketType /\ sk.peer = call.ns /\ sk.dead
    BY <1>1, InTheCircuit DEF SocketType
  <2>2. Accept(call, sk, e)
    BY <1>5
  <2> HIDE DEF sk
  <2> QED BY <1>1, <1>3, <2>1, <2>2, InTheCircuit, ReadErrors, AcceptFits
<1> QED BY <1>4, <1>5 DEF Flush

LEMMA SendFits == SendInv /\ (SendStep \/ Timeout \/ Arrival) => SendInv'
BY SkipBadServerFits, SendDatagramFits, WaitFailsFits, SendCircuitFits,
   ReadLengthFits, ReadBodyFits, FlushFits, TimeoutFits, ReceiveFits
   DEF SendStep, Arrival

-----------------------------------------------------------------------------
\* The calls of res_search().
LEMMA AskFits ==
  ASSUME SendInv, pc \in Resting, resId \in 0 .. IdSpace - 1,
         NEW s, SearchFits(s),
         NEW q \in Question, Ask(s, q), errno' \in Errno,
         sock.kind = "vc" => errno' # "ECONNREFUSED"
  PROVE  IInv' /\ search' = s /\ pc' \in {"same_ns", "too_long"}
<1> DEFINE query == [id |-> resId', q |-> q]
<1>1. /\ search' = s /\ options' = options
      /\ pc' \in {"same_ns", "too_long"}
      /\ resId' = (resId + 1) % IdSpace
  BY DEF Ask
<1>2. ans' = Blank(query) /\ call' = NewCall(query)
  BY DEF Ask
<1>3. PICK kept \in SUBSET sock.sent : sock' = [sock EXCEPT !.sent = kept]
  BY DEF Ask
<1>4. /\ options \in Options /\ sock \in SocketType
      /\ sock # Closed => options.stayopen
      /\ sock.kind = "vc" => options.usevc /\ sock.peer = 0
      /\ ~sock.dead => Len(sock.pipe) = 0
  BY DEF SendInv, SendTypes, SocketFits, PipeFits, Resting, InCircuit
<1>5. resId' \in 0 .. IdSpace - 1
  BY <1>1, ResAssumption, SMT
<1>6. query \in Query
  BY <1>5 DEF Query
<1> HIDE DEF query
<1>7. ans' \in Answer
  BY <1>2, <1>6 DEF Blank, Answer, Rcode
<1>8. /\ 0 \in Servers /\ 0 \in 0 .. Retry /\ 0 # Retry /\ 0 \in Nat
  BY ResAssumption, SMT DEF Servers
<1>9. /\ call' \in CallType /\ call'.query = query /\ call'.ns = 0
      /\ call'.try = 0 /\ call'.circuits = [n \in Servers |-> 0]
      /\ call'.connreset = FALSE
  BY <1>2, <1>4, <1>6, <1>8 DEF NewCall, CallType, Options, Errno
<1>10. /\ sock' \in SocketType /\ sock'.kind = sock.kind
       /\ sock'.peer = sock.peer /\ sock'.pipe = sock.pipe
       /\ sock'.dead = sock.dead
  BY <1>3, <1>4 DEF SocketType
<1>11. sock' # Closed => options.stayopen
  <2>1. CASE sock = Closed
    <3>1. kept = {} /\ sock' = [Closed EXCEPT !.sent = {}]
      BY <1>3, <2>1, ClosedSocket
    <3>2. [Closed EXCEPT !.sent = {}] = Closed
      BY ClosedSocket DEF SocketType
    <3> QED BY <3>1, <3>2
  <2> QED BY <1>4, <2>1
<1>12. SendTypes'
  BY <1>1, <1>4, <1>7, <1>9, <1>10 DEF SendTypes
<1>13. CircuitsInv'
  BY <1>8, <1>9, SMT DEF CircuitsInv, CircuitsFit, Unasked
<1>14. SocketFits' /\ PipeFits' /\ ErrnoFits' /\ AnswerIsOurs'
  BY <1>1, <1>4, <1>9, <1>10, <1>11
     DEF SocketFits, PipeFits, ErrnoFits, AnswerIsOurs, Resting, InCircuit
<1>15. SearchFits(search)'
  BY <1>1 DEF SearchFits, Founded, Reply, SearchType
<1> QED BY <1>1, <1>5, <1>12, <1>13, <1>14, <1>15 DEF IInv, SendInv

LEMMA NoQueryType == NoQuery \in Query
<1>1. 0 \in 0 .. IdSpace - 1
  BY ResAssumption, SMT
<1>2. (CHOOSE q \in Question : TRUE) \in Question
  BY SearchAssumption
<1> QED BY <1>1, <1>2 DEF NoQuery, Query

LEMMA DoneFits ==
  ASSUME SendInv, pc \in Resting, resId \in 0 .. IdSpace - 1,
         NEW s, SearchFits(s),
         NEW reply \in {"found", "denied", "empty", "unknown"},
         Done(s, reply)
  PROVE  /\ IInv' /\ pc' = "idle"
         /\ search'.name = s.name /\ search'.learnt = s.learnt
         /\ search'.reply = reply
<1>1. /\ call' = NewCall(NoQuery) /\ ans' = Blank(NoQuery) /\ pc' = "idle"
      /\ options' = options /\ sock' = sock /\ errno' = errno /\ resId' = resId
      /\ search' = [Search(s.name, s.opts) EXCEPT !.learnt = s.learnt,
                        !.refused = s.refused, !.reply = reply]
  BY DEF Done
<1>2. ans' \in Answer
  BY <1>1, NoQueryType DEF Blank, Answer, Rcode
<1>3. 0 \in Servers /\ 0 \in 0 .. Retry /\ 0 # Retry /\ 0 \in Nat
  BY ResAssumption, SMT DEF Servers
<1>4. /\ call' \in CallType
      /\ call'.try = 0 /\ call'.circuits = [n \in Servers |-> 0]
      /\ call'.connreset = FALSE
  BY <1>1, <1>3, NoQueryType
     DEF SendInv, SendTypes, NewCall, CallType, Options, Errno
<1>5. SendTypes'
  BY <1>1, <1>2, <1>4 DEF SendInv, SendTypes
<1>6. CircuitsInv'
  BY <1>1, <1>3, <1>4, SMT DEF CircuitsInv, CircuitsFit
<1>7. SocketFits' /\ PipeFits' /\ ErrnoFits' /\ AnswerIsOurs'
  BY <1>1
     DEF SendInv, SocketFits, PipeFits, ErrnoFits, AnswerIsOurs, Resting,
         InCircuit
<1>8. /\ search' \in SearchType /\ search'.name = s.name
      /\ search'.learnt = s.learnt /\ search'.reply = reply
      /\ search'.refused = s.refused /\ search'.saved = NULL
      /\ search'.got_nodata = FALSE
  <2>1. 0 \in 0 .. NDomains
    BY SearchAssumption, SMT
  <2> QED BY <1>1, <2>1 DEF SearchFits, SearchType, Search
<1>9. SearchFits(search)'
  BY <1>8 DEF SearchFits, SearchType
<1> QED BY <1>1, <1>5, <1>6, <1>7, <1>8, <1>9 DEF IInv, SendInv

Errors == {"HOST_NOT_FOUND", "TRY_AGAIN", "NO_RECOVERY", "NO_DATA"}

LEMMA Replies ==
  \A e \in Errors :
      /\ Reply(e) \in {"denied", "empty", "unknown"}
      /\ e = "NO_DATA" <=> Reply(e) = "empty"
      /\ e = "HOST_NOT_FOUND" <=> Reply(e) = "denied"
BY DEF Errors, Reply

\* What an answer says has been learnt by the time the search looks at it.
LEMMA LearntFits ==
  ASSUME IInv
  PROVE  LET s == Learnt(search)
         IN /\ SearchFits(s)
            /\ s.name = search.name /\ s.reply = search.reply
            /\ s.i = search.i /\ s.at = search.at
            /\ s.learnt \in {search.learnt} \cup
                  {search.learnt \cup {k} : k \in {"found", "denied", "empty"}}
            /\ QueryError \in Errors /\ Founded(QueryError, s.learnt)
            /\ Succeeded => "found" \in s.learnt
<1>1. /\ search \in SearchType /\ ans.rcode \in Rcode
      /\ SearchFits(search)
  BY DEF IInv, SearchFits, SendInv, SendTypes, Answer
<1> DEFINE s == Learnt(search)
           said == CASE ans.rcode = "data" -> "found"
                     [] ans.rcode = "nodata" -> "empty"
                     [] ans.rcode = "nxdomain" -> "denied"
<1>2. QueryError \in Errors
  BY DEF QueryError, Errors
<1>3. CASE call.ok /\ ans.rcode \in {"data", "nodata", "nxdomain"}
  <2>1. said \in {"found", "denied", "empty"}
    BY <1>3
  <2>2. /\ ans.rcode = "data" => said = "found"
        /\ ans.rcode = "nodata" => said = "empty"
        /\ ans.rcode = "nxdomain" => said = "denied"
    OBVIOUS
  <2>3. s = [search EXCEPT !.learnt = @ \cup {said}]
    BY <1>3, Zenon DEF Learnt
  <2> HIDE DEF said, s
  <2>4. /\ s \in SearchType /\ s.learnt = search.learnt \cup {said}
        /\ s.name = search.name /\ s.reply = search.reply
        /\ s.i = search.i /\ s.at = search.at /\ s.saved = search.saved
        /\ s.got_nodata = search.got_nodata /\ s.refused = search.refused
    BY <1>1, <2>1, <2>3 DEF SearchType
  <2>5. SearchFits(s)
    BY <1>1, <2>4 DEF SearchFits, Founded
  <2>6. Founded(QueryError, s.learnt)
    BY <1>3, <2>2, <2>4 DEF QueryError, Founded, Reply
  <2>7. Succeeded => "found" \in s.learnt
    BY <2>2, <2>4 DEF Succeeded
  <2> QED BY <1>2, <2>1, <2>4, <2>5, <2>6, <2>7 DEF s
<1>4. CASE ~(call.ok /\ ans.rcode \in {"data", "nodata", "nxdomain"})
  <2>1. s = search
    BY <1>4 DEF Learnt
  <2>2. Founded(QueryError, s.learnt)
    BY <1>1, <1>4 DEF QueryError, Founded, Reply, Rcode
  <2>3. ~Succeeded
    BY <1>4 DEF Succeeded
  <2> HIDE DEF s
  <2> QED BY <1>1, <1>2, <2>1, <2>2, <2>3 DEF s
<1> QED BY <1>3, <1>4

\* The questions are those of the names and domains there are.
LEMMA Questions ==
  /\ \A name \in Name : AsIs(name) \in Question /\ Alias(name) \in Question
  /\ \A name \in Name, i \in 0 .. NDomains : InDomain(name, i) \in Question
<1>1. /\ 0 \in 0 .. NDomains + 1 /\ NDomains + 1 \in 0 .. NDomains + 1
      /\ \A i \in 0 .. NDomains : i \in 0 .. NDomains + 1
  BY SearchAssumption, SMT
<1> QED BY <1>1, SearchAssumption, Zenon DEF AsIs, Alias, InDomain

\* A step of the name service: another query is made, or the search ends.
LEMMA AnotherQuery ==
  ASSUME IInv, pc \in {"returned", "too_long"},
         NEW s, SearchFits(s), s.name = search.name, s.reply = search.reply,
         s.learnt \in {search.learnt} \cup
             {search.learnt \cup {k} : k \in {"found", "denied", "empty"}},
         NEW q \in Question, Ask(s, q), errno' = errno
  PROVE  IInv' /\ [Service!Next]_(Service!vars)
<1>1. sock.kind = "vc" => errno # "ECONNREFUSED"
  BY DEF IInv, SendInv, ErrnoFits
<1>2. IInv' /\ search' = s /\ pc' \in {"same_ns", "too_long"}
  BY <1>1, AskFits DEF IInv, SendInv, SendTypes, Resting
<1>3. [Service!Next]_(Service!vars)
  BY <1>2 DEF Service!Next, Service!Learn, Service!vars
<1> QED BY <1>2, <1>3

LEMMA SearchEnds ==
  ASSUME IInv, pc \in {"returned", "too_long"},
         NEW s, SearchFits(s), s.name = search.name,
         s.learnt \in {search.learnt} \cup
             {search.learnt \cup {k} : k \in {"found", "denied", "empty"}},
         NEW reply \in s.learnt \cup {"unknown"}, Done(s, reply)
  PROVE  IInv' /\ [Service!Next]_(Service!vars)
<1>1. reply \in {"found", "denied", "empty", "unknown"}
  BY DEF SearchFits, SearchType
<1>2. /\ IInv' /\ pc' = "idle"
      /\ search'.name = s.name /\ search'.learnt = s.learnt
      /\ search'.reply = reply
  BY <1>1, DoneFits DEF IInv, Resting
<1>3. Service!Reply
  <2>1. \E K \in SUBSET {"found", "denied", "empty"} :
            s.learnt = search.learnt \cup K
    <3>1. CASE s.learnt = search.learnt
      <4>1. {} \in SUBSET {"found", "denied", "empty"}
        OBVIOUS
      <4>2. s.learnt = search.learnt \cup {}
        BY <3>1
      <4> QED BY <4>1, <4>2
    <3>2. ASSUME NEW k \in {"found", "denied", "empty"},
                 s.learnt = search.learnt \cup {k}
          PROVE  \E K \in SUBSET {"found", "denied", "empty"} :
                     s.learnt = search.learnt \cup K
      <4>1. {k} \in SUBSET {"found", "denied", "empty"}
        OBVIOUS
      <4> QED BY <3>2, <4>1
    <3> QED BY <3>1, <3>2
  <2> QED BY <1>2, <2>1 DEF Service!Reply
<1> QED BY <1>2, <1>3 DEF Service!Next

-----------------------------------------------------------------------------
\* Each step of a search.
LEMMA BeginFits ==
  ASSUME IInv, NEW name \in Name, NEW opts \in SearchOptions, Begin(name, opts)
  PROVE  IInv' /\ [Service!Next]_(Service!vars)
<1> DEFINE s == Search(name, opts)
<1>1. 0 \in 0 .. NDomains /\ (NDomains > 0 => 1 \in 0 .. NDomains)
  BY SearchAssumption, SMT
<1>2. /\ s \in SearchType /\ ~s.refused /\ s.saved = NULL /\ ~s.got_nodata
      /\ s.name = name /\ s.learnt = {} /\ s.reply = "unknown"
  BY <1>1 DEF Search, SearchType
<1>3. pc = "idle" /\ errno' = "0"
  BY DEF Begin
<1> HIDE DEF s
<1>4. ASSUME NEW t \in SearchType, ~t.refused, t.saved = NULL, ~t.got_nodata,
             t.name = name, t.learnt = {}, t.reply = "unknown",
             NEW q \in Question, Ask(t, q)
      PROVE  IInv' /\ [Service!Next]_(Service!vars)
  <2>1. SearchFits(t)
    BY <1>4 DEF SearchFits
  <2>2. IInv' /\ search' = t /\ pc' \in {"same_ns", "too_long"}
    BY <1>3, <1>4, <2>1, AskFits DEF IInv, Resting, Errno
  <2>3. Service!Ask
    BY <1>3, <1>4, <2>2 DEF Service!Ask
  <2> QED BY <2>2, <2>3 DEF Service!Next
<1>5. ASSUME NEW at \in {"alias", "first", "last"}, NEW q \in Question,
             Ask([s EXCEPT !.at = at], q)
      PROVE  IInv' /\ [Service!Next]_(Service!vars)
  <2> DEFINE t == [s EXCEPT !.at = at]
  <2>1. /\ t \in SearchType /\ ~t.refused /\ t.saved = NULL /\ ~t.got_nodata
        /\ t.name = name /\ t.learnt = {} /\ t.reply = "unknown"
    BY <1>2 DEF SearchType
  <2>2. Ask(t, q)
    BY <1>5
  <2> HIDE DEF t
  <2> QED BY <1>4, <2>1, <2>2
<1>6. ASSUME NDomains > 0,
             Ask([s EXCEPT !.at = "list", !.i = 1], InDomain(name, 1))
      PROVE  IInv' /\ [Service!Next]_(Service!vars)
  <2> DEFINE t == [s EXCEPT !.at = "list", !.i = 1]
  <2>1. /\ t \in SearchType /\ ~t.refused /\ t.saved = NULL /\ ~t.got_nodata
        /\ t.name = name /\ t.learnt = {} /\ t.reply = "unknown"
    BY <1>1, <1>2, <1>6 DEF SearchType
  <2>2. Ask(t, InDomain(name, 1))
    BY <1>6
  <2>3. InDomain(name, 1) \in Question
    BY <1>1, <1>6, Questions
  <2> HIDE DEF t
  <2> QED BY <1>4, <2>1, <2>2, <2>3
<1> QED BY <1>5, <1>6, Questions, Zenon DEF Begin, s

LEMMA FoundFits == IInv /\ Found => IInv' /\ [Service!Next]_(Service!vars)
BY LearntFits, SearchEnds DEF Found, Succeeded

LEMMA AliasFailsFits ==
  IInv /\ AliasFails => IInv' /\ [Service!Next]_(Service!vars)
<1> SUFFICES ASSUME IInv, AliasFails
             PROVE  IInv' /\ [Service!Next]_(Service!vars)
  OBVIOUS
<1>1. pc = "returned" /\ Done(Learnt(search), Reply(QueryError))
  BY DEF AliasFails, Finish
<1>2. Reply(QueryError) \in Learnt(search).learnt \cup {"unknown"}
  BY LearntFits DEF Founded
<1> QED BY <1>1, <1>2, LearntFits, SearchEnds

LEMMA FirstFailsFits ==
  IInv /\ FirstFails => IInv' /\ [Service!Next]_(Service!vars)
<1> SUFFICES ASSUME IInv, FirstFails
             PROVE  IInv' /\ [Service!Next]_(Service!vars)
  OBVIOUS
<1> DEFINE s == [Learnt(search) EXCEPT !.saved = QueryError]
           t == [s EXCEPT !.at = "list", !.i = 1]
<1>1. SearchFits(Learnt(search)) /\ Founded(QueryError, Learnt(search).learnt)
  BY LearntFits
<1>2. /\ s \in SearchType /\ ~s.refused
      /\ s.learnt = Learnt(search).learnt /\ s.saved = QueryError
      /\ s.got_nodata = Learnt(search).got_nodata
      /\ s.name = search.name /\ s.reply = search.reply
  BY <1>1, LearntFits DEF SearchFits, SearchType, Errors
<1> HIDE DEF s
<1>3. SearchFits(s)
  BY <1>1, <1>2 DEF SearchFits
<1>4. /\ pc = "returned"
      /\ \/ Listed(s.name) /\ Ask(t, InDomain(s.name, 1)) /\ errno' = errno
         \/ Done(s, Reply(QueryError))
  BY DEF FirstFails, Finish, s
<1>5. CASE Listed(s.name) /\ Ask(t, InDomain(s.name, 1)) /\ errno' = errno
  <2>1. 1 \in 0 .. NDomains
    BY <1>5, SearchAssumption, SMT DEF Listed
  <2>2. /\ t \in SearchType /\ t.refused = s.refused /\ t.learnt = s.learnt
        /\ t.saved = s.saved /\ t.got_nodata = s.got_nodata
        /\ t.name = s.name /\ t.reply = s.reply
    BY <1>2, <2>1 DEF SearchType
  <2>3. Ask(t, InDomain(s.name, 1))
    BY <1>5
  <2> HIDE DEF t
  <2>4. SearchFits(t)
    BY <1>3, <2>2 DEF SearchFits
  <2>5. InDomain(s.name, 1) \in Question
    BY <1>2, <2>1, Questions DEF SearchType
  <2> QED BY <1>2, <1>4, <1>5, <2>2, <2>3, <2>4, <2>5, LearntFits, AnotherQuery
<1>6. CASE Done(s, Reply(QueryError))
  <2>1. Reply(QueryError) \in s.learnt \cup {"unknown"}
    BY <1>1, <1>2 DEF Founded
  <2> QED BY <1>2, <1>3, <1>4, <1>6, <2>1, LearntFits, SearchEnds
<1> QED BY <1>4, <1>5, <1>6

LEMMA FinalErrorFits ==
  ASSUME NEW s, SearchFits(s), NEW e \in Errors, Founded(e, s.learnt)
  PROVE  Reply(FinalError(s, e)) \in s.learnt \cup {"unknown"}
BY DEF FinalError, SearchFits, Founded, Reply

LEMMA DomainFailsFits ==
  IInv /\ DomainFails => IInv' /\ [Service!Next]_(Service!vars)
<1> SUFFICES ASSUME IInv, DomainFails
             PROVE  IInv' /\ [Service!Next]_(Service!vars)
  OBVIOUS
<1> DEFINE made == pc = "returned"
           e == IF made THEN QueryError ELSE "NO_RECOVERY"
           servfail == e = "TRY_AGAIN" /\ ans.rcode = "servfail"
           l == IF made THEN Learnt(search) ELSE search
           s == [l EXCEPT !.got_nodata = @ \/ e = "NO_DATA",
                          !.got_servfail = @ \/ servfail]
           go == e \in {"NO_DATA", "HOST_NOT_FOUND"} \/ servfail
           i == s.i + 1
<1>1. pc \in {"returned", "too_long"}
  BY DEF DomainFails
<1>2. /\ IF errno = "ECONNREFUSED"
         THEN Finish([s EXCEPT !.refused = made /\ call.ok], "TRY_AGAIN")
         ELSE IF go /\ i \in Domains
         THEN Ask([s EXCEPT !.i = i], InDomain(s.name, i)) /\ UNCHANGED errno
         ELSE IF ~AsIsFirst(s.name)
         THEN Ask([s EXCEPT !.at = "last"], AsIs(s.name)) /\ UNCHANGED errno
         ELSE Finish(s, FinalError(s, e))
  BY Zenon DEF DomainFails
<1>3. /\ SearchFits(l) /\ e \in Errors /\ Founded(e, l.learnt)
      /\ l.name = search.name /\ l.reply = search.reply
      /\ l.learnt \in {search.learnt} \cup
             {search.learnt \cup {k} : k \in {"found", "denied", "empty"}}
  <2>1. CASE made
    BY <2>1, LearntFits
  <2>2. CASE ~made
    BY <2>2 DEF IInv, Errors, Founded, Reply
  <2> QED BY <2>1, <2>2
<1>4. servfail \in BOOLEAN
  OBVIOUS
<1> HIDE DEF l, e, servfail
<1>5. /\ s \in SearchType /\ s.learnt = l.learnt
      /\ s.name = search.name /\ s.reply = search.reply
      /\ s.refused = l.refused /\ s.saved = l.saved
      /\ s.got_nodata = (l.got_nodata \/ e = "NO_DATA")
  <2>1. l \in SearchType
    BY <1>3 DEF SearchFits
  <2>2. (l.got_nodata \/ e = "NO_DATA") \in BOOLEAN
    OBVIOUS
  <2>3. (l.got_servfail \/ servfail) \in BOOLEAN
    OBVIOUS
  <2>4. s = [l EXCEPT !.got_nodata = (l.got_nodata \/ e = "NO_DATA"),
                      !.got_servfail = (l.got_servfail \/ servfail)]
    BY <2>1 DEF SearchType
  <2> HIDE DEF s
  <2> QED BY <1>3, <2>1, <2>2, <2>3, <2>4 DEF SearchType
<1> HIDE DEF s
<1>6. SearchFits(s)
  BY <1>3, <1>5 DEF SearchFits, Founded, Reply
<1>7. s.i \in 0 .. NDomains /\ s.name \in Name
  BY <1>5 DEF SearchType
<1>8. CASE Finish([s EXCEPT !.refused = made /\ call.ok], "TRY_AGAIN")
           /\ errno = "ECONNREFUSED"
  <2> DEFINE t == [s EXCEPT !.refused = made /\ call.ok]
  <2>1. ~(made /\ call.ok)
    BY <1>8 DEF IInv, SendInv, ErrnoFits
  <2>2. t = [s EXCEPT !.refused = FALSE]
    BY <2>1
  <2>3. /\ t \in SearchType /\ t.learnt = s.learnt /\ t.name = s.name
        /\ ~t.refused /\ t.saved = s.saved /\ t.got_nodata = s.got_nodata
    <3> HIDE DEF t
    <3> QED BY <1>5, <2>2 DEF SearchType
  <2>4. Done(t, "unknown")
    BY <1>8 DEF Finish, Reply
  <2> HIDE DEF t
  <2>5. SearchFits(t)
    BY <1>6, <2>3 DEF SearchFits
  <2> QED BY <1>1, <1>3, <1>5, <2>3, <2>4, <2>5, SearchEnds
<1>9. CASE Ask([s EXCEPT !.i = i], InDomain(s.name, i)) /\ UNCHANGED errno
           /\ i \in Domains
  <2> DEFINE t == [s EXCEPT !.i = i]
  <2>1. i \in 0 .. NDomains
    BY <1>7, <1>9, SearchAssumption, SMT DEF Domains
  <2> HIDE DEF i
  <2>2. /\ t \in SearchType /\ t.learnt = s.learnt /\ t.name = s.name
        /\ t.refused = s.refused /\ t.saved = s.saved
        /\ t.got_nodata = s.got_nodata /\ t.reply = s.reply
    BY <1>5, <2>1 DEF SearchType
  <2>3. Ask(t, InDomain(s.name, i)) /\ errno' = errno
    BY <1>9
  <2>4. InDomain(s.name, i) \in Question
    BY <1>7, <2>1, Questions
  <2> HIDE DEF t
  <2>5. SearchFits(t)
    BY <1>6, <2>2 DEF SearchFits
  <2> QED BY <1>1, <1>3, <1>5, <2>2, <2>3, <2>4, <2>5, AnotherQuery
<1>10. CASE Ask([s EXCEPT !.at = "last"], AsIs(s.name)) /\ UNCHANGED errno
  <2> DEFINE t == [s EXCEPT !.at = "last"]
  <2>1. /\ t \in SearchType /\ t.learnt = s.learnt /\ t.name = s.name
        /\ t.refused = s.refused /\ t.saved = s.saved
        /\ t.got_nodata = s.got_nodata /\ t.reply = s.reply
    BY <1>5 DEF SearchType
  <2>2. Ask(t, AsIs(s.name)) /\ errno' = errno
    BY <1>10
  <2>3. AsIs(s.name) \in Question
    BY <1>7, Questions
  <2> HIDE DEF t
  <2>4. SearchFits(t)
    BY <1>6, <2>1 DEF SearchFits
  <2> QED BY <1>1, <1>3, <1>5, <2>1, <2>2, <2>3, <2>4, AnotherQuery
<1>11. CASE Finish(s, FinalError(s, e))
  <2>1. Reply(FinalError(s, e)) \in s.learnt \cup {"unknown"}
    BY <1>3, <1>5, <1>6, FinalErrorFits
  <2>2. Done(s, Reply(FinalError(s, e)))
    BY <1>11 DEF Finish
  <2> QED BY <1>1, <1>3, <1>5, <1>6, <2>1, <2>2, SearchEnds
<1> QED BY <1>2, <1>8, <1>9, <1>10, <1>11

LEMMA LastFailsFits ==
  IInv /\ LastFails => IInv' /\ [Service!Next]_(Service!vars)
<1> SUFFICES ASSUME IInv, LastFails
             PROVE  IInv' /\ [Service!Next]_(Service!vars)
  OBVIOUS
<1> DEFINE s == Learnt(search)
<1>1. pc = "returned" /\ Done(s, Reply(FinalError(s, QueryError)))
  BY DEF LastFails, Finish
<1>2. Reply(FinalError(s, QueryError)) \in s.learnt \cup {"unknown"}
  BY LearntFits, FinalErrorFits
<1> QED BY <1>1, <1>2, LearntFits, SearchEnds

LEMMA SetHostEntFits ==
  IInv /\ SetHostEnt => IInv' /\ [Service!Next]_(Service!vars)
<1> SUFFICES ASSUME IInv, SetHostEnt
             PROVE  IInv' /\ [Service!Next]_(Service!vars)
  OBVIOUS
<1>1. /\ pc = "idle" /\ UNCHANGED <<sock, call, ans, errno, pc, search, resId>>
      /\ options' = [options EXCEPT !.stayopen = TRUE, !.usevc = TRUE]
  BY DEF SetHostEnt
<1>2. options' \in Options /\ options'.stayopen /\ options'.usevc
  BY <1>1 DEF IInv, SendInv, SendTypes, Options
<1>3. SendTypes' /\ CircuitsInv'
  BY <1>1, <1>2
     DEF IInv, SendInv, SendTypes, CircuitsInv, CircuitsFit, Unasked
<1>4. SocketFits' /\ PipeFits' /\ ErrnoFits' /\ AnswerIsOurs'
  BY <1>1, <1>2
     DEF IInv, SendInv, SocketFits, PipeFits, ErrnoFits, AnswerIsOurs,
         Resting, InCircuit
<1>5. SearchFits(search)' /\ resId' \in 0 .. IdSpace - 1
  BY <1>1 DEF IInv, SearchFits, Founded, Reply, SearchType
<1>6. UNCHANGED Service!vars
  BY <1>1 DEF Service!vars
<1> QED BY <1>3, <1>4, <1>5, <1>6 DEF IInv, SendInv

LEMMA EndHostEntFits ==
  IInv /\ EndHostEnt => IInv' /\ [Service!Next]_(Service!vars)
<1> SUFFICES ASSUME IInv, EndHostEnt
             PROVE  IInv' /\ [Service!Next]_(Service!vars)
  OBVIOUS
<1>1. /\ pc = "idle" /\ UNCHANGED <<call, ans, errno, pc, search, resId>>
      /\ options' = [options EXCEPT !.stayopen = FALSE, !.usevc = FALSE]
      /\ sock' = Closed
  BY DEF EndHostEnt
<1>2. options' \in Options
  BY <1>1 DEF IInv, SendInv, SendTypes, Options
<1>3. SendTypes' /\ CircuitsInv'
  BY <1>1, <1>2, ClosedSocket
     DEF IInv, SendInv, SendTypes, CircuitsInv, CircuitsFit, Unasked
<1>4. SocketFits' /\ PipeFits' /\ ErrnoFits' /\ AnswerIsOurs'
  BY <1>1, ClosedSocket
     DEF SocketFits, PipeFits, ErrnoFits, AnswerIsOurs, Resting, InCircuit
<1>5. SearchFits(search)' /\ resId' \in 0 .. IdSpace - 1
  BY <1>1 DEF IInv, SearchFits, Founded, Reply, SearchType
<1>6. UNCHANGED Service!vars
  BY <1>1 DEF Service!vars
<1> QED BY <1>3, <1>4, <1>5, <1>6 DEF IInv, SendInv

\* Within res_send() the name service stands still: it is still asking.
LEMMA SendSteps ==
  IInv /\ (SendStep \/ Timeout \/ Arrival) /\ Unsearched
    => IInv' /\ [Service!Next]_(Service!vars)
<1> SUFFICES ASSUME IInv, SendStep \/ Timeout \/ Arrival, Unsearched
             PROVE  IInv' /\ [Service!Next]_(Service!vars)
  OBVIOUS
<1>1. SendInv'
  BY SendFits DEF IInv
<1>2. SearchFits(search)' /\ resId' \in 0 .. IdSpace - 1
  BY DEF IInv, Unsearched, SearchFits, Founded, Reply, SearchType
<1>3. pc # "idle" /\ pc' # "idle"
  BY DEF SendStep, Arrival, SkipBadServer, SendDatagram, WaitFails,
         SendCircuit, ReadLength, ReadBody, Flush, Timeout, Receive,
         NextServer, Reject, Accept, Return
<1>4. UNCHANGED Service!vars
  BY <1>3 DEF Unsearched, Service!vars
<1> QED BY <1>1, <1>2, <1>4 DEF IInv

LEMMA InitFits == Init => IInv /\ Service!Init
<1> SUFFICES ASSUME Init PROVE IInv /\ Service!Init
  OBVIOUS
<1>1. /\ options \in Options /\ sock = Closed
      /\ call = NewCall(NoQuery) /\ ans = Blank(NoQuery) /\ errno = "0"
      /\ pc = "idle" /\ resId = 0
  BY SearchAssumption DEF Init
<1>2. PICK name \in Name, opts \in SearchOptions : search = Search(name, opts)
  BY DEF Init
<1>3. 0 \in Servers /\ 0 \in 0 .. Retry /\ 0 # Retry /\ 0 \in Nat
  BY ResAssumption, SMT DEF Servers
<1>4. 0 \in 0 .. NDomains /\ 0 \in 0 .. IdSpace - 1
  BY ResAssumption, SearchAssumption, SMT
<1>5. /\ call \in CallType /\ call.circuits = [n \in Servers |-> 0]
      /\ call.try = 0 /\ call.connreset = FALSE
  BY <1>1, <1>3, NoQueryType DEF NewCall, CallType, Options, Errno
<1>6. ans \in Answer
  BY <1>1, NoQueryType DEF Blank, Answer, Rcode
<1>7. SendTypes
  BY <1>1, <1>5, <1>6, ClosedSocket DEF SendTypes, Errno
<1>8. CircuitsInv
  BY <1>1, <1>3, <1>5, SMT DEF CircuitsInv, CircuitsFit
<1>9. SocketFits /\ PipeFits /\ ErrnoFits /\ AnswerIsOurs
  BY <1>1, ClosedSocket
     DEF SocketFits, PipeFits, ErrnoFits, AnswerIsOurs, Resting, InCircuit
<1>10. /\ search \in SearchType /\ ~search.refused /\ search.saved = NULL
       /\ ~search.got_nodata /\ search.name \in Name
       /\ search.learnt = {} /\ search.reply = "unknown"
  BY <1>2, <1>4 DEF Search, SearchType
<1>11. SearchFits(search)
  BY <1>10 DEF SearchFits
<1>12. Service!Init
  BY <1>1, <1>10 DEF Service!Init
<1> QED BY <1>1, <1>4, <1>7, <1>8, <1>9, <1>11, <1>12 DEF IInv, SendInv

LEMMA NextFits == IInv /\ [Next]_vars => IInv' /\ [Service!Next]_(Service!vars)
<1> SUFFICES ASSUME IInv, [Next]_vars
             PROVE  IInv' /\ [Service!Next]_(Service!vars)
  OBVIOUS
<1>1. CASE UNCHANGED vars
  <2>1. SendInv'
    BY <1>1, SendSame DEF IInv, vars, sendVars
  <2>2. SearchFits(search)' /\ resId' \in 0 .. IdSpace - 1
    BY <1>1 DEF IInv, vars, SearchFits, Founded, Reply, SearchType
  <2>3. UNCHANGED Service!vars
    BY <1>1 DEF vars, Service!vars
  <2> QED BY <2>1, <2>2, <2>3 DEF IInv
<1>2. CASE \E name \in Name, opts \in SearchOptions : Begin(name, opts)
  BY <1>2, BeginFits
<1>3. CASE SearchStep
  BY <1>3, FoundFits, AliasFailsFits, FirstFailsFits, DomainFailsFits,
     LastFailsFits DEF SearchStep
<1>4. CASE (SendStep \/ Timeout \/ Arrival) /\ Unsearched
  BY <1>4, SendSteps
<1>5. CASE SetHostEnt \/ EndHostEnt
  BY <1>5, SetHostEntFits, EndHostEntFits
<1> QED BY <1>1, <1>2, <1>3, <1>4, <1>5 DEF Next

-----------------------------------------------------------------------------
LEMMA AlwaysFits == Spec => []IInv
<1>1. Init => IInv
  BY InitFits
<1>2. IInv /\ [Next]_vars => IInv'
  BY NextFits
<1> QED BY <1>1, <1>2, PTL DEF Spec

(***************************************************************************)
(* The answer that res_send() returns is to the query of that call:        *)
(* whatever arrives on the socket kept open (r_send.c:666), and whatever   *)
(* a circuit was left with when a long answer did not fit (r_send.c:500).  *)
(***************************************************************************)
THEOREM AnswersAreOurs == Spec => []AnswerIsOurs
<1>1. IInv => AnswerIsOurs
  BY DEF IInv, SendInv
<1> QED BY <1>1, AlwaysFits, PTL

(***************************************************************************)
(* Between calls of res_send() no socket is open but one that the options  *)
(* want kept, and a circuit is kept only to the first server; a query is   *)
(* never written to a circuit that leads to another server.                *)
(***************************************************************************)
THEOREM SocketsAreKept == Spec => []KeptSocket
<1>1. IInv => KeptSocket
  BY DEF IInv, SendInv, SocketFits, KeptSocket, Resting, InCircuit
<1> QED BY <1>1, AlwaysFits, PTL

(***************************************************************************)
(* A call asks each server over a circuit once, and one server once more   *)
(* after a reset, however its rounds, its rejected servers and its         *)
(* truncated answers follow on each other.                                 *)
(***************************************************************************)
THEOREM CircuitsAreBounded == Spec => []CircuitsBounded
<1>1. IInv => CircuitsBounded
  <2> SUFFICES ASSUME IInv PROVE CircuitsBounded
    OBVIOUS
  <2> DEFINE twice == {n \in Servers : call.circuits[n] = 2}
  <2>1. CircuitsFit(call)
    BY DEF IInv, SendInv, CircuitsInv
  <2>2. Cardinality(twice) <= 1
    <3>1. CASE twice = {}
      BY <3>1, FS_EmptySet, SMT
    <3>2. ASSUME NEW n \in twice PROVE Cardinality(twice) <= 1
      <4>1. twice = {n}
        BY <2>1 DEF CircuitsFit
      <4> HIDE DEF twice
      <4> QED BY <4>1, FS_Singleton, SMT
    <3> QED BY <3>1, <3>2
  <2> QED BY <2>1, <2>2 DEF CircuitsFit, CircuitsBounded
<1> QED BY <1>1, AlwaysFits, PTL

(***************************************************************************)
(* The search gives up on ECONNREFUSED only after a query that nobody      *)
(* answered, whatever errno an earlier query or a kept circuit left.       *)
(***************************************************************************)
THEOREM RefusalsAreReal == Spec => []RefusalIsReal
<1>1. IInv => RefusalIsReal
  BY DEF IInv, SearchFits, RefusalIsReal
<1> QED BY <1>1, AlwaysFits, PTL

(***************************************************************************)
(* Every step of a search is a step of a name service, or none: what       *)
(* res_search() says of a name, a server said of one of the names that     *)
(* this search tried.  (That every search ends is left to TLC.)            *)
(***************************************************************************)
THEOREM SearchesServe ==
  Spec => Service!Init /\ [][Service!Next]_(Service!vars)
<1>1. Init => Service!Init
  BY InitFits
<1>2. IInv /\ [Next]_vars => [Service!Next]_(Service!vars)
  BY NextFits
<1> QED BY <1>1, <1>2, AlwaysFits, PTL DEF Spec

====

----------------------------- MODULE ResSearch ------------------------------
(***************************************************************************)
(* res_search(), res_querydomain() and res_query() (src/inet/r_qry.c) on   *)
(* top of res_send(): a name is asked for as it is and in the domains of   *)
(* the search list, until one query finds something.  sethostent() and     *)
(* endhostent() (src/inet/shstent.c) change, between lookups, how queries  *)
(* are sent.                                                               *)
(***************************************************************************)
EXTENDS ResSend

CONSTANTS
    Name,           \* records [n, dots, trailing, alias]: the names looked up
    NDomains,       \* length of the search list
    InitOptions,    \* records [usevc, stayopen, igntc] a program may set
    SearchOptions,  \* records [defnames, dnsrch]
    NULL

VARIABLES
    search,         \* the local variables of res_search(), and its result
    resId           \* _res.id

vars == <<options, sock, call, ans, errno, pc, search, resId>>

ASSUME SearchAssumption ==
    /\ NDomains \in Nat
    /\ Question # {}
    /\ InitOptions \subseteq Options
    /\ \A n \in Name, i \in 0 .. NDomains + 1 : <<n.n, i>> \in Question

(***************************************************************************)
(* Which name a query is for: the name as it is, without a trailing dot;   *)
(* the name and the i-th domain; or what HOSTALIASES says it stands for.   *)
(***************************************************************************)
AsIs(name) == <<name.n, 0>>
InDomain(name, i) == <<name.n, i>>
Alias(name) == <<name.n, NDomains + 1>>

\* The threshold _res.ndots is 1.
AsIsFirst(name) == name.dots

Listed(name) ==
    /\ NDomains > 0
    /\ \/ ~name.dots /\ search.opts.defnames
       \/ name.dots /\ ~name.trailing /\ search.opts.dnsrch

NoQuery == [id |-> 0, q |-> CHOOSE q \in Question : TRUE]

(***************************************************************************)
(* The locals of res_search() and, as history, what servers have said to   *)
(* the queries of this search; and, when it has returned, the reply, and   *)
(* whether it gave up on an answered query.  "at" is the query under way:  *)
(* of the alias, of the name as it is ("first", "last"), or of the i-th    *)
(* domain ("list").                                                        *)
(***************************************************************************)
Search(name, opts) ==
    [name |-> name, opts |-> opts, at |-> "idle", i |-> 0, saved |-> NULL,
     got_nodata |-> FALSE, got_servfail |-> FALSE,
     refused |-> FALSE, learnt |-> {}, reply |-> "unknown"]

(***************************************************************************)
(* res_query(): res_mkquery() numbers the query and builds it, or fails as *)
(* the name with its domain is too long; res_send() sends it.  The answer  *)
(* buffer's rcode is set to NOERROR first.                                 *)
(***************************************************************************)
Ask(s, q) ==
    LET id == (resId + 1) % IdSpace
    IN /\ resId' = id
       /\ ans' = Blank([id |-> id, q |-> q])
       /\ search' = s
       /\ call' = NewCall([id |-> id, q |-> q])
       /\ \E kept \in SUBSET sock.sent :
             /\ Cardinality(kept) <= MaxLate
             /\ sock' = [sock EXCEPT !.sent = kept]
       /\ UNCHANGED options
       /\ \/ pc' = "same_ns"
          \/ s.at = "list" /\ pc' = "too_long"

\* How many domains are tried: one unless RES_DNSRCH is set.
Domains == IF search.opts.dnsrch THEN 1 .. NDomains ELSE {1} \cap 1 .. NDomains

-----------------------------------------------------------------------------
\* A program calls res_search(); the library's state is what earlier calls left.
Begin(name, opts) ==
    /\ pc = "idle"
    /\ errno' = "0"
    /\ LET s == Search(name, opts)
       IN IF ~name.dots /\ name.alias
          THEN Ask([s EXCEPT !.at = "alias"], Alias(name))
          ELSE IF name.dots
          THEN Ask([s EXCEPT !.at = "first"], AsIs(name))
          ELSE IF opts.defnames /\ NDomains > 0
          THEN Ask([s EXCEPT !.at = "list", !.i = 1], InDomain(name, 1))
          ELSE Ask([s EXCEPT !.at = "last"], AsIs(name))

\* Mutant: a server that cannot tell is taken for one that denies.
QueryError_ServfailDenies ==
    IF ~call.ok THEN "TRY_AGAIN"
    ELSE CASE ans.rcode \in {"nxdomain", "servfail"} -> "HOST_NOT_FOUND"
           [] ans.rcode = "nodata" -> "NO_DATA"
           [] OTHER -> "NO_RECOVERY"

\* h_errno after a query that found nothing.
QueryError ==
    IF ~call.ok THEN "TRY_AGAIN"
    ELSE CASE ans.rcode = "nxdomain" -> "HOST_NOT_FOUND"
           [] ans.rcode = "servfail" -> "TRY_AGAIN"
           [] ans.rcode = "nodata" -> "NO_DATA"
           [] OTHER -> "NO_RECOVERY"

Succeeded == pc = "returned" /\ call.ok /\ ans.rcode = "data"

Reply(e) ==
    CASE e = "HOST_NOT_FOUND" -> "denied"
      [] e = "NO_DATA" -> "empty"
      [] OTHER -> "unknown"

\* The locals are gone when a call returns; the socket and errno stay.
Done(s, reply) ==
    /\ search' = [Search(s.name, s.opts) EXCEPT !.learnt = s.learnt,
                        !.refused = s.refused, !.reply = reply]
    /\ call' = NewCall(NoQuery)
    /\ ans' = Blank(NoQuery)
    /\ pc' = "idle"
    /\ UNCHANGED <<options, sock, errno, resId>>

Finish(s, h_errno) == Done(s, Reply(h_errno))

Learnt(s) ==
    IF call.ok /\ ans.rcode \in {"data", "nodata", "nxdomain"}
    THEN [s EXCEPT !.learnt = @ \cup
            {CASE ans.rcode = "data" -> "found"
               [] ans.rcode = "nodata" -> "empty"
               [] ans.rcode = "nxdomain" -> "denied"}]
    ELSE s

\* The query found something, whichever query it was.
Found ==
    /\ Succeeded
    /\ Done(Learnt(search), "found")

AliasFails ==
    /\ pc = "returned" /\ ~Succeeded /\ search.at = "alias"
    /\ Finish(Learnt(search), QueryError)

\* The first query, for the name as it is, failed: its error is kept.
FirstFails ==
    /\ pc = "returned" /\ ~Succeeded /\ search.at = "first"
    /\ LET s == [Learnt(search) EXCEPT !.saved = QueryError]
       IN IF Listed(s.name)
          THEN Ask([s EXCEPT !.at = "list", !.i = 1], InDomain(s.name, 1))
               /\ UNCHANGED errno
          ELSE Finish(s, QueryError)

\* The error the search ends with, if e is that of its last query.
FinalError(s, e) ==
    IF s.saved # NULL THEN s.saved
    ELSE IF s.got_nodata THEN "NO_DATA"
    ELSE IF s.got_servfail THEN "TRY_AGAIN"
    ELSE e

(***************************************************************************)
(* A query in a domain of the list failed.  Whether a failure to get an    *)
(* answer ends the search depends on the result code in the answer buffer, *)
(* be it of a message that was dropped.                                    *)
(***************************************************************************)
DomainFails ==
    /\ pc \in {"returned", "too_long"} /\ ~Succeeded
    /\ search.at = "list"
    /\ LET made == pc = "returned"
           e == IF made THEN QueryError ELSE "NO_RECOVERY"
           servfail == e = "TRY_AGAIN" /\ ans.rcode = "servfail"
           s == [(IF made THEN Learnt(search) ELSE search)
                    EXCEPT !.got_nodata = @ \/ e = "NO_DATA",
                           !.got_servfail = @ \/ servfail]
           go == e \in {"NO_DATA", "HOST_NOT_FOUND"} \/ servfail
           i == s.i + 1
       IN IF errno = "ECONNREFUSED"
          THEN Finish([s EXCEPT !.refused = made /\ call.ok], "TRY_AGAIN")
          ELSE IF go /\ i \in Domains
          THEN Ask([s EXCEPT !.i = i], InDomain(s.name, i)) /\ UNCHANGED errno
          ELSE IF ~AsIsFirst(s.name)
          THEN Ask([s EXCEPT !.at = "last"], AsIs(s.name)) /\ UNCHANGED errno
          ELSE Finish(s, FinalError(s, e))

LastFails ==
    /\ pc = "returned" /\ ~Succeeded /\ search.at = "last"
    /\ LET s == Learnt(search)
       IN Finish(s, FinalError(s, QueryError))

(***************************************************************************)
(* sethostent(TRUE) keeps a circuit open; endhostent() closes it and       *)
(* clears the options, those a program had set for itself as well.         *)
(***************************************************************************)
SetHostEnt ==
    /\ pc = "idle"
    /\ options' = [options EXCEPT !.stayopen = TRUE, !.usevc = TRUE]
    /\ UNCHANGED <<sock, call, ans, errno, pc, search, resId>>

EndHostEnt ==
    /\ pc = "idle"
    /\ options' = [options EXCEPT !.stayopen = FALSE, !.usevc = FALSE]
    /\ sock' = Closed
    /\ UNCHANGED <<call, ans, errno, pc, search, resId>>

-----------------------------------------------------------------------------
\* Before the first lookup; the program has chosen options of its own.
Init ==
    /\ options \in InitOptions
    /\ sock = Closed
    /\ call = NewCall(NoQuery)
    /\ ans = Blank(NoQuery)
    /\ errno = "0"
    /\ pc = "idle"
    /\ search \in {Search(name, opts) : name \in Name, opts \in SearchOptions}
    /\ resId = 0

\* The caller's part of a lookup under way.
SearchStep == Found \/ AliasFails \/ FirstFails \/ DomainFails \/ LastFails

Unsearched == UNCHANGED <<search, resId>>

Next ==
    \/ \E name \in Name, opts \in SearchOptions : Begin(name, opts)
    \/ SearchStep
    \/ (SendStep \/ Timeout \/ Arrival) /\ Unsearched
    \/ SetHostEnt \/ EndHostEnt

(***************************************************************************)
(* Fairness: the processor goes on, a circuit is answered or lost, and the *)
(* wait ends: datagrams that are not the answer do not arrive for ever,    *)
(* each within the time select() waits.                                    *)
(***************************************************************************)
Spec ==
    /\ Init /\ [][Next]_vars
    /\ WF_vars(SendStep /\ Unsearched)
    /\ WF_vars(Timeout /\ Unsearched)
    /\ WF_vars(SearchStep)

(***************************************************************************)
(* A lookup is a request to a name service.                                *)
(***************************************************************************)
Service == INSTANCE NameService WITH
    Found <- "found", Denied <- "denied", Empty <- "empty",
    Unknown <- "unknown",
    request <- search.name, asking <- (pc # "idle"),
    learnt <- search.learnt, reply <- search.reply

-----------------------------------------------------------------------------
(***************************************************************************)
(* res_search() implements the name service: it says that a name does not  *)
(* exist, or has no such data, only if a server said so of one of the      *)
(* names this search tried, whatever earlier searches left in errno, the   *)
(* answer buffer and the socket.  And it returns: rejected and silent      *)
(* servers, resets, truncated answers and answers to other queries do not  *)
(* keep it going.                                                          *)
(***************************************************************************)
ImplementsService == Service!Spec

(***************************************************************************)
(* "If no server present, give up": the search stops early on errno        *)
(* ECONNREFUSED only when its last query got no answer.  The test reads    *)
(* errno, which a query that did get an answer must have cleared.          *)
(***************************************************************************)
RefusalIsReal == ~search.refused
=============================================================================

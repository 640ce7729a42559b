------------------------------- MODULE NetDb --------------------------------
(***************************************************************************)
(* The networks, services and protocols databases (src/inet/gnetent.c,     *)
(* gsrvent.c, gprtent.c and the files of their lookups).  Each is read     *)
(* entry by entry by getXent(); the lookups read the same stream.          *)
(***************************************************************************)
EXTENDS EntryFile, Integers

CONSTANTS
    Kind,           \* the databases
    Networks,       \* the one of them that holds networks
    FileOf,         \* what the file of each database contains
    Key, Alias,     \* what can be looked up; ports are in network order
    Proto, AnyProto \* protocols of services; a null pointer

VARIABLES
    kind,           \* the database in question; they share nothing
    at,             \* netf, servf, protof: the stream
    stayopen,       \* _net_stayopen, _serv_stayopen, _proto_stayopen
    began, seen,    \* history: where the iteration began, and its entries
    found           \* history: the last call, what it sought and returned

netDbVars == <<kind, at, stayopen, began, seen, found>>

Lines == FileOf[kind]
NoCall == [call |-> "none", arg |-> AnyProto, proto |-> AnyProto, rv |-> 0]

(***************************************************************************)
(* The names of an entry.  getnetent() takes the number of a network that  *)
(* has no aliases for an alias.                                            *)
(***************************************************************************)
Names(line) ==
    LET names == {NamesKept(line)[n] : n \in DOMAIN NamesKept(line)}
    IN IF kind = Networks /\ Len(line.names) = 1 /\ MAXALIASES > 1
       THEN names \cup {line.key} ELSE names

\* A number of 16 bits in a short.
AsShort(n) == IF n < 32768 THEN n ELSE n - 65536

(***************************************************************************)
(* What an entry stands for: a network's number is an unsigned long; the   *)
(* port of a service, in network order, and the number of a protocol are   *)
(* shorts, which the look-ups compare with an int.                         *)
(***************************************************************************)
Number(line) == IF kind = Networks THEN line.key ELSE AsShort(line.key)

\* Mutant: a stream that is open already is not rewound.
SetStream_NotRewound == Opened(Lines, at)

\* setXent() rewinds an open stream and opens a closed one.
SetStream == Rewound(Lines)

setent(stay) ==
    /\ at' = SetStream
    /\ stayopen' = (stayopen \/ stay)
    /\ began' = 0
    /\ seen' = {}
    /\ found' = NoCall
    /\ UNCHANGED kind

\* Mutant: the stream is closed and stayopen stays set.
Ended_StillStaying == at' = Shut /\ UNCHANGED stayopen

Ended == at' = Shut /\ stayopen' = FALSE

endent ==
    /\ Ended
    /\ began' = 0
    /\ seen' = {}
    /\ found' = NoCall
    /\ UNCHANGED kind

\* Mutant: a line that is no entry ends the reading.
Entries_CommentEnds(f) ==
    {i \in Ahead(Lines, f) : Lines[f.pos + 1].kind = "entry"}

\* The entries getXent() has still to read.
Entries(f) == Ahead(Lines, f)

\* getnetent(), getservent() and getprotoent().
getent ==
    LET f == Opened(Lines, at)
        next == Read(Entries(f))
    IN /\ at' = ReadTo(Lines, f, Entries(f))
       /\ began' = IF at.open THEN began ELSE 0
       /\ seen' = (IF at.open THEN seen ELSE {}) \cup ({next} \ {0})
       /\ found' = [NoCall EXCEPT !.call = "getent", !.rv = next]
       /\ UNCHANGED <<kind, stayopen>>

(***************************************************************************)
(* A lookup of these entries: setXent(), getXent() until it returns one of *)
(* them, and endXent() unless the stream shall stay open.                  *)
(***************************************************************************)
Lookup(fn, arg, proto, sought) ==
    LET f == SetStream
        I == sought \cap Entries(f)
    IN /\ IF stayopen THEN at' = ReadTo(Lines, f, I) /\ UNCHANGED stayopen
                      ELSE Ended
       /\ began' = at'.pos
       /\ seen' = {}
       /\ found' = [call |-> fn, arg |-> arg, proto |-> proto, rv |-> Read(I)]
       /\ UNCHANGED kind

AllEntries == Ahead(Lines, Rewound(Lines))

OfProto(line, proto) == proto \in {AnyProto, line.proto}

\* getservbyname(), getnetbyname(), getprotobyname().
getbyname(name, proto) ==
    Lookup("byname", name, proto,
           {i \in AllEntries : /\ name \in Names(Lines[i])
                               /\ OfProto(Lines[i], proto)})

\* getservbyport(), getnetbyaddr(), getprotobynumber().
getbykey(key, proto) ==
    Lookup("bykey", key, proto,
           {i \in AllEntries : /\ Number(Lines[i]) = key
                               /\ OfProto(Lines[i], proto)})

NetDbInit ==
    /\ kind \in Kind
    /\ at = Shut
    /\ stayopen = FALSE
    /\ began = 0
    /\ seen = {}
    /\ found = NoCall

NetDbNext ==
    \/ \E stay \in BOOLEAN : setent(stay)
    \/ endent
    \/ getent
    \/ \E name \in Key \cup Alias, proto \in Proto \cup {AnyProto} :
          getbyname(name, proto)
    \/ \E key \in Key, proto \in Proto \cup {AnyProto} : getbykey(key, proto)

-----------------------------------------------------------------------------
IsLookup == found.call \in {"byname", "bykey"}

\* The line has what the last look-up was asked for.
Matches(line) ==
    /\ found.call = "byname" => found.arg \in Names(line)
    /\ found.call = "bykey" => found.arg = line.key
    /\ OfProto(line, found.proto)

\* htons() of a port whose low byte is 128 or more, for example.
TooLarge(key) == kind # Networks /\ key >= 32768

(***************************************************************************)
(* A lookup returns the first entry of the file that matches, wherever an  *)
(* iteration or an earlier lookup has left the stream: all but a lookup of *)
(* a number that no short holds, which never finds its entry.              *)
(***************************************************************************)
LookupFindsFirst ==
    IsLookup =>
        found.rv = IF found.call = "bykey" /\ TooLarge(found.arg) THEN 0
                   ELSE Read({i \in AllEntries : Matches(Lines[i])})

(***************************************************************************)
(* When getXent() returns NULL the program has seen every entry behind the *)
(* place where its iteration began: comments and torn lines neither end    *)
(* the iteration nor hide an entry.                                        *)
(***************************************************************************)
IterationComplete ==
    found.call = "getent" /\ found.rv = 0 =>
        seen = {i \in AllEntries : i > began}

(***************************************************************************)
(* setXent(1) keeps the file open through any lookups until endXent(), and *)
(* a lookup without it leaves no file open.                                *)
(***************************************************************************)
OpenAsAsked ==
    /\ stayopen /\ Lines # Missing => at.open
    /\ IsLookup /\ ~stayopen => ~at.open
=============================================================================

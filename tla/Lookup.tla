------------------------------- MODULE Lookup -------------------------------
(***************************************************************************)
(* The host lookups and the other databases.  They share no state, so a    *)
(* behaviour is about one of them: which is chosen at the start.           *)
(***************************************************************************)
EXTENDS HostLookup, InetAddr

CONSTANTS Kind, Networks, FileOf, Key, Alias, Proto, AnyProto  \* see NetDb

ASSUME FileOfAssumption ==
    \A k \in Kind : FileOf[k] # Missing => IsSequence(FileOf[k])

\* Ports and protocols have numbers of 16 bits.
ASSUME NumbersAssumption ==
    /\ Key \subseteq Nat
    /\ \A k \in Kind \ {Networks} : FileOf[k] # Missing =>
          \A i \in DOMAIN FileOf[k] : FileOf[k][i].kind = "entry" =>
             FileOf[k][i].key \in Nat /\ FileOf[k][i].key < 65536

VARIABLES part, kind, at, stayopen, began, seen, found

netDb == <<kind, at, stayopen, began, seen, found>>

NetDb == INSTANCE NetDb

Init == /\ part \in {"hosts", "netdb"}
        /\ HostInit
        /\ NetDb!NetDbInit
        /\ part = "hosts" => kind = Networks
        /\ part = "netdb" => input = CHOOSE i \in Inputs : TRUE

Next == /\ UNCHANGED part
        /\ \/ part = "hosts" /\ HostNext /\ UNCHANGED netDb
           \/ part = "netdb" /\ NetDb!NetDbNext /\ UNCHANGED hostVars

Spec == Init /\ [][Next]_<<part, hostVars, netDb>>

LookupFindsFirst == NetDb!LookupFindsFirst
IterationComplete == NetDb!IterationComplete
OpenAsAsked == NetDb!OpenAsAsked
=============================================================================

---------------------------- MODULE NameService -----------------------------
(***************************************************************************)
(* What the resolver promises a program: it asks for a name; the service   *)
(* learns things about names that may be the one meant; it replies, with   *)
(* what was found, or that there is no such name, or no such data, or that *)
(* it could not tell.  A reply says nothing that was not learnt since the  *)
(* program asked.                                                          *)
(***************************************************************************)
CONSTANTS Name,         \* what programs ask for
          Found, Denied, Empty, Unknown

VARIABLES request,      \* the name asked for last
          asking,       \* whether the request is still to be replied to
          learnt,       \* what servers have said since
          reply         \* the last reply

vars == <<request, asking, learnt, reply>>

Init ==
    /\ request \in Name
    /\ asking = FALSE
    /\ learnt = {}
    /\ reply = Unknown

Ask ==
    /\ ~asking
    /\ request' \in Name
    /\ asking' = TRUE
    /\ learnt' = {}
    /\ reply' = Unknown

Learn ==
    /\ asking
    /\ learnt' \in {learnt \cup {k} : k \in {Found, Denied, Empty}}
    /\ UNCHANGED <<request, asking, reply>>

\* What was learnt with the last answer may be what is replied.
Reply ==
    /\ asking
    /\ asking' = FALSE
    /\ reply' \in learnt' \cup {Unknown}
    /\ learnt' \in {learnt \cup K : K \in SUBSET {Found, Denied, Empty}}
    /\ UNCHANGED request

Next == Ask \/ Learn \/ Reply

Spec == Init /\ [][Next]_vars /\ (asking ~> ~asking)
=============================================================================

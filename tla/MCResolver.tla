----------------------------- MODULE MCResolver -----------------------------
(***************************************************************************)
(* An instance of ResSearch for TLC: a short name, which HOSTALIASES may   *)
(* alias, and one with dots in it; a search list of NDomains domains.      *)
(***************************************************************************)
EXTENDS ResSearch

MCName ==
    {[n |-> "short", dots |-> FALSE, trailing |-> FALSE, alias |-> TRUE],
     [n |-> "short", dots |-> FALSE, trailing |-> FALSE, alias |-> FALSE],
     [n |-> "long", dots |-> TRUE, trailing |-> FALSE, alias |-> FALSE]}

MCQuestion == {"short", "long"} \X (0 .. NDomains + 1)

MCSearchOptions == {[defnames |-> TRUE, dnsrch |-> TRUE]}

MCInitOptions ==
    {[usevc |-> FALSE, stayopen |-> TRUE, igntc |-> FALSE]}
=============================================================================

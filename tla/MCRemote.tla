------------------------------ MODULE MCRemote ------------------------------
(* Remote commands for TLC. *)
EXTENDS Remote

mcCanonical == [h \in {"alpha", "a", "beta"} |-> IF h = "a" THEN "alpha" ELSE h]
mcHosts == {"a", "beta"}
mcUsers == {[name |-> None, pass |-> None], [name |-> "joe", pass |-> None],
            [name |-> None, pass |-> "given"]}
mcEnvs == {<<[hosts |-> {"alpha"}, login |-> n, logins |-> {"jo", "joe"}]>> :
             n \in {None, "jo"}}
          \cup {<<[hosts |-> {"alpha"}, login |-> "eve", logins |-> {"eve"}]>>}
\* In the fourth file a password stands before the login, in the last one an
\* entry without password before "default".
mcNetrcs ==
    { Missing,
      <<"machine", "a", "login", "ann", "password", "p1",
        "machine", "a", "login", "joe", "password", "p2">>,
      <<"machine", "beta", "notify", "yes", "login", "ann",
        "machine", "alpha", "login", "ann", "write", "no", "password", "p3",
        "default", "login", "anon", "password", "p4">>,
      <<"machine", "alpha", "password", "p5", "login", "ann">>,
      <<"machine", "alpha", "login", "joe", "default", "password", "p6">> }

alpha == <<"alpha", "dom", "org">>
HostsLine(host, user) == [host |-> host, user |-> user]
Brief == <<HostsLine(<<"alpha">>, None)>>
Long == <<HostsLine(<<"alpha", "org">>, None), HostsLine(alpha, "joe")>>
Mixed == <<HostsLine(<<"alpha">>, "joe"), HostsLine(alpha, None)>>
File(e, h, c, o) == [equiv |-> e, home |-> h, configured |-> c, owned |-> o]
mcFiles == {File(Brief, Missing, Missing, TRUE), File(Long, Brief, Missing, TRUE),
            File(Mixed, Missing, Brief, TRUE), File(Missing, Brief, Missing, FALSE),
            File(Missing, Long, Brief, TRUE), File(Brief, Mixed, Missing, FALSE)}
mcRhosts == {<<"alpha">>, alpha, <<"alpha", "org">>}
mcLocals == {"ann", "joe"}
mcDomains == {<<>>, Tail(alpha)}
=============================================================================

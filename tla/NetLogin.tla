------------------------------ MODULE NetLogin ------------------------------
(***************************************************************************)
(* Who may log in where: ruserpass() (src/inet/rusrpass.c), which finds a  *)
(* login and a password for a remote host, and ruserok() (src/inet/rcmd.c),*)
(* which decides whether a remote user needs none.                         *)
(*                                                                         *)
(* A host is a sequence of labels.  A netrc file is a sequence of tokens:  *)
(* keywords, and names and passwords in between.  Missing stands for a     *)
(* file that cannot be read, None for a null pointer.                      *)
(***************************************************************************)
EXTENDS Naturals, SequencesExt

CONSTANTS Missing, None,
          Canonical,    \* of a host's name, what gethostbyname() makes of it
          Asked,        \* what the user types when asked
          Garbage,      \* a string that uninitialised memory is part of
          Unasked       \* of the static domain: not asked for yet

-----------------------------------------------------------------------------
(* rnetrc() *)

Skipped == {"command", "notify", "write", "force"}
Keyword == Skipped \cup {"default", "login", "password", "yes", "y", "no", "n",
                         "machine"}

\* Mutant: a login that differs does not end the entry.
AfterLogin_Stays(known, name) == "entry"

\* Where parsing goes on after a login: an entry of another login is left.
AfterLogin(known, name) == IF known \in {None, name} THEN "entry" ELSE "outside"

(***************************************************************************)
(* What a token does, by the place it is read at.  A password belongs to   *)
(* the login before it, or to any if there is none.                        *)
(***************************************************************************)
Token(host, q, t) ==
    CASE q.at = "outside"  ->
            [q EXCEPT !.at = CASE t = "default" -> "skipped"
                               [] t = "machine" -> "machine"
                               [] OTHER -> "outside"]
      [] q.at = "skipped"  -> [q EXCEPT !.at = "outside"]
      [] q.at = "machine"  ->
            [q EXCEPT !.at = IF t \notin Keyword /\ Canonical[t] = host
                             THEN "entry" ELSE "outside"]
      [] q.at = "entry"    ->
            [q EXCEPT !.at = CASE t = "machine" -> "done"
                               [] t = "login" -> "login"
                               [] t = "password" -> "password"
                               [] t \in Skipped -> "value"
                               [] OTHER -> "entry"]
      [] q.at = "value"    -> [q EXCEPT !.at = "entry"]
      [] q.at = "login"    ->
            [q EXCEPT !.at = AfterLogin(q.name, t),
                      !.name = IF @ = None THEN t ELSE @]
      [] q.at = "password" ->
            [q EXCEPT !.at = "entry", !.pass = IF @ = None THEN t ELSE @]
      [] OTHER -> q

\* The file is the one in $HOME: of the path in lsck.cfg only three
\* characters are read, which name no file.
rnetrc(netrc, host, user) ==
    IF netrc = Missing THEN user
    ELSE LET read[n \in 0 .. Len(netrc)] ==
                 IF n = 0 THEN [at |-> "outside", name |-> user.name,
                                pass |-> user.pass]
                 ELSE Token(host, read[n - 1], netrc[n])
             q == read[Len(netrc)]
         IN [name |-> q.name, pass |-> q.pass]

-----------------------------------------------------------------------------
(* renv() and ruserpass() *)

(***************************************************************************)
(* A variable MACH<machine>=<login>,<password> is for all the hosts whose  *)
(* name begins with <machine>; the first one found counts, and is passed   *)
(* over if it is of another form (its login is None).  It is for the names *)
(* that begin with its login, logins; without a name it gives its login,   *)
(* which it does not terminate.  mkpwclear() is called with its buffers    *)
(* exchanged: the password is whatever malloc() has returned, or the       *)
(* program exits.                                                          *)
(***************************************************************************)
EnvOf(env, host) == SelectSeq(env, LAMBDA v : host \in v.hosts)

EnvCounts(vars, name) ==
    /\ vars # <<>> /\ Head(vars).login # None
    /\ name \in {None} \cup Head(vars).logins

renv(env, host, user) ==
    LET vars == EnvOf(env, host)
        names == IF user.name = None THEN {Head(vars).login, Garbage}
                 ELSE {user.name}
    IN IF EnvCounts(vars, user.name)
       THEN {[name |-> name, pass |-> Garbage] : name \in names}
       ELSE {user}

\* What is still missing is asked for.
Complete(f) == [name |-> IF f.name = None THEN Asked ELSE f.name,
                pass |-> IF f.pass = None THEN Asked ELSE f.pass]

ruserpass(env, netrc, name, user) ==
    LET host == Canonical[name]
        Read(e) == IF None \in {e.name, e.pass} THEN rnetrc(netrc, host, e) ELSE e
    IN {Complete(Read(e)) : e \in renv(env, host, user)}

-----------------------------------------------------------------------------
(* ruserok() *)

\* The local domain as _checkhost() has it: the one of the first time it was
\* asked for, or None if there was none then (nodomain).
Domain(ldomain, domain) == IF ldomain = Unasked THEN domain ELSE ldomain

\* A host of which only the first label is given: what is left of its name has
\* to be the local domain.
Short(rhost, lhost) == Len(rhost) > 1 /\ lhost = <<Head(rhost)>>

_checkhost(rhost, lhost, domain) ==
    \/ rhost = lhost
    \/ Short(rhost, lhost) /\ domain # None /\ domain = Tail(rhost)

\* A line without user is about the user of the same name.
Admits(line, rhost, luser, ruser, domain) ==
    /\ _checkhost(rhost, line.host, domain)
    /\ ruser = (IF line.user = None THEN luser ELSE line.user)

_validuser(lines, rhost, luser, ruser, domain) ==
    /\ lines # Missing
    /\ \E n \in DOMAIN lines : Admits(lines[n], rhost, luser, ruser, domain)

\* Whether _validuser() needs the domain, at a line it comes to.
NeedsDomain(lines, rhost, luser, ruser, domain) ==
    /\ lines # Missing
    /\ \E n \in DOMAIN lines :
          /\ Short(rhost, lines[n].host)
          /\ \A m \in 1 .. n - 1 : ~Admits(lines[m], rhost, luser, ruser, domain)

\* Mutant: hosts.equiv counts for the super-user, too.
EquivCounts_Always(superuser) == TRUE

EquivCounts(superuser) == ~superuser

\* .rhosts in the home directory, or else the file the configuration names:
\* "rhosts" and "_rhosts" are looked for, and forgotten again.
RhostsFile(f) == IF f.home # Missing THEN f.home ELSE f.configured

\* By hosts.equiv, which is read first.
Equiv(f, rhost, superuser, ruser, luser, domain) ==
    EquivCounts(superuser) /\ _validuser(f.equiv, rhost, luser, ruser, domain)

ruserok(f, rhost, superuser, ruser, luser, domain) ==
    \/ Equiv(f, rhost, superuser, ruser, luser, domain)
    \/ f.owned /\ _validuser(RhostsFile(f), rhost, luser, ruser, domain)

\* Whether a call comes to a line for which it asks for the domain.
AsksDomain(f, rhost, superuser, ruser, luser, domain) ==
    \/ EquivCounts(superuser) /\ NeedsDomain(f.equiv, rhost, luser, ruser, domain)
    \/ /\ ~Equiv(f, rhost, superuser, ruser, luser, domain) /\ f.owned
       /\ NeedsDomain(RhostsFile(f), rhost, luser, ruser, domain)
=============================================================================

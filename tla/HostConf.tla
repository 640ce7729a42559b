------------------------------ MODULE HostConf ------------------------------
(***************************************************************************)
(* init_services() of src/inet/ghstnmad.c: how host.conf and the           *)
(* environment configure the host lookups.                                 *)
(*                                                                         *)
(* A line of host.conf is a record [cmd, args] of a command and its words; *)
(* "trim" has one word, the rest of its line.  Missing stands for a file   *)
(* that cannot be opened and None for a variable that is not set.  Files   *)
(* and variables name no more than SERVICE_MAX services, which is what     *)
(* service_order[] holds.                                                  *)
(***************************************************************************)
EXTENDS EntryFile, FiniteSets, SequencesExt

CONSTANTS
    None,
    MAXTRIMDOMAINS      \* domains that trimdomain[] holds

Service == {"bind", "hosts", "nis"}

\* The program's variables before init_services().
Unconfigured ==
    [order |-> <<>>, multi |-> FALSE, spoof |-> FALSE, trim |-> <<>>,
     errs |-> 0]

Wrong(c) == [c EXCEPT !.errs = @ + 1]

\* The services among the words.
Services(words) ==
    LET known[n \in 0 .. Len(words)] ==
            IF n = 0 THEN <<>>
            ELSE IF words[n] \in Service THEN Append(known[n - 1], words[n])
            ELSE known[n - 1]
    IN known[Len(words)]

\* The domains that still find room in trimdomain[].
WithDomains(trim, domains) ==
    LET all == trim \o domains
    IN IF Len(all) <= MAXTRIMDOMAINS THEN all ELSE SubSeq(all, 1, MAXTRIMDOMAINS)

(***************************************************************************)
(* order: the services of the line follow those of earlier order lines; a  *)
(* word that is no service is an error, and so are no services at all.     *)
(***************************************************************************)
Order(c, words) ==
    LET order == c.order \o Services(words)
        bad == Cardinality({n \in DOMAIN words : words[n] \notin Service})
    IN IF words = <<>> THEN Wrong(c)
       ELSE [c EXCEPT !.order = order,
                      !.errs = @ + bad + (IF order = <<>> THEN 1 ELSE 0)]

Switches == {"multi", "nospoof", "alert", "reorder"}

\* check_legal().
Legal(words) == words \in {<<"on">>, <<"off">>}

\* What a line of host.conf does.
Line(c, line) ==
    CASE line.cmd = "comment" -> c
      [] line.cmd = "order"   -> Order(c, line.args)
      [] line.cmd \in Switches /\ ~Legal(line.args) -> Wrong(c)
      [] line.cmd = "multi"   -> [c EXCEPT !.multi = line.args = <<"on">>]
      [] line.cmd = "nospoof" -> [c EXCEPT !.spoof = line.args = <<"on">>]
      [] line.cmd \in Switches -> c
      [] line.cmd = "trim"    ->
            IF Len(c.trim) = MAXTRIMDOMAINS THEN c
            ELSE IF line.args = <<>> THEN Wrong(c)
            ELSE [c EXCEPT !.trim = WithDomains(@, line.args)]
      [] OTHER -> Wrong(c)

\* The lines are parsed until one of them was wrong.
Parsed(lines) ==
    LET parsed[n \in 0 .. Len(lines)] ==
            IF n = 0 THEN Unconfigured
            ELSE IF parsed[n - 1].errs > 0 THEN parsed[n - 1]
            ELSE Line(parsed[n - 1], lines[n])
    IN parsed[Len(lines)]

\* Without a host.conf: DNS is used when a server of it is configured.
Default(dns) ==
    [Unconfigured EXCEPT !.order = IF dns THEN <<"hosts", "bind">>
                                          ELSE <<"hosts">>]

\* RESOLV_SERV_ORDER, RESOLV_SPOOF_CHECK, RESOLV_MULTI and
\* RESOLV_ADD_TRIM_DOMAINS or RESOLV_OVERRIDE_TRIM_DOMAINS.
Overridden(c, env) ==
    [c EXCEPT
        !.order = IF env.order \in {None, <<>>} THEN @ ELSE Services(env.order),
        !.spoof = IF env.spoof = None THEN @ ELSE env.spoof # "off",
        !.multi = IF env.multi = None THEN @ ELSE env.multi = "on",
        !.trim  = IF env.overtrim # None THEN WithDomains(<<>>, env.overtrim)
                  ELSE IF env.addtrim # None THEN WithDomains(@, env.addtrim)
                  ELSE @]

\* init_services() with this host.conf, environment and DNS configuration.
init_services(file, env, dns) ==
    Overridden(IF file = Missing THEN Default(dns) ELSE Parsed(file), env)
=============================================================================

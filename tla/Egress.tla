------------------------------- MODULE Egress -------------------------------
(***************************************************************************)
(* Which way a connection leaves, and to which address: the whitelist      *)
(* (internal/policy/whitelist) on its way from the server's file over the  *)
(* reload loop and the control API to the client; the client's local proxy *)
(* (connectUpstream), the server's tunnel handler and the mirrors' clients *)
(* that consult it; the address policy a direct dial goes through          *)
(* (internal/policy/ssrf); and App.Run, whose loop reloads the list and    *)
(* which starts and stops the upstream proxy of ProxyCore.                 *)
(*                                                                         *)
(* Addresses are known by their kind.  A name may resolve to other         *)
(* addresses at every look-up.                                             *)
(***************************************************************************)
EXTENDS MirrorRoutes, ProxyCore, FiniteSets

CONSTANTS
  Contents,   \* what the whitelist file may hold: sets of entries
  Hosts,      \* names that are asked for, as sequences of labels
  Urls,       \* what the mirrors are asked for: pairs of a mirror and a Url
  Policies,   \* address policies of the server and the client
  RelayAll,   \* tunnel.mode is relay_all
  MaxWrites,  \* bound: how often the file is written
  None

\* A mirror is asked for files of its own; the file holds entries.
ASSUME EgressAssumption ==
  /\ Urls \subseteq Mirror \X Url
  /\ \A c \in Contents : \A e \in c : e = [domain |-> e.domain, form |-> e.form]
  /\ MaxWrites \in Nat

VARIABLES
  file,     \* the whitelist file: its entries and its modification time
  list,     \* the server's list (WLStore), and the time of the file it is of
  loaded,   \* App.wlModTime
  reload,   \* what New, Run and its loop are about to do, and what the loop
            \* has seen of the file
  offered,  \* the client's list (Options.WL)
  conn      \* one connection

vars == <<file, list, loaded, reload, offered, conn, core>>

-----------------------------------------------------------------------------
(* whitelist: Parse, Match, Entries *)

\* An entry is a domain with or without itself ("*.x") and its subdomains.
Entry(domain, form) == [domain |-> domain, form |-> form]

Exact(entries) == {e.domain : e \in {x \in entries : x.form # "star"}}
Suffix(entries) == {e.domain : e \in entries}

\* On label boundaries.
Match(entries, host) ==
  host \in Exact(entries) \/ \E d \in Suffix(entries) : Under(host, d)

\* MUTANT of Entries: the domains matched exactly.
EntriesExact(entries) == {Entry(d, "plain") : d \in Exact(entries)}

\* What the control API sends: bare domains, which the client parses as such.
Entries(entries) == {Entry(d, "plain") : d \in Exact(entries) \cup Suffix(entries)}

\* whitelist.Default, a constant list of plain domains.
Default == {Entry(<<"org">>, "plain")}

-----------------------------------------------------------------------------
(* ssrf: CheckPort, checkIP *)

Kind == {"public", "private", "reserved", "documentation", "loopback",
         "linklocal", "unspecified"}

\* Bound: a name has at most two kinds of addresses at a time.
Answers == {a \in SUBSET Kind : Cardinality(a) \in 1 .. 2}

\* What is refused even when private addresses are allowed.
Floor == {"documentation", "loopback", "linklocal", "unspecified"}

checkIP(policy, kind) ==
  \/ policy.allowLoopback /\ kind = "loopback"
  \/ kind \notin IF policy.blockPrivate THEN Kind \ {"public"} ELSE Floor

\* {} stands for the default ports, 0 and -1 for every port.
AllowedPorts(policy) == IF policy.ports = {} THEN {80, 443} ELSE policy.ports
CheckPort(policy, port) ==
  port \in 1 .. 65535
    /\ (policy.ports \cap {0, -1} # {} \/ port \in AllowedPorts(policy))

-----------------------------------------------------------------------------

NoConn == [pc |-> "none", via |-> "", to |-> <<>>, port |-> 0, url |-> None,
           kept |-> "", policy |-> None, addrs |-> {}, dialed |-> "none"]

\* New is about to read the file (LoadWhitelist).
Init ==
  /\ CoreInit
  /\ file \in [entries : Contents \cup {None}, mtime : {1}]
  /\ list = [entries |-> {}, of |-> 0]
  /\ loaded = 0
  /\ reload = [pc |-> "new", mtime |-> 0]
  /\ offered = Default
  /\ conn = NoConn

serverVars == <<list, loaded, reload, core>>
Reload(pc, mtime) == reload' = [pc |-> pc, mtime |-> mtime]

\* Requests are served; the tunnel takes them until the API has shut down.
Serving == reload.pc \in {"wait", "load", "stopping"}

\* Somebody writes the file, or removes it.
WriteFile ==
  /\ file.mtime <= MaxWrites
  /\ \E c \in Contents \cup {None} :
       file' = [entries |-> c, mtime |-> file.mtime + 1]
  /\ UNCHANGED <<serverVars, offered, conn>>

\* LoadWhitelist: a missing file means the default list.
Loaded == [entries |-> IF file.entries = None THEN Default ELSE file.entries,
           of |-> file.mtime]

\* New reads the file first and asks for its time afterwards.
StartLoad ==
  /\ reload.pc = "new"
  /\ list' = Loaded
  /\ Reload("stat", 0)
  /\ UNCHANGED <<file, loaded, offered, conn, core>>

StartStat ==
  /\ reload.pc = "stat"
  /\ loaded' = IF file.entries = None THEN 0 ELSE file.mtime
  /\ Reload("core", 0)
  /\ UNCHANGED <<file, list, offered, conn, core>>

-----------------------------------------------------------------------------
(* App.Run: from the proxy core to the loop, and its end *)

\* Run returns, with the deferred Stop of the core, and the process ends.
RunEnds ==
  /\ Reload("over", 0)
  /\ core' = Killed(core)
  /\ conn' = NoConn
  /\ UNCHANGED <<file, list, loaded, offered>>

RunStep(pc) ==
  /\ Reload(pc, 0)
  /\ UNCHANGED <<file, list, loaded, offered, conn>>

\* The core comes before the listeners, if there is to be one.
RunCore ==
  /\ reload.pc = "core"
  /\ \/ core = "off" /\ RunStep("listen") /\ UNCHANGED core
     \/ StartCore /\ RunStep("ready")
     \/ core = "new" /\ RunEnds

RunReady ==
  /\ reload.pc = "ready"
  /\ \/ WaitReady /\ RunStep("listen")
     \/ RunEnds

\* Both listeners, or none.
Listen ==
  /\ reload.pc = "listen"
  /\ \/ RunStep("wait") /\ UNCHANGED core
     \/ RunEnds

\* A signal: the loop is left, and what is being served may take its time.
Shutdown ==
  /\ reload.pc = "wait"
  /\ RunStep("stopping")
  /\ UNCHANGED core

\* ... until the time-out of Shutdown; or a listener fails.
Leave == reload.pc \in {"wait", "stopping"} /\ RunEnds

\* The process is started again.
Begin ==
  /\ reload.pc = "over"
  /\ list' = [entries |-> {}, of |-> 0]
  /\ loaded' = 0
  /\ Reload("new", 0)
  /\ core' \in {"off", "new"}
  /\ UNCHANGED <<file, offered, conn>>

Core == CoreExits /\ UNCHANGED <<file, list, loaded, reload, offered, conn>>

-----------------------------------------------------------------------------
(* The loop *)

\* maybeReloadWhitelist: a file that is missing or not newer is left alone.
TickStat ==
  /\ reload.pc = "wait"
  /\ file.entries # None /\ file.mtime > loaded
  /\ Reload("load", file.mtime)
  /\ UNCHANGED <<file, list, loaded, offered, conn, core>>

\* MUTANT of TickLoad: the time is taken over although nothing could be read.
TickLoadAnyway ==
  /\ reload.pc = "load"
  /\ list' = Loaded \/ UNCHANGED list
  /\ loaded' = reload.mtime
  /\ Reload("wait", 0)
  /\ UNCHANGED <<file, offered, conn, core>>

\* What is read may be newer than what was asked for; a file that cannot be
\* read leaves everything as it is.
TickLoad ==
  /\ reload.pc = "load"
  /\ \/ list' = Loaded /\ loaded' = reload.mtime
     \/ UNCHANGED <<list, loaded>>
  /\ Reload("wait", 0)
  /\ UNCHANGED <<file, offered, conn, core>>

\* startProxy asks the server for its list (dldw proxy does so again and
\* again), and keeps what it has when that fails or the list is empty.
FetchList ==
  /\ Serving
  /\ list.entries # {}
  /\ offered' = Entries(list.entries)
  /\ UNCHANGED <<file, serverVars, conn>>

-----------------------------------------------------------------------------
(* One connection *)

Set(c) == conn' = c /\ UNCHANGED <<file, serverVars, offered>>
Refuse(code) == Set([conn EXCEPT !.pc = code])

\* connectUpstream: whatever the client's list matches, or everything in relay
\* mode, goes to the tunnel, and nothing falls back from it.
ClientAsks(forceTunnel) ==
  /\ conn.pc = "none" /\ Serving
  /\ \E host \in Hosts, port \in {22, 443}, p \in Policies :
       Set([NoConn EXCEPT
              !.pc = IF forceTunnel \/ Match(offered, host)
                       THEN "offered" ELSE "port",
              !.via = IF forceTunnel \/ Match(offered, host)
                        THEN "tunnel" ELSE "direct",
              !.to = host, !.port = port, !.policy = p])

\* tunnel.handle: the mode, then the list of the moment.
ServerMatches ==
  /\ conn.pc = "offered"
  /\ IF RelayAll \/ Match(list.entries, conn.to)
       THEN Set([conn EXCEPT !.pc = "port"])
       ELSE Refuse("not_whitelisted")

\* A mirror keeps the file, which the executor fetches, or passes it on.
MirrorAsks ==
  /\ conn.pc = "none" /\ Serving
  /\ \E u \in Urls, p \in Policies :
       Set([NoConn EXCEPT
              !.pc = IF u[1] = "web" /\ WebRefuses(u[2], {}) THEN "bad_host"
                     ELSE "port",
              !.via = u[1], !.url = u[2], !.port = 443, !.policy = p,
              !.kept = KeptAs(u[1], u[2])])

\* The proxy client the mirrors pass files on with knows no ports.
PassesOn == conn.via \in Mirror /\ conn.kept = "" /\ Upstream

\* With an upstream the names are its business: the tunnel sends everything
\* there, the executor all but what it takes for a private host.
Ways ==
  IF conn.via = "direct" \/ ~ Upstream
    THEN {IF conn.via = "tunnel" THEN "check" ELSE "resolve"}
    ELSE {"proxy"} \cup IF conn.via \in Mirror /\ conn.kept # "" THEN {"bypass"}
                       ELSE {}

Port ==
  /\ conn.pc = "port"
  /\ IF PassesOn \/ CheckPort(conn.policy, conn.port)
       THEN \E way \in Ways : Set([conn EXCEPT !.pc = way])
       ELSE Refuse("port_denied")

\* CheckHost, before the tunnel takes a slot: every address must pass.  The
\* dial looks the name up again.
CheckHost ==
  /\ conn.pc = "check"
  /\ \E addrs \in Answers :
       IF \A a \in addrs : checkIP(conn.policy, a)
         THEN Set([conn EXCEPT !.pc = "resolve"])
         ELSE Refuse("ip_denied")

\* MUTANT of Resolve: what was checked is not what will be dialled.
ResolveAgain ==
  /\ conn.pc = "resolve"
  /\ \E addrs, again \in Answers :
       IF \A a \in addrs : checkIP(conn.policy, a)
         THEN Set([conn EXCEPT !.pc = "dial", !.addrs = again])
         ELSE Refuse("ip_denied")

\* candidateIPs: one bad address refuses the name, and so does none.
Resolve ==
  /\ conn.pc = "resolve"
  /\ \E addrs \in Answers :
       IF \A a \in addrs : checkIP(conn.policy, a)
         THEN Set([conn EXCEPT !.pc = "dial", !.addrs = addrs])
         ELSE Refuse("ip_denied")

\* DialContext: the validated addresses in turn.
Dial ==
  /\ conn.pc = "dial"
  /\ \/ \E a \in conn.addrs : Set([conn EXCEPT !.pc = "up", !.dialed = a])
     \/ Refuse("dial_failed")

\* upstreamproxy.Dial: a core that is gone fails the dial, and nothing falls
\* back from it.
ThroughProxy ==
  /\ conn.pc = "proxy"
  /\ \/ Accepts /\ Set([conn EXCEPT !.pc = "up", !.dialed = "proxy"])
     \/ Refuse("dial_failed")

\* The answer about the host may be as old as the process (hostClassCache):
\* the plain dialer takes whatever address there is now.
Bypass ==
  /\ conn.pc = "bypass"
  /\ \/ \E a \in Kind : Set([conn EXCEPT !.pc = "up", !.dialed = a])
     \/ Refuse("dial_failed")

Closed == {"up", "not_whitelisted", "bad_host", "port_denied", "ip_denied",
           "dial_failed"}
Close == conn.pc \in Closed /\ Set(NoConn)

ReloadLoop == StartLoad \/ StartStat \/ TickStat \/ TickLoad
Run == RunCore \/ RunReady \/ Listen \/ Shutdown \/ Leave \/ Begin \/ Core

Next ==
  \/ WriteFile \/ ReloadLoop \/ Run \/ FetchList
  \/ ClientAsks(FALSE) \/ ClientAsks(TRUE) \/ MirrorAsks
  \/ ServerMatches \/ Port \/ CheckHost \/ Resolve \/ Dial
  \/ ThroughProxy \/ Bypass \/ Close

Spec == Init /\ [][Next]_vars

\* The loop's ticker fires for ever, a file that can be read is read at last,
\* and Shutdown has a time-out.
FairSpec ==
  /\ Spec
  /\ WF_vars(StartLoad) /\ WF_vars(StartStat) /\ WF_vars(TickStat)
  /\ WF_vars(TickLoad) /\ SF_vars(TickLoad /\ loaded' # loaded)
  /\ WF_vars(Leave /\ reload.pc = "stopping")

-----------------------------------------------------------------------------
(* Properties *)

Pc == {"none", "offered", "port", "check", "resolve", "dial", "proxy",
       "bypass"} \cup Closed

ConnRec ==
  [pc : Pc,
   via : {"", "tunnel", "direct"} \cup Mirror,
   to : Hosts \cup {<<>>}, port : {0, 22, 443},
   url : {u[2] : u \in Urls} \cup {None}, kept : Family,
   policy : Policies \cup {None},
   addrs : {{}} \cup Answers, dialed : {"none", "proxy"} \cup Kind]

\* The type invariant.
TypeOK ==
  /\ file \in [entries : Contents \cup {None}, mtime : 1 .. MaxWrites + 1]
  /\ list \in [entries : Contents \cup {Default, {}}, of : 0 .. MaxWrites + 1]
  /\ loaded \in 0 .. file.mtime
  /\ reload \in [pc : {"new", "stat", "core", "ready", "listen", "wait", "load",
                       "stopping", "over"},
                 mtime : 0 .. file.mtime]
  /\ CoreTypeOK
  /\ offered \in {Default} \cup {Entries(c) : c \in Contents \cup {Default}}
  /\ conn \in ConnRec

\* With an upstream the executor dials a host it takes for a private one itself,
\* with no policy: all that can be said of the address is that this is the way.
Unguarded == Upstream /\ conn.via \in Mirror /\ conn.kept # ""

\* Whatever way a connection takes, and however often the name changes its
\* addresses between the look-ups: the address dialled passes the policy and so
\* does the port; with an upstream the tunnel dials nothing else, also when it is
\* gone, and the client's own connections never do.  "SSRF: ... blocked on both
\* client and server" and "Ports default to 80/443 across the whole chain"
\* (README.en.md, Security model, and the package comment of webmirror) are more
\* than that: with an upstream the address of a host on the executor's way past it
\* is not checked, nor the port of what a mirror passes on.
DialedIsAllowed ==
  conn.pc = "up" =>
    /\ CASE conn.dialed = "proxy" -> Upstream /\ conn.via # "direct"
         [] conn.dialed \in conn.addrs -> checkIP(conn.policy, conn.dialed)
         [] OTHER -> Unguarded
    /\ CheckPort(conn.policy, conn.port) \/ PassesOn
    /\ conn.via = "tunnel" /\ Upstream => conn.dialed = "proxy"

\* The core runs for as long as Run, on every way out of it.
CoreIsOwned == reload.pc = "over" => core # "running"

\* What changes at its source is passed on and not kept under its URL, but for the
\* kinds of files that Overlooked names: those are kept, against the comment at
\* classify and the README.
MutableIsNotKept ==
  conn.url # None /\ Mutable(conn.via, conn.url) /\ conn.kept # ""
    => Overlooked(conn.via, conn.url)

\* What holds of every connection and of the server that carries it, with the
\* types.
EgressInv ==
  TypeOK /\ DialedIsAllowed /\ CoreIsOwned /\ MutableIsNotKept

\* A client that has the server's list sends to the tunnel what the server
\* takes there: nothing of it goes direct, and nothing else is refused by the
\* tunnel but the bare domain of a subdomains-only entry, which the list loses
\* on its way.
RoutesAgree ==
  [][offered = Entries(list.entries) =>
       /\ conn.pc = "none" /\ conn'.via = "direct"
            => ~ Match(list.entries, conn'.to)
       /\ conn'.pc = "not_whitelisted" /\ conn.pc = "offered"
            => \/ ~ Match(offered, conn.to)
               \/ Entry(conn.to, "star") \in list.entries]_vars

\* A file newer than the loop has seen is what the server goes by in the end,
\* unless it is removed or Run ends.
ListFollowsFile ==
  \A m \in 1 .. MaxWrites + 1 :
    reload.pc = "wait" /\ file.entries # None /\ file.mtime = m /\ m > loaded
      ~> list.of >= m \/ file.entries = None \/ reload.pc = "over"
=============================================================================

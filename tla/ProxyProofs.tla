------------------------------ MODULE ProxyProofs ------------------------------
(***************************************************************************)
(* What holds of the ways a connection takes, for every list, name, URL    *)
(* and policy (Egress), and of the local proxy and the wrapper around it,  *)
(* for every set of connections and every number of signals (WrappedRun).  *)
(*                                                                         *)
(* A connection is checked in one step and dialled in another.  What makes *)
(* its invariant inductive is what each step of a connection may rely on   *)
(* (ConnInv), and that the upstream proxy is there or not for as long as a *)
(* server carries connections (Carried): nothing may come between the      *)
(* choice of a way and the dial.                                           *)
(***************************************************************************)
EXTENDS Egress, WrappedRun, FiniteSetTheorems, SequenceTheorems, TLAPS

-----------------------------------------------------------------------------
(* Lists *)

\* What has been matched is matched by the list as it is sent, too; what is
\* matched in addition is the bare domain of an entry for subdomains.
LEMMA SentListMatches ==
  ASSUME NEW l, NEW host,
         \A e \in l : e = [domain |-> e.domain, form |-> e.form]
  PROVE  /\ Match(l, host) => Match(Entries(l), host)
         /\ Match(Entries(l), host) =>
              Match(l, host) \/ Entry(host, "star") \in l
<1> DEFINE all == Exact(l) \cup Suffix(l)
<1> HIDE DEF all
<1>e. Entries(l) = {Entry(d, "plain") : d \in all}
  BY DEF Entries, all
<1>p. \A d : Entry(d, "plain").domain = d /\ Entry(d, "plain").form # "star"
  BY DEF Entry
<1>1. Exact(Entries(l)) = all
  <2>1. \A x \in Entries(l) : x.domain \in all /\ x.form # "star"
    BY <1>e, <1>p
  <2>2. \A d \in all : Entry(d, "plain") \in Entries(l)
    BY <1>e
  <2> QED
    BY <2>1, <2>2, <1>p DEF Exact
<1>2. Suffix(Entries(l)) = all
  <2>1. \A x \in Entries(l) : x.domain \in all
    BY <1>e, <1>p
  <2>2. \A d \in all : Entry(d, "plain") \in Entries(l)
    BY <1>e
  <2> QED
    BY <2>1, <2>2, <1>p DEF Suffix
<1>3. Exact(l) \subseteq Suffix(l)
  BY DEF Exact, Suffix
<1>4. ASSUME host \in Suffix(l), host \notin Exact(l)
      PROVE  Entry(host, "star") \in l
  <2>1. PICK e \in l : e.domain = host
    BY <1>4 DEF Suffix
  <2>2. e.form = "star"
    BY <1>4, <2>1 DEF Exact
  <2> QED
    BY <2>1, <2>2 DEF Entry
<1> QED
  BY <1>1, <1>2, <1>3, <1>4 DEF Match, all

-----------------------------------------------------------------------------
(* What the mirrors keep *)

LEMMA CutShort ==
  ASSUME NEW a, NEW ext
  PROVE  Cut(<<a>>, ext) = <<a>>
BY DEF Cut

LEMMA CutPair ==
  ASSUME NEW a, NEW b, NEW ext
  PROVE  /\ b = ext => Cut(<<a, b>>, ext) = <<a>>
         /\ b # ext => Cut(<<a, b>>, ext) = <<a, b>>
<1>1. Len(<<a, b>>) = 2 /\ LastPart(<<a, b>>) = b /\ Front(<<a, b>>) = <<a>>
  <2>1. Len(<<a, b>>) = 2 /\ <<a, b>>[1] = a /\ <<a, b>>[2] = b
    OBVIOUS
  <2>2. /\ SubSeq(<<a, b>>, 1, 1) \in Seq({a, b}) /\ Len(SubSeq(<<a, b>>, 1, 1)) = 1
        /\ SubSeq(<<a, b>>, 1, 1)[1] = a
    BY <2>1
  <2>3. SubSeq(<<a, b>>, 1, 1) = <<a>>
    <3>1. <<a>> \in Seq({a, b}) /\ Len(<<a>>) = 1 /\ <<a>>[1] = a
      OBVIOUS
    <3>2. \A i \in 1 .. 1 : SubSeq(<<a, b>>, 1, 1)[i] = <<a>>[i]
      BY <2>2, <3>1
    <3> QED
      BY <2>2, <3>1, <3>2, SeqEqual
  <2> QED
    BY <2>1, <2>3 DEF LastPart, Front
<1> QED
  BY <1>1 DEF Cut

\* The name of a release file is found behind its extension.
LEMMA ReleaseStripped ==
  ASSUME NEW r, NEW ext \in {"gz", "xz", "bz2", "gpg"}
  PROVE  Stripped(<<r>>) = <<r>> /\ Stripped(<<r, ext>>) = <<r>>
<1>1. Stripped(<<r>>) = <<r>>
  BY CutShort DEF Stripped
<1>2. CASE ext = "gz"
  <2>1. Cut(<<r, ext>>, "gz") = <<r>>
    BY <1>2, CutPair
  <2> QED
    BY <1>1, <2>1, CutShort DEF Stripped
<1>3. CASE ext = "xz"
  <2>1. Cut(<<r, ext>>, "gz") = <<r, ext>> /\ Cut(<<r, ext>>, "xz") = <<r>>
    BY <1>3, CutPair
  <2> QED
    BY <1>1, <2>1, CutShort DEF Stripped
<1>4. CASE ext = "bz2"
  <2>1. /\ Cut(<<r, ext>>, "gz") = <<r, ext>> /\ Cut(<<r, ext>>, "xz") = <<r, ext>>
        /\ Cut(<<r, ext>>, "bz2") = <<r>>
    BY <1>4, CutPair
  <2> QED
    BY <1>1, <2>1, CutShort DEF Stripped
<1>5. CASE ext = "gpg"
  <2>1. /\ Cut(<<r, ext>>, "gz") = <<r, ext>> /\ Cut(<<r, ext>>, "xz") = <<r, ext>>
        /\ Cut(<<r, ext>>, "bz2") = <<r, ext>> /\ Cut(<<r, ext>>, "zst") = <<r, ext>>
        /\ Cut(<<r, ext>>, "gpg") = <<r>>
    BY <1>5, CutPair
  <2> QED
    BY <1>1, <2>1, CutShort DEF Stripped
<1> QED
  BY <1>1, <1>2, <1>3, <1>4, <1>5

\* What changes at its source is passed on by the mirror that is asked for it, if
\* the code knows it.
LEMMA MutablePassedOn ==
  ASSUME NEW m \in Mirror, NEW u, Mutable(m, u), ~ Overlooked(m, u)
  PROVE  KeptAs(m, u) = ""
<1>1. CASE m = "web"
  <2>1. ~ RegistryPage(u) /\ RepoMetadata(u)
    BY <1>1 DEF Mutable, Overlooked
  <2>2. /\ {"i18n", "dep11"} \cap u.dirs = {}
        /\ u.name[1] \notin ContentsFiles \ {"Contents"}
    BY <1>1 DEF Overlooked
  <2>3. ASSUME \/ "repodata" \in u.dirs
               \/ u.name[1] \in {"Packages", "Sources", "repomd", "Contents"}
        PROVE  isRepoMetadata(u)
    BY <2>3 DEF isRepoMetadata
  <2>4. ASSUME NEW r \in {"Release", "InRelease"}, u.name = <<r>>
        PROVE  isRepoMetadata(u)
    <3>1. Stripped(u.name) = <<r>>
      BY <2>4, ReleaseStripped
    <3> QED
      BY <3>1 DEF isRepoMetadata
  <2>5. ASSUME NEW r \in {"Release", "InRelease"},
               NEW ext \in {"gz", "xz", "bz2", "gpg"}, u.name = <<r, ext>>
        PROVE  isRepoMetadata(u)
    <3>1. Stripped(u.name) = <<r>>
      BY <2>5, ReleaseStripped
    <3> QED
      BY <3>1 DEF isRepoMetadata
  <2>6. /\ "by-hash" \notin u.dirs
        /\ \/ "repodata" \in u.dirs
           \/ u.name[1] \in {"Packages", "Sources", "repomd", "Contents"}
           \/ \E r \in {"Release", "InRelease"} :
                \/ u.name = <<r>>
                \/ \E ext \in {"gz", "xz", "bz2", "gpg"} : u.name = <<r, ext>>
    BY <2>1, <2>2 DEF RepoMetadata
  <2>7. isRepoMetadata(u)
    BY <2>3, <2>4, <2>5, <2>6
  <2>8. classify(u) = ""
    BY <2>6, <2>7 DEF classify
  <2> QED
    BY <1>1, <2>8 DEF KeptAs
<1>2. CASE m = "gomod"
  <2>1. ~ isImmutable(u)
    <3>1. CASE \E n : u.name = <<n>>
      BY <3>1 DEF isImmutable
    <3>2. CASE "@v" \in u.dirs /\ u.rev \notin {"version", "sha"}
      BY <1>2, <3>2 DEF Overlooked
    <3> QED
      BY <1>2, <3>1, <3>2 DEF Mutable
  <2> QED
    BY <1>2, <2>1 DEF KeptAs
<1>3. CASE m = "hf"
  BY <1>3 DEF Mutable, KeptAs, isCommitSHA
<1> QED
  BY <1>1, <1>2, <1>3 DEF Mirror

LEMMA FamilyType ==
  ASSUME NEW m \in Mirror, NEW u
  PROVE  KeptAs(m, u) \in Family
<1>1. ClassifyFamily(u) \in Family
  BY DEF ClassifyFamily, Family
<1>2. classify(u) \in Family
  BY <1>1, Zenon DEF classify, Family
<1>3. CASE m = "web"
  BY <1>2, <1>3 DEF KeptAs
<1>4. CASE m = "gomod"
  BY <1>4 DEF KeptAs, Family
<1>5. CASE m = "hf"
  BY <1>5 DEF KeptAs, Family
<1> QED
  BY <1>3, <1>4, <1>5 DEF Mirror

-----------------------------------------------------------------------------
(* The invariant of a connection *)

Ported == {"check", "resolve", "dial", "proxy", "bypass", "up"}

\* What a step of the connection may rely on.
ConnInv ==
  /\ conn.pc = "none" => conn = NoConn
  /\ conn.pc \in {"check", "resolve", "dial"} =>
       ~ (conn.via = "tunnel" /\ Upstream)
  /\ conn.pc \in Ported => CheckPort(conn.policy, conn.port) \/ PassesOn
  /\ conn.pc \notin Closed \cup {"dial"} => conn.addrs = {}
  /\ conn.pc = "dial" => \A a \in conn.addrs : checkIP(conn.policy, a)
  /\ conn.pc = "proxy" => Upstream /\ conn.via # "direct"
  /\ conn.pc = "bypass" => Upstream /\ conn.via \in Mirror /\ conn.kept # ""
  /\ conn.url # None => conn.via \in Mirror /\ conn.kept = KeptAs(conn.via, conn.url)

\* A connection is one of a server that serves.
Carried == conn.pc # "none" => Serving

EgressInd == TypeOK /\ DialedIsAllowed /\ CoreIsOwned /\ ConnInv /\ Carried

\* The types of everything but the connection.
ServerTypeOK ==
  /\ file \in [entries : Contents \cup {None}, mtime : 1 .. MaxWrites + 1]
  /\ list \in [entries : Contents \cup {Default, {}}, of : 0 .. MaxWrites + 1]
  /\ loaded \in 0 .. file.mtime
  /\ reload \in [pc : {"new", "stat", "core", "ready", "listen", "wait", "load",
                       "stopping", "over"},
                 mtime : 0 .. file.mtime]
  /\ CoreTypeOK
  /\ offered \in {Default} \cup {Entries(c) : c \in Contents \cup {Default}}

LEMMA TypeParts == TypeOK <=> ServerTypeOK /\ conn \in ConnRec
BY DEF TypeOK, ServerTypeOK

\* What no step of a connection changes of it.
Same(d, c) ==
  /\ d.via = c.via /\ d.to = c.to /\ d.port = c.port /\ d.url = c.url
  /\ d.kept = c.kept /\ d.policy = c.policy

\* The three ways a record of a connection is changed.
PcSet(c, pc) == [c EXCEPT !.pc = pc]
AddrsSet(c, pc, addrs) == [c EXCEPT !.pc = pc, !.addrs = addrs]
DialedSet(c, pc, dialed) == [c EXCEPT !.pc = pc, !.dialed = dialed]

LEMMA ConnChanged ==
  ASSUME NEW c \in ConnRec, NEW pc \in Pc
  PROVE  /\ PcSet(c, pc) \in ConnRec /\ PcSet(c, pc).pc = pc
         /\ Same(PcSet(c, pc), c)
         /\ PcSet(c, pc).addrs = c.addrs
         /\ \A addrs \in Answers :
              /\ AddrsSet(c, pc, addrs) \in ConnRec
              /\ AddrsSet(c, pc, addrs).pc = pc
              /\ Same(AddrsSet(c, pc, addrs), c)
              /\ AddrsSet(c, pc, addrs).addrs = addrs
         /\ \A dialed \in {"proxy"} \cup Kind :
              /\ DialedSet(c, pc, dialed) \in ConnRec
              /\ DialedSet(c, pc, dialed).pc = pc
              /\ Same(DialedSet(c, pc, dialed), c)
              /\ DialedSet(c, pc, dialed).addrs = c.addrs
              /\ DialedSet(c, pc, dialed).dialed = dialed
<1> DEFINE vias == {"", "tunnel", "direct"} \cup Mirror
           hosts == Hosts \cup {<<>>}
           ports == {0, 22, 443}
           urls == {u[2] : u \in Urls} \cup {None}
           policies == Policies \cup {None}
           answers == {{}} \cup Answers
           dials == {"none", "proxy"} \cup Kind
           Rec == [pc : Pc, via : vias, to : hosts, port : ports, url : urls,
                   kept : Family, policy : policies, addrs : answers,
                   dialed : dials]
<1>1. ConnRec = Rec
  BY DEF ConnRec
<1>2. Answers \subseteq answers /\ {"proxy"} \cup Kind \subseteq dials
  OBVIOUS
<1> HIDE DEF vias, hosts, ports, urls, policies, answers, dials
<1>3. /\ PcSet(c, pc) \in ConnRec /\ PcSet(c, pc).pc = pc
      /\ Same(PcSet(c, pc), c)
      /\ PcSet(c, pc).addrs = c.addrs
  BY <1>1 DEF Same, PcSet
<1>4. ASSUME NEW addrs \in answers
      PROVE  /\ AddrsSet(c, pc, addrs) \in ConnRec
             /\ AddrsSet(c, pc, addrs).pc = pc
             /\ Same(AddrsSet(c, pc, addrs), c)
             /\ AddrsSet(c, pc, addrs).addrs = addrs
  BY <1>1 DEF Same, AddrsSet
<1>5. ASSUME NEW dialed \in dials
      PROVE  /\ DialedSet(c, pc, dialed) \in ConnRec
             /\ DialedSet(c, pc, dialed).pc = pc
             /\ Same(DialedSet(c, pc, dialed), c)
             /\ DialedSet(c, pc, dialed).addrs = c.addrs
             /\ DialedSet(c, pc, dialed).dialed = dialed
  BY <1>1 DEF Same, DialedSet
<1> QED
  BY <1>2, <1>3, <1>4, <1>5

LEMMA PassedOn ==
  ASSUME ConnInv
  PROVE  MutableIsNotKept
BY MutablePassedOn DEF ConnInv, MutableIsNotKept

\* Little holds of a connection that is gone.
LEMMA ConnGone ==
  ASSUME conn' = NoConn
  PROVE  conn' \in ConnRec /\ ConnInv' /\ DialedIsAllowed' /\ Carried'
<1>1. NoConn \in ConnRec
  BY DEF NoConn, ConnRec, Family, Pc
<1> QED
  BY <1>1 DEF ConnInv, DialedIsAllowed, Carried, NoConn, Ported

\* A connection on which nothing happens keeps what holds of it, if the
\* upstream proxy is still there, or still not.
LEMMA ConnKept ==
  ASSUME EgressInd, conn' = conn, conn.pc = "none" \/ (Upstream' <=> Upstream)
  PROVE  conn' \in ConnRec /\ ConnInv' /\ DialedIsAllowed'
<1>1. conn' \in ConnRec
  BY TypeParts DEF EgressInd
<1>2. CASE conn.pc = "none"
  <2>1. conn' = NoConn
    BY <1>2 DEF EgressInd, ConnInv
  <2> QED
    BY <2>1, ConnGone
<1>3. CASE Upstream' <=> Upstream
  <2>1. PassesOn' <=> PassesOn
    BY <1>3 DEF PassesOn
  <2>2. ConnInv'
    BY <1>3, <2>1 DEF EgressInd, ConnInv
  <2>3. DialedIsAllowed'
    BY <1>3, <2>1 DEF EgressInd, DialedIsAllowed, Unguarded
  <2> QED
    BY <1>1, <2>2, <2>3
<1> QED
  BY <1>2, <1>3

\* A refused or failed connection is only closed.
LEMMA RefuseKeeps ==
  ASSUME EgressInd, NEW why \in Closed \ {"up"}, Refuse(why), Serving
  PROVE  EgressInd'
<1>1. conn' = PcSet(conn, why) /\ UNCHANGED <<file, serverVars, offered>>
  BY DEF Refuse, Set, PcSet
<1>2. conn \in ConnRec
  BY TypeParts DEF EgressInd
<1>3. /\ conn' \in ConnRec /\ conn'.pc = why
      /\ conn'.url = conn.url /\ conn'.via = conn.via /\ conn'.kept = conn.kept
  <2>1. why \in Pc
    BY DEF Pc
  <2>2. conn' \in ConnRec /\ conn'.pc = why /\ Same(conn', conn)
    BY <1>1, <1>2, <2>1, ConnChanged
  <2> QED
    BY <2>2 DEF Same
<1>4. ServerTypeOK' /\ CoreIsOwned'
  BY <1>1, TypeParts
  DEF EgressInd, ServerTypeOK, CoreTypeOK, CoreIsOwned, serverVars
<1>5. ConnInv' /\ DialedIsAllowed'
  BY <1>3 DEF EgressInd, ConnInv, DialedIsAllowed, Ported, Closed
<1>6. Carried'
  BY <1>1 DEF Carried, Serving, serverVars
<1> QED
  BY <1>3, <1>4, <1>5, <1>6 DEF EgressInd, TypeOK, ServerTypeOK

-----------------------------------------------------------------------------
(* The file, the loop and the run *)

\* Steps that leave the connection and the core alone.
LEMMA LoopKeeps ==
  ASSUME EgressInd, WriteFile \/ ReloadLoop \/ FetchList
  PROVE  EgressInd'
<1> USE EgressAssumption
<1>t. ServerTypeOK
  BY TypeParts DEF EgressInd
<1>1. UNCHANGED <<conn, core>>
  BY DEF WriteFile, ReloadLoop, StartLoad, StartStat, TickStat, TickLoad,
         FetchList, serverVars
<1>2. conn' \in ConnRec /\ ConnInv' /\ DialedIsAllowed'
  BY <1>1, ConnKept DEF Upstream
<1>3. reload'.pc = reload.pc \/ (conn.pc = "none" /\ reload'.pc # "over")
        \/ (reload.pc = "wait" /\ reload'.pc = "load")
        \/ (reload.pc = "load" /\ reload'.pc = "wait")
  BY <1>t DEF WriteFile, ReloadLoop, StartLoad, StartStat, TickStat, TickLoad,
         FetchList, serverVars, Reload, EgressInd, Carried, Serving
<1>4. Carried' /\ CoreIsOwned'
  BY <1>1, <1>3 DEF EgressInd, Carried, Serving, CoreIsOwned
<1>5. ServerTypeOK'
  <2> USE <1>t DEF ServerTypeOK, Reload
  <2>l. Loaded \in [entries : Contents \cup {Default, {}}, of : 0 .. MaxWrites + 1]
    BY DEF Loaded
  <2>c. CoreTypeOK'
    BY <1>1 DEF CoreTypeOK
  <2>1. CASE WriteFile
    <3>1. PICK c \in Contents \cup {None} :
            file' = [entries |-> c, mtime |-> file.mtime + 1]
      BY <2>1 DEF WriteFile
    <3> QED
      BY <2>1, <2>c, <3>1 DEF WriteFile, serverVars
  <2>2. CASE StartLoad
    BY <2>2, <2>l, <2>c DEF StartLoad
  <2>3. CASE StartStat
    BY <2>3, <2>c DEF StartStat
  <2>4. CASE TickStat
    BY <2>4, <2>c DEF TickStat
  <2>5. CASE TickLoad
    BY <2>5, <2>l, <2>c DEF TickLoad
  <2>6. CASE FetchList
    <3>1. list.entries \in Contents \cup {Default}
      BY <2>6 DEF FetchList
    <3> QED
      BY <2>6, <2>c, <3>1 DEF FetchList, serverVars
  <2> QED
    BY <2>1, <2>2, <2>3, <2>4, <2>5, <2>6 DEF ReloadLoop
<1> QED
  BY <1>2, <1>4, <1>5 DEF EgressInd, TypeOK, ServerTypeOK

\* The steps of the run, which start and stop the core, and the core's own.
LEMMA RunKeeps ==
  ASSUME EgressInd, Run
  PROVE  EgressInd'
<1>t. ServerTypeOK
  BY TypeParts DEF EgressInd
<1> USE <1>t, EgressAssumption
        DEF ServerTypeOK, CoreTypeOK, Reload, RunStep, Upstream
<1>e. ASSUME RunEnds PROVE EgressInd'
  <2>1. conn' \in ConnRec /\ ConnInv' /\ DialedIsAllowed' /\ Carried'
    BY <1>e, ConnGone DEF RunEnds
  <2>2. ServerTypeOK' /\ CoreIsOwned'
    BY <1>e DEF RunEnds, Killed, CoreIsOwned
  <2> QED
    BY <2>1, <2>2 DEF EgressInd, TypeOK
\* What the other steps have in common.
<1>s. ASSUME conn' = conn, ServerTypeOK', reload'.pc # "over" \/ core' # "running",
             conn.pc = "none" \/ (Upstream' <=> Upstream),
             conn.pc = "none" \/ Serving'
      PROVE  EgressInd'
  <2>1. conn' \in ConnRec /\ ConnInv' /\ DialedIsAllowed'
    BY <1>s, ConnKept
  <2>2. Carried' /\ CoreIsOwned'
    BY <1>s DEF Carried, CoreIsOwned
  <2> QED
    BY <1>s, <2>1, <2>2 DEF EgressInd, TypeOK
<1>n. ~ Serving => conn.pc = "none"
  BY DEF EgressInd, Carried
<1>1. CASE RunCore
  <2>1. CASE RunEnds
    BY <1>e, <2>1
  <2>2. CASE ~ RunEnds
    <3>1. conn' = conn /\ ServerTypeOK' /\ reload'.pc # "over"
      BY <1>1, <2>2 DEF RunCore, StartCore
    <3>2. conn.pc = "none"
      BY <1>1, <1>n DEF RunCore, Serving
    <3> QED
      BY <1>s, <3>1, <3>2
  <2> QED
    BY <2>1, <2>2
<1>2. CASE RunReady
  <2>1. CASE RunEnds
    BY <1>e, <2>1
  <2>2. CASE ~ RunEnds
    <3>1. conn' = conn /\ ServerTypeOK' /\ reload'.pc # "over"
      BY <1>2, <2>2 DEF RunReady, WaitReady
    <3>2. conn.pc = "none"
      BY <1>2, <1>n DEF RunReady, Serving
    <3> QED
      BY <1>s, <3>1, <3>2
  <2> QED
    BY <2>1, <2>2
<1>3. CASE Listen
  <2>1. CASE RunEnds
    BY <1>e, <2>1
  <2>2. CASE ~ RunEnds
    <3>1. conn' = conn /\ ServerTypeOK' /\ reload'.pc # "over"
      BY <1>3, <2>2 DEF Listen
    <3>2. conn.pc = "none"
      BY <1>3, <1>n DEF Listen, Serving
    <3> QED
      BY <1>s, <3>1, <3>2
  <2> QED
    BY <2>1, <2>2
<1>4. CASE Shutdown
  <2>1. conn' = conn /\ ServerTypeOK' /\ reload'.pc # "over" /\ Serving'
    BY <1>4 DEF Shutdown, Serving
  <2> QED
    BY <1>4, <1>s, <2>1 DEF Shutdown
<1>5. CASE Leave
  BY <1>e, <1>5 DEF Leave
<1>6. CASE Begin
  <2>1. conn' = conn /\ ServerTypeOK' /\ reload'.pc # "over"
    BY <1>6 DEF Begin
  <2>2. conn.pc = "none"
    BY <1>6, <1>n DEF Begin, Serving
  <2> QED
    BY <1>s, <2>1, <2>2
<1>7. CASE Core
  <2>1. conn' = conn /\ ServerTypeOK' /\ core' # "running" /\ (Upstream' <=> Upstream)
    BY <1>7 DEF Core, CoreExits
  <2>2. conn.pc = "none" \/ Serving'
    BY <1>7, <1>n DEF Core, Serving
  <2> QED
    BY <1>s, <2>1, <2>2
<1> QED
  BY <1>1, <1>2, <1>3, <1>4, <1>5, <1>6, <1>7 DEF Run

-----------------------------------------------------------------------------
(* One connection *)

\* A step of the connection keeps everything if it keeps what holds of it.
LEMMA SetKeeps ==
  ASSUME EgressInd, Serving, UNCHANGED <<file, serverVars, offered>>,
         conn' \in ConnRec, ConnInv', DialedIsAllowed'
  PROVE  EgressInd'
<1>1. ServerTypeOK' /\ CoreIsOwned'
  BY TypeParts DEF EgressInd, ServerTypeOK, CoreTypeOK, CoreIsOwned, serverVars
<1>2. Carried'
  BY DEF Carried, Serving, serverVars
<1> QED
  BY <1>1, <1>2 DEF EgressInd, TypeOK, ServerTypeOK

\* It is asked for: by the client, ...
LEMMA ClientAsksKeeps ==
  ASSUME EgressInd, NEW forceTunnel \in BOOLEAN, ClientAsks(forceTunnel)
  PROVE  EgressInd' /\ (conn'.via = "direct" => ~ Match(offered, conn'.to))
<1>1. PICK host \in Hosts, port \in {22, 443}, p \in Policies :
        Set([NoConn EXCEPT
               !.pc = IF forceTunnel \/ Match(offered, host)
                        THEN "offered" ELSE "port",
               !.via = IF forceTunnel \/ Match(offered, host)
                         THEN "tunnel" ELSE "direct",
               !.to = host, !.port = port, !.policy = p])
  BY DEF ClientAsks
<1>2. PICK pc \in {"offered", "port"}, via \in {"tunnel", "direct"} :
        /\ Set([NoConn EXCEPT !.pc = pc, !.via = via, !.to = host, !.port = port,
                              !.policy = p])
        /\ via = "direct" => ~ Match(offered, host)
  BY <1>1
<1>3. /\ conn' = [pc |-> pc, via |-> via, to |-> host, port |-> port, url |-> None,
                  kept |-> "", policy |-> p, addrs |-> {}, dialed |-> "none"]
      /\ UNCHANGED <<file, serverVars, offered>>
  BY <1>2 DEF Set, NoConn
<1>4. conn' \in ConnRec
  BY <1>3 DEF ConnRec, Pc, Family
<1>5. ConnInv' /\ DialedIsAllowed'
  BY <1>3 DEF ConnInv, DialedIsAllowed, Ported, Closed
<1>6. EgressInd'
  BY <1>3, <1>4, <1>5, SetKeeps DEF ClientAsks
<1> QED
  BY <1>2, <1>3, <1>6

\* ... or of a mirror.
LEMMA MirrorAsksKeeps ==
  ASSUME EgressInd, MirrorAsks
  PROVE  EgressInd' /\ conn'.via # "direct"
<1>1. PICK u \in Urls, p \in Policies :
        Set([NoConn EXCEPT
               !.pc = IF u[1] = "web" /\ WebRefuses(u[2], {}) THEN "bad_host"
                      ELSE "port",
               !.via = u[1], !.url = u[2], !.port = 443, !.policy = p,
               !.kept = KeptAs(u[1], u[2])])
  BY DEF MirrorAsks
<1>2. PICK pc \in {"bad_host", "port"} :
        Set([NoConn EXCEPT !.pc = pc, !.via = u[1], !.url = u[2], !.port = 443,
                           !.policy = p, !.kept = KeptAs(u[1], u[2])])
  BY <1>1
<1>3. /\ conn' = [pc |-> pc, via |-> u[1], to |-> <<>>, port |-> 443, url |-> u[2],
                  kept |-> KeptAs(u[1], u[2]), policy |-> p, addrs |-> {},
                  dialed |-> "none"]
      /\ UNCHANGED <<file, serverVars, offered>>
  BY <1>2 DEF Set, NoConn
<1>4. u[1] \in Mirror
  BY EgressAssumption
<1>5. KeptAs(u[1], u[2]) \in Family
  BY <1>4, FamilyType
<1>6. conn' \in ConnRec
  BY <1>3, <1>4, <1>5 DEF ConnRec, Pc, Closed
<1>7. ConnInv' /\ DialedIsAllowed'
  BY <1>3, <1>4 DEF ConnInv, DialedIsAllowed, Ported, Closed
<1> QED
  BY <1>3, <1>4, <1>6, <1>7, SetKeeps DEF MirrorAsks, Mirror

\* A step of the connection that changes its pc alone.
LEMMA GoesKeeps ==
  ASSUME EgressInd, NEW pc \in {"port", "check", "resolve", "proxy", "bypass"},
         Set([conn EXCEPT !.pc = pc]), Serving,
         pc \in {"check", "resolve"} => ~ (conn.via = "tunnel" /\ Upstream),
         pc # "port" => CheckPort(conn.policy, conn.port) \/ PassesOn,
         conn.addrs = {},
         pc = "proxy" => Upstream /\ conn.via # "direct",
         pc = "bypass" => Upstream /\ conn.via \in Mirror /\ conn.kept # ""
  PROVE  EgressInd' /\ conn'.pc = pc /\ conn'.via = conn.via
<1>1. conn' = PcSet(conn, pc) /\ UNCHANGED <<file, serverVars, offered>>
  BY DEF Set, PcSet
<1>2. conn \in ConnRec /\ pc \in Pc
  BY TypeParts DEF EgressInd, Pc
<1>3. /\ conn' \in ConnRec /\ conn'.pc = pc /\ Same(conn', conn)
      /\ conn'.addrs = conn.addrs
  BY <1>1, <1>2, ConnChanged
<1>4. (Upstream' <=> Upstream) /\ (PassesOn' <=> PassesOn)
  BY <1>1, <1>3 DEF Upstream, PassesOn, serverVars, Same
<1>5. ConnInv'
  BY <1>3, <1>4 DEF ConnInv, Same, EgressInd, Ported, Closed
<1>6. DialedIsAllowed'
  BY <1>3 DEF DialedIsAllowed
<1> QED
  BY <1>1, <1>3, <1>5, <1>6, SetKeeps DEF Same

\* Which way it goes, and past which checks.
LEMMA RouteKeeps ==
  ASSUME EgressInd, ServerMatches \/ Port \/ CheckHost
  PROVE  EgressInd'
<1>s. Serving
  BY DEF EgressInd, Carried, ServerMatches, Port, CheckHost
<1>1. CASE ServerMatches
  <2>1. conn.addrs = {}
    BY <1>1 DEF ServerMatches, EgressInd, ConnInv, Closed
  <2> QED
    BY <1>s, <1>1, <2>1, GoesKeeps, RefuseKeeps DEF ServerMatches, Closed
<1>2. CASE Port
  <2>1. CASE PassesOn \/ CheckPort(conn.policy, conn.port)
    <3>1. PICK way \in Ways : Set([conn EXCEPT !.pc = way])
      BY <1>2, <2>1 DEF Port
    <3>2. conn.addrs = {}
      BY <1>2 DEF Port, EgressInd, ConnInv, Closed
    <3>3. /\ way \in {"check", "resolve", "proxy", "bypass"}
          /\ way \in {"check", "resolve"} => ~ (conn.via = "tunnel" /\ Upstream)
          /\ way = "proxy" => Upstream /\ conn.via # "direct"
          /\ way = "bypass" => Upstream /\ conn.via \in Mirror /\ conn.kept # ""
      BY DEF Ways
    <3> QED
      BY <1>s, <2>1, <3>1, <3>2, <3>3, GoesKeeps
  <2>2. CASE ~ (PassesOn \/ CheckPort(conn.policy, conn.port))
    BY <1>s, <1>2, <2>2, RefuseKeeps DEF Port, Closed
  <2> QED
    BY <2>1, <2>2
<1>3. CASE CheckHost
  <2>1. conn.pc = "check"
    BY <1>3 DEF CheckHost
  <2>2. /\ ~ (conn.via = "tunnel" /\ Upstream) /\ conn.addrs = {}
        /\ CheckPort(conn.policy, conn.port) \/ PassesOn
    BY <2>1 DEF EgressInd, ConnInv, Ported, Closed
  <2> QED
    BY <1>s, <1>3, <2>2, GoesKeeps, RefuseKeeps DEF CheckHost, Closed
<1> QED
  BY <1>1, <1>2, <1>3

\* What is dialled.
LEMMA DialKeeps ==
  ASSUME EgressInd, Resolve \/ Dial \/ ThroughProxy \/ Bypass
  PROVE  EgressInd'
<1>s. Serving
  BY DEF EgressInd, Carried, Resolve, Dial, ThroughProxy, Bypass
<1>t. conn \in ConnRec
  BY TypeParts DEF EgressInd
\* The dial itself.
<1>d. ASSUME NEW a \in {"proxy"} \cup Kind, conn.pc \in Ported,
             Set([conn EXCEPT !.pc = "up", !.dialed = a]),
             \/ a = "proxy" /\ Upstream /\ conn.via # "direct" /\ conn.addrs = {}
             \/ /\ a \in conn.addrs /\ checkIP(conn.policy, a) /\ a # "proxy"
                /\ ~ (conn.via = "tunnel" /\ Upstream)
             \/ /\ a # "proxy" /\ conn.addrs = {} /\ Upstream
                /\ conn.via \in Mirror /\ conn.kept # ""
      PROVE  EgressInd'
  <2>1. /\ conn' = DialedSet(conn, "up", a)
        /\ UNCHANGED <<file, serverVars, offered>>
    BY <1>d DEF Set, DialedSet
  <2>2. "up" \in Pc /\ a \in {"proxy"} \cup Kind
    BY <1>d DEF Pc, Closed
  <2>3. /\ conn' \in ConnRec /\ conn'.pc = "up" /\ Same(conn', conn)
        /\ conn'.addrs = conn.addrs /\ conn'.dialed = a
    BY <1>t, <2>1, <2>2, ConnChanged
  <2>4. (Upstream' <=> Upstream) /\ (PassesOn' <=> PassesOn)
    BY <2>1, <2>3 DEF Upstream, PassesOn, serverVars, Same
  <2>5. CheckPort(conn.policy, conn.port) \/ PassesOn
    BY <1>d DEF EgressInd, ConnInv
  <2>6. ConnInv'
    BY <2>3, <2>4, <2>5 DEF ConnInv, Same, EgressInd, Ported, Closed
  <2>7. DialedIsAllowed'
    BY <1>d, <2>3, <2>4, <2>5 DEF DialedIsAllowed, Unguarded, Same, Mirror
  <2> QED
    BY <1>s, <2>1, <2>3, <2>6, <2>7, SetKeeps
<1>f. ASSUME Refuse("dial_failed") PROVE EgressInd'
  BY <1>s, <1>f, RefuseKeeps DEF Closed
<1>1. CASE Resolve
  <2>1. PICK addrs \in Answers :
          IF \A a \in addrs : checkIP(conn.policy, a)
            THEN Set([conn EXCEPT !.pc = "dial", !.addrs = addrs])
            ELSE Refuse("ip_denied")
    BY <1>1 DEF Resolve
  <2>2. CASE \A a \in addrs : checkIP(conn.policy, a)
    <3>1. /\ conn' = AddrsSet(conn, "dial", addrs)
          /\ UNCHANGED <<file, serverVars, offered>>
      BY <2>1, <2>2 DEF Set, AddrsSet
    <3>2. "dial" \in Pc
      BY DEF Pc
    <3>3. /\ conn' \in ConnRec /\ conn'.pc = "dial" /\ Same(conn', conn)
          /\ conn'.addrs = addrs
      BY <1>t, <3>1, <3>2, ConnChanged
    <3>4. (Upstream' <=> Upstream) /\ (PassesOn' <=> PassesOn)
      BY <3>1, <3>3 DEF Upstream, PassesOn, serverVars, Same
    <3>5. ConnInv'
      BY <1>1, <2>2, <3>3, <3>4 DEF Resolve, ConnInv, Same, EgressInd, Ported, Closed
    <3>6. DialedIsAllowed'
      BY <3>3 DEF DialedIsAllowed
    <3> QED
      BY <1>s, <3>1, <3>3, <3>5, <3>6, SetKeeps
  <2>3. CASE ~ \A a \in addrs : checkIP(conn.policy, a)
    BY <1>s, <2>1, <2>3, RefuseKeeps DEF Closed
  <2> QED
    BY <2>2, <2>3
<1>2. CASE Dial
  <2>1. CASE Refuse("dial_failed")
    BY <1>f, <2>1
  <2>2. ASSUME NEW a \in conn.addrs, Set([conn EXCEPT !.pc = "up", !.dialed = a])
        PROVE  EgressInd'
    <3>1. conn.pc = "dial" /\ conn.addrs \subseteq Kind
      BY <1>2, <1>t DEF Dial, ConnRec, Answers
    <3>2. a \in Kind /\ a # "proxy"
      BY <3>1 DEF Kind
    <3>3. checkIP(conn.policy, a) /\ ~ (conn.via = "tunnel" /\ Upstream)
      BY <3>1 DEF EgressInd, ConnInv
    <3> QED
      BY <1>d, <2>2, <3>1, <3>2, <3>3 DEF Ported
  <2> QED
    BY <1>2, <2>1, <2>2 DEF Dial
<1>3. CASE ThroughProxy
  <2>1. conn.pc = "proxy"
    BY <1>3 DEF ThroughProxy
  <2>2. Upstream /\ conn.via # "direct" /\ conn.addrs = {}
    BY <2>1 DEF EgressInd, ConnInv, Ported, Closed
  <2> QED
    BY <1>d, <1>f, <1>3, <2>1, <2>2 DEF ThroughProxy, Ported
<1>4. CASE Bypass
  <2>1. conn.pc = "bypass"
    BY <1>4 DEF Bypass
  <2>2. Upstream /\ conn.via \in Mirror /\ conn.kept # "" /\ conn.addrs = {}
    BY <2>1 DEF EgressInd, ConnInv, Ported, Closed
  <2>3. \A a \in Kind : a # "proxy"
    BY DEF Kind
  <2> QED
    BY <1>d, <1>f, <1>4, <2>1, <2>2, <2>3 DEF Bypass, Ported
<1> QED
  BY <1>1, <1>2, <1>3, <1>4

LEMMA CloseKeeps ==
  ASSUME EgressInd, Close
  PROVE  EgressInd'
<1>1. conn' = NoConn /\ UNCHANGED <<file, serverVars, offered>>
  BY DEF Close, Set
<1>2. Serving
  BY DEF Close, EgressInd, Carried, Closed
<1> QED
  BY <1>1, <1>2, ConnGone, SetKeeps

-----------------------------------------------------------------------------
(* Theorems on the ways *)

LEMMA EgressStep ==
  ASSUME EgressInd, [Next]_vars
  PROVE  EgressInd'
<1>1. CASE UNCHANGED vars
  <2>1. conn' \in ConnRec /\ ConnInv' /\ DialedIsAllowed'
    BY <1>1, ConnKept DEF vars, Upstream
  <2>2. ServerTypeOK' /\ CoreIsOwned' /\ Carried'
    BY <1>1, TypeParts
    DEF vars, EgressInd, ServerTypeOK, CoreTypeOK, CoreIsOwned, Carried, Serving
  <2> QED
    BY <2>1, <2>2 DEF EgressInd, TypeOK, ServerTypeOK
<1>2. CASE WriteFile \/ ReloadLoop \/ FetchList
  BY <1>2, LoopKeeps
<1>3. CASE Run
  BY <1>3, RunKeeps
<1>4. CASE ClientAsks(FALSE) \/ ClientAsks(TRUE)
  BY <1>4, ClientAsksKeeps
<1>5. CASE MirrorAsks
  BY <1>5, MirrorAsksKeeps
<1>6. CASE ServerMatches \/ Port \/ CheckHost
  BY <1>6, RouteKeeps
<1>7. CASE Resolve \/ Dial \/ ThroughProxy \/ Bypass
  BY <1>7, DialKeeps
<1>8. CASE Close
  BY <1>8, CloseKeeps
<1> QED
  BY <1>1, <1>2, <1>3, <1>4, <1>5, <1>6, <1>7, <1>8 DEF Next

LEMMA EgressInit ==
  ASSUME Init
  PROVE  EgressInd
<1>1. conn \in ConnRec /\ ConnInv /\ DialedIsAllowed /\ Carried
  BY DEF Init, NoConn, ConnRec, Pc, Family, ConnInv, Ported, DialedIsAllowed,
         Carried
<1>2. ServerTypeOK /\ CoreIsOwned
  BY EgressAssumption
  DEF Init, CoreInit, ServerTypeOK, CoreTypeOK, CoreIsOwned
<1> QED
  BY <1>1, <1>2, TypeParts DEF EgressInd

\* The address and the port a connection is dialled with are allowed by its
\* policy, but for what DialedIsAllowed excepts when there is an upstream; nothing
\* mutable is kept, but for the files of Overlooked; and the core never outlives
\* Run (TryDial, CheckHost, connectUpstream, classify, App.Run).
THEOREM EgressTheorem == Spec => []EgressInv
<1>1. Spec => []EgressInd
  BY EgressInit, EgressStep, PTL DEF Spec
<1>2. EgressInd => EgressInv
  BY PassedOn DEF EgressInd, EgressInv
<1> QED
  BY <1>1, <1>2, PTL

\* The client and the server agree on the route: with the list of the server
\* the client takes nothing past the tunnel that the server's list matches,
\* and the tunnel refuses nothing the client offers but the bare domain of an
\* entry for subdomains only (whitelist.Entries, connectUpstream, handle).
THEOREM RoutesTheorem == Spec => RoutesAgree
<1> DEFINE Agree ==
      offered = Entries(list.entries) =>
        /\ conn.pc = "none" /\ conn'.via = "direct"
             => ~ Match(list.entries, conn'.to)
        /\ conn'.pc = "not_whitelisted" /\ conn.pc = "offered"
             => \/ ~ Match(offered, conn.to)
                \/ Entry(conn.to, "star") \in list.entries
<1>1. ASSUME EgressInd, Next, offered = Entries(list.entries) PROVE Agree
  <2>e. \A e \in list.entries : e = [domain |-> e.domain, form |-> e.form]
    <3>1. list.entries \in Contents \cup {Default, {}}
      BY <1>1, TypeParts DEF EgressInd, ServerTypeOK
    <3>2. \A e \in Default : e = [domain |-> e.domain, form |-> e.form]
      BY DEF Default, Entry
    <3> QED
      BY <3>1, <3>2, EgressAssumption
  <2>m. \A host : /\ Match(list.entries, host) => Match(offered, host)
                  /\ Match(offered, host) =>
                       Match(list.entries, host) \/ Entry(host, "star") \in list.entries
    BY <1>1, <2>e, SentListMatches
  <2>n. NoConn.via = "" /\ NoConn.pc = "none"
    BY DEF NoConn
  <2>o. conn.pc = "none" => conn = NoConn
    BY <1>1 DEF EgressInd, ConnInv
  <2>1. CASE ClientAsks(FALSE) \/ ClientAsks(TRUE)
    <3>1. conn'.via = "direct" => ~ Match(offered, conn'.to)
      BY <1>1, <2>1, ClientAsksKeeps
    <3> QED
      BY <2>1, <2>m, <3>1 DEF ClientAsks
  <2>2. CASE ServerMatches
    <3>1. conn.pc = "offered"
      BY <2>2 DEF ServerMatches
    <3>2. CASE Match(list.entries, conn.to)
      <4>1. conn' = PcSet(conn, "port")
        BY <2>2, <3>2 DEF ServerMatches, Set, PcSet
      <4>2. conn \in ConnRec /\ "port" \in Pc
        BY <1>1, TypeParts DEF EgressInd, Pc
      <4>3. conn'.pc = "port"
        BY <4>1, <4>2, ConnChanged
      <4> QED
        BY <3>1, <4>3
    <3>3. CASE ~ Match(list.entries, conn.to)
      BY <2>m, <3>1, <3>3
    <3> QED
      BY <3>2, <3>3
  <2>3. CASE MirrorAsks
    BY <1>1, <2>3, MirrorAsksKeeps DEF MirrorAsks
  <2>4. CASE Port \/ CheckHost \/ Resolve \/ Dial \/ ThroughProxy \/ Bypass \/ Close
    BY <2>4 DEF Port, CheckHost, Resolve, Dial, ThroughProxy, Bypass, Close, Closed
  <2>5. CASE WriteFile \/ ReloadLoop \/ FetchList \/ Run
    <3>1. conn' = conn \/ conn' = NoConn
      BY <2>5 DEF WriteFile, ReloadLoop, StartLoad, StartStat, TickStat, TickLoad,
         FetchList, serverVars, Run, RunCore, RunReady, Listen, Shutdown, Leave,
         Begin, Core, RunEnds, RunStep
    <3> QED
      BY <2>n, <2>o, <3>1
  <2> QED
    BY <1>1, <2>1, <2>2, <2>3, <2>4, <2>5 DEF Next
<1>2. EgressInd /\ [Next]_vars => [Agree]_vars
  BY <1>1
<1>3. Spec => []EgressInd
  BY EgressInit, EgressStep, PTL DEF Spec
<1> QED
  BY <1>2, <1>3, PTL DEF RoutesAgree, Spec

-----------------------------------------------------------------------------
(* The local proxy *)

\* A handler that runs is counted, one that pumps runs, and what the accept
\* loop has in hand is not yet handled.
Counted ==
  /\ listener <=> stop = "no"
  /\ \A c \in queue : handler[c] = "none"
  /\ \A c \in Conn : loop = c => handler[c] = "accepted"
  /\ \A c \in Conn : Running(c) => c \in wg
  /\ \A c \in Conn : pumps[c] # {} => handler[c] \in {"pump", "ending"}

\* Once Stop has seen everything drained, one connection can still be
\* accepted: the one the loop had in hand, and then it has none.
OneIsLate ==
  /\ stop # "drained" => late = {}
  /\ \A c, d \in late : c = d
  /\ \A c \in Conn : loop = c => late = {}
  /\ stop = "drained" => \A c \in Conn : Running(c) => c \in late

ProxyInd == ProxyTypeOK /\ Counted /\ OneIsLate

LEMMA LateIsOne ==
  ASSUME ProxyInd
  PROVE  PumpsAreCounted /\ DrainedButOne
<1>1. PumpsAreCounted
  BY DEF ProxyInd, Counted, PumpsAreCounted, Running, Handled
<1>2. Cardinality(late) <= 1
  <2>1. CASE late = {}
    BY <2>1, FS_EmptySet
  <2>2. ASSUME NEW c \in late PROVE Cardinality(late) <= 1
    <3>1. late = {c}
      BY DEF ProxyInd, OneIsLate
    <3> QED
      BY <3>1, FS_Singleton
  <2> QED
    BY <2>1, <2>2
<1> QED
  BY <1>1, <1>2 DEF ProxyInd, OneIsLate, DrainedButOne

LEMMA AcceptLoopKeeps ==
  ASSUME ProxyInd, NEW c \in Conn, Connect(c) \/ Accept(c) \/ Count(c)
  PROVE  ProxyInd'
<1> USE ConnAssumption DEF ProxyInd, ProxyTypeOK, Counted, OneIsLate, Running, Handled
<1>1. CASE Connect(c)
  BY <1>1 DEF Connect
<1>2. CASE Accept(c)
  BY <1>2 DEF Accept
<1>3. CASE Count(c)
  <2>1. handler[c] = "accepted" /\ pumps[c] = {} /\ late = {}
    BY <1>3 DEF Count
  <2>2. ProxyTypeOK'
    BY <1>3 DEF Count
  <2>3. Counted'
    BY <1>3, <2>1 DEF Count
  <2>4. OneIsLate'
    BY <1>3, <2>1 DEF Count
  <2> QED
    BY <2>2, <2>3, <2>4
<1> QED
  BY <1>1, <1>2, <1>3

LEMMA HandleKeeps ==
  ASSUME ProxyInd, NEW c \in Conn, Handle(c)
  PROVE  ProxyInd'
<1> USE DEF ProxyInd, ProxyTypeOK, Counted, OneIsLate, Running, Handled
<1>1. ASSUME NEW from \in Handled, NEW to \in {"dial", "relay"},
             pumps[c] = {}, Step(c, from, to)
      PROVE  ProxyInd'
  BY <1>1 DEF Step
<1>2. ASSUME NEW from \in Handled, pumps[c] = {}, End(c, from)
      PROVE  ProxyInd'
  <2>1. ProxyTypeOK'
    BY <1>2 DEF End
  <2>2. Counted'
    BY <1>2 DEF End
  <2>3. OneIsLate'
    BY <1>2 DEF End
  <2> QED
    BY <2>1, <2>2, <2>3
<1>3. CASE ReadRequest(c)
  <2>1. handler[c] = "read"
    BY <1>3 DEF ReadRequest, Step, End
  <2> QED
    BY <1>1, <1>2, <1>3, <2>1 DEF ReadRequest
<1>4. CASE DialFails(c) \/ DialPlain(c)
  <2>1. handler[c] = "dial"
    BY <1>4 DEF DialFails, DialPlain, Step, End
  <2> QED
    BY <1>1, <1>2, <1>4, <2>1 DEF DialFails, DialPlain
<1>5. CASE RelayEnds(c)
  <2>1. handler[c] = "relay"
    BY <1>5 DEF RelayEnds, End
  <2> QED
    BY <1>2, <1>5, <2>1 DEF RelayEnds
<1>6. CASE DialConnect(c)
  BY <1>6 DEF DialConnect
<1>7. CASE PumpEnds(c)
  <2>1. PICK d \in pumps[c] : pumps' = [pumps EXCEPT ![c] = @ \ {d}]
    BY <1>7 DEF PumpEnds
  <2> QED
    BY <1>7, <2>1 DEF PumpEnds
<1>8. CASE CloseBoth(c)
  BY <1>8 DEF CloseBoth
<1>9. CASE PumpDone(c)
  BY <1>2, <1>9 DEF PumpDone
<1> QED
  BY <1>3, <1>4, <1>5, <1>6, <1>7, <1>8, <1>9 DEF Handle

LEMMA ProxyKeeps ==
  ASSUME ProxyInd, ProxyStep \/ StopBegins
  PROVE  ProxyInd'
<1> USE DEF ProxyInd, ProxyTypeOK, Counted, OneIsLate, Running, Handled
<1>1. CASE \E c \in Conn : Connect(c) \/ Accept(c) \/ Count(c)
  BY <1>1, AcceptLoopKeeps
<1>2. CASE \E c \in Conn : Handle(c)
  BY <1>2, HandleKeeps
<1>3. CASE LoopEnds
  BY <1>3, ConnAssumption DEF LoopEnds
<1>4. CASE StopDrained
  BY <1>4 DEF StopDrained
<1>5. CASE StopTimesOut
  BY <1>5 DEF StopTimesOut
<1>6. CASE StopBegins
  BY <1>6 DEF StopBegins
<1> QED
  BY <1>1, <1>2, <1>3, <1>4, <1>5, <1>6 DEF ProxyStep

-----------------------------------------------------------------------------
(* The wrapper *)

\* What is to be returned is decided when the proxy is stopped, and the child
\* is over by then.
CodeIsChilds ==
  /\ main \in {"stop", "returned"} =>
       \/ code \in {"notstarted", "notool"}
       \/ code = child /\ child \in {"exited", "signaled", "killed"}
  /\ child \in {"signaled", "killed"} => sent > 0

WrapInd == WrapTypeOK /\ ProxyInd /\ CodeIsChilds

LEMMA WrapStepKeeps ==
  ASSUME WrapInd, [WrapNext]_runVars
  PROVE  WrapInd'
<1> USE SignalAssumption DEF WrapInd, WrapTypeOK, CodeIsChilds
<1>p. ASSUME UNCHANGED proxyVars PROVE ProxyInd'
  BY <1>p DEF proxyVars, ProxyInd, ProxyTypeOK, Counted, OneIsLate, Running
<1>q. ProxyInd' => ProxyTypeOK'
  BY DEF ProxyInd
<1> HIDE DEF WrapInd
<1>w. WrapInd => WrapTypeOK /\ ProxyInd /\ CodeIsChilds
  BY DEF WrapInd
<1>1. CASE StartChild
  BY <1>1, <1>p, <1>q, <1>w DEF StartChild, WrapInd
<1>2. CASE Notify \/ ProxyNotify \/ ProxySignalled
  BY <1>2, <1>p, <1>q, <1>w DEF Notify, ProxyNotify, ProxySignalled, WrapInd
<1>3. CASE Signal
  BY <1>3, <1>p, <1>q, <1>w DEF Signal, WrapInd
<1>4. CASE Relay
  BY <1>4, <1>p, <1>q, <1>w DEF Relay, Relays, WrapInd
<1>5. CASE Kill
  BY <1>5, <1>p, <1>q, <1>w DEF Kill, WrapInd
<1>6. CASE ChildExits
  BY <1>6, <1>p, <1>q, <1>w DEF ChildExits, WrapInd
<1>7. CASE Wait
  BY <1>7, <1>p, <1>q, <1>w DEF Wait, WrapInd
<1>8. CASE Return
  BY <1>8, <1>p, <1>q, <1>w DEF Return, WrapInd
<1>9. CASE (BeginStop \/ ProxyStep) /\ UNCHANGED wrapVars
  <2>1. ProxyInd'
    BY <1>9, <1>w, ProxyKeeps DEF BeginStop
  <2> QED
    BY <1>9, <1>q, <1>w, <2>1 DEF wrapVars, WrapInd
<1>10. CASE UNCHANGED runVars
  BY <1>10, <1>p, <1>q, <1>w DEF runVars, wrapVars, WrapInd
<1>11. BeginStop => UNCHANGED wrapVars
  BY DEF BeginStop
<1> QED
  BY <1>1, <1>2, <1>3, <1>4, <1>5, <1>6, <1>7, <1>8, <1>9, <1>10, <1>11, Zenon
  DEF WrapNext, WrapStep

\* Stop of the local proxy waits for every handler, and misses at most the
\* connection the accept loop had in hand; whoever runs the wrapper gets the
\* status of a child that is over (Proxy.Stop, acceptLoop, wrapper.Run).
THEOREM WrappedTheorem == WrapSpec => []WrappedInv
<1>1. WrapInit => WrapInd
  <2> SUFFICES ASSUME WrapInit PROVE WrapInd
    OBVIOUS
  <2>1. ProxyTypeOK
    BY DEF WrapInit, ProxyInit, ProxyTypeOK
  <2>2. OneIsLate
    BY DEF WrapInit, ProxyInit, OneIsLate
  <2>3. Counted
    BY ConnAssumption DEF WrapInit, ProxyInit, Counted, Running, Handled
  <2>4. WrapTypeOK
    <3>1. 0 \in 0 .. MaxSignals
      BY SignalAssumption
    <3>2. forwarded \in BOOLEAN
      BY DEF WrapInit
    <3>3. pending + timers <= sent
      BY DEF WrapInit
    <3> QED
      BY <2>1, <3>1, <3>2, <3>3 DEF WrapInit, WrapTypeOK
  <2>5. CodeIsChilds
    BY DEF WrapInit, CodeIsChilds
  <2> QED
    BY <2>1, <2>2, <2>3, <2>4, <2>5 DEF WrapInd, ProxyInd
<1>2. WrapInd => WrappedInv
  <2>1. WrapInd => PumpsAreCounted /\ DrainedButOne
    BY LateIsOne DEF WrapInd
  <2>2. WrapInd => ReturnIsChilds
    BY DEF WrapInd, CodeIsChilds, ReturnIsChilds
  <2> QED
    BY <2>1, <2>2 DEF WrapInd, WrappedInv
<1>3. WrapSpec => []WrapInd
  BY <1>1, WrapStepKeeps, PTL DEF WrapSpec
<1> QED
  BY <1>2, <1>3, PTL
=============================================================================

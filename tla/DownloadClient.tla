---------------------------- MODULE DownloadClient ----------------------------
(***************************************************************************)
(* `dldw get' (internal/client/downloader, Download and pollTask) against  *)
(* the engine: resolve, poll the task it was given until that is over, ask *)
(* for the URLs, or go to the origin.  Clients of one key share the answer *)
(* of the Resolve that is under way; a poll sees the task as it is, which  *)
(* may have been revived, replaced or collected since.                     *)
(***************************************************************************)
EXTENDS TaskEngine

CONSTANTS
  Client,
  GiveUpAfter,  \* the retries after which a failed task is given up, 8
  Fallback      \* values of download.direct_fallback

ASSUME ClientAssumption == GiveUpAfter \in Nat

VARIABLES client  \* client[c]: its step, its key, the task it was given, and
                  \* why it gave that up

allVars == <<vars, client>>

NotAsked == [at |-> "none", key |-> None, task |-> NoTask, policy |-> "never",
             why |-> "none"]
Waiting == {"asked", "poll", "refresh"}
Over == {"urls", "direct", "error"}
ClientRec == [at : Waiting \cup Over \cup {"none"},
              key : Key \cup {None}, task : Task \cup {NoTask},
              policy : Fallback \cup {"never"},
              why : {"none", "over", "request"}]

ClientInit ==
  /\ Init
  /\ client = [c \in Client |-> NotAsked]

\* A client that has waited gives up, and goes to the origin itself if the
\* policy says so.
GivenUp(rec, why) ==
  [rec EXCEPT !.why = why,
              !.at = IF rec.policy = "always" THEN "direct" ELSE "error"]

\* Client c goes to a step of its own; nothing happens on the server.
Goes(c, step) ==
  /\ client' = [client EXCEPT ![c].at = step]
  /\ UNCHANGED vars

-----------------------------------------------------------------------------
(* Resolve, with the clients that wait for it *)

\* The look-up, or the wait for the one under way; or no answer at all, which
\* is an error whatever the policy if the token was refused.
Ask(c, k, policy) ==
  /\ client[c] = NotAsked
  /\ LET t == GetByCacheKey(k)
         asking == [NotAsked EXCEPT !.at = "asked", !.key = k, !.policy = policy]
         refused == GivenUp([asking EXCEPT !.policy = "never"], "request")
         given(step) == [asking EXCEPT !.at = step, !.task = byKey[k]]
     IN \/ /\ client' \in {[client EXCEPT ![c] = GivenUp(asking, "request")],
                           [client EXCEPT ![c] = refused]}
           /\ UNCHANGED vars
        \/ /\ resolving[k] # NoLeader
           /\ client' = [client EXCEPT ![c] = asking]
           /\ UNCHANGED vars
        \/ /\ resolving[k] = NoLeader /\ t.status = "ready"
           /\ client' = [client EXCEPT ![c] = given("urls")]
           /\ UNCHANGED vars
        \/ /\ resolving[k] = NoLeader /\ t.status \in InProgress
           /\ client' = [client EXCEPT ![c] = given("poll")]
           /\ UNCHANGED vars
        \/ /\ ResolveLookup(k)
           /\ client' = [client EXCEPT ![c] = asking]

\* MUTANT of Told: those who waited are told what the index has by then.
ToldIndex(k, t) ==
  [c \in Client |->
     IF client[c].at = "asked" /\ client[c].key = k
       THEN [client[c] EXCEPT !.at = "poll", !.task = byKey[k]]
       ELSE client[c]]

\* Everybody who waits for k is given task t.
Told(k, t) ==
  [c \in Client |->
     IF client[c].at = "asked" /\ client[c].key = k
       THEN [client[c] EXCEPT !.at = "poll", !.task = t]
       ELSE client[c]]

AnswerRevived(k) ==
  /\ ResolveRetry(k)
  /\ client' = IF resolving'[k] = NoLeader THEN Told(k, resolving[k].id)
                                           ELSE client

AnswerCreated(k) ==
  /\ ResolveCreate(k)
  /\ client' = Told(k, made + 1)

-----------------------------------------------------------------------------
(* pollTask *)

\* Whatever stops the wait.
GivesUp(c, why) ==
  /\ client' = [client EXCEPT ![c] = GivenUp(client[c], why)]
  /\ UNCHANGED vars

\* Ready.
PollReady(c) ==
  /\ client[c].at = "poll"
  /\ byID[client[c].task].status = "ready"
  /\ Goes(c, "refresh")

\* MUTANT of PollOver: a failure is final.
PollFailed(c) ==
  /\ client[c].at = "poll"
  /\ LET t == byID[client[c].task]
     IN t.status \in {"dead", "absent", "failed"}
  /\ GivesUp(c, "over")

\* Dead, gone, or failed more often than the client has patience for.
PollOver(c) ==
  /\ client[c].at = "poll"
  /\ LET t == byID[client[c].task]
     IN \/ t.status \in {"dead", "absent"}
        \/ t.status = "failed" /\ t.retries > GiveUpAfter
  /\ GivesUp(c, "over")

\* The deadline is past, or a single request has failed.
PollFails(c) ==
  /\ client[c].at \in {"asked", "poll", "refresh"}
  /\ GivesUp(c, "request")

\* api.Refresh: URLs if the task is still ready, with an artifact.
GetURLs(c) ==
  /\ client[c].at = "refresh"
  /\ LET t == byID[client[c].task]
     IN IF t.status = "ready" /\ t.art # None THEN Goes(c, "urls")
                                              ELSE GivesUp(c, "over")

Poll(c) == PollReady(c) \/ PollOver(c) \/ GetURLs(c)

-----------------------------------------------------------------------------

ClientStep(c) ==
  \/ \E k \in Key, policy \in Fallback : Ask(c, k, policy)
  \/ Poll(c) \/ PollFails(c)

\* The engine, asked by these clients and by others.
EngineMoves ==
  \/ /\ \/ \E k \in Key : ResolveLookup(k)
        \/ \E t \in Task : Process(t) \/ GCDelete(t)
        \/ GCList \/ DayPasses
     /\ UNCHANGED client
  \/ \E k \in Key : AnswerRevived(k) \/ AnswerCreated(k)

GetNext == EngineMoves \/ \E c \in Client : ClientStep(c)

\* The engine's fairness, and clients that go on polling.  That the deadline
\* comes is not assumed.
GetSpec ==
  /\ ClientInit /\ [][GetNext]_allVars
  /\ \A t \in Task : WF_allVars(Process(t) /\ UNCHANGED client)
  /\ \A k \in Key : WF_allVars(AnswerRevived(k)) /\ WF_allVars(AnswerCreated(k))
  /\ \A c \in Client : WF_allVars(Poll(c))

-----------------------------------------------------------------------------
(* Properties *)

\* The type invariant.  Only the policy sends a client to the origin.
ClientTypeOK ==
  /\ \A c \in Client : client[c].at = "direct" => client[c].policy = "always"
  /\ client \in [Client -> ClientRec]

\* A client is not sent anywhere in vain: one that polls has a task of its own
\* key which is ready or over or which somebody works on, though Resolve may
\* have replaced it meanwhile; one that has or asks for URLs has a ready task
\* with its object stored.
WaitsForTheRight ==
  /\ ClientTypeOK
  /\ \A c \in Client :
       LET t == client[c].task
       IN /\ client[c].at \in {"poll", "refresh", "urls"} =>
               t \in Task /\ keyOf[t] = client[c].key
          /\ client[c].at = "poll" => Settled(t) \/ Worked(t)
          /\ client[c].at \in {"refresh", "urls"} =>
               /\ byID[t].status = "ready" /\ byID[t].art # None
               /\ object[client[c].key] # None

\* A task that a client has given up for being over is never ready later on:
\* nobody revives it, and no attempt of its processor is still to come.
GivenUpIsOver ==
  \A c \in Client :
    client[c].why = "over" =>
      byID[client[c].task].status \in {"failed", "dead", "absent"}

\* A client that asks ends, even without its deadline, unless it waits for a
\* task that the bound on their number forbids.
EveryGetEnds ==
  \A c \in Client :
    client[c].at \in Waiting ~>
      \/ client[c].at \in Over
      \/ client[c].at = "asked" /\ made = MaxTasks
=============================================================================

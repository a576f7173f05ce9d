---------------------------- MODULE OpenListStore ----------------------------
(***************************************************************************)
(* internal/transfer/storage/openliststore: the API session that the       *)
(* driver's callers share.  The token is cached in the driver; without a   *)
(* configured one a 401 makes a caller log in and repeat the call, except  *)
(* for the upload itself, which is sent once.  OpenList is known only by   *)
(* its answers.                                                            *)
(***************************************************************************)
EXTENDS Naturals

CONSTANTS
  Caller,     \* requests that use the driver
  MaxLogins,  \* bound: tokens OpenList hands out
  MaxExpiries \* bound: times OpenList forgets them

\* A configured token is one of those handed out.
ASSUME OpenListAssumption == MaxLogins \in Nat \ {0} /\ MaxExpiries \in Nat

VARIABLES
  static,   \* an API token is configured
  token,    \* the driver's token, 0 for none
  drawn,    \* tokens handed out
  valid,    \* tokens OpenList accepts
  expiries, \* times it has forgotten them
  call      \* call[c]: what the caller is doing

openListVars == <<static, token, drawn, valid, expiries, call>>

Token == 0 .. MaxLogins

\* An upload begins with mkdir, an ordinary call.
Kinds == {"api", "put"}
NoCall == [kind |-> "api", pc |-> "none", tok |-> 0, again |-> FALSE,
           stale |-> FALSE]
Over == {"none", "ok", "unauthorized", "nologin", "failed"}

OpenListInit ==
  /\ static \in BOOLEAN
  /\ token = 0
  /\ drawn = IF static THEN 1 ELSE 0
  /\ valid = 1 .. drawn
  /\ expiries = 0
  /\ call = [c \in Caller |-> NoCall]

\* A call that is under way and finds the session gone stale.
Stale(c) ==
  IF call[c].pc \in Over THEN call[c] ELSE [call[c] EXCEPT !.stale = TRUE]

\* c goes on to pc, and is done with the token it has sent; who is over keeps
\* no more than the answer.
After(c, pc) ==
  IF pc \in Over THEN [NoCall EXCEPT !.pc = pc, !.stale = call[c].stale]
                 ELSE [call[c] EXCEPT !.pc = pc, !.tok = 0]
GoesTo(c, pc) == call' = [call EXCEPT ![c] = After(c, pc)]

-----------------------------------------------------------------------------
(* call *)

Begin(c, kind) ==
  /\ call[c].pc = "none"
  /\ call' = [call EXCEPT ![c] = [NoCall EXCEPT !.kind = kind, !.pc = "auth"]]
  /\ UNCHANGED <<static, token, drawn, valid, expiries>>

\* authToken: the cached token, the configured one, or a log-in.
AuthToken(c) ==
  /\ call[c].pc = "auth"
  /\ LET known == IF static THEN 1 ELSE token
     IN IF known # 0
          THEN /\ call' = [call EXCEPT ![c].pc = "send", ![c].tok = known]
               /\ token' = known
          ELSE GoesTo(c, "login") /\ UNCHANGED token
  /\ UNCHANGED <<static, drawn, valid, expiries>>

\* callWith.  A 401, or an error whose text has a 401 in it, leads to a log-in
\* the first time.
Send(c) ==
  /\ call[c].pc = "send"
  /\ \E answer \in {"answered", "failed", "unauthorized"}, looks \in BOOLEAN :
       /\ (answer = "unauthorized") = (call[c].tok \notin valid)
       /\ looks => answer # "answered"
       /\ answer = "unauthorized" => looks
       /\ IF looks /\ ~ static /\ ~ call[c].again
            THEN call' = [call EXCEPT ![c] = [After(c, "login") EXCEPT !.again = TRUE]]
            ELSE GoesTo(c, answer)
  /\ UNCHANGED <<static, token, drawn, valid, expiries>>

\* login asks for a token ...
Login(c) ==
  /\ call[c].pc = "login" /\ ~ static
  /\ \/ /\ drawn < MaxLogins
        /\ drawn' = drawn + 1
        /\ valid' = valid \cup {drawn'}
        /\ call' = [call EXCEPT ![c].pc = "keep", ![c].tok = drawn']
     \/ GoesTo(c, "nologin") /\ UNCHANGED <<drawn, valid>>
  /\ UNCHANGED <<static, token, expiries>>

\* MUTANT of KeepToken: it is not kept.
KeepTokenNot(c) ==
  /\ call[c].pc = "keep"
  /\ GoesTo(c, "relogged")
  /\ UNCHANGED <<static, token, drawn, valid, expiries>>

\* ... and keeps it in the driver, whatever another caller has put there or
\* OpenList has forgotten in the meantime.  A forgotten one makes the session
\* stale for the others.
KeepToken(c) ==
  /\ call[c].pc = "keep"
  /\ token' = call[c].tok
  /\ call' = [d \in Caller |->
                IF d = c THEN After(c, "relogged")
                ELSE IF call[c].tok \in valid THEN call[d] ELSE Stale(d)]
  /\ UNCHANGED <<static, drawn, valid, expiries>>

\* ... where the repeated call finds it, or the one of a later log-in.
Repeat(c) ==
  /\ call[c].pc = "relogged"
  /\ call' = [call EXCEPT ![c].pc = "send", ![c].tok = token]
  /\ UNCHANGED <<static, token, drawn, valid, expiries>>

\* The call is through: an api call is over, mkdir is followed by the upload.
Answered(c) ==
  /\ call[c].pc = "answered"
  /\ GoesTo(c, IF call[c].kind = "api" THEN "ok" ELSE "putauth")
  /\ UNCHANGED <<static, token, drawn, valid, expiries>>

PutAuth(c) ==
  /\ call[c].pc = "putauth"
  /\ call' = [call EXCEPT ![c].pc = "upload", ![c].tok = token]
  /\ UNCHANGED <<static, token, drawn, valid, expiries>>

\* Put's own request.
Upload(c) ==
  /\ call[c].pc = "upload"
  /\ \E answer \in {"ok", "failed", "unauthorized"} :
       /\ (answer = "unauthorized") = (call[c].tok \notin valid)
       /\ GoesTo(c, answer)
  /\ UNCHANGED <<static, token, drawn, valid, expiries>>

\* The caller has its answer.
End(c) ==
  /\ call[c].pc \in Over \ {"none"}
  /\ call' = [call EXCEPT ![c] = NoCall]
  /\ UNCHANGED <<static, token, drawn, valid, expiries>>

CallStep(c) ==
  \/ AuthToken(c) \/ Send(c) \/ Login(c) \/ KeepToken(c) \/ Repeat(c)
  \/ Answered(c) \/ PutAuth(c) \/ Upload(c)

\* OpenList forgets its tokens.
Expire ==
  /\ expiries < MaxExpiries
  /\ expiries' = expiries + 1
  /\ valid' = {}
  /\ call' = [c \in Caller |-> Stale(c)]
  /\ UNCHANGED <<static, token, drawn>>

\* The process dies, and the driver with it.
OpenListCrash ==
  /\ token' = 0
  /\ call' = [c \in Caller |-> NoCall]
  /\ UNCHANGED <<static, drawn, valid, expiries>>

-----------------------------------------------------------------------------
(* Properties *)

CallPcs == Over \cup {"auth", "send", "login", "keep", "relogged", "answered",
                      "putauth", "upload"}
CallRecord == [kind : Kinds, pc : CallPcs,
               tok : Token, again : BOOLEAN, stale : BOOLEAN]

OpenListTypeOK ==
  /\ static \in BOOLEAN
  /\ token \in Token /\ drawn \in Token
  /\ valid \subseteq Token
  /\ expiries \in 0 .. MaxExpiries
  /\ call \in [Caller -> CallRecord]

\* With a name and a password a caller is refused only if, while its request
\* was on the way, OpenList forgot its tokens or another caller put a token in
\* the driver that OpenList had forgotten: one that is stale beforehand, or
\* that another caller replaces by a valid one, costs a log-in and not the
\* request.
RefusedMeansStale ==
  \A c \in Caller :
    call[c].pc = "unauthorized" /\ ~ static => call[c].stale
=============================================================================

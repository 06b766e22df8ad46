------------------------------- MODULE BotBatch -------------------------------
(***************************************************************************)
(* The requests stop, close and remove as one database session serves      *)
(* them, for one bot or for all of a user's bots (stop_all_active_bots,    *)
(* close_all_non_closed_bots, soft_delete_all_bots in bot_service.py and   *)
(* their handlers in api/bots.py).                                         *)
(*                                                                         *)
(* A session keeps the bots it has loaded: get_current_user loads all of   *)
(* the user's, a commit leaves them as they are, only a rollback expires   *)
(* them.  A later query finds the row by the database's state and returns  *)
(* the object the session holds.  What a request does on the exchange is   *)
(* one call here; BotEngine has its steps.                                 *)
(***************************************************************************)
EXTENDS Integers, FiniteSets, FiniteSetsExt

CONSTANTS
    Bots,           \* ids of the user's bots
    Requests,       \* requests in progress at once
    ReloadCascades, \* whether reloading the user reloads user.bots too
    MaxFaults       \* bound: calls refused and requests that break off

ASSUME BotsAssumption == Bots \subseteq Nat
ASSUME ReloadAssumption == ReloadCascades \in BOOLEAN
ASSUME FaultsAssumption == MaxFaults \in Nat

VARIABLES
    commitFirst, \* get_db commits before the answer is sent (FastAPI < 0.118)
    life,     \* bots.lifecycle_status, committed
    deleted,  \* bots.deleted_at is set, committed
    req,      \* the requests and their sessions
    wrote,    \* bots each request has committed a change of (history)
    faults

vars == <<commitFirst, life, deleted, req, wrote, faults>>

Life == {"ACTIVE", "STOPPED", "CLOSED"}
Op   == {"none", "stop", "close", "remove"}
Held == Life \cup {"expired"}
\* answered: the answer is sent and get_db has yet to commit; unkept: it failed.
Point == {"idle", "ids", "next", "call", "write", "commit", "answered",
          "done", "broken", "unkept"}
End   == {"done", "broken", "unkept"}

Request ==
    [op : Op, all : BOOLEAN, at : Point,
     ids : SUBSET Bots,          \* bots the request is about
     todo : SUBSET Bots,         \* those it has not come to
     cur : Bots \cup {-1},
     held : [Bots -> Held],      \* lifecycle_status of the session's objects
     dirty : SUBSET Bots,        \* status changed and not committed
     hides : SUBSET Bots,        \* deleted_at set and not committed
     ok : SUBSET Bots, failed : SUBSET Bots]

Idle == [op |-> "none", all |-> FALSE, at |-> "idle", ids |-> {}, todo |-> {},
         cur |-> -1, held |-> [b \in Bots |-> "expired"], dirty |-> {},
         hides |-> {}, ok |-> {}, failed |-> {}]

Init ==
    /\ commitFirst \in BOOLEAN
    /\ life \in [Bots -> Life]
    /\ deleted = [b \in Bots |-> FALSE]
    /\ req = [r \in Requests |-> Idle]
    /\ wrote = [r \in Requests |-> {}]
    /\ faults = 0

Fault == faults < MaxFaults /\ faults' = faults + 1

\* What stop_bot and close_bot refuse, and what the batches select.
Eligible(op, l) ==
    CASE op = "stop"   -> l = "ACTIVE"
      [] op = "close"  -> l # "CLOSED"
      [] op = "remove" -> TRUE

-----------------------------------------------------------------------------
\* get_current_user loads the user and, selectin, all of the user's bots.
Authenticate(r) ==
    /\ req[r].at = "idle"
    /\ \E op \in Op \ {"none"}, all \in BOOLEAN :
         req' = [req EXCEPT ![r] = [Idle EXCEPT !.op = op, !.all = all,
                                                !.at = "ids", !.held = life]]
    /\ UNCHANGED <<life, deleted, wrote, faults>>

\* The batch selects the ids; a request for one bot has its id from the URL.
SelectIds(r) ==
    /\ req[r].at = "ids"
    /\ \E S \in IF req[r].all
                THEN {{b \in Bots : ~deleted[b] /\ Eligible(req[r].op, life[b])}}
                ELSE {{b} : b \in Bots} :
         req' = [req EXCEPT ![r].ids = S, ![r].todo = S, ![r].at = "next"]
    /\ UNCHANGED <<life, deleted, wrote, faults>>

-----------------------------------------------------------------------------
\* The next bot, in the order of their ids.
NextBot(r) == Min(req[r].todo)

\* get_bot: the row must not be deleted, and an expired object is loaded.
Seen(r, b) == IF req[r].held[b] = "expired" THEN life[b] ELSE req[r].held[b]

\* The request's own test of the bot, made on the object.
Takes(r, b) == ~deleted[b] /\ Eligible(req[r].op, Seen(r, b))

\* Only the removal of a bot that is not ACTIVE needs no exchange.
Take(r) ==
    /\ req[r].at = "next" /\ req[r].todo # {}
    /\ Takes(r, NextBot(r))
    /\ LET b == NextBot(r)
           local == req[r].op = "remove" /\ Seen(r, b) # "ACTIVE"
       IN req' = [req EXCEPT ![r].cur = b, ![r].todo = @ \ {b},
                             ![r].held[b] = Seen(r, b),
                             ![r].at = IF local THEN "write" ELSE "call"]
    /\ UNCHANGED <<life, deleted, wrote, faults>>

\* Mutants: the bot that failed is tried again; it is not reported.
FailsAgain(r, b) ==
    req' = [req EXCEPT ![r].failed = @ \cup {b}, ![r].todo = @ \cup {b},
                       ![r].held = [x \in Bots |-> "expired"],
                       ![r].dirty = {}, ![r].hides = {}, ![r].cur = -1,
                       ![r].at = "next"]

FailsSilently(r, b) ==
    req' = [req EXCEPT ![r].todo = @ \ {b},
                       ![r].held = [x \in Bots |-> "expired"],
                       ![r].dirty = {}, ![r].hides = {}, ![r].cur = -1,
                       ![r].at = "next"]

\* A ValueError ends a single request (HTTP 400) and one round of a batch.
\* The rollback expires every object of the session.
Fails(r, b) ==
    req' = [req EXCEPT ![r].failed = @ \cup {b}, ![r].todo = @ \ {b},
                       ![r].held = [x \in Bots |-> "expired"],
                       ![r].dirty = {}, ![r].hides = {}, ![r].cur = -1,
                       ![r].at = "next"]

\* "Bot not found", "Bot is not active", "Already closed".
Refuse(r) ==
    /\ req[r].at = "next" /\ req[r].todo # {}
    /\ ~Takes(r, NextBot(r))
    /\ Fails(r, NextBot(r))
    /\ UNCHANGED <<life, deleted, wrote, faults>>

CallSucceeds(r) ==
    /\ req[r].at = "call"
    /\ req' = [req EXCEPT ![r].at = "write"]
    /\ UNCHANGED <<life, deleted, wrote, faults>>

\* No API key: a ValueError.  A key that Binance rejects is one too, but a
\* removal goes on.
CallRefused(r) ==
    /\ req[r].at = "call" /\ Fault
    /\ \/ Fails(r, req[r].cur)
       \/ req[r].op = "remove" /\ req' = [req EXCEPT ![r].at = "write"]
    /\ UNCHANGED <<life, deleted, wrote>>

\* Any other exception, or the death of the process, ends the request: get_db
\* rolls back what is not committed and nothing is reported.
Break(r) ==
    /\ req[r].at \in {"next", "call", "write", "commit"} /\ Fault
    /\ req' = [req EXCEPT ![r].held = [x \in Bots |-> "expired"],
                          ![r].dirty = {}, ![r].hides = {}, ![r].at = "broken"]
    /\ UNCHANGED <<life, deleted, wrote>>

\* Reloading the user loads what is expired of user.bots.
Reload(held) ==
    [x \in Bots |-> IF held[x] = "expired" /\ ReloadCascades THEN life[x] ELSE held[x]]

\* What the request makes of the status, if it sets it.
Target(op) == IF op = "close" THEN "CLOSED" ELSE "STOPPED"
SetsStatus(r) == req[r].op # "remove" \/ req[r].held[req[r].cur] = "ACTIVE"

HeldAfter(r) ==
    [Reload(req[r].held) EXCEPT
       ![req[r].cur] = IF SetsStatus(r) THEN Target(req[r].op) ELSE @]

\* Mutants: the batch goes on to the next bot without a commit; a removed
\* ACTIVE bot is not stopped.
WriteUncommitted(r) ==
    /\ req[r].at = "write"
    /\ LET b == req[r].cur IN
       req' = [req EXCEPT
         ![r].held = HeldAfter(r),
         ![r].dirty = IF SetsStatus(r) THEN @ \cup {b} ELSE @,
         ![r].hides = IF req[r].op = "remove" THEN @ \cup {b} ELSE @,
         ![r].ok = @ \cup {b}, ![r].at = "next"]
    /\ UNCHANGED <<life, deleted, wrote, faults>>
WriteRemoveOnly(r) ==
    /\ req[r].at = "write"
    /\ LET b == req[r].cur IN
       req' = [req EXCEPT
         ![r].held = IF req[r].op = "remove" THEN Reload(@) ELSE HeldAfter(r),
         ![r].dirty = IF req[r].op # "remove" THEN @ \cup {b} ELSE @,
         ![r].hides = IF req[r].op = "remove" THEN @ \cup {b} ELSE @,
         ![r].ok = @ \cup {b}, ![r].at = "commit"]
    /\ UNCHANGED <<life, deleted, wrote, faults>>

\* The attributes are set, the event is published and the user is looked up.
\* A removal leaves the status alone unless it is ACTIVE.
Write(r) ==
    /\ req[r].at = "write"
    /\ LET b == req[r].cur IN
       req' = [req EXCEPT
         ![r].held = HeldAfter(r),
         ![r].dirty = IF SetsStatus(r) THEN @ \cup {b} ELSE @,
         ![r].hides = IF req[r].op = "remove" THEN @ \cup {b} ELSE @,
         ![r].ok = @ \cup {b}, ![r].at = "commit"]
    /\ UNCHANGED <<life, deleted, wrote, faults>>

\* A commit writes the columns that were set, on whatever the row is by now.
Flush(r) ==
    /\ life' = [b \in Bots |-> IF b \in req[r].dirty THEN req[r].held[b] ELSE life[b]]
    /\ deleted' = [b \in Bots |-> deleted[b] \/ b \in req[r].hides]
    /\ wrote' = [wrote EXCEPT ![r] = @ \cup req[r].dirty \cup req[r].hides]

\* A batch commits each bot and reads it again; get_db commits for a request
\* of one bot, before or after its answer.
CommitsFirst(r) == req[r].all \/ commitFirst

Commit(r) ==
    /\ req[r].at = "commit" /\ CommitsFirst(r)
    /\ Flush(r)
    /\ req' = [req EXCEPT ![r].held[req[r].cur] = life'[req[r].cur],
                          ![r].dirty = {}, ![r].hides = {}, ![r].cur = -1,
                          ![r].at = "next"]
    /\ UNCHANGED faults

\* The handler of one bot answers with what the object says.
Answer(r) ==
    /\ req[r].at = "commit" /\ ~CommitsFirst(r)
    /\ req' = [req EXCEPT ![r].at = "answered"]
    /\ UNCHANGED <<life, deleted, wrote, faults>>

CommitAnswered(r) ==
    /\ req[r].at = "answered"
    /\ Flush(r)
    /\ req' = [req EXCEPT ![r].at = "done", ![r].dirty = {}, ![r].hides = {}]
    /\ UNCHANGED faults

\* The commit fails, or the process dies before it: the answer stands.
AnswerUnkept(r) ==
    /\ req[r].at = "answered" /\ Fault
    /\ req' = [req EXCEPT ![r].held = [x \in Bots |-> "expired"],
                          ![r].dirty = {}, ![r].hides = {}, ![r].at = "unkept"]
    /\ UNCHANGED <<life, deleted, wrote>>

\* What the session still has of the bots when a batch reports them;
\* remove-all looks the user up once more.
HeldAtReport(r) ==
    IF req[r].op = "remove" THEN Reload(req[r].held) ELSE req[r].held

\* The handler reads the bots it reports, for the audit row and the response.
Report(r) ==
    /\ req[r].at = "next" /\ req[r].todo = {}
    /\ req[r].all => \A b \in req[r].ok : HeldAtReport(r)[b] # "expired"
    /\ Flush(r)
    /\ req' = [req EXCEPT ![r].at = "done", ![r].dirty = {}, ![r].hides = {}]
    /\ UNCHANGED faults

\* An expired object cannot be loaded there (no await): status 500.
ReportBreaks(r) ==
    /\ req[r].at = "next" /\ req[r].todo = {}
    /\ req[r].all /\ \E b \in req[r].ok : HeldAtReport(r)[b] = "expired"
    /\ req' = [req EXCEPT ![r].at = "broken", ![r].dirty = {}, ![r].hides = {}]
    /\ UNCHANGED <<life, deleted, wrote, faults>>

Done == (\A r \in Requests : req[r].at \in End) /\ UNCHANGED vars

Step(r) ==
    /\ \/ Authenticate(r) \/ SelectIds(r) \/ Take(r) \/ Refuse(r)
       \/ CallSucceeds(r) \/ CallRefused(r) \/ Break(r)
       \/ Write(r) \/ Commit(r) \/ Report(r) \/ ReportBreaks(r)
       \/ Answer(r) \/ CommitAnswered(r) \/ AnswerUnkept(r)
    /\ UNCHANGED commitFirst

Next == (\E r \in Requests : Step(r)) \/ Done

Spec == Init /\ [][Next]_vars

\* A request that has begun is served.
FairSpec == Spec /\ \A r \in Requests : WF_vars(req[r].at # "idle" /\ Step(r))

-----------------------------------------------------------------------------
(* Properties.                                                             *)

\* Every variable has its type, and a session never carries the uncommitted
\* changes of one bot on to another.
TypeOK ==
    /\ \A r \in Requests : req[r].dirty \cup req[r].hides \subseteq {req[r].cur}
    /\ commitFirst \in BOOLEAN
    /\ life \in [Bots -> Life] /\ deleted \in [Bots -> BOOLEAN]
    /\ req \in [Requests -> Request]
    /\ wrote \in [Requests -> SUBSET Bots] /\ faults \in Nat

\* A request that has ended with an answer has reported every bot it was about
\* once, as changed or as failed; as changed it reports exactly those it has
\* committed, and no failure takes one of them back.  Only a request of one bot
\* is ever answered ahead of its commit, and only where get_db commits last: it
\* has then committed nothing, and will not, if that commit fails.
ReportTrue ==
    \A r \in Requests :
        /\ req[r].at \in {"done", "answered", "unkept"} =>
             /\ req[r].ok \cup req[r].failed = req[r].ids
             /\ req[r].ok \cap req[r].failed = {}
        /\ req[r].at = "done" => req[r].ok = wrote[r]
        /\ req[r].at \in {"answered", "unkept"} =>
             ~req[r].all /\ ~commitFirst /\ req[r].ok = req[r].ids /\ wrote[r] = {}

\* A removed bot is not ACTIVE, though the removal decides on an object that
\* may be older than the row, and other requests commit in between.
DeletedNotActive == \A b \in Bots : deleted[b] => life[b] # "ACTIVE"

\* Every request that has begun ends, whatever fails: no bot is tried for ever.
RequestsEnd ==
    \A r \in Requests :
        req[r].at # "idle" ~> req[r].at \in End

\* Why they end: whatever a step of a request does, to the end of its batch or
\* failing on the way, the request has fewer bots to come to, or less to do
\* for the one in hand; a bot it has come to is never among those to come again.
Left(p) == CASE p = "idle" -> 6 [] p = "ids" -> 5 [] p = "call" -> 4 [] p = "write" -> 3
             [] p = "commit" -> 2 [] p \in {"next", "answered"} -> 1
             [] OTHER -> 0
Shorter(new, old) ==
    /\ old.at # "ids" /\ new.at # "idle" /\ (new.at = "ids" => old.at = "idle")
    /\ new.todo \subseteq old.todo
    /\ new.todo # old.todo \/ Left(new.at) < Left(old.at)
Shortens(r) ==
    \/ req'[r] = req[r]
    \/ req[r].at = "ids" /\ req'[r].at = "next"
    \/ Shorter(req'[r], req[r])
EveryStepShortens == [][\A r \in Requests : Shortens(r)]_vars

-----------------------------------------------------------------------------
(* The inductive invariant behind DeletedNotActive.                        *)

\* An object that is no longer ACTIVE tells the truth about its row, or the
\* session has changed it itself; what a session is about to hide is not
\* ACTIVE once its changes are committed.
HeldOK(r, b) ==
    /\ b \in req[r].dirty => req[r].held[b] \in {"STOPPED", "CLOSED"}
    /\ req[r].held[b] \in {"STOPPED", "CLOSED"}
          => b \in req[r].dirty \/ life[b] # "ACTIVE"
    /\ b \in req[r].hides => b \in req[r].dirty \/ life[b] # "ACTIVE"
    /\ req[r].at \in {"call", "write"} /\ b = req[r].cur
          => req[r].held[b] # "expired"

HeldInv == \A r \in Requests : \A b \in Bots : HeldOK(r, b)

BatchInv == TypeOK /\ HeldInv /\ DeletedNotActive
=============================================================================

------------------------------ MODULE BotEngine ------------------------------
(***************************************************************************)
(* One grid bot: its `bots' and `orders' rows, the exchange account it     *)
(* trades on, the engine pass that reconciles the two (bot_engine/loop.py, *)
(* run by the engine task or once by create_bot), the supervisor that      *)
(* starts and cancels the task, and the API requests that stop, close,     *)
(* remove or reconfigure the bot meanwhile (services/bot_service.py).      *)
(*                                                                         *)
(* A step ends where the code awaits the exchange or commits.  A session   *)
(* reads the bot row once (expire_on_commit=False, no re-read inside a     *)
(* pass), does not autoflush, and writes back only the columns it changed. *)
(* Orders are numbered 0 (the market entry) and 1..Legs (the limit legs);  *)
(* an order's client id is its config version and its number.              *)
(***************************************************************************)
EXTENDS Integers, FiniteSets

CONSTANTS
    Legs,             \* grid_orders_count
    Configs,          \* the grid configurations users submit
    AutoRestart,      \* those with auto_restart = true
    Requests,         \* API requests that may be in progress at once
    Attempts,         \* attempts of retry_ccxt
    RefreshCascades,  \* whether db.refresh(bot) also reloads bot.orders
    NoConfig,         \* no configuration (an order never placed)
    MaxVersion,       \* bound: config versions explored
    MaxAccept,        \* bound: margin, acceptances of one client id
    MaxFaults,        \* bound: injected failures and crashes
    MaxRestarts       \* bound: grid re-creations

ASSUME LegsAssumption == Legs \in Nat \ {0}
ASSUME ConfigsAssumption == AutoRestart \subseteq Configs /\ NoConfig \notin Configs
ASSUME AttemptsAssumption == Attempts \in Nat \ {0}
ASSUME RefreshAssumption == RefreshCascades \in BOOLEAN
ASSUME BoundsAssumption ==
    /\ MaxVersion \in Nat \ {0} /\ MaxAccept \in Nat
    /\ MaxFaults \in Nat /\ MaxRestarts \in Nat

VARIABLES
    \* PostgreSQL, committed
    bot,        \* the bots row
    rows,       \* the orders rows: absent, without or with exchange_order_id
    keyLive,    \* the api_keys row is not soft-deleted
    \* Binance
    open,       \* client ids of the open limit orders
    pos,        \* position size, in executed orders
    accepted,   \* how often each client id was accepted (history)
    placedCfg,  \* configuration an order was last placed with (history)
    \* the engine process, or create_bot's own pass
    task,       \* the bot's asyncio task, or the engine's process is down
    at,         \* where the current pass is
    sess,       \* what the pass's session holds
    view,       \* the orders rows as the session sees them
    pending,    \* rows session.add()ed by the sync and not flushed yet
    sent,       \* ids acknowledged in this pass and not committed yet
    \* the API processes
    req,        \* requests in progress
    \* bookkeeping
    unheard,    \* acceptances of each id whose reply was lost (history)
    forgotten,  \* acceptances of each id heard of, then rolled back or
                \* deleted with their grid (history)
    given,      \* configurations each version number was given to (history)
    restarts,   \* grid re-creations begun (history)
    faults      \* failures injected so far

dbVars   == <<bot, rows, keyLive>>
exVars   == <<open, pos, accepted, placedCfg>>
passVars == <<at, sess, view, pending, sent>>
lossVars == <<unheard, forgotten>>
numberVars == <<given, restarts>>
histVars == <<lossVars, numberVars, faults>>
vars     == <<dbVars, exVars, task, passVars, req, histVars>>

Version == 1..MaxVersion
Level   == 0..Legs
Cid     == Version \X Level              \* client_order_id
RowState == {"none", "noex", "ex"}

Life        == {"ABSENT", "GONE", "ACTIVE", "STOPPED", "CLOSED"}
EngineState == {"INIT", "RUNNING", "STOPPED", "ERROR"}
PassPoint   == {"idle", "sync", "rpos", "ropen", "rcancel", "row", "place",
                "commit", "error"}
ReqPoint    == {"idle", "cancel", "positions", "reduce", "commit"}

BotRow  == [life : Life, deleted : BOOLEAN, estate : EngineState,
            err : BOOLEAN, ver : Version, cfg : Configs \cup {NoConfig}]
Session == [by : {"none", "engine", "create"}, ver : Version,
            cfg : Configs \cup {NoConfig}, loaded : EngineState,
            estate : EngineState, err : BOOLEAN, idx : Level, tries : Nat,
            restarted : BOOLEAN, locked : BOOLEAN, failed : BOOLEAN]
Request == [op : {"none", "stop", "close", "delete", "patch"}, at : ReqPoint,
            life : Life, estate : EngineState, ver : Version,
            cfg : Configs \cup {NoConfig}, size : Nat]

NoSession == [by |-> "none", ver |-> 1, cfg |-> NoConfig, loaded |-> "INIT",
              estate |-> "INIT", err |-> FALSE, idx |-> 0, tries |-> 0,
              restarted |-> FALSE, locked |-> FALSE, failed |-> FALSE]
NoRequest == [op |-> "none", at |-> "idle", life |-> "ABSENT",
              estate |-> "INIT", ver |-> 1, cfg |-> NoConfig, size |-> 0]
NoRows    == [c \in Cid |-> "none"]

Init ==
    /\ bot = [life |-> "ABSENT", deleted |-> FALSE, estate |-> "INIT",
              err |-> FALSE, ver |-> 1, cfg |-> NoConfig]
    /\ rows = NoRows
    /\ keyLive = TRUE
    /\ open = {} /\ pos = 0
    /\ accepted = [c \in Cid |-> 0]
    /\ placedCfg = [c \in Cid |-> NoConfig]
    /\ task = "none"
    /\ at = "idle" /\ sess = NoSession
    /\ view = NoRows /\ pending = {} /\ sent = {}
    /\ req = [r \in Requests |-> NoRequest]
    /\ unheard = [c \in Cid |-> 0] /\ forgotten = [c \in Cid |-> 0]
    /\ given = [v \in Version |-> {}] /\ restarts = 0 /\ faults = 0

-----------------------------------------------------------------------------
(* Shared pieces.                                                          *)

\* What supervisor_loop selects and run_bot insists on.
Tracked == bot.life = "ACTIVE" /\ ~bot.deleted

Fault == faults < MaxFaults /\ faults' = faults + 1

\* The client id the pass is working on.
Current == <<sess.ver, sess.idx>>

\* The exchange took these orders and the database will not know of it: no
\* reply came, or the session that heard it is rolled back.
Unheard(ids) ==
    unheard' = [c \in Cid |-> IF c \in ids THEN unheard[c] + 1 ELSE unheard[c]]
Forgotten(ids) ==
    forgotten' = [c \in Cid |-> IF c \in ids THEN forgotten[c] + 1 ELSE forgotten[c]]

\* The version number v is given to the configuration c.
Gives(v, c) == given' = [given EXCEPT ![v] = @ \cup {c}]

\* The session is closed: nothing of it survives.
DropSession ==
    /\ sess' = NoSession /\ view' = NoRows /\ pending' = {} /\ sent' = {}

\* An exception leaves exchange_bootstrap_for_bot.  run_bot's session is
\* rolled back and its error handler runs; create_bot catches the exception
\* and goes on to commit what its session holds.
PassFails ==
    \/ /\ sess.by = "engine"
       /\ at' = "error"
       /\ DropSession
       /\ Forgotten(sent)
    \/ /\ sess.by = "create"
       /\ at' = "commit"
       /\ sess' = [sess EXCEPT !.failed = TRUE]
       /\ UNCHANGED <<view, pending, sent, forgotten>>

-----------------------------------------------------------------------------
(* The pass: exchange_bootstrap_for_bot.                                   *)

\* create_bot up to its call of the bootstrap: the row is flushed as INIT,
\* uncommitted, and the bootstrap turns it to RUNNING in the session.
BeginCreate ==
    /\ bot.life = "ABSENT" /\ at = "idle" /\ keyLive
    /\ \E c \in Configs :
         /\ sess' = [NoSession EXCEPT !.by = "create", !.cfg = c,
                                      !.estate = "RUNNING"]
         /\ Gives(1, c)
    /\ at' = "sync"
    /\ UNCHANGED <<dbVars, exVars, task, view, pending, sent, req, lossVars,
                   restarts, faults>>

\* run_bot opens a session and reads the bot; build_binance_adapter refuses
\* a deleted key.
BeginPass ==
    /\ task = "live" /\ at = "idle" /\ Tracked
    /\ IF keyLive
       THEN /\ at' = "sync"
            /\ sess' = [NoSession EXCEPT
                          !.by = "engine", !.ver = bot.ver, !.cfg = bot.cfg,
                          !.loaded = bot.estate, !.err = bot.err,
                          !.estate = IF bot.estate = "INIT" THEN "RUNNING"
                                                            ELSE bot.estate]
            /\ view' = rows
       ELSE /\ at' = "error"
            /\ UNCHANGED <<sess, view>>
    /\ UNCHANGED <<dbVars, exVars, task, pending, sent, req, histVars>>

\* run_bot returns: the bot is gone from its working set.
EndTask ==
    /\ task = "live" /\ at = "idle" /\ ~Tracked
    /\ task' = "none"
    /\ UNCHANGED <<dbVars, exVars, passVars, req, histVars>>

\* Mutant: open orders without a row are left out.
SyncKnownOnly ==
    /\ at = "sync"
    /\ view' = [c \in Cid |-> IF c \in open /\ view[c] # "none"
                              THEN "ex" ELSE view[c]]
    /\ at' = IF sess.cfg \in AutoRestart THEN "rpos" ELSE "row"
    /\ UNCHANGED <<dbVars, exVars, task, sess, pending, sent, req, histVars>>

\* _sync_orders_and_position: every open order marks its row, or adds one
\* that stays unflushed.
Sync ==
    /\ at = "sync"
    /\ view' = [c \in Cid |-> IF c \in open /\ view[c] # "none"
                              THEN "ex" ELSE view[c]]
    /\ pending' = {c \in open : view[c] = "none"}
    /\ at' = IF sess.cfg \in AutoRestart THEN "rpos" ELSE "row"
    /\ UNCHANGED <<dbVars, exVars, task, sess, sent, req, histVars>>

\* _maybe_restart asks for the position first and the open orders next.
RestartReadsPosition ==
    /\ at = "rpos"
    /\ at' = IF pos = 0 THEN "ropen" ELSE "row"
    /\ UNCHANGED <<dbVars, exVars, task, sess, view, pending, sent, req, histVars>>

RestartReadsOrders ==
    /\ at = "ropen"
    /\ at' = IF /\ open = {}
                /\ \E c \in Cid : view[c] # "none"
                /\ sess.ver < MaxVersion /\ restarts < MaxRestarts
             THEN "rcancel" ELSE "row"
    /\ UNCHANGED <<dbVars, exVars, task, sess, view, pending, sent, req, histVars>>

\* cancel_all_orders, then the rows are deleted and the version moves on.
RestartGrid ==
    /\ at = "rcancel"
    /\ open' = {}
    /\ view' = NoRows
    /\ sess' = [sess EXCEPT !.ver = @ + 1, !.estate = "RUNNING",
                            !.restarted = TRUE]
    /\ Gives(sess.ver + 1, sess.cfg) /\ restarts' = restarts + 1
    /\ at' = "row"
    /\ Forgotten({c \in Cid : rows[c] = "ex"})
    /\ UNCHANGED <<dbVars, pos, accepted, placedCfg, task, pending, sent, req,
                   unheard, faults>>

\* The next level of the grid, or the end of the bootstrap.
Advance ==
    IF sess.idx = Legs
    THEN at' = "commit" /\ UNCHANGED sess
    ELSE at' = "row" /\ sess' = [sess EXCEPT !.idx = @ + 1, !.tries = 0]

\* _ensure_grid_once, row lookup: a row with an exchange id is skipped.
SkipRecorded ==
    /\ at = "row" /\ view[Current] = "ex"
    /\ Advance
    /\ UNCHANGED <<dbVars, exVars, task, view, pending, sent, req, histVars>>

\* Mutants: the exchange id is not looked at; a row without one is skipped.
ReuseAnyRow ==
    /\ at = "row" /\ view[Current] # "none"
    /\ at' = "place"
    /\ UNCHANGED <<dbVars, exVars, task, sess, view, pending, sent, req, histVars>>
SkipAnyRow ==
    /\ at = "row" /\ view[Current] = "noex"
    /\ Advance
    /\ UNCHANGED <<dbVars, exVars, task, view, pending, sent, req, histVars>>

ReuseRow ==
    /\ at = "row" /\ view[Current] = "noex"
    /\ at' = "place"
    /\ UNCHANGED <<dbVars, exVars, task, sess, view, pending, sent, req, histVars>>

\* Mutant: the new row counts as placed before the exchange has answered.
AddRowAsPlaced ==
    /\ at = "row" /\ view[Current] = "none" /\ Current \notin pending
    /\ view' = [c \in Cid |-> IF c \in pending \cup {Current} THEN "ex" ELSE view[c]]
    /\ pending' = {}
    /\ at' = "place"
    /\ UNCHANGED <<dbVars, exVars, task, sess, sent, req, histVars>>

\* add() and flush(): everything the session holds goes to the database,
\* the bot's changed columns too, which locks its row until the end.
AddRow ==
    /\ at = "row" /\ view[Current] = "none" /\ Current \notin pending
    /\ view' = [c \in Cid |-> IF c = Current THEN "noex"
                              ELSE IF c \in pending THEN "ex" ELSE view[c]]
    /\ pending' = {}
    /\ sess' = [sess EXCEPT !.locked = \/ @
                                       \/ sess.estate # sess.loaded
                                       \/ sess.restarted]
    /\ at' = "place"
    /\ UNCHANGED <<dbVars, exVars, task, sent, req, histVars>>

\* The flush would insert the id twice: uq_orders_client_order_id.
AddRowConflicts ==
    /\ at = "row" /\ view[Current] = "none" /\ Current \in pending
    /\ PassFails
    /\ UNCHANGED <<dbVars, exVars, task, req, unheard, numberVars, faults>>

-----------------------------------------------------------------------------
(* place_order under retry_ccxt: a lost reply is retried with the same id. *)

\* What the exchange takes: a limit order's id must not be open already, a
\* market order executes at once.  MaxAccept stands for the margin.
Acceptable(c) == accepted[c] < MaxAccept /\ c \notin open

Accept(c) ==
    /\ Acceptable(c)
    /\ accepted' = [accepted EXCEPT ![c] = @ + 1]
    /\ placedCfg' = [placedCfg EXCEPT ![c] = sess.cfg]
    /\ IF c[2] = 0 THEN pos' = pos + 1 /\ UNCHANGED open
                   ELSE open' = open \cup {c} /\ UNCHANGED pos

\* A retryable error: the next attempt, or the last one raises.
RetryOrFail ==
    \/ /\ sess.tries + 1 < Attempts
       /\ sess' = [sess EXCEPT !.tries = @ + 1]
       /\ UNCHANGED <<at, view, pending, sent, forgotten>>
    \/ sess.tries + 1 >= Attempts /\ PassFails

\* Mutant: the reply's exchange id is not stored.
PlaceUnstored ==
    /\ at = "place"
    /\ Accept(Current)
    /\ Advance
    /\ UNCHANGED <<dbVars, task, view, pending, sent, req, histVars>>

PlaceAck ==
    /\ at = "place"
    /\ Accept(Current)
    /\ view' = [view EXCEPT ![Current] = "ex"]
    /\ sent' = sent \cup {Current}
    /\ Advance
    /\ UNCHANGED <<dbVars, task, pending, req, histVars>>

\* The exchange took the order and the reply was lost.
PlaceLost ==
    /\ at = "place" /\ Fault
    /\ Accept(Current)
    /\ Unheard({Current})
    /\ RetryOrFail
    /\ UNCHANGED <<dbVars, task, req, numberVars>>

\* The request never arrived.
PlaceUnreached ==
    /\ at = "place" /\ Fault
    /\ RetryOrFail
    /\ UNCHANGED <<dbVars, exVars, task, req, unheard, numberVars>>

\* The exchange refuses: no retry.
PlaceRejected ==
    /\ at = "place"
    /\ IF Acceptable(Current) THEN Fault ELSE UNCHANGED faults
    /\ PassFails
    /\ UNCHANGED <<dbVars, exVars, task, req, unheard, numberVars>>

\* Any other call of the pass gives up: open orders, positions,
\* cancel_all_orders (done or not), and the price that anchors the grid.
CallFails ==
    /\ \/ at \in {"sync", "rpos", "ropen"} /\ UNCHANGED open
       \/ at = "rcancel" /\ open' \in {open, {}}
       \/ at = "row" /\ sess.idx = 0 /\ UNCHANGED open
    /\ Fault
    /\ PassFails
    /\ UNCHANGED <<dbVars, pos, accepted, placedCfg, task, req, unheard, numberVars>>

-----------------------------------------------------------------------------
(* The end of the pass.                                                    *)

\* Mutant: the commit writes every column as the pass has read it.
CommitWholeRow ==
    /\ at = "commit" /\ sess.by = "engine"
    /\ rows' = [c \in Cid |-> IF c \in pending THEN "ex" ELSE view[c]]
    /\ bot' = [bot EXCEPT !.life = "ACTIVE", !.estate = sess.estate,
                          !.err = FALSE, !.ver = sess.ver, !.cfg = sess.cfg]
    /\ at' = "idle"
    /\ DropSession
    /\ UNCHANGED <<keyLive, exVars, task, req, histVars>>

\* run_bot's commit: only the columns whose value changed in the session.  The
\* version of a re-created grid goes to whatever configuration the row has now.
CommitPass ==
    /\ at = "commit" /\ sess.by = "engine"
    /\ rows' = [c \in Cid |-> IF c \in pending THEN "ex" ELSE view[c]]
    /\ bot' = [bot EXCEPT
                 !.estate = IF sess.estate # sess.loaded THEN sess.estate ELSE @,
                 !.err = IF sess.err THEN FALSE ELSE @,
                 !.ver = IF sess.restarted THEN sess.ver ELSE @]
    /\ IF sess.restarted THEN Gives(sess.ver, bot.cfg) ELSE UNCHANGED given
    /\ at' = "idle"
    /\ DropSession
    /\ UNCHANGED <<keyLive, exVars, task, req, lossVars, restarts, faults>>

\* create_bot refreshes the bot before the request commits, and the session
\* does not autoflush: the ERROR it has just assigned is read back from the
\* database, and so may be the exchange id of the last leg.
CommitCreate ==
    /\ at = "commit" /\ sess.by = "create"
    /\ bot' = [life |-> "ACTIVE", deleted |-> FALSE, err |-> FALSE, ver |-> 1,
               cfg |-> sess.cfg,
               estate |-> IF sess.locked THEN "RUNNING" ELSE "INIT"]
    /\ IF RefreshCascades /\ ~sess.failed
       THEN rows' = [view EXCEPT ![<<1, Legs>>] = "noex"] /\ Forgotten({<<1, Legs>>})
       ELSE rows' = view /\ UNCHANGED forgotten
    /\ at' = "idle"
    /\ DropSession
    /\ UNCHANGED <<keyLive, exVars, task, req, unheard, numberVars, faults>>

\* The create request dies: its transaction is rolled back, its orders stay.
CreateAborted ==
    /\ sess.by = "create" /\ Fault
    /\ bot' = [bot EXCEPT !.life = "GONE"]
    /\ at' = "idle"
    /\ DropSession
    /\ Forgotten(sent)
    /\ UNCHANGED <<rows, keyLive, exVars, task, req, unheard, numberVars>>

\* run_bot's error handler re-reads the bot, whatever its status is by now;
\* it may fail itself.
HandleError ==
    /\ at = "error"
    /\ \/ bot' = [bot EXCEPT !.estate = "ERROR", !.err = TRUE] /\ UNCHANGED faults
       \/ UNCHANGED bot /\ Fault
    /\ at' = "idle"
    /\ UNCHANGED <<rows, keyLive, exVars, task, sess, view, pending, sent, req,
                   lossVars, numberVars>>

-----------------------------------------------------------------------------
(* The supervisor, and the process it runs in.                             *)

\* Mutants: any bot is started; a bot in ERROR is not.
SupervisorStartAny ==
    /\ task = "none" /\ bot.life # "ABSENT"
    /\ task' = "live"
    /\ UNCHANGED <<dbVars, exVars, passVars, req, histVars>>
SupervisorStartHealthy ==
    /\ task = "none" /\ Tracked /\ bot.estate # "ERROR"
    /\ task' = "live"
    /\ UNCHANGED <<dbVars, exVars, passVars, req, histVars>>

SupervisorStart ==
    /\ task = "none" /\ Tracked
    /\ task' = "live"
    /\ UNCHANGED <<dbVars, exVars, passVars, req, histVars>>

\* The task disappears wherever it is; its session is rolled back.
TaskVanishes ==
    /\ task = "live"
    /\ at' = "idle"
    /\ DropSession
    /\ Forgotten(sent)
    /\ UNCHANGED <<dbVars, exVars, req, unheard, numberVars>>

SupervisorCancel ==
    ~Tracked /\ TaskVanishes /\ task' = "none" /\ UNCHANGED faults

\* The process dies, with the task or while there is none.
EngineCrash ==
    /\ Fault
    /\ task # "down" /\ task' = "down"
    /\ \/ TaskVanishes
       \/ task = "none" /\ UNCHANGED <<dbVars, exVars, passVars, req, lossVars, numberVars>>

\* Somebody starts the process again: the deployment has nothing that does.
EngineStarts ==
    /\ task = "down" /\ task' = "none"
    /\ UNCHANGED <<dbVars, exVars, passVars, req, histVars>>

-----------------------------------------------------------------------------
(* The market, the account's owner, and the API key.                       *)

\* An open limit order executes.
Fill ==
    \E c \in open :
        /\ open' = open \ {c}
        /\ pos' = pos + 1
        /\ UNCHANGED <<dbVars, accepted, placedCfg, task, passVars, req, histVars>>

\* The position is closed outside the application.
Flatten ==
    /\ pos > 0
    /\ pos' = 0
    /\ UNCHANGED <<dbVars, open, accepted, placedCfg, task, passVars, req, histVars>>

\* soft_delete_api_key does not look at the bots that use the key.
DeleteApiKey ==
    /\ keyLive
    /\ keyLive' = FALSE
    /\ UNCHANGED <<bot, rows, exVars, task, passVars, req, histVars>>

-----------------------------------------------------------------------------
(* The API: each request reads the bot, calls the exchange and commits.    *)

Found == bot.life \in {"ACTIVE", "STOPPED", "CLOSED"} /\ ~bot.deleted

\* What the request keeps of the row it has read.
Reads(r, op, at0) ==
    req' = [req EXCEPT ![r] = [NoRequest EXCEPT
              !.op = op, !.at = at0, !.life = bot.life, !.estate = bot.estate,
              !.ver = bot.ver]]

BeginStop(r) ==
    /\ req[r].op = "none" /\ Found
    /\ bot.life = "ACTIVE" /\ keyLive
    /\ Reads(r, "stop", "cancel")
    /\ UNCHANGED <<dbVars, exVars, task, passVars, histVars>>

BeginClose(r) ==
    /\ req[r].op = "none" /\ Found
    /\ bot.life # "CLOSED" /\ keyLive
    /\ Reads(r, "close", "cancel")
    /\ UNCHANGED <<dbVars, exVars, task, passVars, histVars>>

\* Only an ACTIVE bot's orders are cancelled on the exchange.
BeginDelete(r) ==
    /\ req[r].op = "none" /\ Found
    /\ IF bot.life = "ACTIVE" THEN keyLive /\ Reads(r, "delete", "cancel")
                              ELSE Reads(r, "delete", "commit")
    /\ UNCHANGED <<dbVars, exVars, task, passVars, histVars>>

\* No call of the exchange; a configuration equal to the one read is no
\* change, the version always is.
BeginPatch(r) ==
    /\ req[r].op = "none" /\ Found
    /\ bot.life # "CLOSED" /\ bot.ver < MaxVersion
    /\ \E c \in Configs :
         req' = [req EXCEPT ![r] = [NoRequest EXCEPT
                   !.op = "patch", !.at = "commit", !.life = bot.life,
                   !.estate = bot.estate, !.ver = bot.ver,
                   !.cfg = IF c = bot.cfg THEN NoConfig ELSE c]]
    /\ UNCHANGED <<dbVars, exVars, task, passVars, histVars>>

CancelAll(r) ==
    /\ req[r].at = "cancel"
    /\ open' = {}
    /\ req' = [req EXCEPT ![r].at =
                 IF req[r].op = "close" THEN "positions" ELSE "commit"]
    /\ UNCHANGED <<dbVars, pos, accepted, placedCfg, task, passVars, histVars>>

\* soft_delete_bot goes on when Binance refuses the key.
SkipCancel(r) ==
    /\ req[r].at = "cancel" /\ req[r].op = "delete" /\ Fault
    /\ req' = [req EXCEPT ![r].at = "commit"]
    /\ UNCHANGED <<dbVars, exVars, task, passVars, lossVars, numberVars>>

ReadPositions(r) ==
    /\ req[r].at = "positions"
    /\ req' = [req EXCEPT ![r].size = pos,
                          ![r].at = IF pos = 0 THEN "commit" ELSE "reduce"]
    /\ UNCHANGED <<dbVars, exVars, task, passVars, histVars>>

\* Mutant: the order is not capped by the position that is left.
ReduceUncapped(r) ==
    /\ req[r].at = "reduce"
    /\ pos' = pos - req[r].size
    /\ req' = [req EXCEPT ![r].at = "commit"]
    /\ UNCHANGED <<dbVars, open, accepted, placedCfg, task, passVars, histVars>>

\* The reduce-only market order of the size that was read; a lost reply is
\* retried, and refused once the position is gone.
Reduce(r) ==
    /\ req[r].at = "reduce"
    /\ pos > 0
    /\ pos' = IF req[r].size < pos THEN pos - req[r].size ELSE 0
    /\ \/ req' = [req EXCEPT ![r].at = "commit"] /\ UNCHANGED faults
       \/ Fault /\ UNCHANGED req
    /\ UNCHANGED <<dbVars, open, accepted, placedCfg, task, passVars, lossVars, numberVars>>

\* Mutant: PATCH leaves config_version alone.
CommitSameVersion(r) ==
    /\ req[r].at = "commit" /\ req[r].op = "patch" /\ ~sess.locked
    /\ bot' = [bot EXCEPT !.cfg = IF req[r].cfg # NoConfig THEN req[r].cfg ELSE @]
    /\ req' = [req EXCEPT ![r] = NoRequest]
    /\ UNCHANGED <<rows, keyLive, exVars, task, passVars, histVars>>

\* The write of the columns the request changed.  It waits while the pass has
\* updated the row in an open transaction.
CommitRequest(r) ==
    /\ req[r].at = "commit" /\ ~sess.locked
    /\ LET q == req[r]
           halts == q.op \in {"stop", "close"} \/ (q.op = "delete" /\ q.life = "ACTIVE")
       IN bot' = [bot EXCEPT
                    !.life = IF q.op = "close" THEN "CLOSED"
                             ELSE IF halts THEN "STOPPED" ELSE @,
                    !.estate = IF halts /\ q.estate # "STOPPED" THEN "STOPPED" ELSE @,
                    !.deleted = @ \/ q.op = "delete",
                    !.ver = IF q.op = "patch" THEN q.ver + 1 ELSE @,
                    !.cfg = IF q.cfg # NoConfig THEN q.cfg ELSE @]
    /\ IF req[r].op = "patch" THEN Gives(req[r].ver + 1, bot'.cfg) ELSE UNCHANGED given
    /\ req' = [req EXCEPT ![r] = NoRequest]
    /\ UNCHANGED <<rows, keyLive, exVars, task, passVars, lossVars, restarts, faults>>

\* The request fails before it commits: a call raises, or the process dies.
\* A refused reduce-only order needs no injected failure.
RequestFails(r) ==
    /\ req[r].op # "none"
    /\ IF req[r].at = "reduce" /\ pos = 0 THEN UNCHANGED faults ELSE Fault
    /\ req' = [req EXCEPT ![r] = NoRequest]
    /\ UNCHANGED <<dbVars, exVars, task, passVars, lossVars, numberVars>>

-----------------------------------------------------------------------------
PassStep ==
    \/ Sync \/ RestartReadsPosition \/ RestartReadsOrders \/ RestartGrid
    \/ SkipRecorded \/ ReuseRow \/ AddRow \/ AddRowConflicts
    \/ PlaceAck \/ PlaceLost \/ PlaceUnreached \/ PlaceRejected \/ CallFails

EngineStep == BeginPass \/ EndTask \/ PassStep \/ CommitPass \/ HandleError

Supervision == SupervisorStart \/ SupervisorCancel

Environment == EngineCrash \/ EngineStarts \/ Fill \/ Flatten \/ DeleteApiKey

RequestStep(r) ==
    \/ BeginStop(r) \/ BeginClose(r) \/ BeginDelete(r) \/ BeginPatch(r)
    \/ CancelAll(r) \/ SkipCancel(r) \/ ReadPositions(r) \/ Reduce(r)
    \/ CommitRequest(r) \/ RequestFails(r)

Next ==
    \/ BeginCreate \/ CommitCreate \/ CreateAborted
    \/ EngineStep \/ Supervision \/ Environment
    \/ \E r \in Requests : RequestStep(r)

Spec == Init /\ [][Next]_vars

\* The asyncio loop runs every task that is ready, calls of the exchange time
\* out and the supervisor polls every 10 s while its process runs; nothing makes
\* the market, the users, a failure or a new start of the process happen.
FairSpec == Spec /\ WF_vars(EngineStep) /\ WF_vars(Supervision)

-----------------------------------------------------------------------------
(* Properties.                                                             *)

\* Every variable has its type; the position is never oversold.
TypeOK ==
    /\ bot \in BotRow
    /\ rows \in [Cid -> RowState]
    /\ keyLive \in BOOLEAN
    /\ open \subseteq Cid /\ pos \in Nat
    /\ accepted \in [Cid -> Nat]
    /\ placedCfg \in [Cid -> Configs \cup {NoConfig}]
    /\ task \in {"none", "live", "down"}
    /\ at \in PassPoint /\ sess \in Session
    /\ view \in [Cid -> RowState] /\ pending \subseteq Cid /\ sent \subseteq Cid
    /\ req \in [Requests -> Request]
    /\ unheard \in [Cid -> Nat] /\ forgotten \in [Cid -> Nat]
    /\ given \in [Version -> SUBSET (Configs \cup {NoConfig})]
    /\ restarts \in Nat /\ faults \in Nat

\* The database never claims an order the exchange did not take: a row with
\* an exchange_order_id stands for an accepted order (_ensure_grid_once skips
\* the level for ever on the strength of it).
NoPhantomOrder ==
    \A c \in Cid : rows[c] = "ex" => accepted[c] >= 1

\* Every time an order is sent again it is for one of the reasons the code
\* cannot see: a lost reply, a rolled-back session, a row deleted with its grid.
DuplicatesAccounted ==
    \A c \in Cid : accepted[c] <= 1 + unheard[c] + forgotten[c]

\* An order whose exchange id is committed is sent again by no pass, whatever
\* happens in between, unless that very pass re-creates the grid.
RecordedNotResent ==
    [][\A c \in Cid : accepted'[c] > accepted[c] /\ rows[c] = "ex"
                      => sess.restarted]_vars

\* A pass of the engine that commits leaves no open order the database does
\* not know: what an earlier pass lost is found again by the sync.
CommittedPassKnowsOpenOrders ==
    [][CommitPass => \A c \in open : rows'[c] = "ex"]_vars

\* An order of the bot's version was placed with the bot's configuration, unless
\* both were given that version number: the re-creation of the grid and PATCH,
\* or two PATCHes, count on from a version they have read earlier, and a
\* re-creation that is rolled back leaves its orders to the next holder of its
\* number.  Nothing else, in particular no PATCH during a pass, lets a bot go on
\* with orders of a configuration it no longer has.
PlacedWithCurrentConfig ==
    Found => \A l \in Level :
        LET c == placedCfg[<<bot.ver, l>>]
        IN c \in {NoConfig, bot.cfg} \/ {c, bot.cfg} \subseteq given[bot.ver]

\* Stop, close and delete are never undone, whatever pass, error handler,
\* restart or concurrent request was under way.
NeverReactivated ==
    [][bot.life # "ABSENT" /\ ~Tracked => ~Tracked']_vars

\* The engine leaves a bot alone for good once it is stopped, closed, deleted.
Quiesces ==
    (bot.life \in {"STOPPED", "CLOSED", "GONE"} \/ bot.deleted) ~> [](task # "live")

\* The engine's process is gone for good: what follows is promised only while
\* somebody starts it again after each crash.
EngineGone == <>[](task = "down")

\* A crash of the engine that is started again, or a return of the task, never
\* leaves an active bot without one.
ActiveIsServed ==
    EngineGone \/ []<>(task = "live" \/ ~Tracked)

\* After a single failure, a crash that somebody mends included, an active bot
\* whose key works sees its whole grid recorded again and again: later passes
\* make up for the failed one.
AllRecorded == \A l \in Level : rows[<<bot.ver, l>>] = "ex"
Converges == EngineGone \/ []<>(~Tracked \/ ~keyLive \/ AllRecorded)

\* What keeps passes short enough for that: each step of a pass, failed attempts
\* included, leaves it less to do, and nothing but a new pass adds to it.  Rest
\* counts the steps that a pass may have left.
Calls == (Legs - sess.idx) * (Attempts + 1)
Rest ==
    CASE at = "sync"    -> Calls + Attempts + 6
      [] at = "rpos"    -> Calls + Attempts + 5
      [] at = "ropen"   -> Calls + Attempts + 4
      [] at = "rcancel" -> Calls + Attempts + 3
      [] at = "row"     -> Calls + Attempts + 2
      [] at = "place"   -> Calls + Attempts + 1 - sess.tries
      [] at = "commit"  -> 1
      [] OTHER          -> 0
RestBounded == Rest \in 0 .. Legs * (Attempts + 1) + Attempts + 6
PassesShorten ==
    [][(PassStep => Rest' < Rest) /\ (Rest' > Rest => BeginPass \/ BeginCreate)]_vars

-----------------------------------------------------------------------------
(* The abstract specification that the engine implements.                  *)

Ledger == INSTANCE OrderLedger WITH
    Orders     <- Cid,
    taken      <- accepted,
    excused    <- [c \in Cid |-> unheard[c] + forgotten[c]],
    book       <- {c \in Cid : rows[c] = "ex"},
    leaving    <- {c \in Cid : sess.restarted /\ rows[c] = "ex"}

\* Whatever passes, requests, failures and crashes do, the orders of the bot
\* follow the ledger: each step of the engine is a step of it or none.
FollowsLedger == Ledger!Spec

-----------------------------------------------------------------------------
(* The inductive invariant behind the safety properties.                   *)

InPass == at \notin {"idle", "error"}

\* Who is in a pass, and what a session holds before it places anything.
PassShape ==
    /\ ~InPass => sess = NoSession /\ view = NoRows /\ pending = {} /\ sent = {}
    /\ InPass => sess.by \in {"engine", "create"}
    /\ at \in {"sync", "rpos", "ropen", "rcancel"} => ~sess.restarted /\ sent = {}
    /\ sess.by = "create" => bot.life = "ABSENT"
    /\ sess.by = "engine" => bot.life # "ABSENT"
    /\ bot.life = "ABSENT" => rows = NoRows
    /\ \A r \in Requests : /\ req[r].op # "none" => bot.life # "ABSENT"
                           /\ req[r].at # "idle" => req[r].op # "none"

\* An exchange id, in the database or in the session, is an accepted order's;
\* the session knows what the database knows and what it was told itself.
Knowledge ==
    /\ at = "place" => view[Current] = "noex"
    /\ \A c \in Cid :
         /\ rows[c] = "ex" \/ view[c] = "ex" \/ c \in pending \cup open
            => accepted[c] >= 1
         /\ c \in sent => view[c] = "ex"
         /\ InPass /\ ~sess.restarted /\ rows[c] = "ex" => view[c] = "ex"

\* The engine's session knows every open order, but for one whose reply it is
\* still waiting for.
OpenKnown ==
    sess.by = "engine" /\ at # "sync" =>
        \A c \in open : \/ view[c] = "ex" \/ c \in pending
                        \/ at = "place" /\ c = Current

\* The one acceptance of an order that is on record.
Recorded(c) == c \in sent \/ (~sess.restarted /\ rows[c] = "ex")
Account ==
    \A c \in Cid :
        accepted[c] <= unheard[c] + forgotten[c] + (IF Recorded(c) THEN 1 ELSE 0)

SafetyInv == PassShape /\ Knowledge /\ OpenKnown /\ Account

\* The attempts of the order a pass has come to.
TriesLeft ==
    /\ at = "place" => sess.tries < Attempts
    /\ at \in {"sync", "rpos", "ropen", "rcancel", "row"} => sess.tries = 0

\* What the ledger needs besides: acknowledgements in hand are of orders that
\* are not on record, and create_bot, which never re-creates a grid, ends its
\* pass with the last leg acknowledged or with an exception caught.
LedgerShape ==
    /\ \A c \in sent : ~sess.restarted => rows[c] # "ex"
    /\ sess.by = "create" =>
         /\ sess.ver = 1 /\ ~sess.restarted /\ at # "rcancel"
         /\ at \in {"sync", "rpos", "ropen"} => view = NoRows
         /\ at = "commit" /\ ~sess.failed => view[<<1, Legs>>] = "ex"

\* A session works on a configuration its version number was given to, orders
\* are placed by such sessions, and the bot's row always has such a pair; only
\* a PATCH of a bot that exists brings another configuration.
Exists == bot.life \notin {"ABSENT", "GONE"}
NumbersGiven ==
    /\ InPass => sess.cfg \in given[sess.ver]
    /\ Exists => bot.cfg \in given[bot.ver]
    /\ \A c \in Cid : placedCfg[c] \in given[c[1]] \cup {NoConfig}
    /\ \A r \in Requests : /\ req[r].op # "none" => Exists
                           /\ req[r].op # "patch" => req[r].cfg = NoConfig

-----------------------------------------------------------------------------
(* What the documentation says and the code does not do.                   *)

\* "idempotent grid placement": the market entry of a version executes once,
\* unless a reply was lost.
EntryPlacedOnce ==
    \A v \in Version : accepted[<<v, 0>>] <= 1 + unheard[<<v, 0>>]

\* Stop cancels the orders: a STOPPED bot has none open.
StoppedHasNoOpenOrders == bot.life = "STOPPED" => open = {}
=============================================================================

----------------------------- MODULE SharedSymbol -----------------------------
(***************************************************************************)
(* Several active bots on one symbol of one exchange account.  Each runs   *)
(* the engine pass of BotEngine (bot_engine/loop.py) in a transaction of   *)
(* its own, and meets the others in three places: the symbol's open orders *)
(* and position, which do not say whose they are; the unique key of        *)
(* orders.client_order_id; and cancel_all_orders, which works on a symbol. *)
(*                                                                         *)
(* A pass that fails is rolled back and tried again.  Retries inside a     *)
(* call, the engine's error columns, creation and PATCH are BotEngine's    *)
(* matter; partial fills, and the row updates they cause, are left out.    *)
(***************************************************************************)
EXTENDS Integers, FiniteSets

CONSTANTS
    Bots,           \* the bots on the symbol
    AutoRestart,    \* those with auto_restart = true
    NoBot,          \* no bots row (an order without an orders row)
    Stoppable,      \* those whose users send a stop request
    Legs,           \* grid_orders_count
    MaxVersion,     \* bound: config versions explored
    MaxAccept,      \* bound: margin, acceptances of one client id
    MaxFaults       \* bound: injected failures and crashes

ASSUME BotsAssumption ==
    AutoRestart \subseteq Bots /\ Stoppable \subseteq Bots /\ NoBot \notin Bots
ASSUME LegsAssumption == Legs \in Nat \ {0}
ASSUME BoundsAssumption ==
    MaxVersion \in Nat \ {0} /\ MaxAccept \in Nat /\ MaxFaults \in Nat

VARIABLES
    \* PostgreSQL, committed
    life,       \* lifecycle_status of each bot
    ver,        \* config_version of each bot
    owner,      \* bot_id of each order's row; every row has an exchange id
    \* Binance
    open,       \* client ids of the symbol's open orders
    flat,       \* the symbol has no position
    accepted,   \* how often each client id was accepted (history)
    \* the engine process
    at,         \* where each bot's pass is
    sess,       \* what each pass's session holds
    up,         \* the process runs
    \* the API processes
    stopping,   \* a stop request of the bot has cancelled and not committed
    \* bookkeeping
    excused,    \* how often each id's acceptance was lost to the database:
                \* no reply, a rollback, a row deleted by another bot (history)
    faults      \* failures injected so far

dbVars == <<life, ver, owner>>
exVars == <<open, flat, accepted>>
vars   == <<dbVars, exVars, at, sess, up, stopping, excused, faults>>

Version == 1..MaxVersion
Level   == 0..Legs
Cid     == Bots \X Version \X Level           \* client_order_id
Owner(c) == c[1]                              \* the bot the id is made for

PassPoint == {"idle", "sync", "rpos", "ropen", "rcancel", "row", "place", "commit"}
Session   == [ver : Version, idx : Level, new : SUBSET Cid, held : SUBSET Cid,
              heard : SUBSET Cid, wait : SUBSET Cid, restarted : BOOLEAN]
NoSession == [ver |-> 1, idx |-> 0, new |-> {}, held |-> {}, heard |-> {},
              wait |-> {}, restarted |-> FALSE]

\* Bots whose creation has committed and whose first pass failed at once.
Init ==
    /\ life = [b \in Bots |-> "ACTIVE"] /\ ver = [b \in Bots |-> 1]
    /\ owner = [c \in Cid |-> NoBot]
    /\ open = {} /\ flat = TRUE
    /\ accepted = [c \in Cid |-> 0]
    /\ at = [b \in Bots |-> "idle"] /\ sess = [b \in Bots |-> NoSession]
    /\ up = TRUE /\ stopping = [b \in Bots |-> FALSE]
    /\ excused = [c \in Cid |-> 0] /\ faults = 0

-----------------------------------------------------------------------------
(* Shared pieces.                                                          *)

Fault == faults < MaxFaults /\ faults' = faults + 1

Goto(b, p) == at' = [at EXCEPT ![b] = p]

\* The client id bot b's pass is working on.
Current(b) == <<b, sess[b].ver, sess[b].idx>>

Excuse(ids) ==
    excused' = [c \in Cid |-> IF c \in ids THEN excused[c] + 1 ELSE excused[c]]

\* The session ends without a commit, and what it had heard is forgotten.
RollBack(b) ==
    /\ Goto(b, "idle")
    /\ sess' = [sess EXCEPT ![b] = NoSession]
\* Mutant: the session is not closed and keeps its transaction open.
PassFailsHolding(b) ==
    Goto(b, "idle") /\ UNCHANGED sess /\ Excuse(sess[b].heard)
PassFails(b) == RollBack(b) /\ Excuse(sess[b].heard)

\* Rows bot b's session has deleted, the rows it sees, and the keys other
\* sessions must wait for: rows inserted or deleted and not committed yet.
Deleted(b) == {c \in Cid : sess[b].restarted /\ owner[c] = b}
Seen(b)    == ({c \in Cid : owner[c] # NoBot} \ Deleted(b)) \cup sess[b].held
Locked(b)  == Deleted(b) \cup sess[b].held
Taken(b, c) == \E d \in Bots \ {b} : c \in Locked(d)

-----------------------------------------------------------------------------
(* The pass.                                                               *)

\* A task sleeps 5 s or more between two passes: inserts that waited for its
\* last transaction have been woken by then.
BeginPass(b) ==
    /\ up /\ at[b] = "idle" /\ life[b] = "ACTIVE"
    /\ \A d \in Bots : \A c \in sess[d].wait : Taken(d, c)
    /\ Goto(b, "sync")
    /\ sess' = [sess EXCEPT ![b] = [NoSession EXCEPT !.ver = ver[b]]]
    /\ UNCHANGED <<dbVars, exVars, stopping, up, excused, faults>>

\* Mutant: every open order is added, recorded or not.
SyncAll(b) ==
    /\ at[b] = "sync"
    /\ sess' = [sess EXCEPT ![b].new = open]
    /\ Goto(b, IF b \in AutoRestart THEN "rpos" ELSE "row")
    /\ UNCHANGED <<dbVars, exVars, stopping, up, excused, faults>>

\* Open orders of the symbol that have no row yet are given one, as orders of
\* the bot whose pass this is, and stay unflushed.
Sync(b) ==
    /\ at[b] = "sync"
    /\ sess' = [sess EXCEPT ![b].new = open \ Seen(b)]
    /\ Goto(b, IF b \in AutoRestart THEN "rpos" ELSE "row")
    /\ UNCHANGED <<dbVars, exVars, stopping, up, excused, faults>>

RestartReadsPosition(b) ==
    /\ at[b] = "rpos"
    /\ Goto(b, IF flat THEN "ropen" ELSE "row")
    /\ UNCHANGED <<dbVars, exVars, sess, stopping, up, excused, faults>>

\* Mutant: orders that are still open do not keep the grid.
RestartIgnoresOrders(b) ==
    /\ at[b] = "ropen"
    /\ Goto(b, IF (\E c \in Cid : owner[c] = b) /\ ver[b] < MaxVersion
               THEN "rcancel" ELSE "row")
    /\ UNCHANGED <<dbVars, exVars, sess, stopping, up, excused, faults>>

RestartReadsOrders(b) ==
    /\ at[b] = "ropen"
    /\ Goto(b, IF open = {} /\ (\E c \in Cid : owner[c] = b) /\ ver[b] < MaxVersion
               THEN "rcancel" ELSE "row")
    /\ UNCHANGED <<dbVars, exVars, sess, stopping, up, excused, faults>>

\* Mutant: the new grid keeps the version.
RestartSameVersion(b) ==
    /\ at[b] = "rcancel"
    /\ open' = {}
    /\ sess' = [sess EXCEPT ![b].restarted = TRUE]
    /\ Goto(b, "row")
    /\ UNCHANGED <<dbVars, flat, accepted, stopping, up, excused, faults>>

\* cancel_all_orders of the symbol; the rows with this bot_id are deleted.
RestartGrid(b) ==
    /\ at[b] = "rcancel"
    /\ open' = {}
    /\ sess' = [sess EXCEPT ![b].ver = @ + 1, ![b].restarted = TRUE]
    /\ Goto(b, "row")
    /\ UNCHANGED <<dbVars, flat, accepted, stopping, up, excused, faults>>

\* The next order of the grid, or the end of the bootstrap.
Advance(b) ==
    IF sess[b].idx = Legs THEN Goto(b, "commit") ELSE Goto(b, "row")
\* Mutant: the count goes one too far.
NextIdxPast(b) == sess[b].idx + 1
NextIdx(b) == IF sess[b].idx = Legs THEN Legs ELSE sess[b].idx + 1

SkipRecorded(b) ==
    /\ at[b] = "row" /\ Current(b) \in Seen(b)
    /\ Advance(b)
    /\ sess' = [sess EXCEPT ![b].idx = NextIdx(b)]
    /\ UNCHANGED <<dbVars, exVars, stopping, up, excused, faults>>

\* add() and flush(), which sends every unflushed row.  A client id that the
\* session's own sync has added is added again: the flush fails.
AddRow(b) ==
    /\ at[b] = "row" /\ Current(b) \notin Seen(b)
    /\ IF Current(b) \in sess[b].new
       THEN PassFails(b)
       ELSE /\ sess' = [sess EXCEPT ![b].new = @ \cup {Current(b)}]
            /\ Goto(b, "place") /\ UNCHANGED excused
    /\ UNCHANGED <<dbVars, exVars, stopping, up, faults>>

-----------------------------------------------------------------------------
(* The flush: rows are inserted one after the other, the new order's last; *)
(* an insert waits for the transaction that holds its key.                 *)

WaitsFor(b, d) == d # b /\ sess[b].wait \cap Locked(d) # {}

Flushing(b) == at[b] \in {"place", "commit"} /\ sess[b].new # {}

NextRows(b) ==
    IF sess[b].wait # {} THEN sess[b].wait
    ELSE IF at[b] = "place" /\ sess[b].new # {Current(b)} THEN sess[b].new \ {Current(b)}
    ELSE sess[b].new

WaitForKey(b) ==
    /\ Flushing(b) /\ sess[b].wait = {}
    /\ \E c \in NextRows(b) : Taken(b, c) /\ sess' = [sess EXCEPT ![b].wait = {c}]
    /\ UNCHANGED <<dbVars, exVars, at, stopping, up, excused, faults>>

\* Mutants: a key is not checked against committed rows; or not against those
\* of open transactions.
InsertRowUnchecked(b) ==
    /\ Flushing(b)
    /\ \E c \in NextRows(b) :
         /\ ~Taken(b, c)
         /\ sess' = [sess EXCEPT ![b].new = @ \ {c}, ![b].held = @ \cup {c},
                                 ![b].wait = {}]
    /\ UNCHANGED <<dbVars, exVars, at, stopping, up, excused, faults>>
InsertRowDirty(b) ==
    /\ Flushing(b)
    /\ \E c \in NextRows(b) \ Seen(b) :
         sess' = [sess EXCEPT ![b].new = @ \ {c}, ![b].held = @ \cup {c},
                              ![b].wait = {}]
    /\ UNCHANGED <<dbVars, exVars, at, stopping, up, excused, faults>>

InsertRow(b) ==
    /\ Flushing(b)
    /\ \E c \in NextRows(b) \ Seen(b) :
         /\ ~Taken(b, c)
         /\ sess' = [sess EXCEPT ![b].new = @ \ {c}, ![b].held = @ \cup {c},
                                 ![b].wait = {}]
    /\ UNCHANGED <<dbVars, exVars, at, stopping, up, excused, faults>>

\* uq_orders_client_order_id: another bot has committed the row meanwhile.
InsertConflicts(b) ==
    /\ Flushing(b)
    /\ \E c \in NextRows(b) \cap Seen(b) : ~Taken(b, c)
    /\ PassFails(b)
    /\ UNCHANGED <<dbVars, exVars, stopping, up, faults>>

\* Transactions that wait for each other in a ring: PostgreSQL aborts one.
Ring(S) == \A d \in S : (\E e \in S : WaitsFor(d, e)) /\ (\E e \in S : WaitsFor(e, d))
DeadlockAborts(b) ==
    /\ \E S \in SUBSET Bots : b \in S /\ Ring(S)
    /\ PassFails(b)
    /\ UNCHANGED <<dbVars, exVars, stopping, up, faults>>

-----------------------------------------------------------------------------
(* The exchange, as in BotEngine.                                          *)

Acceptable(c) == accepted[c] < MaxAccept /\ c \notin open

Accept(c) ==
    /\ Acceptable(c)
    /\ accepted' = [accepted EXCEPT ![c] = @ + 1]
    /\ IF c[3] = 0 THEN flat' = FALSE /\ UNCHANGED open
                   ELSE open' = open \cup {c} /\ UNCHANGED flat

Placing(b) == at[b] = "place" /\ sess[b].new = {}

PlaceAck(b) ==
    /\ Placing(b)
    /\ Accept(Current(b))
    /\ sess' = [sess EXCEPT ![b].heard = @ \cup {Current(b)}, ![b].idx = NextIdx(b)]
    /\ Advance(b)
    /\ UNCHANGED <<dbVars, stopping, up, excused, faults>>

\* The exchange took the order and no reply came.
PlaceLost(b) ==
    /\ Placing(b) /\ Fault
    /\ Accept(Current(b))
    /\ RollBack(b)
    /\ Excuse(sess[b].heard \cup {Current(b)})
    /\ UNCHANGED <<dbVars, stopping, up>>

\* Mutant: the error is caught where the order is placed, and the grid goes on.
PlaceRejectedIgnored(b) ==
    /\ Placing(b)
    /\ IF Acceptable(Current(b)) THEN Fault ELSE UNCHANGED faults
    /\ Advance(b)
    /\ sess' = [sess EXCEPT ![b].idx = NextIdx(b)]
    /\ UNCHANGED <<dbVars, exVars, stopping, up, excused>>

\* The exchange refuses the order, or was not reached.
PlaceRejected(b) ==
    /\ Placing(b)
    /\ IF Acceptable(Current(b)) THEN Fault ELSE UNCHANGED faults
    /\ PassFails(b)
    /\ UNCHANGED <<dbVars, exVars, stopping, up>>

\* Any other call of the pass gives up; cancel_all_orders may be done.
CallFails(b) ==
    /\ \/ at[b] \in {"sync", "rpos", "ropen"} /\ UNCHANGED open
       \/ at[b] = "rcancel" /\ open' \in {open, {}}
    /\ Fault
    /\ PassFails(b)
    /\ UNCHANGED <<dbVars, flat, accepted, stopping, up>>

\* Rows that a re-created grid leaves behind are gone; where one stood for
\* another bot's order, that bot no longer knows of it.
CommitPass(b) ==
    /\ at[b] = "commit" /\ sess[b].new = {}
    /\ owner' = [c \in Cid |-> IF c \in sess[b].held THEN b
                               ELSE IF c \in Deleted(b) THEN NoBot ELSE owner[c]]
    /\ ver' = [ver EXCEPT ![b] = sess[b].ver]
    /\ Excuse({c \in Deleted(b) \ sess[b].held : Owner(c) # b})
    /\ RollBack(b)
    /\ UNCHANGED <<life, exVars, stopping, up, faults>>

-----------------------------------------------------------------------------
(* The supervisor, the process, the market and the API.                    *)

\* The task of a bot that is not ACTIVE is cancelled wherever it is.
SupervisorCancel(b) ==
    /\ life[b] # "ACTIVE" /\ at[b] # "idle"
    /\ PassFails(b)
    /\ UNCHANGED <<dbVars, exVars, stopping, up, faults>>

\* All tasks live in one process, and nothing in the deployment starts it again
\* by itself.
EngineCrash ==
    /\ up /\ up' = FALSE /\ Fault
    /\ at' = [b \in Bots |-> "idle"] /\ sess' = [b \in Bots |-> NoSession]
    /\ Excuse(UNION {sess[b].heard : b \in Bots})
    /\ UNCHANGED <<dbVars, exVars, stopping>>

EngineStarts ==
    /\ ~up /\ up' = TRUE
    /\ UNCHANGED <<dbVars, exVars, at, sess, stopping, excused, faults>>

Fill ==
    /\ \E c \in open : open' = open \ {c}
    /\ flat' = FALSE
    /\ UNCHANGED <<dbVars, accepted, at, sess, stopping, up, excused, faults>>

\* The position is closed, by its owner or by close_bot of any bot.
Flatten ==
    /\ ~flat /\ flat' = TRUE
    /\ UNCHANGED <<dbVars, open, accepted, at, sess, stopping, up, excused, faults>>

\* stop_bot reads an ACTIVE bot and cancels the open orders of its symbol,
\* whichever bot they are of.
StopCancels(b) ==
    /\ b \in Stoppable
    /\ ~stopping[b] /\ life[b] = "ACTIVE"
    /\ open' = {}
    /\ stopping' = [stopping EXCEPT ![b] = TRUE]
    /\ UNCHANGED <<dbVars, flat, accepted, at, sess, up, excused, faults>>

CommitStop(b) ==
    /\ stopping[b]
    /\ life' = [life EXCEPT ![b] = "STOPPED"]
    /\ stopping' = [stopping EXCEPT ![b] = FALSE]
    /\ UNCHANGED <<ver, owner, exVars, at, sess, up, excused, faults>>

\* The request fails before it commits: what it cancelled stays cancelled.
StopFails(b) ==
    /\ stopping[b] /\ Fault
    /\ stopping' = [stopping EXCEPT ![b] = FALSE]
    /\ UNCHANGED <<dbVars, exVars, at, sess, up, excused>>

-----------------------------------------------------------------------------
PassStep(b) ==
    \/ BeginPass(b) \/ Sync(b) \/ RestartReadsPosition(b) \/ RestartReadsOrders(b)
    \/ RestartGrid(b) \/ SkipRecorded(b) \/ AddRow(b)
    \/ WaitForKey(b) \/ InsertRow(b) \/ InsertConflicts(b) \/ DeadlockAborts(b)
    \/ PlaceAck(b) \/ PlaceLost(b) \/ PlaceRejected(b) \/ CallFails(b)
    \/ CommitPass(b)

StopStep(b) == StopCancels(b) \/ CommitStop(b) \/ StopFails(b)

Next ==
    \/ \E b \in Bots : PassStep(b) \/ SupervisorCancel(b) \/ StopStep(b)
    \/ EngineCrash \/ EngineStarts \/ Fill \/ Flatten

Spec == Init /\ [][Next]_vars

\* Every task that is ready runs, and PostgreSQL looks for deadlocks; nobody is
\* bound to start the process again.
FairSpec == Spec /\ \A b \in Bots : WF_vars(PassStep(b)) /\ WF_vars(SupervisorCancel(b))

-----------------------------------------------------------------------------
(* Properties.                                                             *)

TypeOK ==
    /\ life \in [Bots -> {"ACTIVE", "STOPPED"}] /\ ver \in [Bots -> Version]
    /\ owner \in [Cid -> Bots \cup {NoBot}]
    /\ open \subseteq Cid /\ flat \in BOOLEAN
    /\ accepted \in [Cid -> Nat] /\ excused \in [Cid -> Nat]
    /\ at \in [Bots -> PassPoint] /\ sess \in [Bots -> Session]
    /\ up \in BOOLEAN /\ stopping \in [Bots -> BOOLEAN]
    /\ faults \in Nat

\* Company does not make a bot repeat an order: it is sent again only when the
\* reply was lost, its session rolled back, or its row, adopted by another
\* bot, deleted with that bot's grid.  A bot's own re-created grid has new ids.
DuplicatesAccounted == \A c \in Cid : accepted[c] <= 1 + excused[c]

\* The sync gives another bot's order its own bot_id only if that bot's pass
\* has lost the order, or has re-created its grid since: a pass that merely
\* has not committed yet keeps its orders.
AdoptedOnlyLost ==
    \A c \in Cid : owner[c] \notin {NoBot, Owner(c)} =>
        excused[c] > 0 \/ c[2] < ver[Owner(c)]

\* An order whose row is committed, under whichever bot, is not sent again,
\* unless by a pass that re-creates the grid it is of.
RecordedNotResent ==
    [][\A c \in Cid : accepted'[c] > accepted[c] /\ owner[c] # NoBot
                      => sess[Owner(c)].restarted /\ owner[c] = Owner(c)]_vars

\* The cancel_all_orders of a re-creation never finds an order of the bot it
\* is made for: what it cancels was placed by another since the symbol looked
\* flat.
RestartCancelsOnlyOthers ==
    [][\A b \in Bots : RestartGrid(b) => \A c \in open : Owner(c) # b]_vars

\* A flush that waits for another bot's transaction does not wait for ever.
FlushEnds == \A b \in Bots : Flushing(b) ~> ~Flushing(b)

\* After a single failure, a crash of a process that is started again included,
\* every bot that stays active has its grid recorded, however often the others
\* made its passes fail.
GridRecorded(b) == \A l \in Level : owner[<<b, ver[b], l>>] # NoBot
EngineGone == <>[]~up
GridsRecorded ==
    EngineGone \/ \A b \in Bots : []<>(life[b] # "ACTIVE" \/ GridRecorded(b))

-----------------------------------------------------------------------------
(* The abstract specification that the bots on a symbol implement.         *)

Ledger == INSTANCE OrderLedger WITH
    Orders  <- Cid,
    taken   <- accepted,
    excused <- excused,
    book    <- {c \in Cid : owner[c] # NoBot},
    leaving <- UNION {Deleted(b) : b \in Bots}

\* Company changes nothing about the ledger that each bot alone follows: every
\* step of any of them, on the one book they share, is a step of it or none.
FollowsLedger == Ledger!Spec

-----------------------------------------------------------------------------
(* The inductive invariant behind the safety properties.                   *)

\* What a pass holds at each point, and how it stands to its bot's version.
Shape(b) ==
    /\ at[b] = "idle" => sess[b] = NoSession
    /\ at[b] # "idle" => sess[b].ver = ver[b] + (IF sess[b].restarted THEN 1 ELSE 0)
    /\ at[b] \in {"sync", "rpos", "ropen", "rcancel"} =>
         ~sess[b].restarted /\ sess[b].held = {} /\ sess[b].heard = {} /\ sess[b].wait = {}
    /\ at[b] = "rcancel" => ver[b] < MaxVersion
    /\ at[b] = "place" => Current(b) \in sess[b].new \cup sess[b].held
    /\ sess[b].heard \subseteq sess[b].held /\ sess[b].wait \subseteq sess[b].new
    /\ \A c \in sess[b].heard : /\ Owner(c) = b /\ c[2] = sess[b].ver
                                /\ c[3] < sess[b].idx \/ at[b] = "commit"
PassShape == \A b \in Bots : Shape(b)

\* A key is held by one transaction, against no committed row but one that
\* this transaction deletes.
Keys ==
    \A b \in Bots :
        /\ \A c \in sess[b].held : owner[c] = NoBot \/ c \in Deleted(b)
        /\ \A d \in Bots \ {b} : sess[b].held \cap sess[d].held = {}

\* What is open, or found open by the sync of another bot, was accepted; and
\* what that bot has inserted was lost.
Lost(c) == excused[c] > 0 \/ c[2] < ver[Owner(c)]
Found ==
    /\ \A c \in open : accepted[c] > 0
    /\ \A b \in Bots : \A c \in Cid :
         /\ c \in sess[b].new /\ Owner(c) # b => accepted[c] > 0
         /\ c \in sess[b].held /\ Owner(c) # b => Lost(c)

\* The one acceptance that needs no excuse: heard of in the current pass, or
\* on record for the current version, or of an earlier version.
Settled(c) ==
    \/ c \in sess[Owner(c)].heard
    \/ c[2] < ver[Owner(c)]
    \/ c[2] = ver[Owner(c)] /\ owner[c] # NoBot
Account ==
    \A c \in Cid : accepted[c] <= excused[c] + (IF Settled(c) THEN 1 ELSE 0)

\* A row, committed or inserted or still to be inserted, stands for an order
\* that the exchange has taken, but for the one that is about to be sent.
Sending(b, c) == at[b] = "place" /\ c = Current(b)
Backed ==
    /\ \A c \in Cid : owner[c] # NoBot => accepted[c] > 0
    /\ \A b \in Bots : \A c \in sess[b].new \cup sess[b].held :
         accepted[c] > 0 \/ Sending(b, c)
    /\ \A b \in Bots : \A c \in sess[b].heard : accepted[c] > 0

\* However many flushes wait: one of them waits for the transaction of a pass
\* that is running and not among them, or some of them are in a ring, which
\* DeadlockAborts breaks.  Nobody waits for a transaction that has ended.
NoStall ==
    \A W \in SUBSET Bots :
        W # {} /\ (\A d \in W : \E e \in Bots : WaitsFor(d, e)) =>
            \/ \E d \in W, e \in Bots \ W : WaitsFor(d, e) /\ at[e] # "idle"
            \/ \E S \in SUBSET W : S # {} /\ Ring(S)

\* While a bot is about to cancel, none of its own orders is open.
NoneOwnOpen ==
    \A b \in Bots : at[b] = "rcancel" => \A c \in open : Owner(c) # b
=============================================================================

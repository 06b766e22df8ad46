# Verification of the trading bot

TLA+ modules, TLC configurations and TLAPS proofs for the grid trading bot under
`src/app`. Paths below are relative to `src/`.

The program is a FastAPI service and a separate engine process that share a
PostgreSQL database and a Redis server and trade on Binance USDT-M futures.
Nothing in it locks across a call of the exchange: a request or a pass reads
rows, awaits the exchange for seconds or minutes, and writes afterwards. Most
of what can go wrong, and most of what is modelled here, lies in between.

## 1. The system

| Component | State | Operations | Talks to |
|---|---|---|---|
| Engine pass (`app/bot_engine/loop.py`) | `orders` rows, `bots.engine_state`, `engine_error`, `config_version` | synchronise, restart when flat, place entry and legs, commit, record an error | exchange adapter, database |
| Supervisor (`app/bot_engine/supervisor.py`, `app/workers/bot_engine_main.py`) | `_tasks` | every 10 s start a task for each ACTIVE bot, cancel the tasks of others | engine pass, database |
| Bot service, one bot (`app/services/bot_service.py`) | `bots` rows | create, stop, close, remove, PATCH | exchange adapter, database, the pass (create runs one itself) |
| Bot service, batches (the same file, `app/api/bots.py`) | the session's cache of the user's bots | stop-all, close-all, remove-all | the single operations, with a commit after each |
| Exchange adapter, retries (`app/exchanges/`) | none | place, cancel, positions, open orders, price; `retry_ccxt` | Binance, call gate |
| Call gate (`app/core/exchange_rate_limit.py`) | one Redis counter with a TTL per API key | acquire | Redis |
| Grid and risk check (`app/strategies/grid.py`, `app/services/risk_service.py`) | none | prices, sizes, liquidation price, decision | market prices |
| One-time codes (`app/services/telegram_link_service.py`, `app/services/auth_service.py`) | `telegram_link_codes`, `password_reset_tokens`, `users` | create, use | Telegram bot, e-mail |
| API keys and limits (`app/services/api_key_service.py`, `app/core/rbac.py`, `create_bot`) | `api_keys`, number of ACTIVE bots, `users.role` | create a key, delete a key, create a bot, end a bot, change a role | exchange adapter (key lookup) |
| Registration, login, refresh (`app/services/auth_service.py`, `app/api/auth.py`) | `users`, `refresh_tokens` | register, sign in by password, Google or Telegram, refresh (there is no logout) | Google, e-mail |
| Several bots on one symbol (the same pass, side by side) | open orders and position of the symbol, the unique key of `orders` | as above | each other, through Binance and the database |
| Events, WebSocket, Celery, e-mail, audit | Redis channels, queue | publish, send | everything publishes to them |

What is hard in it:

* **Interleaving.** A stop, a close, a removal or a PATCH runs in another process
  than the pass that trades the same bot; requests overlap with each other.
* **Partial failure.** An order is executed, and the session that would record
  it is rolled back by a later failure, a cancelled task or a dead process.
* **Lost replies.** `retry_ccxt` repeats an order whose reply was lost with the
  same client id, which Binance refuses only while the first one is open.
* **Shared names.** Open orders, position and `cancel_all_orders` belong to a symbol,
  not to a bot; the unique keys of `orders` and `users` make transactions wait for,
  abort or overtake each other.
* **Stale state.** Sessions keep the rows they read (`expire_on_commit=False`,
  `autoflush=False`, `lazy="selectin"`) over many awaits and commits.
* **Redis in two commands.** INCR/EXPIRE and INCR/DECR are not atomic, and the
  counter may expire between them.
* **Arithmetic at its edges.** An effective leverage of 1 and below, a step of
  100 %, the off-by-one between the entry and the first leg.

What makes each component correct is stated as properties in section 3.

## 2. The modules

Each component has a specification `X`, an instance `XMC` for TLC that only adds
definitions for the `.cfg` files, and `XProofs` with its theorems. `PROJECT.json`
maps every definition to its lines. A definition marked `Mutant` is not part of
any specification: it is a variant of a mapped definition, as a plausible mistake
would write it, that the runs are known to catch.

### BotEngine

One bot, the exchange account it trades on, the pass, the supervisor, and the
API requests on this bot. A step ends where the code awaits the exchange or
commits.

| Variables | In the code |
|---|---|
| `bot`, `rows`, `keyLive` | committed rows of `bots`, `orders` (absent / without / with `exchange_order_id`), `api_keys` |
| `open`, `pos` | open limit orders and position at Binance |
| `task`, `at` | the `asyncio.Task` in `_tasks`, and the await the pass has come to |
| `sess`, `view`, `pending`, `sent` | the session of the pass: attributes of the bot, rows as it sees them, rows added but not flushed, acknowledgements not committed |
| `req` | requests in progress, each with the columns it has read |
| `accepted`, `placedCfg`, `unheard`, `forgotten`, `given`, `restarts`, `faults` | history and bounds; `unheard` counts lost replies of an id, `forgotten` acknowledgements rolled back and rows deleted with their grid, `given` the configurations a version number was given to |

`Sync`, `RestartReadsPosition`, `RestartReadsOrders`, `RestartGrid`, `SkipRecorded`,
`ReuseRow`, `AddRow`, `PlaceAck` and their failing counterparts follow
`exchange_bootstrap_for_bot` await by await. `AddRow` is `add()` and `flush()`:
it writes the rows the synchronisation left pending, locks the bot's row if one
of its columns changed, and fails on `uq_orders_client_order_id` when the id is
pending itself (`AddRowConflicts`). A commit writes only the columns that changed
in the session. `CommitCreate` models `db.refresh(bot)` between assignment and
commit; whether it reloads `bot.orders` too depends on the SQLAlchemy version and
is the constant `RefreshCascades`, checked with both values and proved for both.

The market and the owner are environment: orders execute (`Fill`), positions are
closed by hand (`Flatten`), a key is deleted (`DeleteApiKey`), the engine dies
(`EngineCrash`) and is perhaps started again (`EngineStarts`; `docker-compose.yml` has
no restart policy for it). Binance is modelled from how the code uses it: a limit order's
client id must not be that of an open order, a market order executes at once, a
reduce-only order never exceeds the position, and the margin runs out some time
(`MaxAccept`).

### OrderLedger

What the engine promises about the orders of an account, apart from how its passes,
sessions, retries and crashes come about it: an order is taken by the exchange once,
and once more only for each time it was taken and the database did not learn of it or
gave it up; what is booked was taken, and is neither taken again nor struck off the book
before its grid is given up. Four variables (`taken`, `excused`, `book`, and `leaving`,
the booked orders of grids that are given up and not committed) and the actions `Take`,
`Abandon`, `Recreate` and `Book`, each of which may excuse orders that may be excused
(`Excuse`). It is implemented twice, and `FollowsLedger` is the refinement in both:

* `BotEngine!Ledger` takes `accepted`, `unheard + forgotten`, the rows that carry an
  exchange id, and those of them that a session re-creating the grid will delete;
* `SharedSymbol!Ledger` takes `accepted`, `excused`, the ids with a row of any bot, and
  what any of the sessions has deleted. One book for all bots: that they adopt each
  other's orders and delete what they adopted changes nothing about the rules.

`Balanced` is what follows from the rules alone.

### SharedSymbol

Several ACTIVE bots on one symbol, each with the pass of BotEngine in a transaction
of its own. What differs from BotEngine is what they meet in:

| Variables | In the code |
|---|---|
| `owner` | `orders.bot_id` of the committed row of each client id |
| `open`, `flat` | open orders of the symbol, whosever they are; no position |
| `sess[b].new`, `.held`, `.wait` | rows added and not flushed; flushed and not committed, with their keys; the key an INSERT waits for |
| `sess[b].heard`, `.restarted` | acknowledgements not committed; own rows deleted |
| `stopping` | a stop request between its `cancel_all_orders` and its commit |
| `excused` | how often the database lost the knowledge of an order |

`Sync` adopts any open order without a row as an order of the bot that looks, which
is how a bot comes to own another's leg. A flush inserts row by row (`InsertRow`), waits
for keys that an open transaction holds (`WaitForKey`), fails on a committed one
(`InsertConflicts`), and is aborted in a ring of waits (`DeadlockAborts`). Init has
the bots committed and their first pass failed, which is a state their creation
leaves. `BeginPass` assumes the one fact of timing: a task sleeps 5 s or more between
passes (`loop.py:248`), so that an INSERT woken by its last transaction has run.

### BotBatch

The batch requests on all bots of a user, and single requests on the same
bots, at the level of the session: `held` is the status of the objects that
authentication loads through `User.bots`, which commits do not expire and
rollbacks do. `SelectIds` is the query of a batch, `Take` the test of the held
object, `CallSucceeds`/`CallRefused` the exchange, `Write`, `Commit` and `Fails` the
rest of one round of the loop, `Report` and `ReportBreaks` the handler that reads the
objects for audit and response. A batch commits each bot itself; a request of one bot
leaves the commit to `get_db`, which some versions of FastAPI run before the answer and
others after it (see SignIn): `commitFirst` says which, and without it `Answer` precedes
`CommitAnswered`, or `AnswerUnkept` where that commit fails. Whether reloading the user reloads the bots too
is the constant `ReloadCascades`: the run takes TRUE, the theorem both.

### ExchangeCallGate

The counter of one API key. Callers take `Incr`, `Expire` and `Decr` as separate
steps, `Tick` is the clock of Redis, `Abort` a caller that is cancelled or cut off at
an await. `over` are callers that were refused and still owe their DECR; when the
counter expires under them the DECR hits the next one, which `stray` counts.

### GridRisk

`calculate_liquidation_metrics`, one action per level. Decimals are whole numbers:
a step is a number of `D`-ths, prices are multiples of `D^MaxCount`
(`EvenAssumption`), so that every level divides evenly, and a liquidation price is its numerator over 101
times the quantity. The 28 digits of `Decimal` and the two reported digits are not
modelled. The leverage in the request is not used by the calculation and not in
the model.

### OneTimeCodes

The rows of link codes or reset tokens (`kind` says which) in PostgreSQL at READ
COMMITTED: a DELETE takes the rows committed when it starts and waits for those
another transaction has deleted; an UPDATE whose row is gone fails. Link codes may
collide between users, reset tokens never repeat. `info` remembers every row ever
inserted, `replaced` what a creation deleted.

### AccountLimits

Keys and ACTIVE bots of one user against the limits of the user's role. A creation
counts (`Count`, `Full`), for a bot finds its key (`FindKey`), goes on for as long as
the exchange takes and commits; keys are deleted, bots end and the role changes
meanwhile. Labels of deleted keys stay taken, as the unique key has it. `by` remembers
under which role each live key or bot was created, `crowd` how many creations have
overlapped at most.

### SignIn

Accounts and refresh tokens: registration, the three ways to sign in, the rotation of
`refresh_session`, and the Telegram link that changes an account. A request looks for
its account (`Register`, `Login`, `GoogleBySub`, `GoogleByMail`, `TelegramLogin`), perhaps
inserts it (`InsertUser` waits for keys that are not committed and `InsertConflicts` on
committed ones), issues a token, and then commits and answers. In which order depends on
the FastAPI version: up to 0.117 a dependency with `yield` ends after the answer is made
and before it is sent, from 0.118 after it is sent, and `pyproject.toml` allows both
(`fastapi>=0.115.0`). `commitFirst`, chosen in Init, says which. Answers are lost
(`ReplyLost`), commits fail (`CommitFails`). `held` is the token a client would refresh
with; tokens expire in the order they were issued, and `lapsed` is the last that has
(`TokenExpires`), which a refresh refuses as it does revoked ones; `root` is the sign-in
a token goes back to; `doubled`, `cut` and `relinked` are history.

## 3. What is checked

Twelve runs; all sizes are in the `.cfg` files.

| Run | Bounds | Properties |
|---|---|---|
| EnginePass | 2 legs, 1 request, 2 failures, 3 acceptances per id | `TypeOK` (the position is never oversold), `NoPhantomOrder`, `DuplicatesAccounted` |
| EngineReconfigured | 1 leg, 2 requests, 2 configurations of which one re-creates flat grids, 2 versions, 1 re-creation, no injected failure | `PlacedWithCurrentConfig`, `NeverReactivated` |
| EngineLive | 1 leg, 1 request, 1 configuration that re-creates flat grids, 2 versions, 1 re-creation, 1 failure, fairness | `Quiesces`, `ActiveIsServed`, `Converges`, `CommittedPassKnowsOpenOrders`, `FollowsLedger` (the refinement of OrderLedger) |
| Gate | 4 callers, 2 slots, 1 cancellation, fairness | `TypeOK`, `WindowLimit`, `OrphanOnlyByCut`, `SlotsKeepComing` |
| Batch | 3 bots, 2 requests, 1 failure, both orders of commit and answer, fairness | `TypeOK`, `ReportTrue`, `DeletedNotActive`, `RequestsEnd` |
| GridCheck | both directions, 3 volume modes, up to 3 levels, steps of 10, 50, 90 and 100 %, balances below and above the notional | `TypeOK`, `AcceptedSurvives`, `AverageInGrid`, `GridClosedForm` |
| Codes | 2 users, 2 requests, 3 rows, 1 failure | `TypeOK`, `ReplacedGone`, `OnlyByStandingCode` |
| LimitRaces | 2 requests, 2 roles, limits 1 and 2, 3 rows of a kind, 1 failure | `TypeOK`, `OvershootBounded`, `NotOnDeletedKey` |
| SharedSymbol | 2 bots of which one re-creates its grid and the other may be stopped, 1 leg, 2 versions, 4 acceptances per id, 1 failure, fairness | `TypeOK`, `DuplicatesAccounted`, `AdoptedOnlyLost`, `RecordedNotResent`, `FollowsLedger`, `RestartCancelsOnlyOthers`, `FlushEnds`, `GridsRecorded` |
| Sessions | 2 clients, 2 requests, 1 address, 2 Telegram ids, 2 Google accounts of one address, 2 users, 4 tokens of which 1 expires, 2 failures, both orders of commit and answer | `TypeOK`, `HeldIsLive`, `LiveAccounted`, `TelegramCanSignIn` |
| EntryPlacedOnce, StoppedHasNoOpenOrders | 1 property each | found violated: section 5 |

Why the bounds are enough:

* Two legs and two failures are the smallest instance in which an open leg has no
  row, an earlier level has none either, and a flush meets a pending id.
* Two versions let a PATCH and a re-creation, or two PATCHes, compute the same version,
  two requests let each commit between the other's read and commit, two attempts let a
  lost reply be retried and then fail.
* EngineReconfigured has two requests and no failure, EngineLive one of each: what
  `PlacedWithCurrentConfig` and `NeverReactivated` say of requests and failures together
  rests on their proofs.
* Two roles with limits 1 and 2, three rows and two creations let creations under either
  role overlap or follow each other, at the limit and one below it.
* Three bots put a failure of a batch before, between and after successes; four
  callers on two slots let a refused caller outlive the counter that refused it
  while others fill the next one.
* Two bots and one leg give every meeting of SharedSymbol: both flush the same two
  keys in opposite order, each adopts an order of the other, and each cancels the
  other's leg. Four acceptances are the most that one failure brings about: with a
  bound of seven no id is accepted a fifth time.
* Two requests of two clients let two people register one address, two refreshes
  spend one token, and a refresh fall between answer and commit of another; four
  tokens let that happen to a token that was refreshed before, and the first of them
  may expire at any time.
* Three rows let two overlapping creations replace the same older code.
* For the safety properties marked in section 4 no bound remains: they are proved
  for every value of the constants.

Deadlock is checked except in BotEngine and SharedSymbol, which really stop: a bot
that is stopped or closed, with nothing open and no request, has no step left.

### Fairness

* BotEngine: `WF(EngineStep)` and `WF(Supervision)`. The asyncio loop runs ready
  tasks, every call of the exchange has a timeout, and the supervisor polls every
  10 s and survives its own exceptions (`supervisor.py:35`). No fairness makes a
  failure, a fill, a request or its completion happen, nor a new start of a process that
  has died: nothing in the repository sees to that. `ActiveIsServed`, `Converges` and
  `GridsRecorded` therefore except the runs in which it stays down for good (`EngineGone`);
  `Quiesces` and `FlushEnds` do not need to.
* SharedSymbol: `WF(PassStep(b))` and `WF(SupervisorCancel(b))` for each bot. Tasks that
  are ready run, the supervisor polls, and PostgreSQL looks for deadlocks. No fill, stop
  request or failure has to happen.
* ExchangeCallGate: each caller inside `acquire` goes on (it sleeps 50 ms and
  retries for ever) and time passes.
* BotBatch: a request that has begun is served. Its calls end, well or not.

## 4. What is proved

Every theorem holds for all values of the constants under the named assumptions of
its module (finite sets, positive numbers, the bounds as natural numbers). A step
lemma goes action by action; the temporal step is `PTL`.

* **BotEngineProofs.** `TypeCorrect`, `NoPhantom`, `Duplicates`, `CommitKnows`,
  `RecordedOnce`, `Final`. The properties are not inductive. `SafetyInv` adds what a pass
  may rely on: `PassShape` (outside a pass the session is empty, before placing it
  has sent nothing), `Knowledge` (a session that has not restarted knows every
  recorded order, and every known id was accepted), `OpenKnown` (after the
  synchronisation an engine session knows every open order but the one whose
  reply it waits for) and `Account` (acceptances are lost replies, rolled-back
  acknowledgements, rows deleted with their grid, and at most one that is on record).
  `RecordedNotResent` and `CommittedPassKnowsOpenOrders` are action properties read off
  this invariant; the first has no run of its own, because `FollowsLedger` says it too.
  `ImplementsLedger` is the refinement: with `LedgerShape` (acknowledgements in hand are
  of orders that are not on record, and `create_bot` ends its pass with the last leg
  acknowledged or an exception caught) every step of BotEngine is shown to be a step
  of OrderLedger or to leave its variables alone. `OneConfig` proves
  `PlacedWithCurrentConfig` for any number of requests and re-creations: by `NumbersGiven`
  every pass, bot row and placed order has a configuration its version number was given
  to, so that an order of the bot's version with another configuration than the bot's
  means a number that was given to both. That this happens is among the observations.
  `PassesEnd` is the safe half of `Converges`: `Rest` counts what a pass has left, at most
  `(Legs + 1) * (Attempts + 1) + 5` steps; every step of a pass lowers it, failures and
  retries included, and only the start of a pass raises it. No exchange or request can
  keep a pass going; that its steps are taken is the fairness.
* **SharedSymbolProofs.** `Types`, `NoDuplicates`, `AdoptedLost`, `NotResent`,
  `RestartSparesOwn`, for any number of bots and legs. The invariant has five parts:
  the shape of a pass at each point (`PassShape`); a key is held by one transaction,
  against no committed row but one it deletes itself (`Keys`); what is open was
  accepted, and another bot's order that a session has inserted was lost (`Found`);
  acceptances are excused but for one that is on record, just heard of, or of an
  earlier version (`Account`); a bot about to re-create its grid has no order of its
  own open (`NoneOwnOpen`).
  `RowsBacked` adds that whatever a session has inserted or is about to insert stands for
  an order that the exchange has, but for the one whose `place_order` is under way: a
  commit happens with nothing under way, so a committed row always stands for an order.
  With it `SharedImplementsLedger` shows the refinement of OrderLedger, action by action:
  the order that is sent has no acceptance left to account for (`PlacingUnsettled`), and
  what a failing session had heard of has no row but one it was deleting itself (`Keys`).
  `LedgerBalanced` closes the circle: the rules of OrderLedger alone, without a word
  about sessions, imply that no order is taken more than once and once per excuse.
  `WaitsHaveAnEnd` is the safe half of `FlushEnds`, for any finite number of bots: of any
  passes that wait, one waits for a running pass outside them, or some form a ring
  that PostgreSQL breaks. A smallest set of passes that wait for each other is a
  ring, by the well-foundedness of strict inclusion on a finite set.
* **ExchangeCallGateProofs.** `SlotsBounded`, `OrphansExplained`, `GateTypes`. `GateInv`
  counts: the counter is the slots granted plus refused callers that still owe a DECR
  plus those that were cut off, minus stray DECRs.
* **BotBatchProofs.** `RemovedNotActive`, `ReportIsTrue`, `BatchTypes`. The invariant
  says that a held object that is not ACTIVE tells the truth about its row or was
  changed by its session: no request makes a bot ACTIVE, so being stale is harmless
  in this direction only. `ToldInv` adds where each bot of a batch stands: reported,
  in hand, or still to come, and what was committed for it. `ReportIsTrue` holds in both orders of commit
  and answer: a batch, and a request that commits first, report what they have
  committed; a request answered first has committed nothing if its commit fails.
  `BatchShortens` is the safe
  half of `RequestsEnd`, for any set of bots: each step of a request takes a bot off its
  list for good or leaves less to do for the bot in hand, so that a batch whose steps
  are taken comes to its end, whatever fails.
* **GridRiskProofs.** `RiskTypes`, `AverageLiesInGrid`, `AcceptedGridSurvives`,
  `GridHasClosedForm`. The sums are bounded level by level between the first and the
  worst price, and the decision is compared with the loss by cases on direction and
  effective leverage.
  For the closed form the powers of `D` are a recursive function, whose equation is
  itself proved (`PowEquation`) with the least number for which it could fail, and so is
  the invariant behind it: each level divides the price of the one before evenly, which
  `EvenAssumption` allows for all of them, and the quantities add up to the powers.
* **OneTimeCodesProofs.** `ReplacedStaysGone`: rows are numbered in the order they are
  inserted, a creation replaces only smaller numbers, and a deleted row is never
  inserted again. `StandingCodeOnly` and `CodeTypes`: a request holds a row of the
  user it will change, whatever becomes of the row meanwhile.
* **AccountLimitsProofs.** `OvershootIsBounded`: the live rows that roles of up to some
  limit have made, with the creations under these roles that have passed the count,
  exceed that limit by less than `crowd`, whatever other roles the user has had; with
  one creation at a time each role keeps its own limit. `DeletedKeyNotUsed` and `LimitTypes`: the
  numbers of rows are fresh, and a creation that has found its key found one that was
  not deleted when it began.
* **SignInProofs.** `OneAccount`, `TokenKept`, `TelegramOwnsAddress`,
  `ExtraTokensExplained`. `Inv` carries the types and the uniqueness of accounts
  through waits and conflicts; `Tokens` says that what a request issues is its own until
  it is answered or committed, in both orders; `Count` adds to the usable tokens of a
  sign-in the refreshes under way whose token has been spent: a commit that takes a
  live token turns its rivals into such refreshes, and each later adds one token.
  `TokenKept` speaks of tokens that have not expired, as `refresh_session` does.

Only model-checked: the liveness properties (`Quiesces`, `ActiveIsServed`,
`Converges`, `SlotsKeepComing`, `RequestsEnd`, `FlushEnds`, `GridsRecorded`), which are
beyond TLAPS here; of three of them the part that needs no fairness is proved
(`PassesEnd`, `BatchShortens`, `WaitsHaveAnEnd`). Every invariant, action property and refinement that a passing run
checks is proved.

## 5. Where code and documentation disagree

Two runs end with a counterexample, each against a sentence of the repository:

* `EntryPlacedOnce`: the placement is called idempotent, but a market entry whose
  pass fails later is rolled back in the database and bought again by the next
  pass.
* `StoppedHasNoOpenOrders`: stop cancels the orders, and a pass in flight places the
  remaining legs afterwards.

### Observations

Behaviours met while modelling that no run of the project checks; the actions named
show them in the models.

* Two PATCHes that read the same `config_version` write the same successor
  (`bot_service.py:316`); a PATCH and a re-created grid may collide in the same way
  (`BeginPatch`, `CommitRequest`, `RestartGrid`), also when the re-creation is rolled back
  after it has placed orders. The bot then goes on with orders of a configuration it no
  longer has, which their client ids do not show.
* A stop that read the bot before a close commits after it and turns CLOSED into
  STOPPED (`bot_service.py:150`). In a batch the same happens with a bot closed any
  time after authentication (`Take` in BotBatch).
* The restart reads the position before the open orders; a leg that executes in
  between is in neither answer (`loop.py:189`).
* After two failures an open leg without a row and an earlier level without one
  make every later pass flush the leg twice and fail (`AddRowConflicts`).
* The rollback for a failed bot expires the bots a batch has already changed; if
  nothing reloads them, stop-all and close-all end with status 500 instead of the
  report (`ReportBreaks`).
* A refused caller of the gate may give its INCR back to the next counter, which
  then lets one call too many through (`Decr`, `stray`).
* The liquidation price uses notional / balance where the description of the
  endpoint says leverage (`api/bots.py:62`, `risk_service.py:76`); no line compares
  the margin with the balance; and at an effective leverage of 1 the 1.01 put in its
  place brings the liquidation price closer (`Liquidation`).
* Two requests with one reset token or link code may both succeed (`Read`, `Mark`).
* A creation whose first pass fails is described as answered with engine_state ERROR
  (`api/bots.py:33`), but `db.refresh(bot)` reads the row back over the unflushed value
  and RUNNING or INIT is committed (`CommitCreate`). A later pass that succeeds leaves a
  bot that is in ERROR there (`loop.py:206`).
* With two bots on a symbol a single crash can make a market entry execute four
  times: passes adopt the legs the crash has orphaned, their flushes deadlock and
  conflict, and each pass that fails this way has bought before
  (`DeadlockAborts`, `InsertConflicts`).
* After two failures a pass may add an id that its own sync has added and fail every
  time, until the order executes or another bot adopts it (`AddRow`).
* A stop or close of one bot cancels the legs of the others on the symbol, a restart
  cancels only theirs; cancelled legs whose rows are committed are never placed again
  (`StopCancels`, `RestartGrid`, `SkipRecorded`). The same befalls the bot itself when
  its stop or close fails after `cancel_all_orders`: it stays ACTIVE without its legs.
* A grid that is re-created deletes the rows it had adopted, and the bot they were
  made for sends these orders again (`CommitPass`).
* Two refreshes that overlap both succeed with one token (`Refresh`, `doubled`).
  With a newer FastAPI the answer precedes the commit, so that a client may hold a
  token the database never gets (`CommitFails`), and a stop, close or removal of one bot
  that was answered as done may fail to commit (`AnswerUnkept`).
* A Telegram account that is linked anew leaves the old id's made-up address on the
  account: the owner of the old id cannot sign in by Telegram any more
  (`InsertConflicts`, `relinked`).
* Sign-in by Google or Telegram does not look at `is_active`, unlike the password and
  the refresh; no code of the repository ever clears it.
* Labels of deleted keys stay taken; prices of the risk check are reported with two
  decimals, as 0.00 for the cheapest coins; letters, Telegram messages and events are
  sent before the commit of what they announce.
* Creations that overlap pass the same count (`Count`), so limits are exceeded, by
  less than the number that overlap; and a user whose role has become smaller keeps
  what the larger one allowed (`SetRole`).
* A key may be deleted under an ACTIVE bot; stop, close and removal of that bot are
  then refused (`EndBot`), though the description of the removal says a key error is
  skipped (`api/bots.py:304`).

## 6. Abstractions, and what is not modelled

* BotEngine has one bot and one symbol, in one-way mode. The position snapshot and the
  `status` of recorded orders are written and never read by the code's decisions, and
  left out.
* SharedSymbol leaves out what BotEngine has for one bot: retries inside a call, the
  error columns, creation, PATCH, close and removal; and partial fills, whose updates
  of existing rows and locks would add further waits. A ring of waits through a `bots`
  row does not arise in it, since each pass changes only its own bot.
* A single request reads its bot at authentication and again from the identity
  map; reading it in one step is exact in BotEngine for what a request decides on,
  and BotBatch models the two moments.
* BotEngine's row lock lasts from the flush that changes the bot to the end of the
  transaction; requests wait for it (`sess.locked`).
* Requests retry an exchange call inside one step; a reduce-only order whose reply is
  lost is sent again as a step of its own, since the position may have changed.
* SignIn takes access tokens, which are signed and have no state, and passwords, which
  are right or refused, as given; refused requests change nothing and are one step.
* Events and WebSocket: `ws.py` relays Redis messages to whoever listens, at most once;
  nothing in the program reads them back and no document promises an order, so there
  is nothing to check. Notifications, Celery and e-mail are output on whose arrival no
  state depends. The application shell (wiring, settings, OpenAPI texts, logging),
  encryption, migrations, profile fields and audit rows are plain assignments or text.
  `PROJECT.json` gives the reason for each component.

## 7. Plan

Done, in this order: BotEngine, ExchangeCallGate, BotBatch, GridRisk, OneTimeCodes,
AccountLimits, OrderLedger with its two refinements, SharedSymbol, SignIn, and a proof
of every safety property the runs check.

Left, should the code or its use change:

1. **SharedSymbol, finer**: partial fills with their row updates, and creation, PATCH
   and close of one bot while the other trades.
2. **Events**: as soon as something reads an event and acts on it, the order of
   publication and commit is worth a model.
3. **GridClosedForm** for rounded prices: a bound on the distance between the code's
   repeated division and the closed form.

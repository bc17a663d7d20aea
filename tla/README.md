# A verification development for TXQ

TXQ stores Bitcoin SV transactions, follows each one with the miners until it is
in a block, and indexes which output is spent by which input. This directory
holds TLA+ models of the parts where that is hard to get right, TLC runs that
check them on small instances, and TLAPS proofs for every instance.
`PROJECT.json` lists components, runs, mutants, theorems and hazards, and maps
every definition that models code to its lines.

    tlc -config MCSyncQueue_resync.cfg MCSyncQueue     # one run
    tlapm SyncQueueProofs.tla                          # one module of proofs

## 1. The system

One Node process (`src/bootstrap`) serves HTTP and keeps queues in memory;
PostgreSQL keeps the data. JavaScript runs to its next `await` undisturbed, and
no database transaction spans two statements: the unit of atomicity is one
awaited call together with the synchronous code after it. systemd restarts the
process, and `handleExceptions` ends it on any unhandled rejection.

| component | state | operations | what makes it correct |
|---|---|---|---|
| QueueService | `tasks` map, one backoff loop per task, FIFO of the concurrent queue | `enq`, first attempt, delay, retry, expiry | one loop per task; every task ends; nothing starves |
| SyncTxStatus | none of its own; writes `tx`, `txsync` | cached answer, status request, save, complete, push, background refresh | complete only if mined; status, `completed` and `sync` agree |
| Resync, manual sync, poller | `sync`, `dlq` columns | `ResyncTx`, `POST /tx/:txid/sync`, `EnqInitialTxsForSync`, `UpdateTxDlq` | pending rows are resolved; failed ones are in the dead-letter queue |
| SaveTxs | `tx`, `txin`, `txmeta`, `txout`, `txsync` | `POST /tx` with several entries, the proxy's save | partial saves are harmless and never listed; repeating a save is harmless |
| Spend index | `txout.spend_txid`, `spend_index` | `updateSpendIndex`, `backfillSpendIndexIfNeeded` | sound, complete, final |
| MerchantRequestor | none | `SERIAL_BACKUP`, `ALL_FIRST_PRIORITY_SUCCESS` over several miners | one answer per request, by priority |
| Event service, SSE | events and handlers per channel | push, truncate, replay, clean up | no event lost or repeated for a client that stays |
| Queries | none | UTXOs, balances by address, script, group | what is offered is the UTXO set of the saved transactions; each output counted once |
| Proxy | none | holds up a push with `checkstatus`, forwards to a miner, saves and logs | what a client was told is kept; nothing unknown is saved; no request is stuck |
| Output groups | `txoutgroup` | add and delete script ids | a group hears of its outputs |
| Logs | `merchantapilog`, `updatelog` | append | one row per answer and per save |
| Channels | none | list, get | read-only |

How they interact: SaveTxs stores a transaction, inserts its `txsync` row as
pending and calls `enqTxStatus`. QueueService runs `SyncTxStatus.run` once at
once and then by exponential backoff; the run asks the miners (MerchantRequestor),
writes the tables and may leave a refresh behind. When the attempts are used up
`updateTxDlq` marks the row dead. The poller re-enqueues pending rows every
minute and at start. Resync clears the completion and enqueues again; the manual
sync runs the same code outside the queue. SaveTxs ends with events: to the
listeners of every output's address, scripthash and groups, and to those of the
channel. The proxy runs SaveTxs before a push that asks for a check, when
the miners know the transaction, and after it, when the miner accepts it.

The behaviours that are hard, and hard to test: five writers of three columns
with no transaction around them; calls that are not awaited (`updateTxDlq`,
`setResync`, the refresh); answers that are old when they are stored; queue state
that dies with the process; retries that overlap late first attempts; a spend
index that two requests write from its two ends; and a proxy that has to save
what a miner has taken before the client hears of it. `hazards` in `PROJECT.json`
lists them line by line.

## 2. Modules

| module | models |
|---|---|
| `TaskQueue` | the abstract specification: what `QueueService` promises for opaque tasks |
| `SyncQueue` | the detailed system: tables, loops, queue, runs statement by statement, saves, resyncs, poller, crashes |
| `SyncQueueTasks` | the refinement mapping from `SyncQueue` to `TaskQueue` |
| `SyncQueueClaims` | what README and comments of TXQ say of the queue and the code does not do |
| `Ledger` | the abstract specification of what is stored: whole transactions are added one at a time |
| `SaveTxs` | the table writes of `POST /tx` and the spend index |
| `SaveEvents` | what a pass of `SaveTxs.run` announces and to whom, with the output groups |
| `Proxy` | extends `SaveEvents`: the requests that go through TXQ to a miner |
| `TxoutQueries` | extends `SaveTxs`: what `GET /txout` answers from those tables, and the mapping to `Ledger` |
| `MinerRequest` | the abstract specification of a request: the miners are heard, priority decides |
| `MerchantRequestor` | one request to several miners under each of the three policies, with the log |
| `EventStream` | channels, buffers and handlers of the server-sent events, with their clients |
| `EventStreamClaims` | what the README says of the streams and the code does not do |
| `MCSyncQueue`, `MCTxoutQueries`, `MCEventStream`, `MCProxy` | constants for TLC |
| `SyncQueueProofs`, `SyncQueueTasksProofs`, `SaveTxsProofs`, `TxoutQueriesProofs`, `MerchantRequestorProofs`, `EventStreamProofs`, `TaskQueueProofs`, `ProxyProofs` | theorems |

`TaskQueue` and `MerchantRequestor` need no MC module: their constants are numbers
and sets that a `.cfg` can write. `SyncQueue`, `SaveTxs`, `MerchantRequestor` and
`EventStream` meet at calls that are single actions on both sides: a save ends in
the enqueueing of `SyncQueue`, and the push or status request a run awaits there
is one behaviour of `MerchantRequestor`. A pass of `SaveTxs.run` is split between
`SaveTxs`, where each write matters and no event does, and `SaveEvents`, where the
writes between the INSERT of `txmeta` and `GetTx` are the one action `SaveRows`.

### SyncQueue

`tx[t]` and `txsync[t]` are the rows of transaction `t`, reduced to the columns
the code branches on. Of a stored status only "a block answer that validates"
(`confirmed`), "a block answer that does not" (`unsigned`) and anything else are
told apart, because `run()` tells nothing else apart. `loop[t]` is the backoff
loop: `delay` while its timer runs, `await` while it waits for its retry, `none`
when the key is not in the `tasks` map. `run[t][n]` is one execution of
`SyncTxStatus.run`; its `pc` names the call it awaits. There are four kinds:
`first` (the attempt `enq` starts and nobody awaits), `retry`, `manual`, and
`refresh` (the `setTimeout` after a push). `dlqWrite` holds the `updateTxDlq`
calls that are issued and not awaited, `poll`, `save` and `resync` the other
multi-statement operations under way.

Every action is one awaited call with the code that follows it; for example
`SaveTxStatus` is the UPDATE and the choice what comes next, and it takes the
three exits of the code. `Throws` is any awaited call that rejects. `Crash` loses
everything in memory at any point, and `Restart` starts the process again. Inputs
that matter come from the environment: `Answerable` gives the answers a miner can
give for the state of the network (any answer may be late, and a mined
transaction may still be answered as unknown by a miner that lags), and
`NetworkMoves` lets the transaction be broadcast and mined at any time.

Abstractions: a stalled connection is an action that does not happen; the
refresh's one second is any delay; a second overlapping poller round is left out
(its effect is that of a later round, `enq` drops duplicates); unbounded numbers
of simultaneous runs of a kind are bounded by `MaxAlive`; `status_retries` and
the statistics counters are left out. A statement in flight when the process dies
counts as either done or not done.

### TaskQueue and the refinement

`TaskQueue` has the same loops and FIFO, and jobs that are only queued, active or
settled. `SyncQueueTasks` maps a run of kind `first` or `retry` to such a job,
active while its `pc` is any awaited call. Manual runs, refreshes, saves and the
tables disappear. `ImplementsTaskQueue` says every behaviour of `SyncQueue` is one
of `TaskQueue`; `ImplementsFairTaskQueue` the same with fairness, so that
`TaskLeaves` and `JobStarts`, checked on `TaskQueue` with several tasks and
retries, hold of the sync queue.

### SaveTxs

`txin`, `txout`, `txmeta` and `txsync` are the sets of keys with a row, `spend`
the two spend columns. `saver[s]` is a request: the entries still to do, the
statement it is at, the loop index and, between the two statements of the
backfill, what the first one found. `Inputs` and `Outputs` describe the
transactions; the constants allow any family. Entries without bytes skip the
loops, as in the code. `SaveTxin` has both unique indexes of the table:
the repeated key does nothing, the repeated previous outpoint throws and leaves
what is already written. `Fails` is any other exception, or a crash. `saved` is
a history variable: the transactions one pass with bytes got to its end for.
Indices count from 1. Reading `didExistBefore`, the events and the updatelog are
in `SaveEvents`: no table of this module depends on them. `SyncQueue` has the
enqueueing that ends a pass, and this module its other statements; `txsync` is
here only the fact that the row exists.

### SaveEvents

Every client may have one pass under way; `pass[c]` is the call it awaits, `of[c]`
the row of `txmeta` it is about and `existed[c]` its `didExistBefore`. The outputs
of a transaction are sets of script ids (address and scripthash); `member` is the
table `txoutgroup`. An output's event goes to its script ids in the step that
reaches it, and to its groups in the step after, when the SELECT has returned:
`told[c]` collects both. A SELECT may see any of the edits of other requests
before it, and each edit is one statement, so groups change between any two steps.
`stored`, `since`, `newtx`, `updatetx` and `lost` are history variables: which
rows are written, which groups have had an id of an output all the time since
then, and what has been announced or can no longer be. `Fails` is any exception;
it ends the pass and everything before it stays.

Left out: entries without bytes (they have no outputs; their announcement is the
same), the split into writes (see `SaveTxs`), and GetTx not finding the rows: the
pass has written them, and nothing deletes rows of `tx` and `txmeta`. Editing a
group to what it is already is a stutter.

### Proxy

`pc[c]` follows the request of a client: `asking` while the miners are asked for
the status, `presave` while a transaction they know is saved, `forward` while the
request is at the miner, `save` and `log` while the answer is held back,
`answered` when the client has got it, `idle` before and after a request that
got an error or nothing. `ledger` is what the network knows of a transaction; it
moves on its own, and the answers of the miners are those it allows, so that a
miner may also answer with an error, without JSON or not at all. A miner may have
taken a push although its answer is lost: `Commits` is about what is answered, and
`LedgerMoves` covers the rest.

An exception in `userResDecorator` (JSON that does not parse, a push whose bytes
do not, a failed save or INSERT) goes to `proxyErrorHandler`, and the client gets
an error in place of the miner's answer. In the pre-flight part every exception is
caught and the push goes on. The status request and its log writes are one
action; the order in which miners are asked is in `MerchantRequestor`. Of its
answers `IsAcceptedStatus` tells two groups apart, as `StatusTxUtil` does: a valid
success with numbers that are not negative, which the answer for an unconfirmed
transaction is too (block height 0), and everything else. `taken` is a history: the
pushes a miner has accepted, by transaction and channel.

### TxoutQueries

Every query is one SELECT, so it is an operator on the tables at one moment, and
what can go wrong is in the tables or in the query. `UtxosByAddress`,
`UtxosByScriptHash` and `UtxosByGroup` select by the spend columns that `SaveTxs`
writes; `TxoutsByOutpoints` is the look-up by transaction ids with the filter the
code runs over its rows; `Balances` is the UNION of two sums, the sum of no rows
being NULL, and the way the answer reads row 0 and row 1. OFFSET and LIMIT are
left out (no query asks for an order, so a page is any part), as are the single
`getTxout` and the balance of a group. The listing by scripthash is always the
unspent one, because the route passes `true` whatever is asked
(`api/v1/txout/index.ts:118`).

### Ledger and the refinement

`Ledger` has no statements, no requests and no failures: `Add` puts a whole
transaction into the ledger, a child before its parent too, refuses a double
spend, and keeps the set of unspent outputs. `TxoutQueries` maps the tables to it:
`saved` is the ledger's set, and `UnspentBySaved` is what the unspent listing has,
taken as far as saved transactions go: outputs of a transaction that is still
being stored are left out, and a mark by a transaction that is not saved (it is on
its way in, or was refused after its first inputs) does not count. Every statement
of every pass is a stutter, except the last one of a pass with bytes, which is the
`Add`. This is what "no transaction around the statements" does not cost.

### MerchantRequestor

`call[i]` is where the call to endpoint `i` stands: not asked, waiting for the
miner, writing the answer or the exception to the log, done. The endpoints are
numbered by priority. `SERIAL_BACKUP` (status requests always, pushes when
configured) has one call at a time; `ALL_FIRST_PRIORITY_SUCCESS` has all of them
waiting at the start, and `ResultSaved` is one turn of the loop after
`Promise.all`. `SaveFails` is a failing INSERT into the log, with the different
consequences it has: inside the `try` an accepted push counts as an exception and
the backup is asked; in the `catch`, or in the loop after `Promise.all`, nobody
catches it, the promise of `execute` never settles and the process exits (`died`).
`log` is the set of rows written. The errors a rejection carries are left out.

The comments at lines 38 and 89 say "until 1 is successful": a refusal with a
payload ends the loop as well, in the `else if` right below, and `MinerRequest`
and `BackupsWait` say so. Errors of a push under the ALL policy are logged as
status events (line 175); `SavesError` does the same.

### MinerRequest and the refinement

`MinerRequest` knows no calls, no log and no loop over results: a miner is heard at
most once, and the outcome is a function of what was heard. One by one, a miner is
heard only when nobody before it had an answer, and the first answer, accepting or
refusing, is the outcome (`HearsNext`). All at once they are heard in any order, and
when all are, `Decide` gives the first success in priority, else the first refusal.
`Dies` is the process exiting under a request. A miner of `MerchantRequestor` is
heard when its call is over (`Heard`): writing the answer, turning an answer that
could not be logged into an exception, and all turns of the loop after `Promise.all`
but the last are stutters. `ImplementsMinerRequest` is a step relation where
`AnswerByPriority` looks at the end only: no miner's answer is ever taken back or
heard early, nothing is decided before all of the parallel ones are in, and what is
decided stays.

### EventStream

`chan[c]` is the entry of `channelMapEvents`, `joining` the handlers of
connections between `handleSSEChannelEvents`' await and the push onto
`sseHandlers`, and `client[x]` an EventSource: whether its connection is open,
which one it is, its last event id and, for the properties, the numbers of the
events it has got since it was registered. A channel's events carry either ids of
a table, which may repeat and come out of order (`Explicit`), or the next free
number. Age is one bit: `HourPasses` makes old whatever exists and `Sweep` is the
garbage collector. The contents of events are left out. `CheckLimit` and
`TruncateMax` are 15000 and 10000 in the code.

A handler stays after its connection has closed (its listeners go, so it is
deaf), and a whole channel goes an hour after it was created, with the handlers of
connections that are still open: the interface calls `time` "last used", but
nothing updates it. `Registered` therefore asks for the handler to be there.

## 3. Properties and runs

| run | instance | checks |
|---|---|---|
| `resync` | one transaction, every form of post, one resync, poller; 1.1M states | `TypeOK`, `OneRetryPerTask`, `CompletedOnlyIfMined`, `FailureIsDeadLettered`, `ImplementsTaskQueue` |
| `manual` | two manual runs and two refreshes at once, three requests for them, two posts, refused pushes, two crashes; 167k states | `BlockStatusCompletes` |
| `pending` | fair, two posts, one slot, two attempts, one crash; 233k states | `FailureIsDeadLettered`, `PendingResolved`, `ImplementsFairTaskQueue` |
| `task_queue` | fair, three tasks, one slot, two attempts, two first attempts alive per task | `TypeOK`, `NothingLost`, `JobStarts`, `TaskLeaves` |
| `spend` | two requests at a time, parent with two outputs, child of both, grandchild, double spend; a request with two entries, an id before its bytes; no bound on the number of requests; 1.8M states | `TypeOK`, `SpendSound`, `SpendComplete`, `RowsAreWhole`, `NoDoubleSpend`, `SpendStable`, `ImplementsLedger`, `OutpointsAnswered` |
| `requestor` | fair, three miners, the parallel policy for pushes and the serial one for status, logging on | `TypeOK`, `BackupsWait`, `AsksAreLogged`, `RequestEnds`, `ImplementsMinerRequest` |
| `events` | fair, two channels (one of each kind of id), one client with two connections, four events per channel life, truncation beyond two; 44k states | `TypeOK`, `BufferIsRecent`, `SubscriberMissesNothing`, `IdsAreDistinct`, `ClosedIsCollected` |
| `proxy` | two clients, one transaction with two outputs of one script, two channels, one group, four kinds of request, logging on, failures and exits anywhere, no bound on the number of requests; 1.4M states up to symmetry | `TypeOK`, `CommittedIsKept`, `SavedIsVouched`, `NewIsAnnounced`, `GroupsHear`, `RequestMovesOn` |

Bounds. Transactions of the sync queue share nothing but the slots of the
concurrent queue and its FIFO, so one transaction shows all that concerns its
columns and its loop, and `task_queue` has three for what concerns the slots. A
second post of it, in `pending` and `manual`, comes at any time: in the middle of
a run, or when the row has expired already. One run of every kind is enough for
each pair of kinds to race, and `manual` has two of the same kind. `NumOfAttempts` 1 makes expiry near; `pending` and `task_queue` have 2. A
crash at every point is covered by the one of `pending`, a crash during recovery
by the second one of `manual`. In the fair runs a new execution of a kind waits
while `MaxAlive` of it are alive; they all end, so the wait does too. The
invariants are also proved for every value of these constants
(`CompletedOnlyIfMined`, which `resync` checks, for the instance of `manual` too).

Three miners make "the first", "a later" and "none" different for each policy; the
serial policy is the same code for pushes and status, so the status requests of
the run show it. Clients of the event streams share nothing but the channel: one
with two connections shows an old handler next to a new one. Four events cross
the truncation twice. Requests through the proxy share the rows of one transaction
and the groups: two clients with the same transaction race in every way, in the
same channel and in two; they are interchangeable, hence the symmetry. The
requests are a push that asks for the check by `/mapi`, one that asks for it by
`/merchantapi/<miner>` and does not get it, one whose bytes do not parse, and a
status request. Groups are edited by the address only
(`Lists`), while every output also has a scripthash, so that a group may have
one id of an output, the other, or both. The state space of `proxy` is finite
without a bound: a client that is done asks again. `CHECK_DEADLOCK` is off for `requestor`, where a
request ends and nothing follows, and for `proxy`, where stopping is no error since
nobody has to make requests; that no open request is stuck is `RequestMovesOn`.

Every property has a mutant in `PROJECT.json`: a plausible bug, written next to
the definition it replaces (`IsNewTask_Always`, `DeadRow_NoDlq`, ...), under
which the run finds the property violated.

### Where the code does not do what is said

| run | said | what happens |
|---|---|---|
| `claim_completed` | README:318, completed becomes true when confirmed | a resync that clears `completed` between the two statements of `setTxCompleted` leaves `sync` = success without completion, and nothing looks at the row again |
| `claim_replay` | README:1063, a client that reconnects gets any missed updates | `getChannelMissedMessages` reads `channelData[i]` for `channelData.events[i]` and throws in a promise nobody awaits; the process exits |
| `claim_balance` | README:693, the balance for addresses | UNION drops equal rows: with confirmed and unconfirmed both 2, the answer is 2 and 0 |
| `claim_pollution` | ProxyAndSaveRequestIfCheckStatus.ts:110-112, before the push a transaction is saved if and only if it was confirmed, lest unconfirmed ones pollute the database | `isAcceptedStatus` (StatusTxUtil.ts:5-11) asks for `blockHeight >= 0`; the answer for an unconfirmed transaction has 0 (README:1409-1428), so that one only in a mempool is saved, and stays whatever the miner says of the push. SyncTxStatus.ts:41 does tell such answers apart |

Each of these runs must find a violation; those of `SyncQueue` in a state where
nothing about the transaction is under way, so that it is not a passing phase.

More disagreements are visible in the models and have no run. A push with
`checkstatus` by `/merchantapi/<miner>` is not held up (express-factory.ts:82 and
README:1591 say that pushes with it are): the test looks for the path `/tx` and there
the path is `/mapi/tx`, a form SaveProxyRequestResponse.ts:127 knows (`HoldsUp`). The un-awaited
`updateTxDlq` may land after another run has completed the transaction, so that a
completed transaction is in the dead-letter queue (README:1000 says it holds
those with `completed: false`). A poller round may enqueue a transaction that has
expired since the round read it (README:1003 says it is not retried). The
configured concurrency is never read (`queue/index.ts:54-59`). A stale answer may
replace the stored block status of a completed transaction. A refused push
means to set the fail state (SyncTxStatus.ts:174-175, "Something bad, cannot
recover") but calls a method `TxService` does not have: the TypeError ends the run,
the row stays pending and the push is repeated. When a pass fails between the
INSERT of `txmeta` and its end, the row is there and the next pass announces it as
`updatetx`: a stream of new transactions (README:1077, 1156) never has it (`lost`).
A group that has both ids of an output gets its event twice. An answer whose
handling throws is not in `merchantapilog` (README:1597 says that all events
are), and neither is that of an accepted push whose save fails.

## 4. Fairness

`SyncQueue!Fairness`: a running process is restarted by systemd
(`Restart=always`), timers fire, the concurrent queue starts jobs while it has
slots, the poller's `setInterval` goes on, and each awaited call settles (`RunStep`,
one weak fairness per execution, since each waits for its own call). Nothing is
assumed of requests, crashes, rejections, miners' answers or the network, so the
liveness properties say "resolved or given up", not "confirmed". That calls
settle is an assumption about the environment: the HTTP client sets no timeout,
and a miner that keeps a connection open for ever holds a slot for ever (a
hazard without a property, since it would restate the assumption).

`MerchantRequestor!Fairness`: every awaited call or write settles; that a write
fails is possible and never required. `EventStream!FairSpec`: time passes, and the
collector's timer is armed again in a `finally`, whatever happens in it. Nothing
is assumed of pushes and clients.

`Proxy` states no fairness. What it could add is that a request ends, and any
awaited call may fail at any time, so `RequestMovesOn` says it as a state
property: an open request always has a call under way that leads on, whatever
failed before. A request only moves forward, so it ends if its calls settle.

## 5. Proofs

For every set of transactions, any number of attempts, slots, runs, posts,
resyncs and crashes within any bounds:

- `TypeCorrect`, by cases on the actions.
- `OneRetry` ([]`OneRetryPerTask`). Not inductive alone: a retry that waits in
  the FIFO must be known to be one in state `queued`, or `StartJob` could start
  something else. The strengthening is `JobsWait`.
- `DeadLetter` ([]`FailureIsDeadLettered`), inductive as it stands.
- `NoFalseCompletion` ([]`CompletedOnlyIfMined`). Strengthened by `Evidence`: as
  long as a transaction is not mined, no row stores a block status and no run
  holds a block answer, has read a success state or is about to mark.
- `BlockCompletes` ([]`BlockStatusCompletes`). Strengthened by `Block`: as long as
  nobody has asked for a resync, a run that stands between the statements of
  `setTxCompleted` finds the completed flag set.
- For `TaskQueue`: `TypeCorrect`, and `NothingIsLost` ([]`NothingLost`): a job waits
  in the FIFO exactly if it is queued, and once; a loop that waits has exactly one
  retry. The parts are inductive together: starting a job needs that the FIFO has
  no repetitions, and that a new task has no retry needs the second half.
  `SlotsAreKept` ([]`SlotsSuffice`): no more invocations run than there are slots.
  The invocations there could be may be infinitely many, so that the running ones
  are finite is part of the invariant.
- `RefinesTaskQueue` (`Spec => ImplementsTaskQueue`): the initial states map to
  initial states and every step to a step of `TaskQueue` or a stutter.
  `TaskConstants` shows that the assumptions of `TaskQueue` hold for what it is
  instantiated with. The prover cannot cite a theorem of a module through
  INSTANCE, so what `SlotsAreKept` and `NothingIsLost` say of the sync queue is
  proved of it directly: `SlotsAreKept` ([]`SlotsSuffice`) and `WaitingIsQueued`
  ([]`NoJobIsLost`) of `SyncQueueProofs`, which with `JobsWait` and `OneRetry` is the
  whole of it.
- For `SaveTxs`, from the inductive invariant `SpendInv`: `SpendsAreSound`,
  `SpendsAreFinal` and `SpendsAreComplete`. The heart
  is the argument why child and parent cannot miss each other. Call an input
  *stored* when the pass of its transaction has written its `txin` row, *told*
  when it has called `updateSpendIndex`; an output *kept* when its `txout` row is
  written and *filled* when its backfill is over. Told implies stored, filled
  implies kept. If the child is told first, its row is in `txin` when the parent
  reads it; if the parent is filled first, its row is in `txout` when the child
  updates it. Either way `Indexed` holds: told and filled imply marked. That the
  mark is not another input's needs `OneSpender`, which the unique index gives,
  and that a spender found a statement ago is still right, `FoundIsSpender`.
- `SavedIsWhole` ([]`RowsAreWhole`) and `DoubleSpendsAreRefused`
  ([]`NoDoubleSpend`), from `RowsInv`: which rows a pass has written when it stands
  at a statement, that the saved ones have all, and that the transaction of an
  output row has bytes, metadata and inputs, because no pass gets to its outputs
  before. Rows are only ever added, so what holds of another pass stays
  (`Grows`). Two spenders of an output would then both have their `txin` rows,
  which `OneSpender` excludes, already when their outputs are listed.

- For `TxoutQueries`: `SavesAreALedger` (`Spec => ImplementsLedger`) puts the
  theorems of `SaveTxs` together. `SpendsAreSound`, `SpendsAreComplete` and
  `SavedIsWhole` make the mapped set a function of `saved` (`MarksFollow`): the
  outputs of saved transactions that no saved transaction spends. A step saves at
  most one transaction (`SavesOne`), and `DoubleSpendsAreRefused`, of the state
  after it, is the guard of `Add`. `SpentNeverOffered` says the same of each
  single list. `OutpointsExact` is about the map of the look-up alone.
  `BalancesCharacterised` says how far a balance can be trusted, for any amounts:
  the true answer is possible unless both parts are the same non-zero amount (what
  `claim_balance` finds), and is the only possible one exactly when there is nothing to
  report, since nothing orders the two rows.
- For `MerchantRequestor`, for any number of endpoints: `TypeCorrect`;
  `SecondOpinions` from an invariant that says which calls before and after the
  one at work are done and idle; `PriorityDecides`, where the loop of the parallel
  policy needs the invariant that `first` names the first success and the first
  refusal among the results it has passed; `LogIsTrueAndComplete`, where what is
  logged must be known for each place a call stands at, and an answer must not
  change once it has a row (`RowsTrue`): an answer that could not be logged turns
  into an exception, and has none then; `PushesAnswer`. `RefinesMinerRequest`
  (`Spec => ImplementsMinerRequest`) takes the same invariants: a call at work shows
  that all before it are done without an answer, the guard of `HearsNext`; and what
  `first` names when the loop ends is what `Decide` asks for.
- For `EventStream`, for any channels, clients and limits: `TypeCorrect`;
  `BuffersAreRecent` and `EventIdsAreDistinct` by a lemma on what `Recent` keeps
  of a sequence; `SubscribersMissNothing`, strengthened by what is true of every
  handler: it belongs to a connection that has been opened, a connection that
  still waits to be added has no handler yet, and so nobody hears twice.

- For `Proxy`, for any clients, transactions, channels, groups and requests:
  every step is first shown to be a step of the saves (`SaveStep`), so that the
  invariants of `SaveEvents` need no case for each proxy action.
  `NewRowsAreAnnounced` rests on `didExistBefore` having been true when it says so
  (rows are never deleted); `GroupsAreTold` on what a pass has told when it
  stands at output `i`: the script ids of outputs up to `i`, the groups of those
  before. `SavesAreVouched` (`Spec => []SavedIsVouched`) needs that a pass under way
  vouches for its row: a miner took it, or the request that began the pass asked
  for the check (`AskingStep`) and miners knew the transaction; neither ceases to
  hold. That it need not be in a block is what `claim_pollution` shows.
  `CommitmentsAreKept` needs that a request whose push was accepted, or whose
  transaction was known and saved before, reaches its end only through a pass that has ended as
  `saved`. `RequestMovesOn` speaks of ENABLED and cannot be proved here. What it
  comes to is: `NeverStuck` has the condition of a next step written out
  (`HasNextCall`; on the instance of `proxy` TLC finds it equal to ENABLED), and
  `RequestsGoForward` (`Spec => RequestGoesForward`) that every step of a request
  decreases the stages, calls or outputs that are left, while nobody else's step
  takes it back. Together: if its calls settle, a request ends after a bounded
  number of them.

The liveness properties need fairness, which the prover cannot use. What each of
them rests on beside fairness is proved, as a state property (something is always
at work) and an action property (whoever is at work only goes forward):

- `JobStarts`: `QueueIsFair` (`NobodyOvertakes`). A job that waits in the FIFO keeps
  its place or moves up, every start of a job moves all others up, and only a crash
  takes a job out unstarted. The mutant that starts the last job violates it.
- `TaskLeaves`: `TasksOnlyGoForward` (`TasksGoForward`). A loop goes from delay to
  retry and from retry to the next attempt or out of the map; an invocation never
  goes back. `TypeCorrect` bounds the attempts.
- `PendingResolved`, `ImplementsFairTaskQueue`: `NoCallIsStuck` (`CallsCanBeMade`)
  and `RunsOnlyGoForward` (`RunsGoForward`). `CallsLeft` bounds the awaited calls an
  execution of `run()` has before it; the one way back in the code, the second
  marking of a transaction that was unsettled when the run began, can be taken
  once, and counts as two calls until it is.
- `RequestEnds`: `NeverStuck` (`SomeoneWorks`) and `RequestsGoForward`.
- `ClosedIsCollected`: `HandlersGetOld` (`HandlersOnlyAge`). An old handler never
  gets young again and a pass of the collector takes it. The strengthening is that
  no handler is there twice, young and old (`OneAge`), for which a connection that
  waits to be added must have no handler yet.

The proofs assume the named ASSUMEs of the modules: finite sets, positive limits,
a channel for every client, transactions with outputs whose inputs refer to outputs. TLC evaluates them in
the runs.

Model-checked only: the liveness properties (`PendingResolved`, `TaskLeaves`,
`JobStarts`, `ImplementsFairTaskQueue`, `RequestEnds`, `ClosedIsCollected`) and
`RequestMovesOn`, because fairness and ENABLED are out of the prover's reach. The
properties of the `claim_` runs are false, so there is nothing to prove.

Proved and in no run: `AnswerByPriority` and `PushAnswers` (the first follows from
`ImplementsMinerRequest` and `BackupsWait`, which `requestor` checks),
`SpentIsNotOffered` (a consequence of `ImplementsLedger`, which `spend` checks),
`SlotsSuffice` and `RequestGoesForward` of both modules that define them,
`NoJobIsLost`, `SomeoneWorks`,
`NobodyOvertakes`, `TasksGoForward`, `CallsCanBeMade`, `RunsGoForward`,
`HandlersOnlyAge` and `BalancesAsFarAsTrue`. TLC agrees with each of them on the
instance of its module's run; with the balances only as far as it gets: with a
quantifier over all subsets of addresses, hashes and completed transactions in
each of 1.8M states, that check takes too long for a run.

## 6. Not modelled, and the plan

Every component with state that matters is modelled. What is left, in this order:

1. The balance and the listings of a group as bags of rows, in which an output
   counts once for each member it matches; nothing in the repository says what
   such a balance is, so there is no property to check yet.
2. `SaveRows` of `SaveEvents` stands for the statements of `SaveTxs` without a
   refinement between the two. `SyncQueue` and `Proxy` take the outcomes of a
   `MinerRequest` for granted, by `PushesAnswer`, without an INSTANCE of it.
3. The counters of `QueueService` and `status_retries`, which nothing branches on.
4. The listings by channel, of the queue's state and of a group's own rows: one
   SELECT each, with OFFSET and LIMIT; what a page holds when the table changes
   between two requests is nowhere promised.

Not planned: parsing and script extraction (pure functions of the bsv library),
logging tables, HTTP plumbing, dependency injection, configuration, the vendored
`minercraft` library. Miners, the network, PostgreSQL, `exponential-backoff` and
`concurrent-queue` are external and modelled from how the code uses them.

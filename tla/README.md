# A specification of the isolated-margin trading stack

TLA+ modules, model-checking configurations and machine-checked proofs for the
three programs of this repository: the order-execution service (a Rust API over
a TypeScript worker), the order-indexing service (three Rust binaries over one
table) and the Next.js frontend.

Everything is translated from the source; `PROJECT.json` names, for each
definition, the lines it models. Line numbers below are of those files.

## 1. The system

```
 frontend ──HTTP──> rust-api ──JSON lines on stdin/stdout──> ts-worker ──> Drift SDK, RPC
                      │  ├─ executor ──> RPC (sign, send, confirm)
                      │  └─ decoder, drift_action_logs <── rust-api/bin/backfill
 indexer-bin (log stream, /health) ─┐
 backfill-bin ──────────────────────┴─> trade_history <── history-bin (GET /history)
```

### Inventory

| Component | State it keeps | Operations | What is hard | Correct when |
| --- | --- | --- | --- | --- |
| IPC client, `rust-api/src/ipc.rs` | worker process and its stdin behind one mutex, `pending` map, reader and logger tasks | `call` (spawn, write, await with timeout, restart once), `read_loop`, `handle_worker_failure`, `Drop` | every `await` lets another caller, the reader or a teardown in; `Drop` of any clone kills the shared worker; clients disconnect | an answer is for its own call; every call returns; nothing waits for an answer that cannot come; no process outlives its owner; one request is one line |
| Worker loop, `ts-worker/src/ipc.ts` | none | one concurrent handler per line | answers in any order | every line is answered once |
| Drift adapter, `ts-worker/src/drift.ts` | one `DriftClient` (current authority, cached users), a promise chain as lock | `build*Tx`, `getPositions`, `getPositionDetails`, `getIsolatedBalance`, ... | the client is shared by all wallets: `withAuthority` swaps the authority in for a section; RPCs fail at any await; sections throw; a rejected `Promise.all` leaves sections queued; accounts are cached that are old by then; several slots of an account carry one market | a section acts for its own wallet; the server's authority is back when none is inside; no transaction mixes wallets; a close keeps its order, only reduces, and is of the position shown; balances add up |
| Routes, `rust-api/src/routes.rs` | `AppState` (cloned per request) | build and execute routes, `/actions/decode`, `/actions/history` | disconnects drop a handler at an await; a failed store is only logged | an answer without error means landed, and logged where the route logs |
| Executor, `executor.rs` | a key and a lock | `execute` | an error does not mean that the transaction did not land | transactions land in the order in which they were executed |
| Decoder, `decoder.rs` | none | `decode_signature` | the node may not have the transaction yet | |
| Action log, `db.rs` | `drift_action_logs`, one connection | `insert_actions`, `fetch_actions` | rows are written one by one; the connection is never reopened | idempotent; a history entry is built from its whole group |
| `rust-api/src/bin/backfill.rs` | a list of signatures | paging, decode, store | the chain grows while it pages | a clean run repairs the log |
| Streamer, `indexer-bin` | last slot and signature, a subscription | `run_streamer`, `health` | drops, gaps, failed fetches, a pair read in two steps | reconnects; loses only what it says it loses |
| Importer, `backfill-bin` | a set of signatures | `collect_signatures` twice, import | a limit shared by two addresses | a clean run covers the wallet |
| `history-bin` | none | `GET /history` | paging with an offset while rows are inserted | no row is skipped |
| Frontend hooks and page | wallets, positions, balances, history, loading flags | fetches, submits, refreshes, effects | late answers, closures over a former wallet | no button stays disabled; the present wallet was shown, and an order in every pane that can know of it |
| `hooks/useServiceStatuses.ts` | a timer, a retry counter, a flag | `runCheck`, `refresh` | the counter is read before an await and written after it; checks overlap | the polling ends; the limit is passed only by the overlap |
| Frontend components, helpers, worker scripts, environment, logger, Docker and build files | none | rendering, formatting | | not modelled |

### Interactions

A route holds a clone of `TsIpc`; several routes call it at once and share one
worker through it. The worker runs their handlers concurrently on one
`DriftClient`. An `/execute` route passes what the worker built to the
executor, which serialises all sends of the server's key, and the
open-position route then has the decoder read the transaction back and stores
its actions. The backfill of the API writes the same table from another process.
`indexer-bin` and `backfill-bin` write `trade_history`, `history-bin` reads it;
nothing but the table connects them.

## 2. The modules

| Module | Models | Extends / composes |
| --- | --- | --- |
| `CallContract` | what a caller of the IPC client is promised: one outcome, an answer only if the worker gave it, a crash error only after a crash | |
| `TsIpc` | `ipc.rs` and the worker's end of the pipe | `INSTANCE CallContract` under a refinement mapping |
| `TsIpcProofs` | theorems about `TsIpc` | `TsIpc`, TLAPS |
| `CallContractProofs` | that `TsIpc` implements `CallContract`, and the invariants of `TsIpc` that need more than `TsIpcProofs` | `TsIpcProofs` |
| `AuthorityLock` | `drift.ts` on its shared client, `ipc.ts` dispatch | |
| `AuthorityLockProofs` | theorems about `AuthorityLock`: its lock, and what the deposits and closes put into their transactions | `AuthorityLock`, TLAPS |
| `Positions` | `getPositionDetails`, the order and withdrawal of `buildClosePositionTx`, market names | |
| `Balances` | `getBalances`, its reads and what moves between them | |
| `AccountProofs` | theorems about `Positions` | `Positions`, TLAPS |
| `WorkerMC` | the three modules of the worker, one at a time | `AuthorityLockMC`, `Positions`, `Balances` |
| `Dashboard` | `pages/index.tsx`, `useAdminWallet`, `usePositions`, `useBalances` | |
| `DashboardProofs` | theorems about `Dashboard` | `Dashboard`, TLAPS |
| `ServiceStatuses` | `useServiceStatuses` | |
| `ServiceStatusesProofs` | theorems about `ServiceStatuses` | `ServiceStatuses`, TLAPS |
| `ProgressMC` | what ends: the worker's handlers and the status checks, one at a time | `AuthorityLockMC`, `ServiceStatuses` |
| `ExecutionContract` | what a client of the `/execute` and decode routes is promised: one reply, "ok" only for what landed and, where the route stores, is stored | |
| `ActionLog` | executor, execute/decode/history routes, `db.rs`, API backfill | `INSTANCE ExecutionContract` under a refinement mapping |
| `ActionLogProofs` | theorems about `ActionLog`: the executor, that it implements `ExecutionContract`, the backfill and the history | `ActionLog`, TLAPS |
| `Indexer` | `indexer-bin`, `backfill-bin`, `history-bin` over one table | |
| `IndexerProofs` | theorems about `Indexer` | `Indexer`, TLAPS |
| `TsIpcMC`, `AuthorityLockMC`, `ActionLogMC`, `IndexerMC`, `DashboardMC` | values of the constants, symmetry | |

### TsIpc

An action is what a task does between two awaits. A call is a caller's program
counter: ensure the worker, register in `pending`, take the mutex, write the
body, write the newline, wait; then an answer, an error, the timeout, or the
path that restarts the worker and calls again. `TakeWorker` and
`FinishTeardown` are the two halves of `handle_worker_failure`, run by the
reader at EOF, by a failed caller and by `Drop`; between them the mutex is free.

- `TsIpc` is `Clone` and implements `Drop` by killing the shared worker. The
  router clones its state for each request, so every request that ends drops a
  clone: `StateClones` bounds how many there are, `StartupDrops` those dropped
  while the router is built, and `ServeWithoutIpc` is a route that makes no IPC
  call (`/actions/*`) and drops a clone all the same.
- Aborting the reader takes effect at its next await. `child.kill()` has sent
  the signal before it first awaits. A spawn may fail at any time. `Disconnect`
  drops a handler's future and so releases only what it held: its `pending`
  entry stays.
- `PipeCap` is the number of lines after which a write to stdin blocks (64 KB in
  the kernel). The other direction is always read and has no bound here.
- tokio's mutex is FIFO; any waiting task may take it here.

### AuthorityLock

Each handler is a sequence of steps: an await outside the lock, a section inside
it, or the building of the transaction. `Body` gives a handler's steps as
`drift.ts` has them, with the sections that a `try` protects (`Swallowed`) and
the parallel probes of `getPositionDetails`. The lock is a chain of tickets
(`AppendToChain`, `EnterLock`, `FinishSection`, `ThrowSection`): a section enters
when the one before has settled, saves the authority, sets its own, and puts the
saved one back in `finally`.

- The SDK is modelled as `drift.ts` uses it. `addUser` caches the account it is
  given, which is what the comment at drift.ts:196 expects of it; if it keeps the
  cached one instead, a section may read an older account (section 6).
- Accounts appear and change on the chain at any time and are never deleted.
  An instruction builder or an RPC may fail at any time. Checks of the input
  (zero amounts, unknown markets) come before any shared state and are left out.
- `initDrift` has finished before the first line is read (`index.ts`).

### Positions

An account is a sequence of slots, each with a market, a position and its
isolated margin. `getPositionDetails` and two `buildClosePositionTx` run
step by step between awaits: the account is fetched (`snap`), cached for all
handlers (`cached`), and margins are read later from whatever is cached by then.
`Keep` and `Relevant` are the loop that leaves one slot to a market, `FindBase`
is the `find()` of the close, `Keys` and `Resolve` are the tables of market
names. What `AuthorityLock` already says of the lock is not said again: a section
of it is one step here, and the probes of one request, which queue at it in one
go, are one step together.

- External: Drift gives a market the slot it lives in, else the first dead one,
  and a dead slot keeps its market; this is why the first slot with a market is
  the live one as long as there is one. Reduce-only orders never pass zero. A
  transaction is executed whole or not at all. Scaled balances are not amounts of
  tokens (`ScaledBalance` makes them differ), so that a row whose margin came
  from the fallback can be told from the others.
- Amounts are small integers; the conversions between numbers and BN are left out.
- The market maps are built from a table of the SDK; the instance has two listed
  markets with one base asset and a traded market that is not listed. The row of
  the latter has the label `MARKET_n`, which no close resolves; `ShownCanBeClosed`
  says so by its precondition.

### Balances

A request of `getBalances` is four reads, each an RPC of its own: the wallet's
lamports, its token accounts, the user account, that account's lamports. Each may
fail, the loop over token accounts also half-way, and what a failure leaves
behind is what the `catch` that meets it leaves: zero, the sums so far, or a
Drift account that is answered as if there were none. The spot positions are
those fetched before the last read and are summed up after it; if that throws,
the lamports just fetched are not answered either. Between the reads transactions
move funds between the wallet, its Drift account and isolated positions, which
the answer does not look at, or create the account.

The turns of the two loops (`AddTo`) build the totals of each mint; `BalancesAddUp`
compares them with a sum over what the chain holds when the request is answered.
A part that did not fail may be off by what was moved meanwhile (`forward`,
`back`) and no more. The whole is closer than its parts: as the wallet is read
before its account, what goes into Drift meanwhile is counted twice at worst, and
only what is withdrawn meanwhile can be missing.

### ServiceStatuses

A timer check begins, waits for two or three fetches, and then counts itself and
goes on (`Count`); the timer is stopped by the check that counts up to the limit
or by the next tick. `running` says how many checks stand at each fetch. Checks of the
Refresh button do not count. What is fetched is not kept: it only becomes a lamp.

### ActionLog

A request is its handler's place: build, lock, send, confirm, decode, insert. A
sent transaction lands, and succeeds or fails there, or expires, when the chain
decides; `ConfirmFails` may come before, after or without landing, and
`Confirmed` only when it has succeeded: `send_and_confirm_transaction` of the RPC
client returns the error of a transaction that landed and failed. `Cancel` drops
a handler at any await, `Restart` all of them, `DropConnection` loses the only database connection. A
transaction is the sequence of its instructions that the decoder knows: a deposit
and an order for an open; a withdrawal or nothing for a close, whose order is
of a kind the decoder does not know. `ExecutionContract` sees of all this a
request, its transaction's fate, the stored transactions and the reply;
`Contract` maps the one to the other. The history query takes rows by slot in an
arbitrary order within a slot.

### Indexer

The chain is a sequence; the position of a transaction is its signature, and two
neighbours may share a slot. The streamer's steps are those between its awaits,
with the slot stored before the signature and `/health` reading them the other
way round. The importer's two collections share one set. A client pages through
`/history` while both writers insert.

### Dashboard

A pane is a hook with a loading flag: the admin wallet, the positions, the
balances, the history. `fetches` is the bag of its calls that wait for an answer;
a call carries the wallet of the render that made it, and `Rerender` starts the
calls of the effects whose wallet has changed while the old ones go on
(`Arrives` shows whatever comes). A handler is pressed with the wallets of that
render, sends its order, and refreshes its panes one after the other, each
whatever became of the one before (`Resume`). An order may be executed although
the page sees an error (`OrderFails`), as `ActionLog` says. The server reads the
data when it is asked: reading later only shows more. An effect runs in the same
step as the render that caused it.

What an answer can tell depends on what it is read from (`Known`). Positions and
balances come from the chain, where an order is once it was executed; an answer
may come short of it (`ComesShort`) where `Balances` and `Positions` say so. The
history comes from the log. Of the routes behind the buttons only the one that
opens a position stores its order, after executing it and before it answers, and
a failure to decode or to store it is only warned about (`StoreOpened`, a step
that need not be taken). So the history never owes a close or a transfer. It has
a number of entries at most: `HistoryRoom` is how many of this page's orders fit
beside those that others store meanwhile, and with more of them in the log no
answer is sure to have a given one (`Overflowing`).

## 3. What the passing runs show

Bounds are in the `.cfg` files, named in the modules' `CONSTANTS`.

| Run | Question | Bounds, and why they are enough |
| --- | --- | --- |
| `ipc_calls` | no process without an owner, no waiter without a worker, only the known leaks of `pending`, lines merge only after a cancellation, a crash error needs two dead workers; `TsIpc` implements `CallContract`; every call returns, also when the worker never answers | two callers, two processes and one retry each as in the code; a crash, a cancellation and dropped clones, so that teardowns of the first worker meet the second; a pipe of one line, so that writers block. For any number of callers and workers all six invariants and the refinement are proved (section 5) |
| `authority_safety` | authority, wallets, missing accounts, closes; the rows of a user's positions tell the account, what is shown can be closed, a close only reduces and is refused for a reason; balances add up | two handlers of two wallets: a violation needs one section between another's steps. Two of three requests (a read of details, two closes), three moves of the chain and two slots: a position, a dead slot of the same market, and an account that is old when it is cached or when its close lands. Two holdings of two mints, debts included, and one transaction, which may fall between any two reads, with any of them failing |
| `authority_liveness` | every request of the worker is answered; the status checks end, and go past the limit by their overlap only | one wallet suffices, sections do not depend on it. Limit 3 as in the code, five checks: two more than the limit, all of which may overlap |
| `log_execute` | execution order, stored if answered so, transactions that reverted are never stored by the route that sent them, `ActionLog` implements `ExecutionContract`, the executor's lock is always released and every handler answers | two opens and a decode; one of each fault at any point |
| `log_records` | a clean backfill repairs the log; the history shows the newest signatures and whole groups | limit 2 and pages of 1 over three transactions: several pages, and one transaction beyond the limit; a history of one entry, so that the row limit (3) falls inside the five rows of three transactions |
| `indexer_stream` | `/health` pair, what may be missed, the stream always comes back | three transactions, one cut, one crash, one failure: a gap, and a transaction on either side of it |
| `indexer_records` | the wallet is covered, paging skips no row | limit 2, pages of 1, three transactions of two kinds: the chain grows between pages, and rows are inserted above and below every offset |
| `dashboard` | no button stays disabled, one order of the form at a time, the present wallet's data were shown, orders are shown by the panes that know of them, every handler ends | two handlers, one that opens and one that opens or closes, one timer, wallet or click event and one failure: a wallet change in the middle of a handler, answers in any order. A history with room for one order: two are stored, and it overflows |

`WorkerMC` and `ProgressMC` put modules that share no state into one run. TLC
explores them one at a time (one moves only while the others have not begun): an
interleaving of machines without common variables reaches no other state of any
of them, and in `ProgressMC` fairness is asked only of the one that has begun.

Each property has a mutant in `PROJECT.json`: a plausible error in the mapped
code under which TLC finds the property violated.

Fairness. tokio polls a woken task, Node runs a settled promise's callbacks, so
each internal step of a handler, of the reader, of a teardown and of the
streamer is weakly fair. In `Dashboard` the API answers each request, which is
what `EveryRequestAnswered` and `CallReturns` say of it. The timeout of a call
fires. In `ServiceStatuses` the timer fires and every fetch ends, as a browser
gives up on a connection in the end; nothing is assumed of how long it takes. In
`AuthorityLock` every RPC settles: web3.js sets no bound of its own, so this is an assumption about the node, and without it one hung RPC inside the
lock does stop every wallet. In `ActionLog`, confirmation ends because it stops
when the blockhash expires; taking the lock is strongly fair because tokio's
mutex is FIFO. Nothing is assumed of crashes, drops, disconnects and failures:
they are bounded and may never happen. Deadlock is checked in every run; an
action `Quiescent` marks the states in which the services rightly wait.

## 4. What the violation runs show

| Run | The repository says | The code does |
| --- | --- | --- |
| `ipc_hung` | IPC calls have a timeout (README.md) | the timeout covers only the wait for the answer; a write to a worker that does not read has none |
| `ipc_selfkill` | the worker is restarted on a crash | dropping a clone of the client after a request kills the worker others are using |
| `authority_positions` | a snapshot for the wallet | `getPositions` reads the margin outside the lock, for whichever wallet is swapped in |
| `indexer_both` | up to `BACKFILL_LIMIT` signatures for each address | the limit counts both together |

The findings in `PROJECT.json` quote the lines.

## 5. What is proved

TLAPS proves the following for every value of the constants (any number of
callers, processes, clones, requests, wallets and markets, any pipe capacity, any
limit and page size). Every invariant that a passing run checks is proved, except
`BalancesAddUp`, and so are `ClosesOnlyReduce` and both refinements. TLC has checked each inductive
invariant on the instance of its module's run.

`TsIpcProofs`: `Invariant` shows that `IInv` is inductive, and from it follow
`TypeCorrect`, `NoOrphanProcessHolds`, `NoStrandedWaiterHolds` and
`OnlyKnownLeaksHolds`. The safety properties are not inductive alone. `IInv` adds
who may hold the mutex and at which step (`MutexInv`), that the worker in the
mutex is the last one spawned and that a process taken out of it belongs to one
teardown (`WorkerInv`), and what the state of a caller's slot in `pending` says
of where the caller is (`SlotInv`). A waiter is not stranded because its entry
was registered before the teardown that ends its worker could fail all entries.

`CallContractProofs`: `FullInvariant` shows that `JInv` is inductive, and from it
follow `MergedOnlyAfterDisconnectHolds`, `CrashErrorNeedsTwoDeathsHolds` and
`ImplementsContractHolds`, that is `Spec => Contract!Spec` under the mapping of
`TsIpc` (`Status`, `Runs`). `JInv` adds to `IInv` that the pipes hold finitely
many requests a line, all of calls that were begun (`LineInv`); that an answer is
about a request the worker has handled, and an outcome is set only at the end
(`AnswerInv`); that what stands before the newline was written by the holder of
the mutex or by a call that is gone (`MergeInv`); and that all workers but the
last are dead and a second attempt has met a second worker (`DeathInv`).

`AuthorityLockProofs`: `Invariant`, then `TypeCorrect`,
`ActsForItsOwnWalletHolds`, `RestoredAtRestHolds`,
`InstructionsForOwnWalletHolds` and `LockedReadsOwnMarginHolds`. `IInv` says that
tickets are distinct and settle in order (`TicketInv`), that at most one section
is inside, and that it has saved the server's authority and set its own wallet's
(`HolderInv`), that what a handler has gathered is its own wallet's (`TaskInv`),
and that the reads under the lock are (`PeekInv`).

The same module has `HandlerInvariant`, then `MissingAccountIsCreatedHolds` and
`CloseKeepsItsOrderHolds`. `HInv` adds to `IInv` the stage each handler has
reached. A deposit is ahead of its existence check, between the check and its
fetch, or past both, and in each stage what it relies on exists or is created by
the transaction (`DepositInv`); accounts are not closed, so that an account
missing when it was fetched was missing when it was checked. A close is reading
its margin, withdrawing without a position, or reducing the position, and then
its order is still to come or collected (`CloseInv`).

`AccountProofs`: `PositionsInvariant`, then `DetailsTellTheAccountHolds`,
`ShownCanBeClosedHolds` and, as an action property, `ClosesOnlyReduceHolds`.
`PInv` says that accounts are tidy, wherever they are kept: the slot a market
lives in is the first that carries the market (`TidyInv`). So the loop of the
details and the `find()` of the close come to the same slot. What is cached is an
account that some request has fetched (`CacheInv`); the rows are those of the
request's own account with the margins of a fetched one (`DetailsInv`), as is
the margin a close has read, and a close was refused for a reason (`ClosesInv`).
A close that lands on a later account is cut to the position it finds, and its
side never makes one grow.

`DashboardProofs`: `Invariant`, then `TypeCorrect`, `ButtonsTellWhatRunsHolds`,
`PresentWalletWasShownHolds` and `OrdersAreShownHolds`. `IInv` adds that a loading
flag has a call of its pane under way (`LoadingInv`); that a pane not set for its
present wallet has a call under way about that wallet (`SettledInv`), which the
effect of the change has made and which only its own answer takes away; that a
handler waits for one call, about the wallet of its own closure and made after
its order was executed, and for the history after it was stored, if it ever is
(`AwaitInv`); and that the panes that can know of an order and have not shown it
are among those its handler has still to refresh, or are a history that has
overflowed (`OrderInv`), so that nothing else is left when it ends. Orders are
never taken out of the log, so a history that has overflowed stays so
(`OverflowStays`).

`ServiceStatusesProofs`: `StatusInvariant`, then `StatusTypeCorrect` and
`OvershootHolds`. The overshoot is not inductive by itself: `StatusInv` adds that
each check that was started has been counted or still runs, and that those that
run were counted into the overlap.

`ActionLogProofs`: `Invariant`, then `OkInSendOrderHolds` and
`RevertedOnlyOnRequestHolds`. The order is not inductive: `IInv` adds that whoever
sends or waits for a confirmation holds the lock (`LockInv`) and that the one that
waits is about the transaction sent last (`SentInv`), so that all that was sent
before has been confirmed or given up; that a transaction lands once (`ChainInv`);
that a handler past its confirmation is about one that has succeeded (`ExecInv`);
and how much of the rows of its transaction a handler has stored (`StoreInv`).

`ImplementsContractHolds` of the same module is `Spec => Contract!Spec`. In a
state of `IInv` each action is an action of the contract under the mapping of
`ActionLog` (`Fate`, `Stored`), or a `Store` that stores nothing: `SilentStep` and
`AnswerStep` are the two forms of a handler's step that leaves the chain alone,
and sending, landing, expiring and the restart have one lemma each. That an "ok"
is true comes from `ExecInv` and `StoreInv`.

Its third part is `RecordInvariant`, then `TypeCorrect`, `BackfillRepairsHolds`
and `HistoryTellsTheLogHolds`. A transaction that has landed keeps its place in
the chain, and a row tells of an instruction of one that has landed (`LogInv`).
What a backfill has collected is a stretch of the chain whose top is the newest
transaction of its first page (`Stretch`); when the pages end, the stretch has
reached the bottom or the limit, and either way holds what was newest. From then
on each of those is still to be read or its rows are in the log, as long as no
step has failed (`BackfillInv`). The history is right because no transaction has
more than three rows, which is `ShapesAssumption`: three rows for each entry then
reach as many signatures, and all rows of each that is shown, except where the
limit falls among transactions of one slot. A history that was answered stays
right because its rows stay in the log (`HistoryInv`).

`IndexerProofs`: `Invariant`, then `TypeCorrect`,
`HealthSlotCoversSignatureHolds`, `OnlyGapsAndFailuresMissHolds` and
`BackfillCoversWalletHolds`. The channel is in the order of the chain and after
what was taken from it (`StreamInv`), so that slots and signatures are published
in that order too and a signature read first is not newer than the slot read
after it (`HealthInv`); what is not stored is in a gap, in the channel or in hand
(`MissInv`); the importer has all transactions of the wallet from its cursor on
(`ImportInv`), so that an empty page or a full limit means that it has the
newest. That a set of signatures has a newest member rests on the library's
theorem that the natural numbers are well-founded. `PageInvariant` and
`PagesMissNothingHolds` are about the client of `/history`: a row that shares its
slot with none is among the first n rows if and only if fewer than n have a higher
slot (`TopHas`); rows only come, which pushes others down and never up, so that a
row with fewer above it than the client's offset has been seen (`PageInv`).

The only assumptions used are the modules' own `ASSUME`s on their constants,
which TLC evaluates in every run. Two of them say more than what a constant is.
`ListedAssumption` of `Positions`: in the table of the SDK no symbol of a market
is also another name of one before it, or a row's label would resolve to that
one. `ShapesAssumption` of `ActionLog`: what a route builds has at most three
instructions the decoder knows (drift.ts puts at most a deposit and an order, or
a withdrawal, into one transaction).

Only model-checked, because liveness under fairness is out of the provers'
reach: `CallReturns`, `EveryRequestAnswered` of the worker and of the API,
`ChecksEnd`, `Reconnects` and `HandlersEnd`. And `BalancesAddUp`, because what
the loops over holdings add up to is an induction over data.

The proofs changed the models where these could not be reasoned about.
`EntryPrice` of `Positions` was a CASE whose guards overlapped, which leaves its
value open; it tries them in the order of the code now. `NewestFirst` of
`ActionLog` says of each place which signature has that many newer ones, instead
of sorting.

## 6. Known gaps the models keep

They are in the models, bounded by properties, and nothing in the repository
promises otherwise. A transaction may land although `execute` answered with an
error; a request cancelled between its body and its newline merges with the next
line (`MergedOnlyAfterDisconnect` says that nothing else does); an account
fetched before the wait for the lock may replace a newer cached one, depending
on the SDK's `addUser`, and hide margin from a close or a row (`ShownCanBeClosed`
and `DetailsTellTheAccount` say when); a row whose equity is not positive shows
the scaled balance for its margin; a
balance whose read failed is shown as zero, and spot positions that cannot be
summed up take the account's lamports with them; funds withdrawn while the
balances are read may be told in no part;
a transaction that landed and failed is stored as an action when the decode route
or the backfill names it; a trade whose fetch or insert failed is not tried again;
an order may be executed and not logged, and closes and transfers never are but
by a backfill or the decode route, so that the history the page refreshes after
them does not show them; the database connection is not
reopened; an answer for a former wallet may replace the present one's on the
page, whose buttons then act for a wallet that is not on display; a confirmed
transaction in the gap between two subscriptions is imported only by a backfill;
rows that share a slot have no fixed order.

## 7. Not modelled

Prices, PnL and liquidation prices, and amounts as fixed-point numbers; the
sizes of the orders and transfers of the other handlers; `getMarket`,
`getTrades` and `initDrift`, which keep no state; JSON and Borsh formats, key
handling, HTTP validation and status codes, logging, rendering, labels, amounts
and mints of trades (`detect_action`, `compute_balance_change`), the local entry
that a transfer adds to the history list, the scripts.
What the SDK and the Drift program do is modelled as `src/` uses them.
Reorganisation of confirmed slots and accounts closed on the chain are outside
the environment.

## 8. Plan

Done: `TsIpc` with `CallContract` (the process boundary, most of the concurrency),
`AuthorityLock` (the shared client), `Positions` and `Balances` (what the worker
makes of an account), `ActionLog` with `ExecutionContract`, `Indexer`,
`Dashboard` and `ServiceStatuses`; proofs of the invariants of these modules, but
for `BalancesAddUp`, and of the refinements of `CallContract` and `ExecutionContract`.

Next, in this order. New questions share a run with the ones of their component
where the bounds allow it.

1. `detect_action` and the balance changes of a trade against a reference
   definition.
2. The amounts of the transfer, open and deposit handlers.
3. A proof of `BalancesAddUp`, with the sums as recursive functions whose values
   are related at the least place where they would differ.

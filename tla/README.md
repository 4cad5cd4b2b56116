# monmetrics in TLA+

A verification project for monmetrics, a metrics server and the agent that feeds
it. It models the Go code under `src/` in TLA+, checks the models with TLC on
small instances, and proves the most important results with TLAPS for every
value of the constants.

## The system

The **agent** (`cmd/agent`, `internal/agent`) polls the Go runtime and the host,
and sends what it finds to the server. The **server** (`cmd/server`,
`internal/api`, `internal/metrics`) keeps the last value of each gauge and the
sum of each counter, in memory with a file behind it or in PostgreSQL.

| Component | State | Operations | Talks to |
|---|---|---|---|
| Metric model (`metrics/model.go`) | none | kinds, the submitted metric with an optional value and delta | everyone |
| Repository interface (`domain/interfaces/repository.go`) | what its implementation keeps | UpdateGauge, UpdateCounter, UpdateMetricsBatch, GetGauge, GetCounter, GetAll, Save, Load, Close | called by the service, `main` and the savers |
| In-memory repository (`repository/storage.go`) | two Go maps, a `sync.RWMutex`, the file and `path.tmp` | all of the interface | the file system; called by one goroutine per request and by two savers |
| PostgreSQL repository (`repository/postgres.go`) | two tables | all of the interface; each statement retried three times | the database |
| Server process (`cmd/server/main.go`, `repository/init_storage.go`) | none of its own | start, restore, ticker goroutine, signal goroutine, exit | the repository |
| Metrics service (`metrics/service`) | none | delegates, validates JSON metrics, drops the errors of single updates | the repository |
| Handlers, router, middleware (`internal/api`) | none | decode, check the hash, answer with a status | the service |
| Agent pipeline (`internal/agent`) | a channel of 100 batches, a channel of tokens, goroutines | two collectors, `processMetrics`, one goroutine per batch | the sender |
| Sender and Retry (`metrics/sender`, `utils`) | none | SendBatch, SendJSON, three attempts with pauses | the server over HTTP |
| Configuration (`internal/config`, the `flag.go` files) | none | flags and environment into a configuration | both `main`s |
| Collector (`metrics/collector`) | the number of polls | Collect | the agent |
| staticlint (`cmd/staticlint`) | none | a set of Go analysers for developers | nobody |

What is hard in it, and where correctness lies:

- **the lock of the in-memory repository**: writers and `Save` take it, readers
  do not; `UpdateGauge` and `UpdateCounter` unlock without a `defer`; the HTTP
  server recovers panics. A save must see whole calls, the lock must come back,
  every call must be one atomic step;
- **the file**: it is written by two goroutines that exclude writers but not each
  other, and processes are killed. The file must never be torn, and must never
  lose what it has;
- **the end of the process**: a signal must stop it, with everything saved, also
  when a save fails;
- **the pipeline of the agent**: two channels that block. Tokens must balance,
  nothing may be skipped or stuck;
- **the database**: batches lock rows in the order they list them, answers get
  lost after a commit, errors are dropped. A batch must be all or nothing, repeats
  must be bounded, rows must be given back;
- **delivery**: requests and responses get lost or come late and are repeated.
  What is acknowledged must be stored, duplicates must be bounded.

`PROJECT.json` lists these hazards line by line, each with the properties that
are about it or the reason why there are none.

## The modules

| Module | Models | Kind |
|---|---|---|
| `Metrics` | `model.go`: kinds, metrics, what one write does to a stored value, with the wrap-around of int64, and what a list of metrics does to both maps (`Puts`, the loop that both repositories have) | vocabulary |
| `MetricsStore` | the repository interface: a store on which every call acts in one step between its invocation and its reply | abstract specification |
| `MemStorage` | `storage.go`: every method, the RWMutex step by step, the unlocked readers, nil maps and panics | detailed; implements `MetricsStore` |
| `MCMemStorage` | the calls and files of the TLC instances | model checking |
| `Persistence` | `main.go` with `Save` and `Load`: start, restore, ticker, signal, exit, kill, and the file system calls of two savers | detailed |
| `AgentPipeline` | `agent.go`: collectors, channel, limiter, sending goroutines | detailed |
| `Delivery` | `http.go` and `Retry` against the gzip middleware, `UpdateJSONHandler` and the service, over a network | detailed |
| `PostgresStorage` | requests on `postgres.go`: the writes with `Retry` and `checkError`, row by row, and the reads, query by query | detailed |
| `MCPostgresStorage` | the requests of the TLC instance | model checking |
| `Handlers` | `handler.go` and `service.go`: which requests are refused, what is asked of the repository, with which status they are answered | operators, used by `PostgresStorage` |
| `HashCheck` | the HashSHA256 header, set by the agent and checked in two ways by the handlers | operators, used by `Delivery` |
| `Config` | `config.go`, both `flag.go` and what both `main.go` make of them | operators, used by `Persistence` and `MCAgentPipeline` |
| `MCPersistence`, `MCAgentPipeline` | the environments, command lines and the rate limit of the TLC instances | model checking |
| `MetricsProofs` | lemmas about the operators of `Metrics`, which the next three build on | proofs |
| `MemStorageProofs`, `MemStorageRefinement`, `PersistenceProofs`, `AgentProofs`, `DeliveryProofs`, `PostgresProofs`, `PostgresTableProofs` | theorems | proofs |

**MemStorage.** `maps` is both Go maps, as one function on pairs of kind and
name. Each goroutine is at a location of the call it is in: `entry` (the
`ctx.Done()` check; `Expire` is its early return), `lock` and `drain` (the two
halves of `mu.Lock()`: `Announce` keeps others out, `Acquire` waits for the
readers inside), `hold` (the loop over the metrics), `assign` (inside a map
assignment), `lookup` and `scan` (the unlocked reads), `rlock` and `marshal`
(`Save`). `UpdateGauge` and `UpdateCounter` are loops over one metric, and differ
from `UpdateMetricsBatch` in what a panic does to the lock (`Panic`). A map
assignment takes two steps, `Assign` and `Store`, so that a reader can fall
between them: the Go runtime may then kill the process (`Fatal`), or the reader
may get any of the values in `Visible`. `Save` and `GetAll` visit the keys one by
one, in any order. `committed`, a history variable, is what the maps were when
the write lock was last released. It is also the refinement mapping: the abstract
store changes when a writer unlocks.

**Persistence.** The contents of the maps are the set of updates they reflect, and
a whole update or batch is one step; the property `SaveSeesWholeCalls` of
`MemStorage` is what allows that. Its guard `WriteLocked` is the lock: no `Save` is
in progress, and no handler has panicked with the lock held. A `Save` is
`Marshal`, `Open` (creates or truncates `path.tmp`), `Write`, `Rename`, any of
which may fail; descriptors follow the file they are open on, which is what makes
two savers interesting. The environment is the constant `Env`. Every start takes
one of `CommandLines`, and those in `Signals` are the ones somebody stops with a
signal; whether there is a ticker, a path and a restore follows from these through
`Config`. `Down` is the end of a process; `Start` is `main` up to `server.Start`.
`StartFails` is a `log.Fatal` before the server serves.

`Found` is what may be under the path before the first start: nothing, a document
of the server's own, or one in which a map is missing or `null` and which then makes
a Go map nil. An update of that map panics (`Panic`), the lock is leaked, and every
later `Save`, the one before the exit included, waits in `RLock` for ever. That no
such file comes from the server itself is the theorem `NullComesFromOutside`. Of
the two maps only that of the counters is taken to be null, with `Counters` any
set of the updates; a panicking batch unlocks in its `defer` and leaves the updates
in front of the bad one, which are `Update`s that nobody answers.

**AgentPipeline.** A batch is in one of seven stages: not made, in the hand of
its collector, in the channel, in the hand of `processMetrics`, sent as a batch,
sent metric by metric, over. `queue` and `limiter` are the two channels. The
limit of `agent_zero` is what `RunRateLimit` of `Config` says that `main` passes
on, beside `FlagRateLimit`, which `ApplyFlags` computes and drops.

**Delivery.** One sending goroutine and its batch. `item` is what it posts (the
whole batch, then each metric), `attempt` is the loop variable of `Retry`; `net`
holds the requests no handler has seen, `answer` is the status that has come
back. `applied` counts how often the server has added each metric. The
repository behind the handler is the in-memory one, which applies an update once
or not at all; with PostgreSQL each application may be doubled (`TwiceAtMost`).

**PostgresStorage.** `tables` is what is committed, `locks` says which transaction
holds each row, `rows` what a transaction has written and not yet committed, and
`idx` how many metrics of its call it is past. A statement of a transaction sees
its `View`: its own rows, and of the others what is committed by then. `Execute`
makes its sum of that, under the lock of the row, and `Commit` writes the `View`
back, so that a sum made of an old row would overwrite what others have committed
meanwhile: the mutant `ExecuteReadFirst` selects, adds in Go and updates, and loses
updates, and `ExecuteOutside` leaves half a batch behind. `Update` is the single
statement, which commits by itself; `Begin`, `Execute`, `Skip`, `Refuse`,
`Overflow`, `Deadlock`, `Break` and `Commit` are the batch. Each of them may end an
attempt (`Ends`): with success, with an error that Retry answers with another
attempt, or with one that `checkError` drops, after which Retry reports success. An
answer may be lost after the commit (`Effect` with `Fault`). The third attempt starts
4 seconds after the first, and the handler's context ends after 2: `database/sql`
refuses it (`Late`). `InTime` is that 2 of 3. The locks of the rows and the
detection of deadlocks are PostgreSQL's, and external in `PROJECT.json`.

A request that reads goes from `query` (and for the page `counters`) to `answer`;
an update of one counter by JSON does so after its write, whatever came of it.
`got` is what it has read, `trail` the history of what was committed meanwhile.
`Shown` is what the response then says of a row: what was read, or a delta of 0
where the service has dropped the error of the read back, or found no row
(`service.go` 76-78). `Status` is the code of the response, by the operators of
`Handlers`: a batch is a 500 only if `Retry` has returned an error; the service
drops the error of `GetCounter` but not that of `GetGauge`, so a failed read of a
counter is a 404.
`Handlers`, `HashCheck` and `Config` have no state: what they say is checked and
proved through the modules that use them.

## What is checked

| Run | Instance | Shows |
|---|---|---|
| `mem_writes` | 3 goroutines, one gauge and one counter in a word of -2..1, four calls, two files | `MutualExclusion`, `SaveSeesWholeCalls`, `LeakNeedsNilMap`, the inductive invariant `Inv`; `CallsAreAtomic`: `MemStorage` implements `MetricsStore` |
| `mem_reads` | 2 goroutines, updates, a batch, a save, `GetCounter`, `GetAll` | `LeakIsForever`; under fairness `CallsReturn` |
| `mem_batch` | 2 goroutines | violation: a failed batch is not a transaction |
| `persist` | 2 updates, 3 starts, each with the default command line or with `-i 0`, signals to the latter, 2 failing operations, loads that may fail, NaN, no file or one with a null map | `FileNeverTorn`, `DurableNeverShrinks`, `LoadedIsKept`, `ExitSaves`; under fairness `EventuallySaved`, `SignalStops` |
| `persist_race` | ticker and signal, 1 update, 1 start | violation: the file is torn when the process exits |
| `persist_sync` | `-i 0`, so a store interval of 0 | violation: an answered update is not in the file |
| `agent` | 2 collectors, channel of 2, limit 2, 3 batches each, cancellation | `RateLimitRespected`, `StartedInOrder`; under fairness `EveryBatchIsTried`, `CancelStopsCollectors` |
| `agent_zero` | the rate limit of `main`, which is 0 | violation: the first batch is never sent |
| `delivery` | 2 metrics, 3 attempts, two keys or none on each side | `BoundedDuplicates`, `AckedIsApplied`, `OtherKeyLeavesNoTrace`; under fairness `DeliveryEnds` |
| `delivery_expired` | 1 metric, handlers may outlive their context | violation: 200 for an update the store refused |
| `postgres` | 2 goroutines, 2 rows, up to three requests out of a counter update that reads back, two batches in opposite orders, one that is refused, a read of each row and the page, 2 faults | `TwiceAtMost`, `LocksAreHeld`, `CommitsAreWhole`, `SumsStayInRange`, `ReadsAreFresh`, `GaugeMissingIsTrue`; under fairness `CallsEnd` |
| `postgres_dropped` | 2 goroutines, the two batches in opposite orders, no faults | violation: a batch that was rolled back is answered 200 |

Each property of a passing run has a mutant of the code's model that breaks it;
the mutants stand in front of the definitions they change.

**Bounds.** Goroutines of `MemStorage` interact through the lock and the maps
only. Three make the shortest case that two cannot: a writer that waits for a
reader while another writer or save waits for it. A word of four values wraps
after two increments. The calls contain a batch over both maps, one that breaks in
the middle and one with an unknown type; the files have both maps or one that is
null. `Persistence` needs a second start to read what a first one wrote and a
third to read what a restored one wrote; with the command line free at every start
a ticker's file is restored by a server that a signal stops, and the other way
round. Two faults can hit two saves of the ticker or the same step twice. Of two
updates one is of the map that may be null, so a server can go on with one map,
save, and then leak the lock; of the two savers only one is at work under each
command line, which is what `SingleSaver` of the proofs says and `persist_race`
gives up. A channel of two and six batches fill the channel, block both collectors
and exhaust a limiter of two. Two metrics and three attempts let each metric be
late for the other. `PostgresStorage` deadlocks with two batches on two rows; two
faults lose the answers of two attempts of one call, or of two calls; with three
requests a read can have a commit before its first query, between its two and
after them.

Named bounds: `HalfRange`, `MaxStarts`, `MaxFaults`, `MaxBatches`, `MaxCalls`.
Deadlock is checked in every run but `agent_zero`. The idle ends (`Stopped` of
`MemStorage`, `Over` of `Persistence`, `Delivery` and `PostgresStorage`, `Quiet`
of `AgentPipeline`) are steps that change nothing and are enabled only where the
system may rest: a dead process, a leaked lock, no more starts, all delivered,
nothing under way.

**Fairness.** `MemStorage`: goroutines are scheduled, and the RWMutex starves
nobody, hence strong fairness of `Announce` and `RLock`: the writers queue on a
`sync.Mutex`, which hands itself over to a waiter that has starved, and an
unlocking writer lets the waiting readers in first. `Persistence`: the savers run,
the ticker ticks, system calls return; nothing is assumed of clients, signals,
kills or starts. `AgentPipeline`: goroutines run, requests end because the client
has a timeout of 5 seconds, and blocked senders of a Go channel are served in
order, hence strong fairness of `Enqueue`. `Delivery`: the sending goroutine runs
and its client has a timeout; nothing is assumed of the network or the server, so
`DeliveryEnds` holds even if no request ever gets through. `PostgresStorage`:
goroutines run, the database answers or the context ends, and PostgreSQL queues
the waiters of a row, hence strong fairness of a goroutine's steps.

## What the violations show

1. **A failed batch stays half written** (`mem_batch`). The interface calls the
   batch one transaction (`repository.go` 19); `storage.go` 180-187 returns in the
   middle of it.
2. **A shutdown can tear the file** (`persist_race`). `main.go` 98 saves beside
   the ticker; both hold the read lock and use the same `path.tmp`.
3. **Interval 0 is not synchronous** (`persist_sync`). `config.go` 17 and
   `flag.go` 16 say it is; `main.go` 71 starts no ticker, and no handler saves.
4. **The rate limit is 0** (`agent_zero`). `cmd/agent/main.go` 45 passes the field
   that only the environment could set, not the flag with its default of 1.
5. **200 without an update** (`delivery_expired`). `service.go` 69 and 75 drop the
   error of the repository.
6. **200 for a batch that was rolled back** (`postgres_dropped`). PostgreSQL fails one
   of two batches that wait for each other; `checkError` (`postgres.go` 252) passes on
   only the errors on its list, `Retry` sees none, and the handler answers 200, which
   `handler.go` 336 calls success, beside a 500 for internal errors (339). The client
   does not send the batch again.

Not shown by a run of their own, as nothing moves in them, but there to be read in
`Config`: the server's `-f`, `-d` and `-r` have no effect, because `main.go` 48 and
54 use what the environment has set and not what `ApplyFlags` has made of it. For
`-f` the theorem `FlagPathIsIgnored` says what follows. Likewise in `Handlers` and
`PostgresStorage`: a counter that cannot be read is answered 404 (`service.go` 50
makes every error a "not found"), where `handler.go` 123-125 and 273-275 promise 404
for a missing metric and 500 for an error, so `GaugeMissingIsTrue` is said of gauges
only; and an update of a counter that cannot be read back is answered 200 with a
delta of 0, which `ReadsAreFresh` states as its exception.

Both `main`s call `env.Parse` with something else than a pointer to a struct
(`config.go` 101 passes a pointer to a pointer, `cmd/agent/main.go` 33 a struct by
value). The library is not under `src/`; its documentation asks for a pointer to
a struct, and a call that fails ends the program through `log.Fatal`. The models
keep both outcomes: `StartFails` beside `Start`, and for the agent what happens
once `Run` is reached, where a copy of the struct cannot have set the field.

## What is proved

Every safety property that a passing run checks is stated by a theorem. `tlapm` checks the
eight proof modules to the last leaf, for any constants that
satisfy the named assumptions of the modules (`MetricsAssumption`,
`MemStorageAssumption`, `PersistenceAssumption`, `AgentAssumption`,
`DeliveryAssumption`, `PostgresAssumption`). Some theorems have a hypothesis of
their own, a named operator or an equation on a constant: it says under which
configuration, or in the absence of which failure, the result holds, and a run
shows what happens without it.

**Metrics.** What a list of metrics leaves behind, `Puts`, is a recursive function,
so what is proved of it needs induction over the length of the list. The library's
induction theorems take an operator as a parameter, which the provers cannot
instantiate; `Induction` states the same for a *set* of natural numbers, and rests
on the least element of such a set (`LeastNatural`), which follows from the
library's theorem that finite sets are well-founded under inclusion. With it come
that `Puts` exists and is what its definition says (`PutsDef`, `PutsNext`), that it
keeps the type of the maps as long as the metrics have values (`PutsInMaps`), that
what it does to the rows of the metrics depends on these rows only (`PutsLocal`),
and that it leaves the others alone (`PutsElsewhere`).

**MemStorage.** `Inv` is inductive: the types, `LockDiscipline`,
`SaveSeesWholeCalls` and `LeakNeedsNilMap`. `LockDiscipline` says what the
properties leave implicit: a writer owns the lock from `Announce` on, the
registered readers are exactly the saves that iterate, a writer is alone once they
have left, and the maps differ from the last released state only while a writer
is inside. Without that last part `SaveSeesWholeCalls` is not inductive, as a save
might start on maps that are half written. The step lemmas follow the code: start-up
and invocation, the steps of the lock, the loop, the ways out of it, the readers.
From `Inv` follow `TypeCorrect`, `WritersAreAlone`, `SaveIsConsistent`,
`NoLeakWithoutNilMap`, and, with one more step argument, `LeakIsPermanent`.

The refinement `CallsTakeEffectAtOnce` (`Spec => CallsAreAtomic`) needs `RefInv`, which
adds two parts to `Inv`. `Served` ties a goroutine's place to its call: what it
waits for is a call until it returns, and what only reads is a call that reads.
`HalfDone` says what `LockDiscipline` leaves open about the middle of a batch: the
maps are `Puts(committed, ms)[idx[p]]`, the metrics the writer is past over what the
last writer left, and each of these could be written. The abstract call takes
effect when the writer unlocks: `Finish` is `SApply`, as its `idx` has reached the
end of the list; `Reject` and `Panic` are `SFail` at the metric `idx[p] + 1`, a leaked
lock included, since only updates of one metric leak it; returns of the readers are
`SRead`; all else is a stutter. `CompleteBatchesAreTransactions` is the counterpart
of the violation `mem_batch`: where no batch holds a metric without its value and
the file has both maps (`NothingToRefuse`), `SFail` cannot happen, and what is left
of the two promises is the same (`OnlyFailuresDiffer`).

**Persistence.** The base invariant is the types, "a save in progress has
marshalled the maps as they are" (`SnapshotIsCurrent`), and what an idle saver
looks like; it holds for any number of savers at work and gives `TypeCorrect`. The
next four theorems assume `SingleSaver`: no command line has both a ticker and
signals. Then a descriptor of the saver is open on `path.tmp` or on nothing,
`path.tmp` is complete when it is renamed, and the file is never torn
(`NoTornFile`). A server that has loaded the file holds what is in it
(`Restored`), so what is in the file stays there (`DurableIsKept`); whatever
`Load` did, a server that holds what is in the file keeps it (`LoadedStays`); and a
`Save` that has returned without an error has put what had been answered into the
file, also after failed ones (`ExitHasSaved`). `persist_race` shows why
`SingleSaver` is needed. The others have no such assumption. `LeakEndsSaving`: once
a panic has leaked the lock the maps and the file stay as they are until the
process goes down, which is why the two liveness properties have to except it.
`NullComesFromOutside`: that cannot happen unless a file with a null map was there
before the first start. `FlagPathIsIgnored`: without a path in the environment no
`Rename` succeeds, so there is never a file. `IntervalZeroAwaitsSignal` says of
every configuration what `persist_sync` shows of one: where the interval is 0 the
file is written in answer to a signal only.

**AgentPipeline.** Three parts make the invariant inductive. `Tokens` adds to
`RateLimitRespected` that the senders are finitely many, so that one token more is
one sender more. `Channel` says that the channel holds exactly the queued batches,
each once, and that `processMetrics` has at most one in its hand: without it
`StartedInOrder` does not survive `Receive`, which takes whatever is in front. All
steps move one batch between two stages (`Moving`). From the invariant follow
`TypeCorrect`, `TokensAreSenders` and `NoneOvertakes`. `LimitZeroSendsNothing` takes
the limit from `Config` as `main` does: whatever is collected, nothing is sent, as
`agent_zero` shows for one batch.

**PostgresStorage.** `Counted` bounds the commits of a call by the attempts it has
finished, and says that a transaction is under way only in an attempt that began
in time; with the types (but for the tables) and `LocksAreHeld` it is inductive.
All ends of an attempt share one lemma, `EndsPreserves`. `CommittedInTime` and
`RowsAreGivenBack` follow from it. For the reads `ReadInv` adds that the trail of a
request that reads ends with what is committed now, and that what it has read is
that of some moment of the trail; a commit of another request makes the trail
longer and leaves its moments where they were. `NotFoundIsTold` follows.

What the rows hold is the matter of `PostgresTableProofs`. `TablesInv` adds to the
invariant the type of the tables, `SumsStayInRange`, and `Executed`: the metrics a
transaction is past have values, it holds the locks of their rows, and its `View` is
what these metrics make of the committed rows *as they are now*. This last part is
what makes the rest inductive. A commit of somebody else changes only rows he has
locked, or one that nobody has (`CommitsOneCall`, `RowsStay`, `StepOnRows`), so the
rows of the metrics a transaction is past stay as they are committed, and so, by
`PutsLocal`, do its sums (`OthersNotice`). From it follow `SumsStay`; `BatchesAreTransactions`,
for what a commit writes back is the `View`, and so the whole call applied to what is
committed by then; and, with the types of what requests have read, `TypeCorrect`.
`AnswersAreFresh` needs `FreshInv` beside it: after an update that was committed the
row of its counter is there and stays there (`FindsItsRow`), so that a zero is shown
only where the read back failed or nothing was committed.

**Delivery.** The invariant says that only a request with an accepted hash changes
the store or is answered 200, that only single metrics are accepted, and that what
the agent has gone past is settled. It gives `TypeCorrect` and
`OtherKeyStoresNothing`; `AcknowledgedIsApplied` adds that no handler outlives its
context. For `DuplicatesAreBounded` the invariant `Bounded` adds that the requests
under way are finitely many and that each of them has been posted (`IsPosted`):
then a post makes `Posted` and the requests one more, and a handler turns a
request into an application.

Only model-checked: every liveness property (`CallsReturn`, `EventuallySaved`,
`SignalStops`, `EveryBatchIsTried`, `CancelStopsCollectors`, `DeliveryEnds`, `CallsEnd`), as
TLAPS cannot reason about fairness and ENABLED.

## What is not modelled

- values of gauges other than as members of the counter's word, and wording,
  formatting, logging and HTML;
- `Close` (does nothing and is not called), the plain-text `Send` (not called),
  the logging middleware, the compression of responses, pprof;
- the ping and the opening of the connection to PostgreSQL: they keep no state, and
  a start that fails is `StartFails` whatever made it fail;
- the hash the server sets on its responses, which the agent does not read;
- the completion of an address (`http://`, `:`);
- the meaning of `PollCount` on the server and the order of gauges that two
  goroutines send side by side: nothing in the repository says what they should be;
- the machine under the server losing power: a completed system call is durable;
- staticlint, and the runtime statistics the collector reads.

## Plan

Done, in this order: `Metrics`, `MetricsStore`, `MemStorage`, `Persistence`,
`AgentPipeline`, `Delivery`, `PostgresStorage` with its reads, `Handlers`,
`HashCheck`, `Config`, and the proofs above. What could follow:

1. `AgentPipeline` composed with `Delivery`, should the project one day say in
   which order the server may see what the agent sends;
2. an abstract store that repeats calls, for `PostgresStorage` to implement: what it
   would promise, `TwiceAtMost` and `CommitsAreWhole` now say one by one.

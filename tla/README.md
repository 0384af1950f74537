# A verification of nonodo in TLA+

nonodo is a development node for Cartesi Rollups v2: a Go program that reads
inputs from a chain or a sequencer, hands them one by one to an application over
HTTP, and stores what the application answers. This directory models its core in
TLA+, checks the models with TLC and proves theorems about them with TLAPS.

    tlc -workers 2 -config Rollups.cfg Rollups       # a run: <cfg>, <module>
    tlapm RollupsProofs.tla                          # the proofs of a module

## 1. The system

### Components

| component | code | state | operations |
|---|---|---|---|
| rollups model | `internal/model` | `NonodoModel`: mutex, `inspects`, `state` (idle, advance, inspect); the input and output tables | add an input or an inspect, add an output, `FinishAndGetNext`, `RegisterException` |
| rollup HTTP API | `internal/rollup` | none; one goroutine per request | `/finish`, `/voucher`, `/delegate-call-voucher`, `/notice`, `/report`, `/exception`, `/gio` |
| inspect API | `internal/inspect` | none; one poller per request | queue an inspect, poll until it is final |
| inputter | `internal/sequencers/inputter` | the block to read again from | past events, subscription, reconnection |
| espresso listener | `internal/sequencers/espresso` | Espresso and L1 heights | poll, read the L1, add transactions |
| avail listener | `internal/sequencers/avail`, `paiodecoder` | Avail and L1 heights | subscribe, `TableTennis` for each block |
| paio API | `internal/paio` | none; one goroutine per request | nonce, submit a transaction: forward it, or count and create |
| claimer, merkle | `internal/claimer`, `internal/merkle` | none between two rounds | collect outputs, prove, claim |
| voucher execution listener | `internal/convenience` | the block to read from | past and new executions (nothing starts it) |
| supervisor | `internal/supervisor` | workers, a context, ready channels | start in order, cancel, wait |
| reader, pagination | `internal/reader`, `internal/commons` | none | GraphQL queries, cursors (only tests call them) |
| wiring | `internal/nonodo`, `main.go` | options | choose the workers; the request timeouts |
| data availability, devnet, salsa, health, echo application | `internal/...` | none | I/O |

### How they interact

Sequencer workers (inputter, espresso, avail) and the paio API create input rows.
The inputter goes through `NonodoModel.AddAdvanceInput`, under the model's mutex, and
so does the Espresso listener for its L1 inputs; the Paio API and the listeners
otherwise count the rows and create one with that count as its index in two calls of
the repository, and pass the mutex by. Meanwhile another writer may have taken that
index, and the model may have handed out an input with a higher one. The application
polls `/finish`; each poll calls `FinishAndGetNext`, which writes the rows of the
input it finishes, one statement at a time, and picks the next one: inspects
first, then the unprocessed input with the lowest index. The inspect API queues
an inspect in memory and polls it. The claimer, the listeners and the GraphQL reader
read the same tables at any time. The reader that answers `/graphql` is the one of the
external module `rollups-graphql` (`nonodo.go:32,241,258`): `internal/reader` and
`commons/pagination.go` are not linked into the program. The supervisor starts every
worker and ends all of them when one ends. The repositories are in that module too:
they are external here and modelled from the calls of this
code. In particular the repository does not create a second input with an ID it
has (the code reads events again and relies on it). When the `AutoCount` option
is on, it renumbers vouchers and notices; the models use the indices that
`NonodoModel` computes and passes on.

### What is hard, and what correctness means

* **Rollups model.** A finish is many statements and no transaction. Between two
  of them rows appear, with an index that may be stale, a statement fails, or the
  process dies and starts again on the same database (`--sqlite-file`). Correct:
  inputs are handed out one at a time and by their index; each gets one final status;
  an accepted input has all its outputs and a rejected one has no voucher or notice; a
  poller never sees half an inspect.
* **Rollup API.** A handler looks at its context only between two polls, so it can
  outlive its client; an application may exit, be launched again, be told 202
  and send its verdict again. Correct: a verdict reaches the input it was made
  on; a final status stays; everything is processed in the end.
* **Inputter.** Errors and reconnections, events that are read twice, events that
  come between two calls. Correct: every event becomes one input, in order, but
  for the race that the code documents (`inputter.go:135`).
* **Espresso listener.** Two chains are merged; an error ends the process, and the
  next start reads everything again. Correct: the order of the inputs depends on
  the chains alone, and nothing is lost.
* **Avail listener.** Two chains are merged by their timestamps. Indices are counted
  ahead over a list of which some members are skipped; a failure in the middle makes
  the block be read again, and a batch that cannot be decoded makes it be read again
  for ever. Correct: the inputs are stored in the order of the timestamps, and indices
  have no holes and no repetitions (they have, section 3).
* **Paio API.** The count of inputs and the creation of the row are two statements
  outside the mutex. Correct: a client that waits for its answer keeps its order,
  whoever writes besides.
* **Supervisor.** Readiness over an unbuffered channel, timeouts, cancellation.
  Correct: start in order, ready means ready, and an exit ends everything.
* **Claimer and merkle.** A claim is about the outputs of an epoch while new ones
  appear; a failure separates proofs from their claim. Correct: each proof leads
  from its output to a claimed root, and each claim is the root of all outputs.

The complete list, with line numbers, is `hazards` in `PROJECT.json`.

## 2. The modules

    InputLifecycle           what the model promises about inputs
      ^ implemented by
    RollupsRefinement        the mapping
      extends Rollups        NonodoModel, statement by statement
    RollupApi                /finish handlers and the application
    Inputter                 the input box worker
    EspressoListener         the Espresso worker
    AvailListener            the Avail worker
    Claims                   the claimer
      extends Merkle         the tree of its claims and the proofs
    Supervisor               all workers, from their start to their end

The theorems about a module and their proofs are in a module of their own that
extends it: `RollupsProofs` (for the refinement too), `RollupApiProofs`,
`InputterProofs`, `EspressoProofs`, `AvailProofs`,
`SupervisorProofs`, and `ClaimsProofs` for `Merkle` and `Claims`.

The modules abstract one another: the current input that `RollupApi` keeps is the
outcome of `Rollups`' methods; the writers of `Rollups` are the Paio API and the
listeners without what they read; `Claims` sees only the output rows that `Rollups`
writes; in `Supervisor` a worker is no more than its phase.

A name of the form `Definition_Variant` is a variant of `Definition` with a
plausible mistake in it. No specification uses one: each is there to show that
some property notices it (`mutants` in `PROJECT.json`).

### Rollups

| TLA+ | code |
|---|---|
| `sequencer` | the option: `inputbox`, `espresso` or `avail` |
| `inputs`, `indices`, `outputs` | the tables: status and Index of the inputs in the order of creation; vouchers, notices, reports in write order |
| `state`, `inspects` | `NonodoModel.state`, `NonodoModel.inspects` |
| `job` | the method that holds the mutex: the call, its status, the statement it has reached, the outputs still to save |
| `calls` | the writers without the mutex: the Index each has counted, from its count to its create |
| `answers` | what the poller of each inspect got |
| `seen`, `delivered` | history: the rows there were when a row's writer counted; what was handed out, and the rows there were then |
| `AddAdvanceInput` | the handler of the inputter, and of the Espresso listener for L1 inputs: count and create under the mutex |
| `CountInputs`, `CreateInput`, `LeaveCall` | the Paio handler (`paio.go:195-229`), the Espresso and the Avail listener: count, later create with that count, or fail in between |
| `SkipInput` | Avail's loop passes over an entry, which counts in the Index of those behind it (`avail_listener.go:269`) |
| `AddVoucher` ... `AddReport` | appends to the slices of `rollupsStateAdvance` |
| `FinishAndGetNext`, `RegisterException` | the beginning of the method, up to its first statement |
| `SaveOutput`, `OutputsSaved`, `UpdateInput`, `CountProcessed`, `PickNext` | one statement each, in the order of `state.go` and `sequencer.go`: a finish saves and then updates the row, an exception updates and then saves |
| `DbError` | the statement that is due fails: the method returns and keeps the state and the rows written so far |
| `Crash` | the process dies between any two statements; the tables survive |

A method with a single effect is one action. No liveness is claimed here: what
the model does depends on calls that nobody owes it. `RollupApi`, which has the
application, states the liveness.

Which writers there are follows from the sequencer (`Unlocked`). With Espresso the Paio
API forwards what it gets and creates nothing; with Avail it may do either, by
`--paio-server-url`; without one of the two it always creates. The Avail listener counts once
for a block and adds its position in the list, so its call goes on after a create, with
the next Index.

Two things that this repository does not show are left open. Among rows with the lowest
Index `FindByStatus` may answer any. And the update at a finish may find the row by its
ID or by its Index: `UpdateInput` writes the current row, or every row that shares its
Index (`Namesakes`). So for inputs that share an Index the properties about statuses and
outputs promise nothing (`Alone`); for all others they hold with any writers.

What order is left then? `PickNext` takes the lowest Index that waits. A row whose writer
counted early may be created with an Index that has been handed out already, or that is
below one, and it follows. `DeliveredInOrder` says that these are the only ones: of two
inputs that were both rows when the first was handed out, the one with the lower Index
came first. `RealTimeOrder` says which stale rows there can be: a row never has an Index
as low as that of a row its writer could see. Together they give a client that waits
for its answer its order. Avail is excepted from `RealTimeOrder`, because it gives out an
Index too high after a skipped entry, and the next row one below it (run `avail_index`).

`InputLifecycle` says what an input goes through: it arrives with a rank, is taken when
none that waits ranks lower, is given outputs, is settled once, or is abandoned and taken
again. Inputs of one rank may be settled together. It promises this until a statement
fails (`broken`); after that the code may settle an input twice, and does (section 3).

### RollupApi

`table`, `current` and `outs` abstract the model to one step per method.
`requests` are the running `/finish` handlers with the polls they have left;
`app` is the application: down, ready, waiting for an answer, or working. A
handler whose client is gone (`done`) polls until it notices; its answer is lost,
but not what its poll did to the model. `Launch` and `Die` are the application
process. It may be the echo application or any other; the model takes one that
works on what it is given and repeats its verdict after a 202, as the API
document asks. `Unreadable` are the inputs that cannot be converted for the
answer: the model has moved to them, the application gets an error and finishes
again. The real handler polls 50 times at 100 ms; `FinishRetries` stands for the
50.

### Inputter

`events` is the input box; `past` and `live` are the events a query or a
subscription has delivered and that are not added yet; `currentBlock` is the
block to read from again, which the code sets to the block before the event it
is about to add. `past` is a set: the query answers in chain order, and the oldest of
it is added first. `CallFails` is any failing call but that of a live `addInput`,
which is `AddLiveFails` because `currentBlock` has moved by then. `missed`
records the documented race. The two bounded reads that belong to the other
sequencers are not in this module.

### EspressoListener

`blocks` is the Espresso chain, each block with its finalized L1 height and its
transactions; each L1 block has one input. `todo` is what is left of the current
block: the L1 inputs it finalizes, then its transactions. `Add` is what one
iteration does, with the nonce check. `FetchFails` is the `continue` of the inner
loop. `Stop` is any other error, after which the supervisor ends the process;
`Start` reads from `--from-block` again. The `Id` of an input is the identity of its
row: the index in the input box, or the signature.

The reference definitions say what the two chains call for, without a listener:
`CalledFor(b)` is the set of inputs of the blocks up to `b`, the L1 inputs they
finalize and each transaction of ours where it comes first, and `Precedes` is the
order between them. What is stored is a beginning of it if it is a subset, in that
order, with all that precedes any of it (`OrderIsCanonical`).

`fromBlock` and `fromBlockL1` are the two options. Without `--from-block` each start
goes on from the latest block (`starts`); what came in between is passed over, and
the properties that speak of the whole chain are about starts from one block.

Premises: `--from-block` and `--from-l1-block` are not ahead of the chains when
nonodo is first started. The chains carry any nonces. The order and the losses of
transactions depend on how the senders count, which the properties name as their premise:
`NoncesFrom(0)`, one by one from 0. This is what line 214 compares with (the number of
stored transactions) and what the `/nonce` of the Paio API tells clients
(`paio.go:128`), but not what the comment at line 204 says, "start `nonce` from 1". The
run `espresso_nonce` shows what becomes of a sender that obeys the comment, and
`CountingFromOneStoresNone` says it in general: nothing it sends is ever stored.

### AvailListener

`l1` and `avail` are the two chains with their timestamps, on one clock; an L1
block is seen at most `L1Lag` after its timestamp, which is what
`L1_READ_DELAY_IN_SECONDS` is there for (`L1Lag <= L1ReadDelay`). `batch` is the
list `TableTennis` has built, `done` the position of its loop, `count` the
`inputCount` it read before. `ReadBlock` is everything up to the loop,
`CreateInput` one iteration, `BlockDone` the two cursors that move when
`TableTennis` returns. `CallFails` is any error: the cursors stay, the worker
reconnects. A call that fails before the list exists changes nothing and is a
stutter. A transaction is one of ours, one of another application, or `undecodable`: a
batch that `parser.go` or the decoder refuses, which fails the block whenever it is read
(`Readable`), so that the worker stays before it for ever. `OldEnough(b)` are the L1 blocks that precede Avail block `b` by more than
the delay; as the L1 has one input per block, the inputs that the code finds from its
cursor on are an interval (`L1Ready`).

The reference definitions are of the same form as Espresso's: `CalledFor(b)` is the set
of inputs of the Avail blocks from the first start up to `b`, the L1 inputs that are old
enough by then and each transaction of ours where it comes first, and `Precedes` is the
order that the timestamps give them.

Without `--avail-from-block` a start goes on from the latest block of Avail; the L1
is read from its first block at every start.

Premises: an L1 that shows its blocks in time, and no writer besides the worker.

### Supervisor

| TLA+ | code |
|---|---|
| `WorkersOf`, `Options` | the list that `NewSupervisor` builds |
| `at`, `next` | `SupervisorWorker.Start`: its loop, the announcement, the wait, the end |
| `phase` | a worker's goroutine: before `ready <-`, at it, after it, at its end |
| `StartWorker`, `WorkerReady`, `WorkerTimesOut`, `StartCancelled` | the loop and its select |
| `Announce`, `ContextDone`, `AllExited`, `StopTimesOut` | what follows the loop |
| `Exit` | the deferred cancel of each goroutine |
| `CommandReady`, `PollerLeaves`, `PortAnswers` | Anvil: a command, and a goroutine that polls its port |
| `Connect`, `LosesConnection` | the reconnection loops of inputter and Avail, the subscription of the claimer; "subscribing" is Avail's retry of `SubscribeNewHeads`, which does not look at the context |
| `DeploymentHangs`, `Abort` | `bind.WaitMined(context.Background())`; `os.Exit` and `log.Fatalf` |

Workers differ in whether their start can fail, whether they connect after they
were heard, and whether they hear the context (`Listeners`); the actions keep
exactly that. Time is abstract: a timeout may pass whenever its select waits.

### Claims and Merkle

`Merkle` is `CreateProofs`, level by level with its pristine nodes, over a free
hash: two trees have the same root only if they are the same. `FullTree`, defined
over all leaf numbers and padded with pristine leaves, and `RootFromProof` are the
reference: the root of the full tree, and what a contract computes from an output,
its index and its siblings. `Height` stands for 63. What loops in the code is a
recursive function of the level or of the index (`Levels`, `Ancestors`,
`FirstByIndex`), so that it can be proved about.

`Claims` is `CreateProofsAndSendClaim`: `ReceiveHeader` decides whether a block ends an
epoch, `FindVouchers` and `FindNotices` are the two reads, `SetProof` stores one
proof, `MakeTheClaim` is the transaction, a block of the chain that the claimer
watches. `ClaimReverts` is the same transaction when it is reverted: the receipt is
awaited and logged, and its status not looked at, so the round ends like any other.
`Fails` is any call that fails: the error is logged and the next epoch
starts over. Epochs have one block or more: with one, the block of a claim ends an epoch
and, as soon as there is an output, the claimer's own claims call for the next ones
without end. `OneClaimPerEpoch` says what bounds them. Premise: outputs are numbered
together (`AutoCount`, which `main.go` turns on).

## 3. The runs

| run | question | bounds |
|---|---|---|
| `rollups` | do the order, commit and publication properties hold under each sequencer, statement by statement and next to writers without the mutex, and does the model implement the life cycle? | 1 Paio handler and the listener, 2 inputs or inspects at a time, 2 outputs, 1 failing statement, 1 crash |
| `rollups_rejected` | is what a rejected input emitted always discarded? (no) | 1 input, 2 outputs, 1 failing statement |
| `rollup_api` | do verdicts reach their inputs, and does everything end? | 2 polls, 2 inputs of which one is unreadable, 1 inspect, 1 exit, 1 deadline |
| `rollup_api_relaunch` | is the first verdict of an application ignored? (no) | 2 polls, 1 input, 1 exit |
| `inputter` | does every event become one input, in order? | 3 blocks of 1 or 2 events, 2 failures |
| `espresso` | is the order a function of the chains, and nothing lost? | 4 blocks of 0 to 2 transactions, 2 faults, each option given or not |
| `espresso_retry` | is a failed fetch tried again? (no) | 4 blocks, 1 fault |
| `espresso_nonce` | is a sender stored that counts from 1? (no) | 4 blocks, no fault |
| `avail` | are the inputs stored in the order of the timestamps, and all of them? | 3 Avail blocks of 0 to 2 transactions, 2 L1 blocks, 3 ticks, 2 faults |
| `avail_index` | do indices grow with the order of the inputs? (no) | the same without faults |
| `supervisor` | do workers start in order and end together? | none: the 96 lists of workers |
| `claims` | do proofs and claims belong together? | a tree of height 2, epochs of 2 blocks, 4 blocks, 3 outputs, 1 failure or reverted claim |

Why the bounds are enough to be interesting. Two inputs are the least for which
order, "one at a time" and a wrong successor exist, and for which two writers that overlap
take one Index or the later one sorts first; an inspect overtakes them;
two outputs let a failure or a crash fall between two rows of one finish. One
exit and one deadline give three handlers that poll at once. Three blocks let the
inputter fail between two events of one block, read them again and go on to a
younger one. Four Espresso blocks are one to start from, two that are read with
every combination of up to two transactions and L1 progress, and the one behind
which the listener stays; two faults combine a skipped block with a restart, or
two restarts. Two L1 blocks can be seen on the two sides of an Avail block with
one timestamp, and three ticks put one, both or none behind the delay; one fault
falls at each position of a batch, and a second one restarts nonodo behind it. Three outputs fill a tree of height two
unevenly, and four blocks are two epochs with a claim between them. The
supervisor's model is finite. The theorems of section 4 have no bounds.

Deadlock is checked for `rollups` and the `rollup_api` runs. The others turn it off:
`supervisor` ends with the process, the input box worker really ends when its
subscription is closed, and elsewhere the chains and the clients have nothing left
to do at their bounds.

### Fairness

`RollupApi`: weak fairness for each handler (a goroutine with a timed poll), and
for the application, which is assumed to be launched again and to finish what it
works on. No input, exit or deadline is owed. Under this `AllProcessed` holds.
`Inputter`, `EspressoListener` and `AvailListener`: weak fairness for the worker, a
goroutine whose waits are timed. `Claims`: weak fairness for the
claimer, a goroutine; no block and no output is owed. `Supervisor`: weak fairness
for the supervisor and for what a worker does by itself; calls to others come back
in the end; no signal, lost connection, exit or timeout is owed. `EndsInTime` asks
for the last timeout besides, in the property itself, and `HangsOnlyIfBlocked`
says what may happen without it. Failures are not fair and are bounded: the
liveness properties say that a finite number of them does no harm. `AllStored` exempts an event that
the race missed and a worker that has ended; Espresso's `EventuallyStored` exempts a
skipped block, a process nobody starts again or that starts from another block, and
senders that do not count from 0; Avail's exempts what lies at or behind a block that
cannot be read. The two `EventuallyStored` say that the
listener catches up again and again, which is what "in the end" means when the
chains may grow in between. `AllProven` is about an epoch that ends after all outputs and all failures.

### What the runs show

The passing runs find no violation. Five statements of the repository do not
hold of its code:

* `rollups_rejected`. `api/rollup.yaml:90`: "If the advance-state request is
  rejected, the vouchers and notices are discarded." When an accepting finish
  writes a voucher, fails at a later statement, and the application then sends a
  rejecting finish, the input is Rejected and its voucher is in the database.
* `rollup_api_relaunch`. `api/rollup.yaml:88`: the status of the first finish
  request is ignored. When an application exits in the middle of an input and is
  launched again, the first finish of the new process settles that input.
* `espresso_retry`. `espresso_listener.go:121` logs "Retrying..." for a block whose
  transactions could not be fetched, and the `continue` steps to the next block.
* `espresso_nonce`. `espresso_listener.go:204`: "app has to start `nonce` from 1 and
  increment by 1 for each payload." Line 214 drops a transaction unless its nonce is the
  number of transactions of its sender that are stored, which is 0 at first: of a sender
  that starts from 1 none is ever in its turn.
* `avail_index`. `api/rollup.yaml:375`: "Input index starting from genesis." An
  index is the position in the list plus the number of stored inputs, counted
  before inputs of other applications are skipped: the input behind a skipped one
  is one too high, and the next block gives its index to another input.

What was met besides, and what no run states as a violation:

* Overlapping writers of the Paio API and a listener take the same index, or one below
  an input that was handed out, in reachable states of `rollups`. `DeliveredInOrder` and
  `RealTimeOrder` say what still holds; of inputs that share an index nothing more is
  promised.
* An Avail block with a batch that cannot be decoded fails each time it is read
  (`avail_listener.go:314-321`, `parser.go:104-139`); no later block is reached until a
  restart passes over it.
* With epochs of one block (`main.go:546` does not check the length) each claim calls for
  the next.
* If an application signs nonces out of turn, the Espresso order is not a function
  of the chains: a transaction that came too early is dropped, and appended when a
  restart reads it again. The comment at `espresso_listener.go:204` asks
  applications not to do so, and `NoncesFrom(0)` makes it a premise. The Paio API
  that stores directly does not look at the nonce.
* A restart without `--from-block` passes over the Espresso blocks in between. A
  sender with a transaction there is out of turn from then on: the nonce that the
  listener expects is the number of transactions stored.
* `espresso_listener.go:231` asks the L1 for the header of the *Espresso* height
  where `readPrevRandao` names its parameter `l1FinalizedCurrentHeight`; while the L1
  has no block of that height, each transaction ends the listener. In the model
  this is a `Stop`.
* An input that cannot be converted for the answer of `/finish` (`rollup.go:164`) is
  settled by the verdict that follows, though the application never saw it.
  `parseChainID` reads decimal numbers only: it recognises a `0x` prefix and then
  parses the prefix as a digit.
* `inputter.go:124-125` says that `watchNewInputs` runs until there is an error or the
  context is cancelled; after a failed call it reconnects without looking at the
  context, so that a cancelled nonodo waits for its last timeout
  (`HangsOnlyIfBlocked` lists it). Avail's loop around `SubscribeNewHeads` does not look
  at the context either (`avail_listener.go:157-163`).
* With `--rpc-url` and an epoch length the claimer deploys contracts that exist on
  the local devnet only; its failing start ends nonodo.
* The receipt of a claim is logged and not looked at (`claimer.go:59-63`): a reverted
  claim counts as made, and its proofs stay in the tables without it.
* `devnet/anvil.go:83` says "We always install anvil", and the installer logs "download
  new" for a nightly release (`handle_release.go:162`); `DownloadAsset` takes the
  executable it finds in the directory of the tag, however old.
* `api/rollup.yaml:96` announces the 202 after 10 seconds, while the handler polls
  for 5 (50 times 100 ms): no timing is modelled.

## 4. The proofs

All are checked by TLAPS for every value of the constants, under the assumptions that
the modules declare and TLC evaluates: the bounds are natural numbers, and besides

* `Claims`: an epoch has a block or more. `Merkle`: the height is a natural number.
* `RollupApi`: a handler polls at least once.
* `EspressoListener`: neither option is ahead of the chains at the first start.
* `AvailListener`: the L1 is seen no later than the delay (`L1Lag <= L1ReadDelay`), and
  `--avail-from-block`, where it is given, is a block that exists.

No theorem has a premise that is not in its property, and the specifications of all of
them allow faults, as many as the bounds say.

| module | theorem | property |
|---|---|---|
| `RollupsProofs` | `TypeCorrect` | `TypeOK`, and that the running method fits the state |
| | `LifecycleCorrect` | `LifecycleInvariant`, the inductive one |
| | `InOrder`, `OneAtATime`, `PublishedAreAccepted` | `DeliveredInOrder`, `OneInFlight`, `OnlyAcceptedPublish` |
| | `AcceptedOutputsSaved`, `StatusIsFinal` | the action properties `AcceptedIsComplete` and `FinalOnce` |
| | `IndicesKeepRealTime` | `RealTimeOrder` |
| | `RowsAreDistinct`, `AnswersAreWhole` | `OutputsAreDistinct`, `AnswerIsWhole` |
| | `LifecycleImplemented` | `Rollups` implements `InputLifecycle` |
| `RollupApiProofs` | `ApiTypeCorrect`, `VerdictsAreRecorded`, `OutputsStayHome` | `TypeOK`, `VerdictIsRecorded`, `OutputsGoHome` |
| `InputterProofs` | `InputterTypeCorrect`, `InputterSkipsNothing`, `InputterWillRead` | `TypeOK`, `NoSkip`, `WillBeRead` |
| `EspressoProofs` | `EspressoTypeCorrect`, `L1IsWhole`, `NoncesKeepOrder` | `TypeOK`, `L1WithoutHoles`, `NoncesInOrder` |
| | `OrderOfTheChains`, `NothingIsLost` | `OrderIsCanonical`, `NothingLost`, for senders that count from 0 |
| | `CountedFromOneIsLost` | `CountingFromOneStoresNone`: nothing is stored of a sender that counts from 1 |
| `AvailProofs` | `AvailTypeCorrect`, `OrderOfTimestamps` | `TypeOK`, `OrderIsCanonical` |
| `SupervisorProofs` | `SupervisorTypeCorrect`, `NeedsAreMet`, `ReadyIsReady` | `TypeOK`, `NeedsMet`, `ReadyMeansReady` |
| `ClaimsProofs` | `RootIsFullTreeRoot`, `ProofLeadsToRoot` | about `Merkle`, for all leaves and heights |
| | `ClaimsTypeCorrect`, `ProofsLead`, `ClaimsAreFullRoots`, `ClaimsHaveTheirEpochs` | `TypeOK`, `ProofsLeadToClaims`, `ClaimsAreRoots`, `OneClaimPerEpoch` |

Each proof module has the same shape: facts about the data first, then an inductive
invariant as a conjunction of named parts, a lemma for each action, one that puts them
together, and the theorems. The invariants hold in the states of the runs too: TLC
evaluates them with the constants of the module's `.cfg` (of `Claims`' all but `IsSeq`,
which ranges over every set). What follows is why the invariants are what they are.

**Rollups.** None of the properties is inductive alone. That inputs are handed out by
their index needs that, when one is handed out, all rows there are with a lower index are
final (`LowerAreFinal`), and stays true at the next pick only if the row of the current
input is final by then: that is `CommitPoint`, which ties the position of the running
method to the row. Writers may add rows below it at any time; they are not known to the
delivery, which is what its `known` is for. That
accepted inputs are complete needs that while a finish saves, each emitted output is
saved or still to do (`SavedOrToDo`), and that nothing is to do at the update
(`JobFitsState`). That rejected inputs publish nothing needs that what is to be saved
belongs to the current input and is a report unless the finish accepts
(`OutputsOfCurrent`). The action properties follow from the invariant and
`StatusChange`: only `UpdateInput` changes a status. `RowsInvariant` adds what the
tables need: an output carries its place in its slice as index, and the rows saved and
those still to save have no pair of input and index in common; and what the pollers
need: an inspect whose inputs are being counted has its outcome already. `RealTimeOrder`
has an invariant of its own, about the columns and the writers (`IndexIsCount`): but for
Avail the index of a row is the number of rows its writer found, which is below its place.

**The refinement.** `UpdateInput` maps to `Settle`, `PickNext` to `Take`, an emitted
output to `EmitOutput`, a crash to `Abandon`, a failing statement to the step that ends
the promise (`broken`), and everything else to a stutter, under the invariant. After a
failing statement a final input can be settled again, which is why the promise ends
there.

**Rollup API.** A `/finish` carries the last decision of the application and writes it to
whatever is current. The two belong together because there is one conversation: until
an exit or a deadline there is a handler if and only if the application waits for one,
and the handler carries what was decided last (`OneConversation`); so what is current is
what the application holds or what it has just decided (`DecidedOnce`), and nothing
current has its status yet (`Unsettled`). After an exit this is lost, and
`rollup_api_relaunch` shows what comes of it. The types need
`HoldsWork` besides: who works holds something to work on, under every fault.

**Inputter.** What the worker owes is above `currentBlock` or in its hands: in `past`
while it reads the past, in `live` while it watches, each in the order of the chain
(`InItsPlace`). An event that is stored twice is one row, so a failure may throw away
what the worker has in hand, as long as `currentBlock` has not passed it.

**Espresso.** The chain only grows, so what was found stays where it is. Nonces follow
from the guard of `AddTx`. The L1 is read again from an earlier block after a restart,
or from a later one if the options are not given: from the next L1 input to add, and
from the height the next reading begins at, there is no hole in what is stored
(`L1Ahead`), so an input is there already or above all that are. If all starts read from
the same L1 block, nothing below the next one is missing either (`L1Whole`). The
listener reads from `l1FinalizedPrevHeight` on and not from the height after it: each
reading repeats the last input of the one before, and the first reading needs it.

The order of the chains has a second invariant, `OrderInvariant`. What the blocks that
are fetched call for is stored or to be added (`Behind`), and what is to be added is in
its order (`TodoInTurn`); so all that precedes the next input is stored when its turn
comes. Then it is added exactly if it is called for and not there yet (`AddedInTurn`): a
nonce the model does not have yet is the next one, because the sender counts its nonces
from 0 and the one below came before (`NonceBelow`, `FirstOccurrence`), and one that
it has is not the next (`NoncesStored`). A later block calls for nothing that precedes
what an earlier one calls for (`CallsAreOrdered`), so the chain may grow meanwhile. That
nothing is stored of a sender that counts from 1 follows from the order of nonces: the first
of its transactions that is stored would have the nonce 0.

**Avail.** What the L1 has for an Avail block must not change after the block was read,
or the order would depend on when it was read. The L1 blocks that are old enough are
the first ones (`OldOnesFirst`), and an L1 block that is seen later has a timestamp that
is not old enough for any Avail block there is, because the lag is no longer than the
delay (`ChainGrows`); this is the only use of that assumption. So what the chains call
for up to a block stays as it is while they grow (`CallsKept`). `ListenerInvariant`
holds for all starts: the batch is exactly what a reading from the cursor finds, the
L1 inputs below the cursor are stored, and so is the part of the batch that the loop has
been through (`HeldBefore`), which is why a failure may throw the batch away.
`OrderInvariant` is about starts from one block: what the blocks behind the worker
call for is stored, and the L1 cursor is the one that follows from those blocks. Then
the head of the batch is added exactly if it is called for and not stored (`HeadInTurn`),
and it is the next in the order (`CanonicalAppend`).

**Supervisor.** The proof does not go through the 96 lists of workers. It gives each kind
of worker a rank, shows that each list ascends in it (`WiringAscends`) and that what a
worker calls comes before the worker (`NeedsComeFirst`). The invariant says that the
workers the loop has not reached are off (`Launched`), that those it has passed were
heard (`PassedWereHeard`), and that nobody ends without cancelling the context
(`EndsCancel`).

**Claims.** A stored proof is about a tree that a later round outgrows. The invariant
follows a round: what it saves are the first outputs of both tables (`Picked`;
`FittingIndicesHaveNoHoles`: if the indices read by two statements at different times
fit their number, they have no holes), and each stored proof is of that tree or leads to
a claim made before (`ProofsStand`). There is at most one claim to an epoch because each
one has had an epoch of its own (`EpochsPaid`). The two theorems about `Merkle` finish the
argument; they are inductions over the levels, for which `SetInduction` states
induction with a set in place of a formula, and one lemma for each recursive function
states its step (`LevelsStep`, `AncestorsStep`, `FullTreeStep`, `PathStep`,
`ByIndexStep`).

Model-checked only: the liveness properties, as TLAPS has no rule for fairness here.
They are `AllProcessed`, `AllStored`, both `EventuallyStored`,
`AllProven`, `EndsInTime` and `HangsOnlyIfBlocked`. Every invariant and every action
property of the passing runs is a theorem.

## 5. What is not modelled, and the plan

Abstracted everywhere: payloads, addresses, encodings, timestamps but for their
order, the wording of answers, and logging.

* Contract bindings and generated servers: generated code, and most of the
  repository's lines.
* The data availability fetchers behind `/gio`, health, the installer of Anvil and
  the Paio decoder, salsa's download: I/O. What their processes do to the rest is in
  `Supervisor`.
* The voucher execution listener: `NewSupervisor` does not append it, and only tests
  construct it.
* The raw database: `--raw-enabled` panics.
* `internal/reader` and `commons/pagination.go`: the program wires the reader of the external
  module `rollups-graphql` (`nonodo.go:32,241,258`) and nothing but tests calls these.
* What the Paio API forwards to Espresso or to a Paio server: it changes nothing in
  nonodo. Whether the listener reads it later is in `EspressoListener` and
  `AvailListener`, failed fetches and restarts included.
* The request validation of the HTTP APIs: it changes no state.
* `ReadInputsByBlockAndTimestamp` and `ReadInputsFromAvailBlockZzzHui`: only tests call
  them.

Two hazards have no property: an inspect whose count fails is answered by half
(`state.go:316`; `AnswerIsWhole` is about the time before a statement fails), and a
file that a dying process leaves cut while it installs Anvil
(`handle_release.go:139`), which every later start trips over.

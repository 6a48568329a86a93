# torchft: specifications and proofs

TLA+ modules for torchft's fault tolerance protocol, the TLC configurations that
check them on small instances, and proofs about them that TLAPS checks for every
instance. Paths are relative to the repository: `src/` is the Rust crate and
`torchft/` the Python package.

## The system

Training runs in *replica groups*. Each has a *manager server* (Rust) and one
trainer process per *local rank* (Python, class `Manager`). One *lighthouse*
(Rust) says which replica groups take part in a step.

| Component | State | Operations | Talks to |
|---|---|---|---|
| Lighthouse (`src/lighthouse.rs`) | registered participants, heartbeats, previous quorum, quorum id, broadcast channel | quorum RPC, heartbeat RPC, periodic tick | manager servers |
| Manager server (`src/manager.rs`) | participants of the round, two broadcast channels, votes and failed votes, checkpoint metadata | quorum, should_commit, checkpoint_metadata, kill; heartbeat loop; lighthouse request with retries | lighthouse, its local ranks, other groups' ranks (metadata) |
| Manager (`torchft/manager.py`) | step, batches, quorum id, participating rank and world size, healing, pending state dict, error, commit failures | start_quorum, allreduce, report_error, should_commit | manager server, process group, checkpoint transport |
| Managed work and futures (`manager.py`, `work.py`) | list of callbacks, the lazily built future chain | then, wait, synchronize, block_current_stream | process group, Manager's error |
| Checkpoint transports (`checkpointing/`) | the state dict on offer and its step; a read-write lock | send, recv, allow, disallow; HTTP handler threads | Manager, other groups' transports |
| Timeout manager (`futures.py`) | timer loop thread, watchdog, handles | register, cancel, fire, shutdown | callers of futures |
| Process groups (`process_group.py`, `multiprocessing.py`) | wrapped group, error latch; for the subprocess ones two pipes, op ids and pending futures | configure, collective, abort, errored, shutdown | Manager, torch.distributed |
| LocalSGD and DiLoCo (`local_sgd.py`) | local step, fragments, backups, outer optimizer, pending allreduces | step hooks, prepare_sync, perform_sync | Manager |
| Optimizer wrapper, DDP, sampler (`optim.py`, `ddp.py`, `data.py`) | none of their own | step, comm hook, iteration | Manager |
| Quantized collectives (`collectives.py`, `quantization.py`) | none | reduce_scatter, allreduce on packed chunks | process group |
| Parameter server (`parameter_server.py`) | sessions | new_session | process group, store |
| Retry and timeout helpers (`src/retry.rs`, `src/timeout.rs`) | none | backoff, grpc-timeout parsing | manager server |

### What is hard, and what makes it correct

*Lighthouse.* Handlers, the tick and heartbeats interleave on one lock, but a
handler waits for its answer outside it. Requests time out and leave their
registration behind. Correct means: nobody waits unregistered, an id names one
list of members, answers come in order, a replica that reports a failure gets a
new id, a quorum is large enough, and a call ends if enough replicas are there.

*Manager server.* The ranks of a group must move in step: one answer and one
decision for all, votes of one step never counted in another.

*Recovery.* Every member computes from the quorum who recovers from whom. The
parts must fit: sources are up to date, load is spread, all meet at one store.

*Training loop.* Replicas at the same step must hold the same weights although
collectives, heals and configures fail at some members and not at others,
processes die and come back, and the lighthouse forgets. A reduced gradient must
be divided by the number of replicas that contributed to it.

*Checkpoint transports.* They serve the live parameters. Over HTTP a read-write
lock made of two plain locks, a flag and the step in the URL keep handler threads
and the optimizer apart, each of them with a timeout; over a process group nothing
does but the order of sends and waits. Whoever receives must get one step's state,
whole, and everybody must get to an end.

*Futures and works.* A timer is armed by one thread, cancelled by another and fired
by a third. A work's callbacks are chained lazily, over a variable that is rebound,
by whoever waits first. What a replica votes for must be what its tensors hold.

*Process groups.* The subprocess's answers are matched to operations by order in one
pipe and by id in another, and ids and works outlive the subprocess. Abort and
configure share a reference and an error latch without a lock. A step must be
decided by the errors of its own operations.

*LocalSGD.* All replicas must average the same fragment, from the same base,
although they crash, heal and fail at different inner steps.

*Computations made apart.* The layout of the quantized buffer is computed by the host
and by three kernels, the shards of the data by each rank: they must fit.

## Modules

`Lighthouse` is checked against `QuorumService`, the service as a caller sees it.
`QuorumResults` is a module of operators; `TrainingProtocol` and `LocalSGD` EXTEND it
and compose several replica groups with a reduced lighthouse. `HTTPTransport` EXTENDS
`RWLock`. Each `MC` module is the module one run checks: it gives constants, or
instantiates several modules, of which a behaviour runs one (a variable `part`,
`setting` or `transport` says which). Operators named as a mutation ("mutant:" in the
comment) are not part of a specification; a property is tested by putting one in the
place of the definition it mutates. A `Proofs` module EXTENDS the `MC` module of the run
that checks the same properties, so that its theorems are about the specification and the
properties of the run. `QuorumResultsProofs`, `TrainingProofs` and `LocalSGDProofs` EXTEND
the module itself; `ProtocolProofs` instantiates `TrainingProofs` with the constants of
each setting of its run, as `MCProtocol` instantiates `TrainingProtocol`.

| Module | Code | Used by |
|---|---|---|
| `Lighthouse`, `QuorumService`, `LighthouseProofs` | `src/lighthouse.rs` | `MCLighthouse` |
| `ManagerServer`, `ManagerServerProofs` | `src/manager.rs` | `MCManagerServer` |
| `QuorumResults`, `QuorumResultsProofs` | `src/manager.rs`, `compute_quorum_results` | `MCQuorumResults` |
| `TrainingProtocol`, `TrainingProofs`, `ProtocolProofs` | `torchft/manager.py` | `MCProtocol` |
| `QuantizedCollectives`, `Shards` | `torchft/collectives.py`, `quantization.py`, `data.py` | `MCAlgorithms`, in `MCProtocol` |
| `RWLock` | `torchft/checkpointing/_rwlock.py` | `HTTPTransport` |
| `HTTPTransport`, `PGTransport`, `TransportProofs` | `torchft/checkpointing/` | `MCTransports` |
| `Timeouts`, `WorksProofs` | `torchft/futures.py` | `MCWorks` |
| `ManagedWork`, `WorksProofs` | `torchft/manager.py`, `ddp.py`, `process_group.py` | `MCWorks` |
| `ProcessGroupBaby`, `ProcessGroupNCCL`, `ErrorSwallowing`, `WorksProofs` | `torchft/process_group.py` | `MCWorks` |
| `LocalSGD`, `LocalSGDProofs` | `torchft/local_sgd.py` | `MCLocalSGD` |

### `Lighthouse.tla`: `src/lighthouse.rs`

A step is a section that holds the state lock (`QuorumTick`, `QuorumRequest`, which ticks as
well, `Reinsert`, `Heartbeat`) or a receive on a
broadcast channel (`Receive`, `ReceiveLagged`). `calls` holds the handler tasks of the
quorum RPC, each with its own receiver queue; a call whose client has gone
(`Abandon`, the retry loop of `src/manager.rs:250`) goes on until the runtime
drops it (`DropCall`). Time is `heartAge` and the ages of registrations, which are
capped at the timeout they are compared with. `epoch` counts incarnations of the
server and exists only in the model. Members carry what decides something,
`shrink_only` and `commit_failures`, not addresses or steps.

`QuorumService.tla` is what a manager relies on: an asker gets an answer that
names it, from a quorum made since it asked, one at a time.

### `QuorumResults.tla`: `compute_quorum_results`

A quorum is the function from positions (participants sorted by id) to steps, and
`Reply(steps, r, g, init)` is the answer replica `r` gives its local rank `g`.

### `ManagerServer.tla`: `src/manager.rs`, one group

The locked section of an RPC is one step, the receive another. `tasks` are the
spawned `_run_quorum`; a task whose retries are used up stays and does nothing,
as in the code ("resulting in a hang"). The trainer's part is its call order in
`torchft/manager.py`. The lighthouse is the environment: it answers with any
step that is at least the group's.

### `TrainingProtocol.tla`: `torchft/manager.py`, many groups

Groups of one rank. The lighthouse is reduced to `FormQuorum`, whose guard
(`MayForm`) and numbering (`QuorumIdFor`) are those of `Lighthouse`. A collective is
one step of its members with an outcome for each. Weights are a history: who
initialised them, then for every committed step who contributed and the divisor.
Crashes, lost answers, failed configures, heals and collectives, and lighthouse
restarts draw on one budget, `MaxFaults`. What a failed configure leaves behind is
no process group.

### `RWLock.tla`: `torchft/checkpointing/_rwlock.py`

The two `threading.Lock`s and the counter, an acquisition at a time. Both of a reader's
acquisitions, and a writer's, may time out. The actions are used by `HTTPTransport`;
`LockSpec` is the use that `r_lock()` and `w_lock()` make of them.

### `HTTPTransport.tla`: `torchft/checkpointing/http_transport.py`

`send_checkpoint` stages the tensors and allows reads, `should_commit` disallows them
and the optimizer then overwrites the tensors one by one. There is a handler thread per
URL key, under the reader's lock, and a receiver that asks for the whole state, or for
the tree spec and all chunks at once. A tensor's contents are the step that wrote it.
On a CPU what is served is the live tensor, from a device it is the copy made at
staging. The dealing out of values to chunks and their merging are the
code's two functions.

### `PGTransport.tla`: `torchft/checkpointing/pg_transport.py`

Messages are pairs of tag and receiver; one is delivered when both sides have posted it,
with the contents the tensor has then. The sender waits where the code waits. Both sides
may give up, so that any transfer ends; in the mode `patient` nobody does, and a transfer
ends only if sends, receives and waits fit together.

### `Timeouts.tla`: `torchft/futures.py`

What other threads post to the event loop is a queue; arming, cancelling, firing and
setting the result are steps of the thread that does them. The watchdog and `shutdown`
with its two joins are there too. A callback that never returns makes the loop "stuck".
What an abort by a callback does to a process group is in `ProcessGroupNCCL`.

### `ManagedWork.tla`: works of `Manager.allreduce`

One training step of one replica with several reduces, for four callers: the DDP comm
hook, the gradient hook of `PureDistributedDataParallel`, a caller that waits for all of
its works, and one that synchronizes first. `chain` tells whether a work's callbacks
were never chained, were chained before the operation had ended ("late": their
assertion fails) or ran. A tensor counts how often it was summed and divided. This is for
process groups whose waits block until the operation has ended, as Gloo's do; what
`wait()` and `synchronize()` do on a CUDA stream (`block_current_stream`) is not modelled.

### `ProcessGroupBaby.tla`, `ProcessGroupNCCL.tla`, `ErrorSwallowing.tla`: `torchft/process_group.py`

`ProcessGroupBaby` has the command pipe in both directions, the future pipe, the command
loop with the variable `op_id` that its callbacks close over, the thread that completes
futures, and works that outlive a configuration. A behaviour is over Gloo or over a stream
(`backend`). Over Gloo a wait is answered when the operation has ended, and so is a future.
Over NCCL or XCCL a wait without a timeout makes only the stream wait
(`process_group.py:1649`): it is answered while the operation runs, which may fail later;
one with a timeout is answered when the operation is done (`timedOps`), and the future is
complete as soon as the operation was issued. `configure()` raises if the old future
thread does not exit, or if the new subprocess fails to start or does not say in time that it
has. A subprocess that ends takes its works and unread commands with it. `FreesFirst` and `SynchronizeGloo` are how the group is used: whether works are gone
before the next configuration, and whether futures over Gloo are asked for without a wait.
`ProcessGroupNCCL` has the trainer, the
timer's callback and the quorum thread, interleaved at every access to `_pg` and
`_errored`. `ErrorSwallowing` has calls that are answered under a later configuration
than they were made in.

### `LocalSGD.tla`: `torchft/local_sgd.py`

Replicas with a synchronous quorum, which DiLoCo insists on. Parameters are the history
of rounds averaged into them. `InnerStep` is the optimizer's step with its hooks;
`FormQuorum`, `Configure`, `Heal` and `HealFails` are `start_quorum`; `Prepare` sends
the average of the fragment whose turn it is, `AverageEnds` and `AverageTimesOut` end
it, `Perform` waits, restores, votes and takes the outer step.

### `QuantizedCollectives.tla`, `Shards.tla`

Operators. A packed buffer is a function from word addresses to what was stored there
(the word of which row, summed over which ranks, in what order), and each kernel computes
its addresses as in its source; a value read with another row's scale is `Garbage`. `Shards` has the
sampler's shards and the buckets of `_bucketize_and_allreduce`.

## Runs

| Run | Instance | Shows |
|---|---|---|
| `lighthouse_members` | 3 replicas, 2 handlers, overlapping calls, channel of 1, 2 quorum ids | types, `QuorumIdNamesMembers`, `NoLostWaiter`, `QuorumLargeEnough` |
| `lighthouse_service` | 2 replicas, 2 handlers, shrink_only, lag, timeouts, commit failures, one restart | `ImplementsService` (the refinement of `QuorumService`), `AnswersInOrder`, `FailureGetsFreshId` |
| `lighthouse_liveness` | 3 replicas, of which 2 are steady and one may heartbeat but never asks, heartbeat timeout 2 | `CallsEnd` under `Fairness`: quorums form in time beside a straggler |
| `protocol`, faults | 3 groups, 2 lives, 2 faults, 2 steps, init_sync | `WeightsAgree`, `GroupsAreQuorums` |
| `protocol`, spares | 3 groups, FIXED_WITH_SPARES, stragglers, a lighthouse restart or a fault that hits all members | `WeightsAgree`, `ParticipantsAreAveraged` |
| `protocol`, algorithms | quorums of at most 4 replicas, steps 0..2, ranks 0..3; lists of at most 2 tensors, 4 rows, 1, 4 or 5 columns, 3 ranks; 3 by 3 ranks and 13 examples | `RecoveryFits`, `CollectivesSum`, `ShardsCover` |
| `manager_server`, votes | 3 ranks, votes that time out, 1 retry, steps to 3 | types, `NoLostRank`, `RanksKeepStep`, `DecisionsFitVotes` |
| `manager_server`, heals | 3 ranks, some of which fail to heal | types, `NoLostRank`, `HealsAnswered` under `Fairness` |
| `transports`, http | 3 tensors; live, 2 chunks live, 2 chunks copied; 1 commit, 1 receiver | `ReceivedIsCheckpoint`, `DisallowedSendsNothing`, `LockSafe`, `TransfersEnd` |
| `transports`, pg | 2 receivers, 2 tensors, in place or not, on CPU or not, with timeouts or `patient`, 2 transfers | `ReceivedIsWhole`, `TransfersEnd` |
| `works`, timeouts | a future, a block, a stream, 2 registrations | `NothingGoesOffWrongly`, `TimeoutsEnd` |
| `works`, managed | 3 reduces, 4 kinds of callers | `VotesAreInformed`, `StepEnds` |
| `works`, nccl | 3 communicators | `ErrorsAreTheSteps`, `OperationsEnd` |
| `works`, swallow | 3 calls, 3 configurations | `NothingAfterFailure` |
| `works`, baby | 2 operations, 2 configurations, over Gloo and over a stream | `AnswersMatch`, `FutureCompletes` |
| `local_sgd` | 3 replicas, 2 fragments, LocalSGD, DiLoCo, DiLoCo with a delay, 1 fault, 3 steps | `ReplicasAgree`, `ParamsFollowOriginal`, `EveryFragmentInTurn`, `CommitsArrivedAverage`, `RoundsEnd` |

`transports` and `works` check the types of their parts as `TypesOK`. A property whose
comment says "see the parts" is the conjunction of invariants stated just before it.

Four more runs expect a violation; each shows a place where the code does not do
what its documentation says.

- `training_crash`: a replica that comes back after a crash makes a majority with
  replicas that never had the latest step.
- `abort_race`: a timer's abort that a configuration overtakes aborts the new
  communicator, whose error has just been cleared.
- `bucketized`: the callbacks of all buckets copy back the last bucket.
- `heal_skew`: a rank that failed to heal and its group commit different steps
  together.

### What the passing runs assume

Some settings are FALSE in a passing run because the property fails with them; set
them to see why.

- `PartialFailures` together with `Stragglers`: a collective succeeds at one member
  and fails at another (each group decides by itself, `torchft/manager.py:902`), the
  first goes on and is left out of the next quorum, and the others make another
  version of its step. "faults" has partial failures and no stragglers, "spares"
  stragglers and no partial failures.
- Crashes (`Lives` > 1) together with `Stragglers`: see `training_crash`. `LocalSGD`
  has the same restriction in `MayForm`: a replica with a step to lose is waited for.
- `LighthouseFaults` for `GroupsAreQuorums`: a restarted lighthouse issues old ids, and
  a manager compares an id with its last one only (`torchft/manager.py:692`), so that
  it keeps its old process group. Without stragglers `WeightsAgree` holds all the same,
  for any number of restarts. With stragglers `WeightsAgree` and `ParticipantsAreAveraged`
  need the restart to be the only fault, which is why `MaxFaults` is 1 in "spares": with 2,
  TLC finds both violated by a restart and a second fault, such as a lost answer or a
  collective that fails for all. A replica takes its group of before the restart for that
  of a new quorum with the same id, and reduces with members that work on another quorum.
- `InitSync` for `ParticipantsAreAveraged`: in the first step with `init_sync` one
  replica contributes and the sum is divided by all (`torchft/manager.py:674`).
- `ShrinkInputs` without TRUE for `QuorumLargeEnough`: the fast path does not compare
  `min_replicas` (`src/lighthouse.rs:209`), so a `shrink_only` request may yield a
  quorum that is too small.
- `HealFailures` for `RanksKeepStep` and `DecisionsFitVotes`: see `heal_skew`. Neither RPC
  compares steps (`src/manager.rs:373`, `src/manager.rs:437`).
- `VoteTimeouts` for `HealsAnswered`: a rank that times out and votes again after the
  round was decided waits for a round the others do not join.
- `MayRetry` of `HTTPTransport`: `disallow_checkpoint` sets its flag before it takes the
  lock, so that a second `should_commit` after a `TimeoutError` returns without the lock
  and the weights change under a reader (`http_transport.py:181`). The trainers in
  this repository do not call it again.
- `SynchronizeGloo` of `ProcessGroupBaby` for `AnswersMatch`: `_ManagedWork.wait()` asks
  for a future when its wait has returned, `_ManagedWork.synchronize()` without an
  accelerator (`manager.py:1343`) at once. Over Gloo the callback of the first of two
  operations then reads the command loop's `op_id` when that operation ends
  (`process_group.py:1676`), which is the second's by then: the second's future is
  completed while its operation runs, and the first's stays pending. With `TRUE` TLC finds
  that in twelve steps. Over a stream both ways are checked, since the future is complete
  when it is asked for.
- `FreesFirst` without TRUE: a work that is freed after the next configuration sends its id
  to the new subprocess, whose loop ends on it (`process_group.py:1757`). A trainer that
  drops its works when the step is decided does not.
- `AnswersMatch` also excepts a wait after one that timed out in the same
  configuration: it takes the late answer for its own, because
  `assert op_id == op_id` (`process_group.py:1751`) compares the answer with itself.
- `overlap` in `ErrorsAreTheSteps` and `OperationsEnd`: see `abort_race`.
- `MayRaise` is TRUE, and the callback of a block that raised is not counted as wrong:
  see below.

### Known divergences without a run

- The futures that `synchronize()` asks for over Gloo in a subprocess, under
  `SynchronizeGloo` above; the docstring of `get_future` (`manager.py:1360`) says that a
  future is completed "when all the work and its callbacks have been executed".
- A body of `context_timeout` that raises leaves the generator at its `yield`, so the
  timer is not cancelled and aborts a later configuration (`futures.py:246`).
- `PureDistributedDataParallel` never waits for its works (`ddp.py:98`), so the callbacks
  that divide never run; `Manager.allreduce`'s docstring (`manager.py:421`) says that the
  result is averaged.
- After an error the DDP comm hook finds a work without a future and raises in the
  middle of the backward pass (`ddp.py:66`, `manager.py:425`).
- LocalSGD keeps the local parameters of a round that is discarded, its docstring
  (`local_sgd.py:52`) says that the steps are discarded. The next round that commits
  averages them in.
- The bucket loop counts the buffer's size and not what it packed (`local_sgd.py:554`): a
  tensor that does not fit the rest of a buffer may be left out.
- `ProcessGroupBaby` inherits an `errored()` that returns None (`process_group.py:386`).
  Over NCCL or XCCL a failure after an untimed wait was answered is seen by the subprocess
  only: nobody is told, and the step commits with what the tensors hold.
- A comment in `perform_sync` (`local_sgd.py:453`) says of a large `fragment_sync_delay`
  that `should_commit` "can return success even if the allreduce failed. Because the
  process group could have been reconfigured while the allreduce was inflight". The code
  rules that reason out, and `CommitsArrivedAverage` says so: `start_quorum`, which alone
  configures the group, is called once in a round and before the allreduce, and
  `perform_sync` waits for the allreduce before it votes and thus before the next round.
  (The run has such a delay.) Failures that the process group tells nobody, as above, are
  not in the model of `LocalSGD`; for these the comment's conclusion holds.
- An error injected by `FakeProcessGroupWrapper` goes to a future derived from the
  work's that nobody holds (`process_group.py:1300`).

### Bounds

Two handlers are the least for which one call's registration meets another's
broadcast; three replicas the least with a proper majority. A channel of one
message makes every second quorum a lag. Two quorum ids give one change of
members and its successor. In `ManagerServer` three ranks tell the last vote from
the others, and three steps let a vote survive two rounds if it could. In
`TrainingProtocol` two faults are a failure and a failure of its recovery; two
steps let a replica fall behind and catch up. `QuorumResults` needs four
replicas to have two sources and two that recover; local ranks 0..3 wrap around.

Three tensors over two chunks are chunks of unequal length; one commit is what a late
request can meet. Two receivers are one that gives up while the other goes on. Two
registrations are a timer that is cancelled while another fires; three reduces give a work before and after
one that fails. Two operations and two configurations give an old id in a new
subprocess; three communicators an abort that is overtaken and the step after. Two
fragments, three steps and a delay of one of two inner steps bring each fragment
round again after a fault. A row of five columns takes two words of values, the second
not full; four rows over three ranks are padded.

`MaxQuorumId`, `MaxEpoch`, `MaxStep`, `MaxRounds`, `StepBound`, `MaxFaults`, `MaxRecvs`,
`LastStep`, `MaxAttempts`, `MaxUses`, `MaxGen`, `MaxOps`, `MaxConfigs`, `MaxComms`,
`MaxCalls` and `MaxConfs` bound what would run forever. `CHECK_DEADLOCK FALSE` is set in the
runs whose behaviours a bound ends: all but those of the lighthouse and `bucketized`.
In those of `ManagerServer` a group also really hangs after its retries, and in
`ManagedWork` a step that was decided is the end.

### Fairness

- `Lighthouse`: the runtime polls each task, the clock runs and the tick is
  periodic (`src/lighthouse.rs:345`). Steady replicas heartbeat from a loop of their
  own (`src/manager.rs:194`), and ask again at every step; the request is strongly
  fair because it competes for a free handler. Nothing is assumed of the others,
  nor of lost messages.
- `ManagerServer`: each trainer goes through its loop and a quorum task ends.
- `HTTPTransport`: handler threads run, and give up on a lock that stays taken; nothing is
  assumed of the trainer or the receivers. `PGTransport`: both sides run, and what
  both have posted is delivered, or a side's timeout ends it.
- `Timeouts`: the threads run and an armed timer fires; no operation need end.
- `ManagedWork`: the trainer runs, and each operation ends or fails, by the timer the
  process group gives it.
- `ProcessGroupBaby`: subprocess, future thread and waits run, and operations end.
- `ProcessGroupNCCL`: the trainer's step, the timer and the configuration run. An
  operation need not end: that is the point of `OperationsEnd`.
- `LocalSGD`: replicas run, a collective ends or times out.

Errors and crashes are never required to happen.

## Proofs

A theorem here is `Spec => []Property`, with the specification and the property of a
run, for every value of the constants that the named ASSUMEs of the modules allow. A
hypothesis of a theorem is a setting of the passing run, and the reason for it is under
"What the passing runs assume" (for `FailuresGetFreshIds`, at the theorem): the property
fails without it.

All proofs go the same way. A property is seldom inductive, so each module states the
invariant it follows from, as a conjunction of named parts with a comment on each; a
lemma per part and action shows that the action keeps it; the last step puts the initial
state, the steps and the conclusion together.

### `LighthouseProofs.tla`: any replicas, handlers, timeouts and channel capacity

| Theorem | States | From |
|---|---|---|
| `TypeCorrect` | `TypeOK`: the types, and that the previous quorum is the one the id counter stands at | itself |
| `WaitersKept` | `NoLostWaiter` | itself and the types: a tick that clears the registrations puts its quorum in the queue of every receiver, so whoever loses its registration has something to receive |
| `IdsNameMembers` | `QuorumIdNamesMembers` | `IdInv`: no known quorum is newer than the server's counter, and the one with the current id is `prevQuorum` |
| `QuorumsLargeEnough` | `QuorumLargeEnough`, without `shrink_only` | the fast path does not look at `min_replicas`, but it needs all members of the previous quorum, so the size is inherited |
| `AnswersStayInOrder` | `AnswersInOrder` | `OrderInv`: a replica has at most one live call (`CallsAlone`), and a queue holds quorums of this incarnation, oldest first, none older than the answer its replica has if the call is live (`FlightsInOrder`) |
| `FailuresGetFreshIds` | `FailureGetsFreshId`, without `Overlapping` | `FailuresFit`: a registration is that of the replica's present call, and any quorum in its queue that has the replica as a member is newer than its answer |
| `LighthouseImplementsService` | `ImplementsService`, the refinement of `QuorumService` | the map of steps: a tick that issues is `Issue`; a receive that ends a live call is `Answer`, of the oldest quorum pending for the asker because its queue is sorted; a restart is `Reset`; everything else is `Forget`, or no step |

### `ManagerServerProofs.tla`: any local ranks, retries and bounds

| Theorem | States | From |
|---|---|---|
| `TypeCorrect` | `TypeOK` | `TypeInv`: a rank's step stays in bounds because a rank inside a step is below the bound (`StepsLeft`), and a reply is of the kind its call asked for (`CallsFit`) |
| `RanksKept` | `NoLostRank` | a rank is registered or counted in the step in which it subscribes, and what clears registrations or votes also starts the task, or sends the reply, for everybody subscribed |
| `RanksStayInStep`, `VotesKeepStep` | `RanksInStep`, `RanksKeepStep`, without `HealFailures` | `StepInv`, below |
| `DecisionsByVotes`, `VotesDecide` | what the decisions of a step come from, `DecisionsFitVotes`, without `HealFailures` | `StepInv`, at both ends of the step |

`StepInv` says that the ranks are at most one round apart (`RoundsInOrder`), that the
calls under way are those of the rank's place in its loop (`CallsInOrder`), that the votes
counted are of the round that is open, those of a call that timed out included
(`VotesOfRound`), and that ranks on the same side of a round are at one step
(`RanksInStep`). Without the third, a vote that outlives its round would decide the next.

### `TransportProofs.tla`: any threads, tensors, chunks, commits and receivers

| Theorem | States | From |
|---|---|---|
| `LockIsSafe` | `LockSafe`, for `LockSpec`, the lock as `r_lock()` and `w_lock()` use it | `LockInv`: the counter is the number of threads between `r_acquire` and `r_release` (`CountFits`), `_num_r_lock` is held across a wait only by a first reader, which is then alone (`FirstIsAlone`), and `_w_lock` is held by all readers or by one writer (`OneSideInside`) |
| `LockHolds` | `LockSafe`, as the transport uses it | `HTTPLock`: the same, but the writer's lock is taken by `disallow_checkpoint` and given back by the next `allow_checkpoint` |
| `DisallowedIsSilent` | `DisallowedSendsNothing` | `HTTPLock`: while the writer holds the lock no handler is between its acquisition and its release |
| `CheckpointReceived` | `ReceivedIsCheckpoint` | `CheckpointInv`: the tensors on offer are those of the step on offer while anybody may read (`Served`), what a handler has sent so far is the first part of its chunk at the step in its URL (`Answering`), and what a receiver has loaded is an error or a whole chunk of the step it asked for (`Loads`) |
| `WholeReceived` | `ReceivedIsWhole` | `PGInv`: `send_checkpoint` returns only when everything posted was delivered (`AllDelivered`), the tensors are of one step unless the optimizer runs (`LiveIsAt`), so all that a receiver has of a transfer is of one step (`GotOneStep`), and it returns only with all of it (`ReturnedHasAll`) |
| `TypesHold` | `TypesOK` | `HTTPTypes`, which holds with `MayRetry` too: a trainer may release a lock it does not hold, but is not counted as a reader |

The other HTTP theorems need `~MayRetry`. That splitting a list into chunks and merging them again
gives the list back is the assumption `ChunksMerge`: it is about data of any length, which
would take an induction, and is evaluated by TLC for the numbers of tensors of the run.

### `WorksProofs.tla`: any number of operations, timers, configurations

| Theorem | States | From |
|---|---|---|
| `TimersGoOffRightly` | `NothingGoesOffWrongly` | `TimersInv`: a timer that was cancelled is not armed, wherever its request is (`CancelledIsNotArmed`); the watchdog's request is in the queue ahead of any stop (`RequestIsAhead`), and `shutdown` posts one stop, under its lock (`StopIsLocked`) |
| `VotesFitTensors` | `VotesAreInformed` | `ManagedInv`: buckets are reduced in turn (`CallsInTurn`), a tensor is summed by an operation that is done and divided by a chain that ran, and whatever else became of it is on record as an error (`TensorsFit`) |
| `SwallowedMeansSkipped` | `NothingAfterFailure` | `SwallowInv`: while no error is on record, every failure that was answered as a success is of an earlier configuration |
| `StepsOwnErrors` | `ErrorsAreTheSteps` | `NCCLInv`: unless an abort was overtaken (`overlap`), garbage and aborted communicators come with an error on record (`AbortsAreRecorded`), and an error on record with a communicator on its way out (`ErrorsArePassing`) |
| `AnswersFitOperations` | `AnswersMatch`, with `FreesFirst` and without `SynchronizeGloo` | `BabyInv`: a command in the pipe finds its operation in the subprocess when its turn comes (`RequestsFit`), there is one wait under way, in the pipe, in the loop or answered, until one has timed out (`AnswersFit`), and what goes up the future pipe is the value of the operation it names, which over Gloo has ended (`FuturesFit`) |
| `WorksTypes` | `TypesOK` | the type parts of these, for every caller |

### `QuorumResultsProofs.tla`, `TrainingProofs.tla`, `ProtocolProofs.tla`: any replicas, lives, steps and faults

`QuorumResultsProofs` has the lemmas about the answer of `compute_quorum_results`, for a
quorum of any size: the maximal step is some member's, ranks are the positions `0 .. n - 1`
among the members at that step (`RanksFit`), the primary is one of them (`PrimaryFits`), a
recovering replica has a source that is up to date and lists it (`RecoveringHaveSources`),
and sources have equal numbers of destinations, give or take one (`DestinationsBalanced`).
Sorting by id is counting: the position of a member is the number of those before it.

`TrainingProofs` is about `TrainingProtocol` with any constants, `ProtocolProofs` about the
run `protocol`.

| Theorem | States | From |
|---|---|---|
| `QuorumsRecover` | `RecoveryFits` | the lemmas, for all inputs the run could look at (`InputInv`) |
| `SamplersShareOut` | `ShardsCover` | division with remainder: the sampler deals the indices `0 .. w * L - 1` to `w` ranks, `j` to rank `j % w`, so that an example `x` is read by rank `x % w`, and if `x` is among the first `w * L - n` also by rank `(x + n) % w`, which is another one (`Readers`) |
| `GroupsFollowQuorums`, `GroupsHold` | `GroupIsQuorum`, `GroupsAreQuorums`, without `LighthouseFaults` | `GroupInv` |
| `AveragesAreOfParticipants` | `AveragesParticipants`, without `InitSync`, and without restarts or without stragglers or with at most one fault | `EpochInv`, or `Everybody` if there are no stragglers |
| `SameStepsSameWeights` | `SameStepSameWeights`, without `Stragglers` | `WeightsInv` |
| `OneHistory` | `SameStepSameWeights` with stragglers, without crashes and partial failures, and without restarts or with at most one fault | `EpochInv` and `HistoryInv` |
| `AveragesHold` | `ParticipantsAreAveraged` | `AveragesAreOfParticipants` in the setting "spares" |
| `WeightsHold` | `WeightsAgree`, without `Stragglers` in the setting "faults" | `SameStepsSameWeights` in "faults", `OneHistory` in "spares" |

*Answers.* Those at work on a quorum with the same members have their answers from one
quorum (`OneAnswer`), and a replica heals if its answer told it to (`HealingFits`), so
that the participants are counted alike by all. This holds whatever happens.

*Groups.* `GroupInv`: a replica whose quorum id is the lighthouse's has the group of the
lighthouse's members, or has failed and will say so (`Grouped`); a request in the
lighthouse is that of its replica as it is (`Requested`). A restart breaks this, since ids
are given a second time. What the properties need is less: that a collective which *ends*
is of members that work on one quorum, and of all of them that are up to date
(`WholeGroup`). There are two reasons why that survives restarts.

*Nobody is left out.* Without stragglers a quorum has everybody that is alive. So the
members of a group were everybody once, and either still cover all that are alive, or one
of them has died and no collective of the group ends (`Covering`). A group of all that are
alive is then the latest quorum's, whatever its id (`Everybody`). Those who are not in the
latest quorum are new processes at step 0 without a group (`Newcomers`). Restarts and
faults may come in any number and order.

*One restart.* With stragglers a replica may have missed quorums, and a second fault
refutes the properties. `EpochInv` tells the states apart. Before any fault, a quorum works
through its step together (`Calm`): its members have one group or will configure it, the
others idle. After a restart, which was then the only fault, ids start again with the
first new quorum `F` (`After`). A group of before the restart whose members a quorum might
take for its own has a member that has configured since, or will, or has its id from a
quorum not of this number (`Kept`); or it is of the same id and a part of `F`, and then
all of `F` that are up to date are in it, and another member of `F` has no part in it and
fails, so that the id is not used again (`Lucky`).

*Weights.* `WeightsInv` describes the latest quorum as a round, `Round(P, s, W, R)`: its
members `P` started at the steps `s`, those up to date with the weights `W`, and what they
commit is the average of `R`. Each member is then at one of a few places of the round,
with weights that `s`, `W` and `R` determine: what a source serves (`Servings`) and what a
healing replica has received (`Pendings`) is `W`, and a replica that has committed holds
`W` with `R` appended.

With stragglers there is no such round, as those left out may be at any step. But a
quorum is a majority of the live (`Quorate`), two majorities meet, and as nobody crashes
and a collective fails for all members alike, a step is made by a majority or by nobody
(`Reaching`). So there is one history `H` with the weights `H[n]` of every step `n` that
was ever made, and each replica is on it (`OnHistory`, in `HistoryInv`). Under `init_sync`
it starts with the first step: before, each replica has its own weights, and those that
make the step have their primary's (`Healed`, `FirstWeights`).

### `LocalSGDProofs.tla`: any replicas, fragments, inner steps and faults

| Theorem | States |
|---|---|
| `ReplicasAgreeAlways` | `ReplicasAgree` |
| `ParamsFollow` | `ParamsFollowOriginal` |
| `FragmentsInTurn` | `EveryFragmentInTurn` |
| `CommitsArrived` | `CommitsArrivedAverage`, an action property |

They follow from `SGDInv`, which again describes the latest round (`Round(s, W)`), and
adds that what is on offer to the others is of the fragment whose turn it is and a
difference to the backup (`OffersInTurn`, `OffersFollow`), across a heal, a crash and a
discarded round.

### Assumptions

`ReplicasAssumption`, `RanksAssumption`, `SlotsAssumption` (finite, not empty),
`BoundsAssumption`, `ManagerBoundsAssumption`, `TimeoutsAssumption`, `WorksAssumption`,
`TransportAssumption`, `TransportsAssumption`, `ProtocolAssumption`, `ScheduleAssumption`
(naturals, Booleans, and of a schedule what the constructor of DiLoCo asserts),
`InputsAssumption` (the inputs enumerated are of the right types), `NoneAssumption`,
`NoRankAssumption` (a value of its own), and `ChunksMerge`. TLC evaluates all of them.

### Only model-checked

- Liveness, which is out of the prover's reach: `CallsEnd`, `HealsAnswered`, `TransfersEnd`,
  `TimeoutsEnd`, `StepEnds`, `FutureCompletes`, `OperationsEnd`, `RoundsEnd`.
- `CollectivesSum`: the addresses of the packed buffer are sums over a list of tensors, so
  that they are apart would take an induction over the list, which is out of reach too.

## Not modelled

- Tensors, addresses, rendezvous stores and the wire format; floating point arithmetic
  of the kernels; the dashboard; the kill RPC (the process exits); libraries
  (torch.distributed, tonic, asyncio), which are external actions.
- `parameter_server.py`: a prototype without failure handling, whose sessions share
  nothing.
- `src/retry.rs`, `src/timeout.rs`: backoff arithmetic and header parsing, no state.
- `src/lib.rs` and the Python bindings: marshalling.
- `ProcessGroupDummy`, `FakeProcessGroupWrapper` (test helpers); `ProcessGroupGloo` and
  `torchcomms.py`, which forward each collective to a library.
- LocalSGD with an asynchronous quorum, a `fragment_update_alpha` other than 0, and the
  manager's own state dict lock: its hooks and the quorum thread take turns there, and
  the lock is `RWLock`.
- `max_retries` of the manager, which ends the process after so many discarded steps.

`PROJECT.json` lists every component with its status.

## Plan

Every invariant that the runs check is a theorem but for `CollectivesSum`. What could
follow:

1. `CollectivesSum` in parts that need no induction: for one tensor with any number of
   columns and rows, the words of the rows are apart.
2. `LocalSGD` with stragglers: `OneHistory` needs no crashes, so that `MayForm` could leave
   out live replicas in a setting without them.
3. The retry loop of the lighthouse client and `max_retries` of the manager as parts of
   `ManagerServer` and `TrainingProtocol`.

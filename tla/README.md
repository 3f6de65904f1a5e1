# A verification of ampc-common

TLA+ models of the programs of this repository, the TLC configurations that
check them on small instances, and TLAPS proofs of the results that matter most
for every size. `PROJECT.json` holds the same information in a form tools can
read: components, runs, mutants, the map from definitions to source lines,
findings, hazards and theorems.

## The system

Three parties run the same server and compute on secret-shared biometric data.
The repository holds what their servers have in common.

| Part | Source | State it keeps | What changes it |
| --- | --- | --- | --- |
| Work pool, leader | `network/workpool/leader` | job counter, `JobTracker`, one queue and one connection per worker | `broadcast`, `scatter_gather`, `cancel`, responses, handshakes, lost connections, shutdown |
| Work pool, worker | `network/workpool/worker` | `pending_jobs`, response queue, one connection | jobs read, `send_result`, responses written, reconnects, restarts |
| TCP connections | `network/tcp` | requested and accepted connections of the listener, tie-break by identity | dialling, accepting, the `OK` handshake, retries, cancellation |
| Network handle | `network/mpc/handle/network_handle.rs`, `control_channel.rs` | session ids handed out, the control channel | `make_network_sessions`, `sync`, lost peers |
| Striped sessions | `network/mpc/handle/session` | fragments, assemblies, queues per connection | `send`, `receive`, the multiplexer's two loops |
| Job sync | `sync.rs` | the value each party holds | exchange of hashes and validity bits |
| MPC protocols | `protocol/`, `execution/` | shares, PRF counters | rounds of messages between three parties |
| Startup coordination | `ampc-server-utils/server_coordination.rs` | readiness flags, boot ids, what was seen of the others | health and readiness probes, barriers, heartbeat |
| Shutdown and tasks | `shutdown_handler.rs`, `task_monitor.rs` | a counter of batches in flight, a set of tasks | signals, batches, task exits |
| Batch sync, SQS sync, startup sync | `batch_sync.rs`, `sqs.rs`, `startup_sync.rs`, `gallery_sync.rs` | the batch each party proposes, queue positions | polling the peers, purging queues |
| Modifications | `modifications.rs`, `modifications/postgres.rs` | rows `IN_PROGRESS` or `COMPLETED`, persisted or not | inserts, completion, recovery at startup |
| Anon-stats server | `ampc-anon-stats/server`, `store` | lifecycle phase, rows processed or not | startup, iterations, cleanup |
| Secret sharing | `ampc-secret-sharing` | none: pure algebra | share, add, multiply, reconstruct |
| Key manager | `key-manager` | a private key in one store, its public key in another | `rotate`, `validate` |

The work pool sits on the TCP connections; the network handle makes striped
sessions out of them; the MPC protocols run over sessions; the servers start
with the coordination, agree on what to do with the sync modules, and run
protocols until the shutdown handler stops them.

## The work pool

### What is modelled

`Workpool.tla` models one leader and the set `Worker`. Its variables are the
fields and channels of the code:

| Variable | Code |
| --- | --- |
| `next_job_id`, `jobId` | `LeaderHandle.next_job_id`, the id in each `JobHandle` |
| `handle`, `outcome` | what awaiting a `JobHandle` shows, and the `WorkerRsp`s it returned |
| `jobCh` | the bounded `job_tx`/`job_rx` channel |
| `tracker` | `JobTracker.jobs`: `registered`, `pending`, `results` per job id |
| `cmd`, `rspCh` | `worker_cmd_ch`/`cmd_rx` and `worker_rsp_tx`/`worker_rsp_rx` |
| `lphase`, `lost` | where a `worker_mgr` is, and the rest of the `dropped_jobs` of its handshake |
| `ct`, `taskStopped` | the shutdown token, and `leader_task` having left its loop |
| `link`, `l2w`, `w2l` | the current connection and its two streams |
| `wphase`, `pendingJobs`, `rspq` | where `worker_task` is, its `pending_jobs`, its `rsp_tx`/`rsp_rx` |
| `hasHandle` | the worker's user still has its `WorkerHandle`, so `job_rx` is open |
| `inHand` | jobs in `job_rx`, or received by the worker's user and not answered |
| `answered` | history: which worker answered which job |

A step is what a task does between two awaits. `validate_pending_jobs` is two
kinds of steps: `LeaderHandshake` takes the snapshot of the dropped jobs,
`ReportLost` records one of them, because `leader_task` and the other managers
use the tracker in between. `set_to_pending` and the write are one step of
`LeaderWrite`, and likewise for the worker: a write that fails or is cut off is
a write to a connection that is already down. Batched writes are the same steps
one after the other. `record_response` unlocks the entry it has emptied before
`complete_job` removes it; the two are one step, as nothing but a `register_job`
that has wrapped to the same id can touch the entry in between.

A job is known by the number of its submission. That number also stands for the
payload and for the answer, so an `Ok` entry that shows another number is an
answer to another job.

Faults are the environment's: `LinkDown` (at most `MaxDrops`), `WorkerRestart`
(at most `MaxRestarts`), and two ways in which a worker is gone while its process
may live on (at most `MaxGone` workers at a time):

* `WorkerStop`: its `shutdown_ct` is cancelled and `worker_task` ends. What its
  user still answers goes nowhere. Only a `WorkerRestart` brings it back.
* `DropHandle`: its user drops the `WorkerHandle`, and with it the jobs it had
  not received. `worker_task` goes on. The next job it reads enters
  `pending_jobs`, cannot be handed over, and ends the connection (`SendFailed`);
  the job stays in `pending_jobs`.

What was written before a connection broke may still be read, or lost, until the
reader notices.

The number of `JobHandle`s is `MaxJobs`. The id counter wraps at `IdMod`, which
stands for 2^32. Taking an id and queueing the job is one step, although two
concurrent callers could queue their jobs in the other order: ids are only
compared for equality.

`JobContract.tla` says what the pool promises its user, without queues,
connections or tracker: a handle resolves once, to one entry per addressed
worker, an `Ok` entry is that worker's answer to this job, and a handle fails
only at shutdown.

### What the runs check

| Run | Instance | Shows |
| --- | --- | --- |
| `workpool_faults` | 2 workers, 1 job, 1 drop, 1 restart, 1 gone | `TrackerPartition`, `ResultsFaithful`, `NothingSilentlyLost`, `LostIsGone` |
| `workpool_jobs` | 1 worker, 2 jobs, 1 drop, 1 restart, 1 gone | `TypeOK`, `HandshakeOrder`, `ResultsFaithful`, `AtMostOnce`, `DroppedOnlyAtShutdown` |
| `workpool_live` | as `workpool_jobs`, fair tasks | `JobsResolve`, `ImplementsContract` |
| `lost_in_queue` | 1 worker, 1 job, 1 drop | `LostMeansLost` is violated |
| `removed_after_write` | 1 worker, 1 job, 1 drop | `RemovedAfterWrite` is violated |
| `id_wrap` | 3 jobs, 2 ids | `OneJobPerId` is violated |
| `no_workers` | no worker, 1 job | `CompletesWhenEmpty` is violated |
| `completed_job_first` | 1 worker, 1 job, 1 drop | `CompletedJobFirst` is violated |
| `reported_in_progress` | 1 worker, 1 job, 1 drop, 1 gone | `ReportedInProgress` is violated |

Two workers are needed for a job to be half answered; two jobs for the answer of
one to meet the bookkeeping of the other; one drop and one restart, in either
order, for a reconnect that finds a worker that has forgotten its jobs; one
worker that is gone, for the other one's answers to wait for it. `ResultsFaithful`
is checked in two runs: with two workers for half-answered jobs, and with two
jobs, where an answer could reach the wrong one. Symmetry
is used only for the safety run. Deadlock is not checked: a pool whose jobs are
done, or that has shut down, rests.

`LostIsGone` is what a retry after `JobsLost` rests on: the job is not queued for
the worker, not on its way, not with the worker's user, and no answer to it is
queued or being sent, so a second submission is not the second of two
executions that are still to finish. An answer the leader has already read is
not covered: that is `LostMeansLost`, below.

Fairness: every branch of the `select!` loops is polled again and again, so each
branch is weakly fair. `Connect` is weakly fair too. This is an assumption on the
network as much as on the code: both ends dial and wait for ever, and if both do
so for ever the network lets them through once. It obliges no worker that has
stopped to come back. The user of a worker answers every job it receives; without
this nothing resolves, as a `JobHandle` has no timeout. Faults, submissions,
cancels, stops, dropped handles and the shutdown are not fair.

`JobsResolve` says what is left for a handle to wait for under these assumptions:
a worker that is gone, stopped or without a user. The leader hears of neither.
When a stopped worker is started again, a job it had been sent is reported as
lost and one still queued for it is sent.
The job of a worker without a user is confirmed by every handshake, so that
`NothingSilentlyLost` makes an exception for it; it is the finding of
`reported_in_progress`.

The six violated properties quote a comment, a test or the README of the pool;
what the code does instead is described in the findings of `PROJECT.json`.

* `LostMeansLost`: an answer that waits in `worker_rsp_rx` is thrown away in
  favour of `JobsLost` when the connection breaks right after it was read. It
  takes a `leader_task` that lags behind the manager's sleep of one second and
  the worker's redial, so it is rare.
* `CompletedJobFirst`: a comment in `tests/workpool_reconnect.rs` gives the order
  in which a worker sends after a reconnect, and it is the other way round.
  `HandshakeOrder` shows that the code's order is the one the leader can read.
* `RemovedAfterWrite`, `OneJobPerId`, `CompletesWhenEmpty`: three sentences of
  the pool's README that hold only without a failed write, without 2^32 jobs
  and with at least one worker.
* `ReportedInProgress`: the exception above.

### What is proved

`WorkpoolProofs.tla`, for every set of workers and every value of the bounds,
from `ConstantsAssumption` alone:

* `TypeCorrect`: `Spec => []TypeOK`. `TypeOK` is not inductive: completing a job
  reads the handle of `tracker[id].of`, which must not be 0, so the invariant is
  strengthened with "an id without an entry waits for nobody" (`Typed`).
* `TrackerAlwaysSplits`: `Spec => []TrackerPartition`. The inductive invariant
  `TrackerInv` adds that the tracker and the job channel only name jobs that were
  submitted, and that handles of later submissions are unused: `Submit` would
  otherwise change the workers of a job that is being tracked.

The proofs have one lemma per action; facts about sequences, about the tracker's
operations and about the shapes of messages are lemmas of their own. Liveness and
`ImplementsContract` are model-checked only.

## Startup coordination

### What is modelled

`StartupCoordination.tla` models any set of nodes. A boot of a node is a process
with a new uuid, here its number. Its phases follow the order the comments of
`server_coordination.rs` prescribe: both barriers, the server's own startup
work, the heartbeat, readiness. No binary of this repository calls all of these
functions, so the order is that of the comments and of the lifecycle tests.

One round of a barrier is several `Fetch` steps, one for each peer's answer, and
one step that decides: answers of one round may be of different moments and of
processes that are gone. A heartbeat probe and the reaction to it are one step.
The two peers may be probed in any order, where the code alternates.

`Interruptible` says whether the server runs its startup under
`lifecycle::startup`, which drops the work as soon as a shutdown begins and, with
`mark_shutting_down`, takes back the ready flag. Cancelling the token and marking
the flags are one step: the poll that drops the work also marks them. The
barriers themselves never look at `shutting_down`. Both values are checked,
because one property depends on it (below).

Crashes, signals and lost probes are bounded by `MaxFaults`, expired deadlines
by `MaxTimeouts`. `MaxBoots` is larger than the bound `RestartsBounded` allows,
so that a violation is in reach. `MaxFailures` is 3 in the code; 1 and 2 are
used here.

The switch `startup_visibility_barrier_disabled` is not modelled: all results
are about servers that run both barriers. Without the second one
`SameGeneration` does not hold, as the mutant `NothingMissing` shows.

### What the runs check

| Run | Instance | Shows |
| --- | --- | --- |
| `startup_faults` | 3 nodes, interruptible, 1 fault, 3 boots | `SameGeneration`, `RestartsBounded`, `ServingMeansReady` |
| `startup_bare` | 3 nodes, not interruptible, 1 fault, 2 boots | `SameGeneration`, `ServingMeansReady` |
| `startup_live` | 2 nodes, interruptible, 2 faults, 1 deadline, 5 boots | `TypeOK`, `RestartsBounded`, `HeartbeatHeals`, `Converges` |

`RestartsBounded` holds only for interruptible servers. It was first checked on
a model whose barriers go on during a shutdown, as the functions do by
themselves, and is violated there: a node that was signalled and is slow to stop
still verifies its peers, so a peer can join it, be taken down by its heartbeat,
and join it again. It is not checked in `startup_bare` for that reason. With
`Interruptible = TRUE` it also held on a larger instance, too long for a regular
run (3 nodes, 1 fault and 1 deadline, 4 boots: 18,377,188 states). The regular
runs exercise deadlines with two nodes, in `startup_live`.

`ServingMeansReady` is checked for both kinds of servers. Under lifecycle a peer
that shuts down is no longer ready, so the property lets it be; without it the
peer stays ready until its process ends, and the property is the stronger one.

That the visibility barrier asks for full mutual visibility is needed for this
bound: if a node only asks whether each peer has seen it, three nodes with one
fault violate `RestartsBounded`.

`startup_bare` caps boots at 2, so a node may be left down for good; deadlock is
not checked there. The other two runs check it. Liveness is checked with two
nodes only.

Fairness: a process that ended is started again, as the comments on kubelet's
backoff assume; peers that are up answer; loops go on; startup work and
shutdowns end. Faults and deadlines are not fair, and are finitely many.

### What is proved

`StartupProofs.tla` proves `OneGeneration`, `Spec => []SameGeneration`, for any
set of nodes, all bounds and both values of `Interruptible`, from
`CoordinationAssumption`. `SameGeneration` is not inductive: a node decides on
answers that may be stale. `GenerationInv` adds that

* a process starts without knowledge, and known uuids are not from the future;
* an answer is no more than what the process that gave it knows by now;
* if a peer restarted after it told a node that it knows the node's uuid, the
  new process knows no older uuid of that node;
* whoever a node behind the barriers has seen, had seen it.

Steps are first sorted into five kinds by what they do to these variables; then
there is one lemma per kind. `RestartsBounded`, `ServingMeansReady` and the
liveness properties are model-checked only.

## Not modelled

The parts of the first table without a section here. `PROJECT.json` gives each
one's reason and the hazards that are open. Liveness and refinement are
model-checked, not proved: the prover does not reason about fairness.

## Plan

In this order; a part that others stand on comes first.

1. `NetworkSessions`: three parties, `make_network_sessions` that succeeds on
   some and fails on others, session ids with their wrap. Abstract
   specification: the parties agree on the ids of sessions that are in use. Two
   or three attempts, one failure, ids modulo 4.
2. `TcpConnect`: dialling, accepting, handshake and retries of two parties, two
   connections. Liveness: both get all their connections. Composed with 1.
3. `StripedSession` and the multiplexer: two connections, three messages, one
   timeout; refines a FIFO channel.
4. `ControlChannel` with job sync: three parties with bounded streams; no party
   leaves a sync before all have entered it; no deadlock.
5. `BatchSync` and `SqsSync`: three parties, three batches, a slow party.
6. `Modifications`: crash between two parties' commits, recovery, equal tables.
7. `Lifecycle`: `ShutdownHandler`, `TaskMonitor`, anon-stats `iteration` and
   `cleanup`; then composed with `StartupCoordination`, whose `Stop` it refines.
8. `AnonStatsStore` and `KeyManager`: one step of several failing.
9. Protocols and secret sharing as operators over rings of 2 to 4 bits, checked
   against the plain functions.

Theorems to follow: `ResultsFaithful` of the work pool when no more jobs are
submitted than there are ids, from an invariant on the messages in flight; then
the step refinement of `JobContract`; `ServingMeansReady`; agreement on session
ids; FIFO order of striped sessions.

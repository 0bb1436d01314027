# A formal model of the GRACE control plane

GRACE runs coding *packets*. A control plane (`src/src/grace_control`, FastAPI over
SQLite) keeps a queue of packets. Worker processes claim packets over HTTP, run an agent in a git
worktree, report a result, and ask the control plane to merge the accepted branch.
Background scanners take abandoned packets back. This directory holds TLA+ specifications
of that system, TLC configurations that check them on small instances, and proofs that
TLAPS checks for every instance.

Paths below are relative to `src/src/grace_control/`.

## 1. The system

### Components, their state, their operations

| Component | Code | State | Operations |
|---|---|---|---|
| Packet state machine | `core/state_machine.py` | none (a table) | `can_transition`, `transition` |
| Packet service | `services/packet_service.py` | `packets`, `leases` | claim, release, retry, renew_lease, cancel, block, transition, retire ancestors |
| Parallel reservations | `services/parallel_lease_service.py` | `parallel_leases` | acquire, renew, release, expire, release_for_terminal_state |
| Lease scanner | `core/lease_manager.py` | the same rows | `check_expired_leases`, every 30 s |
| Stuck scanner | `core/stuck_scanner.py` | the same rows, `workers` | `run_stuck_scan`, every 60 s |
| Worker | `worker/worker.py`, `worker/api_client.py` | fields of one process | claim, execute, release, merge, retry or recover; heartbeat |
| Claim queue | `services/queue_service.py`, `safe_queue_claim_service.py` | `features`, `waves` | choose a feature, its open wave, and a packet to claim |
| Scope policy | `services/parallel_conflict_service.py`, `runtime/runtime_scope_enforcer.py`, `core/scope_guard.py` | none | which packets may run together, which files they may change |
| Gates | `core/wave_gate.py`, `core/feature_gate.py` | `waves`, `features` | promote packets, close waves and features |
| Rework lineage | `services/rework_packet_service.py` | `packets.spec_json` | create and look up replacements |
| Packet execution, acceptance | `adapters/packet_executor.py`, `services/packet_execution_*.py`, `core/acceptance_pipeline.py`, `core/evidence_verifier.py`, `core/reviewer_gate.py` | `packet_runs`, a worktree | run one attempt and judge it |
| Operator controls, reruns | `services/packet_control_service.py`, `rerun_*_service.py` | a marker in `spec_json` | retry, rerun one gate on earlier work, cancel |
| Recovery controller | `core/recovery_controller.py`, `core/feature_recovery.py` | the rows it reads | classify, decide, reopen or end a packet |
| Merge pipeline | `services/merge_*.py` | `merge_leases`, the git target | admit, prepare, checkout/fetch/merge/push, transition, recover |
| Supervisor cleanup | `services/supervisor_cleanup_service.py` | all lease tables | a clean-up sweep from another process |
| Planning | `services/feature_intake_service.py`, `architect_stage.py`, `planning_*_service.py`, `api/routers/features.py` | `features.status`, the plan | context, plan, repair, approval, materialisation |
| Admin UI, process supervisor, tooling | the rest | | show rows, manage processes |

`PROJECT.json` lists every component with its status.

### How they interact

Workers reach the control plane only through HTTP. The API is one process with one asyncio
loop, and its claim, release, renew, retry, cancel and merge handlers, like the scans, do not
suspend between reading and writing the database. Each is therefore atomic with respect to
the others. The concurrency is in the clients. A worker has two asyncio tasks over one set
of fields (`_active_packet_id`, `_active_lease_id`, `_active_lease_released`,
`_active_lease_loss_reason`), each with a request in flight. Requests and answers get lost,
come late, and are overtaken by scans. Workers die anywhere and come back under a new id.
Ownership is therefore fenced by tokens: worker id, lease id and attempt for releases,
worker id and lease id for renewals, worker, reservation and attempt for merges.

### What is hard

- A result, renewal or merge of an attempt that has been taken away must not count.
- Lease ids are reused: `leases.id` is an INTEGER PRIMARY KEY without AUTOINCREMENT.
- Two leases with their own clocks (ordinary lease, reservation) protect one packet, and
  they change hands at the accepted release.
- The scanners write READY without the state machine, which the other writers go through.
- A worker is several requests long; it may die between any two of them.
- An executor does not notice that its packet was taken away. It goes on writing its run row,
  its worktree and its verdicts, beside the executor of the next attempt.
- Replacements of a packet fork and chain, while features and waves are opened and closed by
  passes that run at their own time.
- A planning task waits for a language model with a change flushed and not committed, and
  SQLite refuses everybody else's writes meanwhile.

`PROJECT.json` lists each such hazard at its line, with the properties that cover it or the
reason none does yet.

## 2. Modules

| Module | Models |
|---|---|
| `PacketStates` | the states, the transition table, release statuses and claimable states |
| `PacketLease` | packet service + reservations + both scanners; one action per handler or scan |
| `ExclusiveAttempts` | what these promise together, without leases, tokens or clocks |
| `WorkerCycle` | the worker's two tasks and their requests, over `PacketLease` |
| `MergePipeline` | an ACCEPTED packet's way into the target: merge lease, git steps, recovery, cleanup |
| `VerifiedMerges` | what these promise about the target branch, without leases, runs or crashes |
| `FeatureFlow` | features, waves and packets: the claim queue, the gates, rework and repack |
| `ScopeConflict` | the conflict policy beside the two checks of changed files; pure operators |
| `AttemptRuns` | the executors of one packet's attempts: gates, verdicts, run rows, reruns, recovery |
| `PlanningFlow` | a feature from intake to queued packets: planning tasks, repair, approval, locks |
| `X_proofs` | the theorems about `X`, for all of these but `PacketStates` and `VerifiedMerges`, which have no steps of their own or are proved about where they are implemented |
| `MCX` | what TLC needs besides: symmetry, plans, scopes and their entries |

`WorkerCycle` EXTENDS `PacketLease` and composes two workers with it. The other modules look at the
same packets from another side. Each has the transitions of `PacketStates` in common with the
rest and reduces what another module models to what it sees of it: `FeatureFlow` has a claimed packet end in any way
`AttemptRuns` and `MergePipeline` allow, and `AttemptRuns` has an owner where `PacketLease` has tokens.

### PacketLease

| Variable | In the code |
|---|---|
| `state[p]`, `attempts[p]` | `packets.state`, `packets.attempt_count` |
| `lease[p]` | the `leases` row (id, worker, claimed attempt, time left) or `NoLease` |
| `please[p]` | the `parallel_leases` row or `NoLease`. The row's uuid is fresh per claim, so the attempt stands for it |
| `claims` | every `ClaimResult` ever returned: the tokens any late request may carry (history) |
| `results` | every recorded release with its token (history) |

| Action | In the code |
|---|---|
| `Claim` | `_claim_in_session`; with parallel claims also the sweep of `_claim_once` and `acquire` |
| `ClaimNothing` | `_claim_once` without a candidate: it still commits the sweep |
| `Renew`, `RenewParallel`, `Release`, `Retry`, `Cancel` | the service methods with their guards in full |
| `Merge`, `BlockStale` | the two state changes the merge pipeline makes to an ACCEPTED packet |
| `PromoteDraft` | the wave gate's promotion |
| `LeaseScan`, `StuckScan` | one sweep each |
| `Tick` | time; rows count the ticks left to `expires_at` |

`Renew`, `RenewParallel` and `Release` take any token of `claims` at any time. This covers
delayed, repeated and reordered requests without a network in the model. The model's clients
are thus stronger than real workers, and what holds here holds for any client that got its
tokens from a claim.

The release check looks at the row and the tokens and not at the expiry: a lapsed lease
that no scan has reached may still release. This is what the code does, and the model keeps it.

### WorkerCycle

Per worker: the phase and the request of the main task (`phase`, `call`), the token fields
(`token`), the release status (`outcome`), `released` and `loss` as in the code, the
heartbeat's request with the token it was sent with (`beat`), and one request the client gave
up that the server may still serve (`late`). `merged` remembers whose request merged a packet.

A request is *sent*, *served* by one server action, and *answered*; the worker then acts on
the answer. `LoseCall` and `LoseBeat` lose a request or its answer, `GiveUpCall` lets the client time
out while the request is on its way, `ServeLate` serves it later, `Crash` ends the process.

A few branches of the code shape the results:

- after a release that failed other than with 409, the release status set by the execution
  is still there (`worker.py:493-497`), so the worker goes on to merge or retry;
- the merge loop looks at the loss reason before each request (`worker.py:524`);
- the heartbeat applies the answer to whatever claim is active when it arrives;
- after the accepted release the ordinary lease is no longer renewed; the reservation is, if there is one.

### MergePipeline

| Variable | In the code |
|---|---|
| `state[p]`, `attempt[p]` | `packets.state`, `packets.attempt_count` |
| `base[p]` | `packet_runs.base_sha`: the head the attempt was made from |
| `held[p]` | the reservation of the latest attempt is live (its clock is left to `Lapse`) |
| `asking[p]` | the worker's merge loop has a request that is neither admitted nor refused |
| `target`, `pushed`, `tree` | commits of the target branch, how many the remote has, the working tree |
| `mlease` | the `merge_leases` row: packet, token, ticks left |
| `run[a]` | what `merge_packet` is in the middle of in API process `a` |
| `crossed` | packets that a merge of an earlier attempt has blocked (history) |

`Admit` is the admission with the acquisition or takeover of the merge lease. A run then takes
the steps `Prepare` (sanity, base comparison, recheck), `Checkout`, `MergeBranch`, `Conflict`,
`Push`, `Finish`; it ends with the transition, a block or an error, and `EndRun` is the
`finally` clause. `Refuse` is an error answer to a request; a 202 answer changes nothing.
`Cleanup` is the supervisor's sweep. `Start`, `Accept`, `Lapse`, `GiveUp` reduce
`PacketLease` and `WorkerCycle` to what a merge sees of them.

The deployment has one API process, whose handlers run one after the other. The
merge lease is built for several, so the model has two: a second one is also what an old
process is that has not noticed its replacement. What holds for two holds for one.

A git step and the checks before it are one action. `run_mutation` renews the lease from a
thread while the step runs and looks at it again afterwards. The model takes this renewal as
given. Between steps anything may happen. The loop of at most three rechecks is one
choice between "passed on the current head" and "blocked". A push to a repository without a
remote, which the code lets pass, is left out, as are a missing `base_sha`, the setting that
disables the recheck, and commits to the target that are not made by a merge. Whether the
target changes behind a packet that was verified on its head is thus a question of the lease.

`VerifiedMerges` is the promise behind this machinery, and `MergePipeline` implements it
(`ImplementsVerifiedMerges`, with the target as trunk, the pushed part as remote and the MERGED packets as
done). Verified results land one after the other, of one packet only in the order of its attempts; the
remote takes over all of the trunk at once; a packet is done when all that ever landed for
it is on the remote, and nothing lands for it afterwards. It has no liveness: a packet may never be merged.

### FeatureFlow

| Variable | In the code |
|---|---|
| `feature[f]`, `wave[f, w]` | `features.status`, `waves.status` |
| `packets` | the packet rows in the order of creation; a replacement is appended |

A row has the packet's feature, wave, dependencies and scope (`area`), the packet it replaces and who
asked for that (`parent`, `source`), state and attempts, whether its reservation is active
(`held`), whether the owning execution has asked for rework (`judged`), and whether an execution that lost the
packet is still running (`stale`).

| Action | In the code |
|---|---|
| `Claim`, `Degrade`, `Finish`, `Wait` | the ends of `claim_next_atomic` for the feature `Selection` picks |
| `WaveGate`, `FeatureGate` | one pass of `check_wave_gates` and `check_feature_completion` over one feature |
| `Release`, `Reclaim`, `Lapse`, `Retry`, `Cancel` | what `PacketLease` models in detail, as far as the queue sees it |
| `Merge`, `MergeBlocked` | the end of a merge; `Merge` includes `_supersede_rework_ancestors` |
| `Rework` | `maybe_create_rework_packet` in an execution, which need not own the packet any more |
| `Repack` | `create_architect_repack_packet` with `_requeue_feature_for_repack` |

A judged execution has asked for its replacement before it is released, and the worker then releases it
as rejected, "blocked_recoverable" or failed. A replacement writes where its parent did. A repack may add
paths but take none away (`_normalize_replacement_paths`), and an empty scope is filled with a default
(`rework_packet_service.py:88-92`), which may be one of the plan's places or none (`Places`).
`Effective` is `effective_rework_packets`, `Standing` is what a dependency's title resolves to.
Claims that go to the API directly and not through the queue, deletion of packets and the serial
queue are left out.

### ScopeConflict

A packet's scope is a set of entries, an entry a sequence of components. A component is a name, a
wildcard, or a *class*: one with a "[" or a "?", of which `Class` tells the names it matches and
`Unpaired` whether its brackets are left open. `Matches` is what `fnmatch` does with such a pattern
(`Reached` computes how much of a path the beginnings of a pattern match), `Normalized`
drops what `normpath` drops. Three readers judge a scope, and they differ:

| Reader | In the code | Reads an entry |
|---|---|---|
| `ScopesOverlap` | `ParallelConflictService` | normalised; wildcards and classes make it a pattern (`Glob`); an open bracket conflicts with whatever it meets; one entry that is not `Valid` fails the claim |
| `Enforced` | `RuntimeScopeEnforcer` | normalised; the same notion of a pattern; one entry with `InvalidScopePath` refuses every change, but a ".." at the end is not looked for |
| `Guarded` | `ScopeGuard` | one by one, as written; a slash at the end makes it the directory of that spelling whatever it contains, and only a "*" makes it a pattern (`Starred`) |

`Claim` and `Finish` let packets run together as the policy allows. `Extends` tells which name
begins with which other, the one thing about its characters a wrong comparison could see.
The string reading of the code (`startswith`, `rstrip("/")`, `normpath`) is so replaced by one over components.
Left out are wildcards inside a component (`a*b`; a `?` or `[!x]` that matches a slash), brackets that
open in one component and close in another, blanks around an entry, backslashes, drive letters, names
that only begin with "..", and the cache and build directories the enforcer passes over.

### AttemptRuns

| Variable | In the code |
|---|---|
| `state`, `count`, `budget`, `marker` | `packets.state`, `attempt_count`, `max_attempts`, `spec_json["rerun_stage"]` |
| `owner` | the attempt holding the lease, or whose result was accepted |
| `exec[a]` | the place of attempt `a`'s executor and worker, what it was told at the claim, its answer |
| `row[a]` | its `packet_runs` row: status, reports, evidence, base, worktree |
| `tree` | attempts whose worktree is on disk |
| `passed[a]` | the gates the work of `a` has passed (history) |

An executor goes from `Begin` (the row) over `Prepare`, `AgentDone`, `Inspect` (scope), `Acceptance`,
`Verify` and `Review` to an answer; told to rerun a gate it takes `Rerun`, `Reverify`, `Rereview`
instead. `Timeout` is the worker's hard timeout, `Raise` any other exception, `Crash` the
death of the process. `Release`, `Retry`, `Merge`, `ReadSignal` and `Apply` are the worker's
requests afterwards. `Reclaim`, `OperatorRetry` and `RerunStage` come from outside. Gates answer as they like;
what is modelled is what the code does with the answers, in which order, and what
of it is in the database when another executor looks. Cancelling is left to `PacketLease` and
`FeatureFlow`, `stage_runs` is left out. The code allows four runs of the coder before recovery asks the architect;
`CoderAttempts` scales that to two.

### PlanningFlow

`row[f]` is the committed feature row (status, the plan as the compiler sees it, how often
packets were made of it), `tasks` the planning tasks with their place, `auto` the approval mode,
`lost` the features that were PLANNING when their task went away without a word. `Submit`,
`SubmitWaves`, `Approve` and `Regenerate` are the requests. `Begin`, `ContextDone`,
`ArchitectDone` and `RepairAnswered` are what a task does between two questions to a language
model. Every write of a task or request fails while another task is in its repair (`WriteLocked`), and
`Raise` is what each entry point makes of an exception. Supervision heartbeats are left out.

### Abstractions

- One packet in the worker runs: a worker holds one packet at a time, and packets meet only
  through lease ids and the reservation sweep, which the `PacketLease` runs cover with two.
- Worker rows, events and logs are left out: no decision modelled here reads them.
- `PacketLease` and `WorkerCycle` do without the supervisor's cleanup, which `MergePipeline` has,
  and without operator blocks and the retirement of ancestors, which `FeatureFlow` has.
- Serial mode (`Parallel = FALSE`) lets several packets run at once; the queue lets only one.
  The model thus has more behaviours than the code. The serial runs use one packet.
- Late *heartbeats* (given up by the client and served later) are not in `WorkerCycle`. They
  change only the two expiry times, and `PacketLease` allows them from any token at any time.
- Operators retry only through the worker's request in `WorkerCycle`; `PacketLease` has
  `Retry` from anybody.
- In `FeatureFlow` a gate's pass over one feature and the claim transaction are one step each,
  as in the API, whose event loop does not suspend inside them.
- In `AttemptRuns` an attempt that does not end accepted leaves nothing in `passed`: its work may
  be changed, or removed, once it has been let go.
- `PlanningFlow` has a plan be one of four verdicts of the compiler. A repair that fails leaves the row's plan as it was.
- `SubmitWaves` is one step, though the request commits three times, PLANNING, PLAN_READY and the approval
  (`api/routers/architect.py:85-109`), and so are finalize and approval in `ArchitectDone`: nothing is awaited
  in between, so nobody else in the process comes between them. A crash between two of these commits,
  which leaves the feature PLANNING or PLAN_READY, is not modelled.
- `MergePipeline`'s `Finish` is `assert_current` and the transition that follows it at once
  (`merge_service.py:331,337`), in one step like every step with its checks.

## 3. Runs

| Run | Instance | Shows |
|---|---|---|
| `lease_parallel` | 2 packets, 2 workers, 2 claims each, `MaxAttempts` 1, TTL 1, reservation 2, grace 0 | leases, states, tokens, reservations and results agree (`LeaseInv` and what follows); packets follow the table |
| `lease_refines` | 1 packet, 2 workers, 3 claims, `MaxAttempts` 2, serial, TTL 2, grace 1 | only current attempts record results; grace is respected; `PacketLease` implements `ExclusiveAttempts`; lapsed leases are reclaimed |
| `worker_parallel` | 1 packet, 2 workers, 2 claims, `MaxAttempts` 2, both TTLs 2, grace 0 | only the accepted attempt's worker merges; a worker's belief in its release is right |
| `worker_live` | 1 packet, 2 workers, 1 claim, both TTLs 2, grace 0 | liveness of reclaims and cycles |
| `merge_pipeline` | 2 packets (the first executed up to twice), 2 API processes, merge TTL 1, cleanup age 1 | merged onto the verified head; MERGED is pushed; live merge leases are safe, dead ones give way; `MergePipeline` implements `VerifiedMerges` |
| `feature_lineage` | 1 feature, 2 waves, 3 planned packets with a dependency, up to 5 with replacements, which a repack may widen, the first executed up to twice, 2 at once | no overlap, dependencies and waves in order through forks and chains, ancestors retired, what is left in a finished feature is stale |
| `feature_queue` | 2 features with 2 waves and 1, 3 planned packets, up to 4 | one active feature; a queued feature is served |
| `scope_conflict` | 2 packets, 130 scopes of no, one or two of 114 entries, 43 files | the policy is exact for plain paths; its one gap; the two cases in which the guard passes what the enforcer stops |
| `planning` | 2 features, 3 planning tasks, 2 repair requests each | packets are made once, one planner per feature, planning ends |
| `attempt_runs` | 3 attempt numbers, budget 2, full profile, recovery on, failed worktrees kept | accepted means all gates passed; the merge finds its row; reruns leave the coder alone; attempts end |
| `stale_result_not_merged` | 1 packet, 2 workers, 2 claims, serial | violated: an old attempt's branch is merged |
| `return_is_authoritative` | as `attempt_runs` | violated: a packet returned to the architect goes back to the coder |

**Bounds.** `MaxClaims` bounds the claims of one packet. Two are enough for a reclaim with a
stale worker; three let an id be reused twice with different workers. Two packets are enough
for lease ids to be shared and for one packet's claim to sweep the other's reservation. TTL
1 with grace 0 gives a live lease, the instant of expiry and an overdue one; grace 1 adds
the window between expiry and reclaim. `ParallelTTL` larger than `TTL` lets the
reservation outlive a reclaimed lease. The worker runs give both the same time, 2 ticks, as the
default settings do: a renewal can then succeed one tick before the end, and at the end the
lease is still renewable while its reservation no longer is. Time left stops counting once a row is overdue beyond
the grace period, where nothing changes any more. Workers and packets are symmetric in the
safety runs; no liveness property is checked under symmetry.

In the merge run one packet may be executed again after it was blocked, so that a stalled run of
the first attempt meets the second; two packets give an order and a takeover between packets.
At most three merges are begun, two of them at the same time when a lease was lost. Merge TTL 1 gives a live and
an expired row, cleanup age 1 the rows in between that a takeover may replace and the
cleanup may not. With three executions the safety properties were checked once by hand (2.2
million states): that is where `crossed` is not empty, see below.

In `feature_lineage` all but one packet write to the same of two places, and a repack may add the other; the first packet can be reclaimed and executed
again, and two packets can be added. This is enough for a fork (two replacements of one
packet), for a chain of two, for a replacement in a wave that was closed, and for a
replacement asked for by an execution that has lost its packet. `Executions` bounds how often a packet is
claimed, `MaxPackets` how many there are. `feature_queue` has one more packet than planned, which
lets a finished feature be queued again ahead of another. Packets end as failed in `feature_queue` only; in
`feature_lineage` cancelled and blocked replacements do what failed ones would do: they let a second one from the same source be made. With "failed" among
its outcomes the lineage run was checked once by hand (884 thousand states).

`scope_conflict` has every entry of up to three components over two names and both wildcards: three are
the shortest with a name before, at and behind a wildcard. With a class there are the entries of up to two
components, with and without a slash at the end. A name that begins another, `.`, `..`, an open bracket, empty names and
the trailing slash are there because the three readings of an entry differ in them. Files are up to one component
longer than entries, and some are spelled like a class. Scopes of two entries are made of six that are read differently,
two of them invalid, so that one entry can decide for its neighbour. The two packets are symmetric.

Three planning tasks are a task with a rival on the other feature and a regeneration. Two
repair requests give a first and a last one. In `attempt_runs` three attempt numbers let the executors of two
attempts overlap and a rerun follow an accepted attempt; the budget of two makes an
attempt the last one. The run takes the profile with all gates; the theorems are about both.

`PacketLease` and `WorkerCycle` are checked for deadlock: `Tick` is always possible. The other runs
switch the check off, since they may really come to their end: every packet is merged or given up, every feature is
planned, no attempt number or packet is left within the bounds, no scope lets anything start.

**Fairness.** `PacketLease` is fair to the tick and to the two scans, which the lifespan
task (`api/lifespan.py:96-109`) runs in endless loops. No client owes anything there. In
`WorkerCycle` a living worker takes its main and heartbeat steps and the API answers what
reaches it (the client has a 30 s timeout, so an answer or an error does come). Nothing
obliges a worker to claim, an execution to end, a merge to be admitted, or a request to be
delivered: `LoseCall`, `Crash` and the outcome stay free. In `MergePipeline` a worker repeats its request until
it is answered (`worker.py:523-598`), a begun merge takes its next step unless the process dies, and
time passes. Nobody is obliged to run the cleanup, which is an operator's request. In
`FeatureFlow` somebody polls the queue (`ClaimNext`), the gates run in the API's loop, claimed
packets are released, reservations lapse and accepted packets get to their merge; operators owe
nothing, and `QueueMoves` asks that they stop some day. In `PlanningFlow` every task takes its next step, for
agents run under a time limit, and a crash is never due. In `AttemptRuns` the owner's executor moves or times
out where it waits (`OwnerMoves`), and a dead one's lease is reclaimed (`ReclaimDead`).

The operators whose comment starts "Altered form of" are small mistakes in the definition
that follows them. For each property one of them was put in the place of its original, and
TLC then reported the property violated, so the property does depend on that piece of code.

### What the runs found

1. **Serial mode may merge the wrong attempt** (`stale_result_not_merged`). A release that
   fails with an API error keeps the status "accepted". If the packet has been reclaimed and
   another attempt accepted, the old worker's merge request is admitted, since without a
   reservation no token is compared. With parallel claims `MergedByAcceptedAttempt` holds.
2. **A return to the architect is not kept** (`return_is_authoritative`). When the verifier
   returns a packet, the report of the reviewer that was not asked is stored as
   "rework to coder", and recovery looks at the reviewer first. The comment above that code says
   the return stays authoritative.

### What else was seen

Observations made with these models, or while reading for them, that no run is kept for.

*Leases and workers.* A renewal that the heartbeat sent before the accepted release and that is
served after it gets 409. The worker takes that for a loss and gives its merge up. A renewal
does not say which claim it is for: lease ids are reused, so a late one may extend a later lease of
the same worker. A REJECTED packet whose worker dies before it retries stays REJECTED.
`PacketService.cancel` says any non-terminal state may be cancelled, but the table has no way
from DRAFT or ACCEPTED. `docs/grace/STATE_MACHINE.md` has transitions enforced by
`PacketService.transition`, but the scanners write READY themselves (`AllowedMoves` names this step).

*Merges.* Only the first ACCEPTED packet of a repository may merge. If its worker died, it stays
first and the others poll until somebody runs the cleanup (`FirstIsServed` holds: the packet at
the head itself is not held up). A failed push, or a crash after the git merge, leaves an ACCEPTED packet whose commit
is in the local target; the cleanup may have it executed again on top of its own change. And in a
merge's last step no attempt is compared (`merge_service.py:331-340`): a stalled merge of attempt 1
may block the packet while the merge of attempt 2 stands between push and transition, and if
attempt 3 has been accepted by then it is marked MERGED though what was pushed is attempt 2. It takes two API
processes and three executions. `MergedIsPushed` says so with `crossed`.

*Features.* A verdict of an execution that has lost its packet still makes a READY replacement, of
a merged or cancelled packet even in a COMPLETED feature, where nobody serves it. Two replacements of one packet
stop the lookup of a dependency's title at the parent, so dependents start when one branch is
merged and the other is open. A repeated, equal repack queues the same feature again, ahead of
later ones. A packet that waits for an operator holds back every other feature. A wave
after an empty wave never opens, and a feature without packets, which an empty plan makes, stays active for ever. A retry of
an original packet does not reactivate its degraded feature.

*Scopes.* The pattern `*/a` and the directory `a/` do not conflict although both admit `a/a`;
the design wants a conflict wherever scopes are not shown to be disjoint (`docs/work/TZ_GRACE_SAFE_PARALLEL_WAVE_EXECUTION.md:149`).
`SharedOnlyBelowDirectory` shows that there is no other gap. With the scope `app/[id]/` the guard passes
`app/[id]/page.tsx`, by spelling, and the enforcer stops it, since it takes the brackets for a pattern
(`scope_guard.py:161`, `runtime_scope_enforcer.py:143`). One invalid entry makes the enforcer refuse every change
while the guard judges each entry by itself; a ".." at the end (`a/..`) is refused by the policy and not
by the enforcer. `GuardWiderInTwoCases` shows that the guard is not the wider in any other way.

*Attempts.* Rejected runs keep no evidence path, so a rerun of a rejected attempt always ends with
`RERUN_CONTEXT_MISSING`; that accepted reruns rest on passed gates depends on this. A
row of an accepted rerun has no `base_sha`, so its merge is blocked. A timeout leaves the run row
running until the release finishes it as "blocked_recoverable", which recovery's count of coder runs
leaves out: timeouts can repeat without end although the policy allows four. The release finishes the
latest running row, which may be that of another attempt; accepted rows are always their own
(`LatestRowIsAccepted`). Recovery applies its decision without a token and can end a packet
that an operator has meanwhile retried. A second rerun request between claim and start makes the attempt run the coder.

*Planning.* A repair keeps SQLite's write lock while it waits for the model. Its failure leaves the feature
PLAN_READY with the rejected plan (`planning_repair_service.py:50,61`). A crash, a locked
database in the error handler, or a planning request without a handler leaves the feature
PLANNING, which nothing scans for and regeneration refuses (`lost` in `PlanningEnds`).

## 4. Proofs

All theorems hold for every value of the constants that satisfies the named assumptions. TLAPS checks
them to the last leaf. The assumptions are what the settings and tables
guarantee: numbers are naturals and positive where the code needs it, `NoLease` is no row and `NoClaim` no token, statuses are ones a
worker may report, plans are well formed (waves and dependencies of a planned packet exist), a file of a repository
has a path without `.`, `..` or wildcard components, a class is none of these, and a plain scope entry has a file at
or below it (`LeaseAssumption`, `WorkerAssumption`, `MergeAssumption`, `FlowAssumption`, `ScopeAssumption`,
`PlanningAssumption`, `ConstantsOK`). Bounds on the exploration are constants too, so no
theorem depends on one.

**PacketLease** — `LeaseInv`, for any packets, workers, times and numbers of claims:

- `LeaseIffRunning` alone is not inductive: the release needs to know that the row it removes
  is the one of the latest claim (`LeaseIsLatestClaim`), since only then does the token
  comparison say that the *latest* attempt is being released;
- that needs `ClaimsNumbered`: no token carries an attempt not handed out yet, so a new
  claim's number is new;
- `OneResultPerAttempt` needs `ResultsNumbered`: the open attempt has no result yet, so
  recording one does not make a second. This is where lease-id reuse is rendered harmless;
- `DistinctLeaseIds` follows from `IsNextId`, the way SQLite picks ids;
- `ReservationCovers` needs that the sweep spares RUNNING and ACCEPTED packets and that
  every other way out of RUNNING is ACCEPTED or gives the reservation up.

From it follow the invariants (`LeasesMatchStates`, `ResultsUnique`, `ReservationsHeld`), the
action properties (`FencedResults`, `GraceKept`, `MovesAllowed`), and `Implements`: under the
mapping "an attempt is open while its packet has a lease row" each step is a grant, a finish, a
revocation or a stutter. `ExclusiveAttempts_proofs` proves that the abstract protocol has at
most one result per attempt and one owner per packet.

**WorkerCycle** — `WInv`, for any packets, workers and times, with requests lost, given up or
served late and workers that die. Every request under way carries a token that was issued
(`TokensHeld`), so each step of workers and server together is a step of `PacketLease` or leaves its
state alone (`VarsStep`), and `LeaseInv` holds throughout. `ReleasedMeansRecorded` needs to
know that a release answered with success was recorded under the worker's own token, which it
keeps until its cycle ends (`Noted`). `MergedByAcceptedAttempt`, proved under parallel claims, needs that the
reservation of an ACCEPTED packet names the recorded acceptance (`AcceptedRecorded`): sweeps
spare it, renewals change only its time, and the packet becomes ACCEPTED by a release of the claim it
belongs to. The merge request is compared with that reservation, and MERGED is final (`MergedStays`).

The same step lemma gives `WorkersFollowProtocol`: workers and server together implement the
safety part of `PacketLease`. What is proved there of any client holds of the workers:
fencing (`WorkersAreFenced`), the grace period (`WorkersKeepGrace`) and the ownership promise
(`WorkersAreExclusive`).

**MergePipeline** — `MergeInv`, for any number of API processes, packets and executions.
`VerifiedWhereMerged` needs to know that the run about to merge is the one the merge lease
belongs to and that it compared its packet with the head that is still the target's. Hence
tokens are numbered, a row names the run that holds it, an attempt has one run, the holder's head is the
target's from `Prepare` on (`HolderIsVerified`), and each later step has its predecessor's effect
behind it (`StepsDone`). `MergedIsPushed` adds that the holder merges its packet's latest
attempt or the packet is in `crossed` (`HolderIsCurrent`). `LiveLeaseKept` follows from the same.

The refinement of `VerifiedMerges` (`MergesImplement`) needs three facts more, in `LandedInv`: an attempt
that still runs, still asks for its merge or whose merge has not reached the git merge has no
commit on the target, so what lands is later than all that landed for its packet
(`LandedNumbered`, `NotYetLanded`); in the last step of the row's merge all of the
target is pushed, for nobody else merged since (`HolderHasPushed`); and a MERGED packet has no
reservation, so no merge may mutate for it (`MergedIsClosed`). `MergeBranch` is then `Land`, `Push`
is `Publish`, `Finish` is `Conclude`, a failure of these and every other step a stutter. `MergedIsWhole` draws the
consequence: no commit of a MERGED packet, those of crashed merges and of earlier attempts included, is
missing on the remote. It holds of `crossed` packets too, which `MergedIsPushed` has to except.

**FeatureFlow** — `FInv`, for any plan, any number of packets and any limit. The claim
compares reservations and not states; so `NoOverlap` needs that whoever is RUNNING or ACCEPTED
holds its reservation. Then every step other than a claim only shrinks the set of
busy packets (`Calm`), and a claim adds one that overlaps nobody's reservation.
`WavesInOrder` follows because a claimed packet is in the least open wave of its feature,
`OneActiveFeature` because `Selection` leaves active features alone before it considers others.

Of the replacements `FamilyInv` says that they form a forest in the order of creation, each with the feature and
all the places of its parent, which has left DRAFT. `Ancestors` and `Standing` are recursive functions along this
forest; that such functions exist, their equations, and what they return are shown with the least (or
the greatest) packet that would be an exception. `DependenciesServed` (`DependenciesAreServed`) then
follows: when the lookup of a dependency's title ends at a packet that is done, either no replacement forked on the way
and all of it ends there, or a fork was done itself.

`AncestorsRetired` and `LeftoversAreStale` are proved for plans whose packets all have somewhere to
write (`Writers`). A merged packet's ancestors are either retired by `_supersede_rework_ancestors` or in a state
that the table has no cancellation from: DRAFT, which has no replacements, or ACCEPTED, which would be busy at a
place of its descendant and so contradicts `NoOverlap`. This hypothesis is needed. The plan compiler demands a scope of
coder packets (`core/plan_validation/scope.py:338`) but lets a verifier's be empty, and packets
without a scope never conflict. TLC then shows in nine steps a reclaimed verifier packet whose stale execution
asks for rework, packet and replacement both ACCEPTED, and the replacement merged while its parent still waits for
its merge. The proof attempt found this; no document promises otherwise, so no run is kept for it.

**ScopeConflict** — for any packets, scopes, classes and paths of any length. `SInv` says that whoever runs was
compared with everyone who ran when it was claimed, and that the comparison is symmetric (`OverlapSymmetric`).
The rest is about the operators. A pattern's beginning without wildcards and classes is the beginning of every path it
matches (`ReachedPlain`, `StaticBeginning`), so patterns with incomparable beginnings share nothing
(`PatternsShared`); a pattern and a plain entry share a file only below the entry or at it (`PatternAndPlain`); normalising
drops the empty and `.` components and nothing else (`KeptNames`, `KeptPlain`). Hence what `ScopeGuard` passes by the
spelling of an entry, or by matching it as it is written, the enforcer passes too, but for invalid entries and
for directories with a class in their spelling (`GuardGapsAreTwo`). That `Reached` and `Kept`
have the values their definitions say is proved from the least index at which they could differ.

**AttemptRuns** — `AttemptInv`, for any number of attempts, any budget, both profiles and with
or without recovery. `AcceptedOnGates` needs that what a row offers for a rerun has
passed acceptance and that its executor is through (`RowOffers`, `Settled`), so that work
cannot lose its gates under a rerun. `LatestRowIsAccepted` and `RerunLeavesCoder` need that nobody after the
owner has a row or an executor, that the owner's row is running as long as it works, and
that the marker the owner was told of still waits for it (`OwnerInv`).

**PlanningFlow** — `PInv`, for any features, tasks and repairs. `MaterializedOnce` and
`PlannerIsAlone` need each other: an approval may make packets only of a feature that is not
queued, which the approving task knows because nobody has written its row behind its back.

**Only model-checked:** the liveness properties (`LapsedLeaseReclaimed`, `DeadWorkersPacketReclaimed`,
`LeftoverReservationElapses`, `CycleEnds`, `FirstIsServed`, `QueueMoves`, `PlanningEnds`,
`AttemptEnds`), because reasoning about fairness is out of the prover's reach, and the two
properties that are violated. Every invariant and every action property of a passing run is
stated by a theorem. No lemma is about RECURSIVE operators or takes an operator as
parameter; recursion is written as recursive functions, and each induction is done by hand, from a least
counterexample.

## 5. What is not modelled

What an agent, a language model or a shell command does, and how texts are parsed: for the
models it is one of the verdicts it can come to. Of the workspace only the worktree's
existence is modelled, of git what the merge pipeline does with the target. The admin UI and
read services change nothing. The supervisor's process handling is operating-system I/O; what matters of it, that
processes die and start anew, is in `WorkerCycle`, `MergePipeline` and `PlanningFlow`. The live test
runners, metrics, sessions and the projections behind the UI keep no state that another part reads. These
make up most of the lines of the repository, which is why the models stand for a small share of it.

Left out of parts that are modelled: the serial queue (`queue_service.py`), deletion of packets and stopping of
workers by operators, semantic resource keys, forbidden paths and frozen files, recovery's switch
of the coder's model and its audit rows, rows of `workers`, `events` and `stage_runs`, merges with the
recheck disabled, and the cleanup's own interleaving with the API's transactions.

## 6. Plan

What would come next, in the order of importance:

1. The sweep of `supervisor_cleanup_service.py` as a read and a later write of a second process,
   composed with `PacketLease`; a git step that outlives its merge lease.
2. The serial queue (`queue_service.py:202`): candidates read in one session and claimed in another.
3. Worker rows in the scans and the release: `current_packet_id` of a worker that has moved on.
4. An abstract specification of the attempts (each accepted work with its gates), refined by `AttemptRuns`, and of
   planning (a plan approved once, its packets made once), refined by `PlanningFlow`.
5. `MergePipeline` as what happens between ACCEPTED and MERGED in `WorkerCycle`: a mapping of the workers' merge requests.

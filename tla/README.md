# Verification of pi-subagents

TLA+ models, TLC runs and TLAPS proofs for the coordination protocols of
pi-subagents: the file protocols by which several operating-system processes
(Pi sessions, detached runners, children) share leases, budgets and the control
of a run. Paths below are relative to the directory that holds `src/`.

## 1. The system

One Pi process (the *session*, or *launcher*) starts children. A foreground
child is a process that the session waits for. A background run is a detached
*runner* (`subagent-runner.ts`) that executes steps, each in a child process,
and talks to everybody else only through files in its run directory and in
per-user directories. There is no server and no lock manager. Every exclusion
is made of `mkdir`, `rename`, `open(wx)` and an owner record with a pid, and
every process can be killed between any two system calls. This is where the
hard behaviour is, and it is what the models are about.

| Part | State it keeps | Operations | Meets others through |
|---|---|---|---|
| File lease (`shared/file-lease.ts`) | lock directory with `owner.json`; `.retired-<token>` directories | `withFileLease`, `tryLease`, release | settings, worktrees, schedules, result files, inspectors |
| Session lease (`runs/shared/session-lease.ts`) | lease directory per persisted session; `.stale-<token>` tombstones | acquire, updateWriter, release, inspect | runner bootstrap; the release acknowledgement feeds the process-terminal proof |
| Run fan-out budget (`runs/shared/run-fanout-budget.ts`) | manifest, `admission.lock`, numbered claim files | `commitRunFanoutBatch`, snapshot | every process of one run tree that launches children |
| Control inbox (`runs/background/control-channel.ts`) | request files, two `*-inbox-closed` markers | request/consume of stop, interrupt, timeout, steer | callers write, the runner polls |
| Background runner (`subagent-runner.ts`) | `status.json`, result file, flags in memory | control handlers, deadline, teardown, publication | inbox; result watcher; launcher |
| Async stop action (`runs/foreground/async-stop-action.ts`) | none of its own | stop a run; seal a paused run | inbox, status, result, proof |
| Process-terminal proof (`process-terminal*.ts`) | `process-terminal.json`, candidate, overlay in `status.json` | finalize on child close, overlay | launcher writes; stop and capacity read |
| Stale-run reconciler (`stale-run-reconciler.ts`) | repairs `status.json`/result | reconcile | stop, status, capacity |
| Active async capacity (`active-async-capacity.ts`) | `slot-<n>` directories with `owner.json`, a `capacity.claim` file in each, a handle in memory per launch | admit, transfer, bind, roll back, reconcile | launches and resumes; status and process-terminal proof decide a release |
| Results (`result-files.ts`, `result-watcher.ts`, `notify.ts`, ownership, dedupe, replay, batch) | pending and public result files, index entries, replays, the delivery mark inside the payload | publish, look up, watch, announce, mark, retire | runner to session; the file lease of the run |
| Runner bootstrap (`subagent-runner-bootstrap.ts`, `async-execution.ts`) | startup files, session lease, slot | ready/ack/confirm/proceed | launcher and runner |
| Workflow resume claims (`workflows/workflow-resume-claim.ts`) | generation files `resumed-by.<n>.json`, files moved aside, claims held in memory | claim, give back, cancel and replan | sessions; the status file of the continuation |
| Scheduled runs (`scheduled-runs.ts`) | schedule store under a file lease | add, fire, cancel | sessions |
| Spawn budget, model fallback, parallel helpers, dynamic fan-out | memory of one process | | inside one JavaScript thread |
| Waits and notifications, steering recovery, nested events, supervisor channel, external jobs, missions, watchdog, run indexes, worktrees, commands, agents, user interface | see `PROJECT.json` | | |

What makes it hard:

* two processes reclaim the same dead owner's lock, and the slower one acts on
  what it read before;
* a process dies between `mkdir` and its owner record, between claiming slots
  and starting children, or between publishing a result and its status;
* a writer outlives the runner that holds its lease;
* a request is written while the receiver closes its inbox;
* a status that was read is used after the run has published another outcome;
* a payload is delivered while a newer one is published, promoted or sealed;
* the verdict on a capacity slot, or the listing of claims, is older than the
  change that is made because of it;
* one write of several fails, or is delayed by a full disk.

The complete list, with the line where each bites and the properties that cover
it, is `hazards` in `PROJECT.json`. A hazard no property covers says why.

What each part must guarantee: the leases admit one holder, never evict a live
one, and do give way once the holder is dead; the budget never starts more
children than the limit and counts every child it starts; a request that was
accepted is acted upon or its caller told otherwise; an outcome is published
once and not written over; a capacity slot is held as long as its run may be at
work and is freed once it is over; the newest result stays until it has been
announced, is not announced twice, and is settled in the end; a stopped workflow
has one continuation.

## 2. Modules

| Module | Models | Instances |
|---|---|---|
| `ExclusiveLease` | what a directory lease promises: abstract specification | |
| `FileLease` | `tryLease`, `withFileLease` | `MC_FileLease` |
| `SessionLease` | acquire, updateWriter, release, writers | `MC_SessionLease` |
| `LaunchBudget` | what the launch budget of a run tree promises: abstract specification | |
| `FanoutBudget` | admission lock, slot claims, commit and rollback | `MC_FanoutBudget` |
| `RunOutcome` | what a run promises those who stop or resume it: abstract specification | |
| `RunControl` | inbox, runner handlers and teardown, stop action, seal | `MC_RunControl` |
| `ContinueOnce` | what a claim on a stopped workflow promises: abstract specification | |
| `ResumeClaim` | `claimWorkflowResume`, `releaseWorkflowResumeClaim` and their callers | `MC_ResumeClaim` |
| `CapacityPool` | what the active-run capacity promises: abstract specification | |
| `AsyncCapacity` | slots, claims, launches, resumes, rollbacks, reconciliation | `MC_AsyncCapacity` |
| `ResultDelivery` | publication, lookup, watcher, notifier, retirement, seal | `MC_ResultDelivery` |
| `FileLease_proof`, `SessionLease_proof`, `FanoutBudget_proof`, `RunControl_proof`, `ResumeClaim_proof`, `AsyncCapacity_proof`, `ResultDelivery_proof` | theorems about the module of that name | |

`FileLease` and `SessionLease` implement `ExclusiveLease`, `FanoutBudget`
implements `LaunchBudget`, `RunControl` implements `RunOutcome`, `ResumeClaim`
implements `ContinueOnce`, and `AsyncCapacity` implements `CapacityPool`; in each
the abstract specification is a property of a run, by an `INSTANCE ... WITH` at the
end of the module. Modules meet where the code does: `ResultDelivery` and
`AsyncCapacity` use a file lease and a claim file as one atomic step each, which
is what `FileLease` is shown to allow for the first and `open(wx)` gives for the
second; the exit proof and the paused status that `RunControl` produces are the
inputs of `AsyncCapacity` and of the seal in `ResultDelivery`.

Definitions that are marked "Mutant" in the modules are plausible mistakes; each
stands beside the operation it changes and is used by no specification. They
document which mistake each property would expose.

### FileLease

A process is one OS process. `pc[p]` is the next file-system call of its
`withFileLease` call, and each call is one action, because other processes run
between any two of them: `Mkdir`, `WriteOwner`, `ReleaseRead`, `RemoveOwner` and
`RemoveDir` (the two halves of the recursive `rm`), `ReadOwner`, `CheckOwner`
(the liveness probe), `Retire` (the rename to the destination named after the
token that was read) and `VerifyRetired`. `Die` may follow any of them, and the
failure of the record's write is a disjunct of `WriteOwner`. A token is
`<<process, n>>`, which stands for the random token and the pid in the record.
`Opaque` is the set of pairs for which `deadOwner` cannot see that the owner is
dead (another host, a reused pid without a start identity). It errs only on that
side.

### SessionLease

As above, with a directory that is prepared aside and renamed into place
(`Claim`), tombstones (`Retire`), the writer record (`CheckWriter`,
`UpdateWriter`) and a writer process per runner (`Spawn`, `WriterExits`) that can
outlive its runner. `DemonstrablyStale` is the rule of the code: the runner is
gone and no writer was recorded, or the recorded one is gone; "spawning" is never
stale. A runner acquires once (`subagent-runner-bootstrap.ts`), so the process
names the token. The order in which a writer is announced and started is that
of `test/support/session-lease-child.mjs`, the only caller of `updateWriter`;
production runners write the session themselves and use acquire and release.

### FanoutBudget

`Mkdir` to `Retry` is the admission lock, `Count` to `Undo` the batch, `Leave` to
`RemoveDir` the release. `ClaimSlot` keeps the behaviour of the slot loop when
all slots are taken: it ends without a slot and without an error. `Count`,
`ClaimSlot` and `Commit` may each throw; `Undo` returns the slots one at a time and
passes over one that cannot be removed, which stays taken for good (`stuck`).
Every error of the file system that ends a call is an alternative of its step.
To `LaunchBudget` the slots of admitted batches, those a process died with and those
that could not be removed are given away (`Spent`), so what a batch takes and gives
back does not show: a batch is admitted in one step, with one free place for each
child, and no place is given twice. A death or a failed removal may lose places,
which is why the model does not promise that the budget is used up. `evicted` is a
history variable (section 3).

### RunControl

The runner is one JavaScript thread. `rpc` says where it is: `"live"` between two
polls, then the four parts of one inbox check in the order of
`watchAsyncControlInbox` (stop, timeout, interrupt, steer), and, from `EndWork`
on, the teardown in the order of `runSubagent`: close the stop inbox, drain it,
settle the final state, close the steering inbox, drain it, publish the result,
write the status, exit. It is split at the file-system calls that another process
can see. `st` is `statusPayload.state`; `status` and `result` are what is on
disk. The steps of the run are abstracted to what their results amount to
(`work`); a dynamic group that fails the run by itself is `FailGroup`.

Every handler ends in `writeStatusPayload`, which publishes an interim result with
the state shown, if that is not running, and then the status. The handler leaves
these two writes in `owes`; `ShowResult` and `ShowStatus` do them before anything
else of the runner runs, while other processes see the disk between them, and
`Defer` is the write that finds no room, is left to the timer or throws. So an
interrupted run shows a paused result, and an exhausted one a failed result, while
its inbox is open. `Publish` may publish and then throw, or throw before it, and
the failed result is published over what is there; `final` notes that the result on
disk is the last word. What a drain cannot read is left (`DrainStops`,
`DrainSteers`).

A stop call (`spc`) follows `stopAsyncRun`: `Look` (reconcile, then read the
status), `CheckPaused`, `Request`/`Write`/`Recheck` (`requestAsyncStop` with its
check before and after the write), `Seal` and `SealStatus` (the two writes of
`sealPausedRun`). `Repair` has the three rules of the reconciler: from the result,
for a dead runner, and for a run that has shown nothing for 24 hours although its
process looks alive. A steering call has the same three steps. `ObserveExit` is
`finalizeProcessTerminal` as far as `Seal` depends on it. To `RunOutcome` the run
has an inbox that is open or not, a set of accepted stops, a result that is the last
word or not, and a proved exit: a stop is accepted while the inbox is open, interim
results may be shown at any time before the last word, a last word that can be
resumed is said only with the inbox closed and no stop accepted, and it changes only
when a paused run whose exit is proved is sealed.

Three simplifications: `Repair` reads, probes and writes in one step; a deferred
interim status is not written while a publication is awaited; the removal of a
delivered result file is in `ResultDelivery`, not here. The run is taken to have a
session id, without which no result is written.

### ResumeClaim

A process is a process id, which a new process may use again (`Die`, `Restart`).
`claims[g]` is the file of generation `g`, created whole (`Create`); `released` are
the generations that were moved aside (`MoveAside`). `List`, `Read`,
`CheckStarted`, `Probe` and `Create` are the file-system calls of
`claimWorkflowResume`, one action each, with what was read last in `gen` and
`seen`; `Lost` is the failed exclusive create and the next round. `held[p]` is the
set of claims this process remembers, so that a claim with its own id left by an
earlier process counts as dead. An attempt is manual or automatic, which claims
twice (`prepareWorkflowResume`, then the executor), or a plain relaunch
(`reuseFrom`), which claims once. `GiveBack`, `Cancel` and `Replan` are the ways
in which a claim that was won is not used; `Start` writes the status file that
makes it permanent. `raced` is a history variable (section 3).

### AsyncCapacity

`slot[s]` is `slot-<s>/owner.json`: absent, without a record, or an owner (token,
run, generation, and whether the runner was recorded). `claim[s]` is
`capacity.claim`; there is no stale recovery for it, so `Crash` leaves it `Stale`.
So does a claim file that was created but whose token cannot be written
(`ClaimFails`, `MarkWorkflowFails`). A process of the session goes through `Scan` (one slot of the reconciliation:
owner and status are read and judged), `ClaimRelease`, `Release` (the owner is read
again under the claim), `Create` (mkdir), `Own` (the record), or for a resume
`Seek`, `ClaimTransfer`, `Transfer`. Then the launch: `Spawn`, `ClaimBind`, `Bind`
(memory first, then the file), `Proceed`; and its failures: `RecordFailure`, then
`Restore` (`rollbackBeforeRunnerProceed`) and `Rollback`. The record of the failure
may not be written (`RecordFailureFails`), and an owner or directory that cannot be
changed ends the call (`LeaveFails`). A workflow runs in its host and records itself
(`StartWorkflow`); a record that cannot be written is only logged, so that a workflow
may be at work in a slot that does not say so. `Work` to `Prove` are what a run does by
itself; a runner that cannot load its execution reports that it did not start
(`StartupFailure`) and exits later (`Exit`). The removal of the claim file at the end
of `withSlotClaim` is taken to succeed. Every one of the three looks of a verdict (owner, status, proof) happens
in one step, because the code reads them without yielding and another process that
changes them in between only adds evidence.

Things that the code does and no property forbids: a failure of the first
status after `markWorkflowStarted` leaves a slot that rollback refuses
(`subagent-executor.ts:6080`), and a process that dies inside `capacity.claim`, or
before its runner is recorded, or that cannot write its claim token, leaves a slot
that nobody frees. They err on the
closed side: capacity is lost, never exceeded. Two resumes of one paused run can
both be launched, one with the slot of the paused run and one with a new slot.

### ResultDelivery

`pending` and `public` are the two paths of the result; a payload is known by its
number, `outcome[n]` is what it reports. The runner publishes under the run's lease
(`RunnerLock`, `PublishInterim`, `PublishFinal`, `PromoteFinal`). An index write that
fails publishes the payload without its index, and for the last result it throws
(`PublishThrows`) and the failed status is published over it (`PublishFailure`).
Anybody's look-up may move pending to public without the lease (`Lookup`), or be
denied; an `fs.watch` event writes the index again (`Reindex`). The watcher's
`handleResult` is `Find` or `FindStray`, `ReadBeside`, `ReadPayload`, `PromoteAgain`
(the second pair of reads), `Record` (the replay for `bg_wait`), `Decide` (seen in this
process, or marked on disk), `Deliver`/`Defer`/`Send` (the notifier and its batcher),
`Verify` and `Lock`, then `CheckPending`/`CheckPublic` and `MarkWrite`/`MarkPromote`,
and once more the checks and `DropPending`/`DropPublic`/`DropIndex`.

`Find` is a scan, which knows what is pending or indexed, or a scheduled retry
(`hpc = "retry"`), which knows the run; `FindStray` is a payload without an index that
a tracked job of the session or an event leads to, which may never happen. A removal
that is denied does not keep `retireResultSnapshot` from the next one nor from the
index, and the payload is retried without it; `MarkFails` is a mark that cannot be
written, with the payload in place or without. `Seal` is `sealPausedRun`, which
writes without the lease at any moment; `Repair` is `writeFailedRepair`.
`Transition` is a reload that cuts the wait for the notifier, `Crash` the death of
the session's process. A stopped result inherits the delivery mark of the paused
one (`async-stop-action.ts:98`) and is then not announced; `NewestKept` counts it
as delivered. A notice that already waits in the batcher may be sent after that of a
newer payload: `AnnouncedOnce` speaks of what the notifier is handed.

## 3. What the properties except

Events that the code allows, and after which a promise is known not to hold, are in
the models and happen in the runs. A history variable notes them. The properties and
the theorems hold up to the first such event, and name it:

* `evicted` (`FanoutBudget`): a reclaimer has renamed a lock that was replaced since
  it judged it stale. `LimitKept` and `SlotsKept` say that this is the only thing that
  takes a run over its limit; `FanoutBudgetRace` shows that it does.
* `faults` (`RunControl`), each of a kind in `Faults` and at most `MaxFaults` in a run.
  `"close"`: the marker of the stop inbox is not written, which is only logged;
  `"drain"`: the last read of that inbox leaves a file, and has no error handler.
  They excuse `PersistedStopRead` and `StoppedNotResumable`. `"steerClose"` and
  `"steerDrain"` are the same for steering, where a full disk defers the marker; they
  excuse `AcceptedSteerSettled`. `"group"`: a dynamic group fails in a run that was
  interrupted, which puts the displayed state back from paused to failed after a stop
  may have been accepted; it excuses `StoppedNotResumable`. `"lateProof"`: the exit
  proof appears in the middle of a stop call, which it cannot in the launching
  session, where both are of one thread; the seal can then replace a published
  failure, and `OutcomeFinal` excepts it. `"disowned"`: the reconciler gives up a run
  after 24 hours whose process looks alive; it excuses nothing. A publication that
  throws, a write that is deferred and an interim result are no faults: they happen in
  every run, and excuse nothing. The refinement excepts `"close"`, `"drain"`,
  `"group"` and `"lateProof"`.
* `raced` (`ResumeClaim`): a generation was given back between a taker's listing and
  its link, or a claimant wrote its status and died between a taker's look for the
  status and its probe. After the first a workflow can be continued twice: a taker
  lists generation n, another supersedes n with n + 1 and gives it back, a third
  attempt goes on to n + 2, and the first taker, whose link to n + 1 now succeeds, has
  a claim below a live one. After the second the claim that the comments call
  permanent is superseded.
* `astray` (`ResultDelivery`): a stop wrote while the watcher held the lease, after its
  check (`ResultDeliverySeal` shows what happens then); or an older payload was left
  alone on the public path, by a removal that was denied or by a death between the two
  removals. It is then found without an index, announced again and replayed over the
  newer one.
* `mishaps` (`AsyncCapacity`, `ResultDelivery`): a bound on deaths and on failures of the
  storage, not an exception. `EventuallyFreed` excepts slots with a claim file nobody
  will remove. `EventuallySettled` excepts `Unfindable`: after a mishap a payload may be
  where no scan looks, until an event or a tracked job leads to it.

Two assumptions are made in the model:

* `LateExit` (both leases), a constant: may an owner release, or rewrite its record, and
  exit between a contender's read of the record and its liveness probe? Processes that
  use these leases normally live far longer than the two system calls in between.
  With it a contender can rename a live replacement of the file lease, and move
  the session lease of a live successor to a tombstone, so that exclusion and the
  refinements do not hold. `FenceStays` and `AckIsFinal` hold with it, and are
  proved without an assumption; `SessionLeaseLive` checks liveness with it.
* A lock without a record is stale when it is 60 s old. The model takes that to
  mean that no process is still in the middle of making or removing it.

## 4. Runs

| Run | Instance | Distinct states | Shows |
|---|---|---|---|
| `FileLease` | 3 processes, 1 lease each, one opaque pair | 8,704 | exclusion, fences, refinement of `ExclusiveLease`; calls return, a dead owner is reclaimed |
| `SessionLease` | 3 runners, 2 attempts | 91,622 (symmetric) | exclusive writers, durable record, final acknowledgement, successors stay, refinement |
| `SessionLeaseLive` | 2 runners, 4 attempts, late exits | 8,969 | a stale record goes |
| `FanoutBudget` | 3 processes, limit 3, batches of 1 or 2 | 518,137 (symmetric) | limit, slots of admitted children, all or nothing, refinement of `LaunchBudget` |
| `FanoutBudgetRace` | 3 processes, limit 2 | violation | more children than the limit |
| `RunControl` | 1 stopper, 1 steerer, one request each, at most one fault of 6 kinds | 7,209,414 | accepted stops are read and prevail, accepted steers are settled, refinement of `RunOutcome` |
| `RunControlLive` | 1 stopper, one request while the runner lives, at most one fault of 5 kinds | 544,437 | the last word is final, a stop ends the run, a paused run can be stopped |
| `ResumeClaim` | 2 process ids, automatic attempts and relaunches, 3 attempts, 4 generations, 2 rounds | 128,546 | one continuation, claims are final, refinement of `ContinueOnce`; a dead claim is superseded |
| `AsyncCapacity` | 2 processes, limit 1, 2 runs of both kinds, 1 mishap | 592,447 | a run at work has its slot, no slot is freed early, refinement of `CapacityPool`; a releasable slot is freed |
| `AsyncCapacityRollback` | the same with limit 2 | violation | a failed revival loses the slot of the paused run |
| `ResultDelivery` | interim paused, final paused or complete, 2 payloads, 1 mishap | 298,368 | the newest result is kept, none is announced twice; the last one is settled |
| `ResultDeliverySeal` | the same | violation | the mark is written over the stopped result |

Bounds, and why they are enough. Every race of a lease or of the admission lock
has three roles: the dead owner, the process that reclaims first, and the one
that reclaims late or takes the lock next. Three processes fill them. The opaque
pair is one process that cannot see the death of one other. The code of the
session lease makes four attempts. Three runners cannot use up
four, so `SessionLease` allows two, which makes the last failure happen;
`SessionLeaseLive` allows four. Limit 3 with batches of 1 or 2 has batches that fit exactly,
do not fit, and fit only after a rollback. One stop meets every part of the
teardown and of the seal, interrupts, timeouts, signals, a crash and each fault;
stops of several callers touch different request files, and the proofs have any
number of them. Two faults in one run excuse what either of them excuses.
`MaxCalls` counts only requests that the runner may still read: once it is gone a
caller may go on asking, which the liveness of the seal needs.

In `ResumeClaim` three attempts are a claimant that dies or gives back, one that
takes over, and one that is late; two process ids let one of them be used again
while it is looked at. Four generations are enough for the three attempts and one
that is claimed twice, and two rounds make the last round happen (the code has a
larger number). In `AsyncCapacity` one slot and two runs are a run and its
successor on the same slot, by transfer or after a release, while the other
process reconciles. In `ResultDelivery` two payloads are a paused result and the one
that follows it, by the runner or by a stop, at every step of the delivery of the
first; the safety properties were also checked with two mishaps (983,399 states).

Symmetry is used for processes that are interchangeable, only in runs without
liveness. Deadlock is not checked, because each of these protocols ends: calls
return, processes exit, budgets of calls are used up.

Fairness. In the leases, weak fairness of a live process's next file-system call
(they are synchronous calls of a running process); strong fairness of the
deadline, which is computed once per `withFileLease` call and so passes although
every retry leaves the waiting state. Nothing is assumed of `Die`, `Call` or
`Retry`. In `RunControl`, strong fairness of the poll (an interval timer
plus a watcher) and of the teardown, which the writes they owe interrupt again and
again; strong fairness of a poll that can read what is in the inbox, so a file is not
unreadable for ever; weak fairness of the writes that are owed and of a stop call;
strong fairness of leaving the main loop once a flag is set or the run has failed,
since that aborts the children and the loop looks at the flags before every step, in
turns between two polls. Nothing is assumed of crashes, of the children's ending by
themselves, or of the exit proof. In `ResumeClaim`, weak fairness of the steps of
`claimWorkflowResume`, which is synchronous. In `AsyncCapacity`, weak fairness only of a
process that is in the middle of a call. A refresh is an answer to an event of the
session (`extension/index.ts:957-976` and `1069`), so nothing is assumed of when one
begins, and `EventuallyFreed` is conditional: it holds as long as refreshes keep being
asked for. In `ResultDelivery`, weak fairness of the watcher (it retries on timers and
scans) and of the reclaim of a dead lease, weak fairness of a runner's publication, and
strong fairness of a replay and of a notice that are tried again and again. A
promotion that is denied may be denied for ever, and nothing is assumed of
`FindStray` or `Reindex`.

## 5. Findings

Three runs are expected to end in a violation. Each checks one property that a
comment, a document or a test states, against what the code does; `findings` in
`PROJECT.json` quotes both.

* `FanoutBudgetRace`: the stale admission lock is renamed to a fresh name, so a
  slower reclaimer moves a live lock away, two batches count the same room, and
  more children are started than `maxSubagentSpawnsPerRun`.
* `AsyncCapacityRollback`: the failure of a revival is recorded before its slot is
  given back to the paused run; a reconciliation in between frees the slot, and the
  paused run no longer holds capacity, as `docs/configuration.md:527` says it does.
* `ResultDeliverySeal`: `sealPausedRun` writes the stopped result without the run's
  lease, against `CHANGELOG.md:370`; a watcher in another process that is marking
  the paused payload under the lease writes it over the stopped one, which is then
  never announced.

## 6. Proofs

TLAPS checks every theorem for all values of the constants: any number of
processes, runners and callers, any limit, any bound. The assumptions used are
the modules' own (`LeaseConstants`, `SessionConstants`, `BudgetConstants`,
`ControlConstants`, `ResumeConstants`, `CapacityConstants`, `DeliveryConstants`) and,
for some theorems about the two leases, `~LateExit` (section 3). The other theorems
assume nothing; the last column names the events of section 3 up to which they hold.

| Module | Theorem | States | Assumes; until |
|---|---|---|---|
| `FileLease_proof` | `TypeCorrect` | `TypeOK` | |
| | `LeaseExcludes` | `MutualExclusion` | `~LateExit` |
| | `LiveLeaseNotEvicted` | `LiveLeaseInPlace` | `~LateExit` |
| | `FencedForGood` | `FenceStays` | |
| | `FileLeaseImplementsLease` | refinement of `ExclusiveLease` | `~LateExit` |
| `SessionLease_proof` | `TypeCorrect` | `TypeOK` | |
| | `SessionExcludes` | `ExclusiveSession` | `~LateExit` |
| | `RecordIsDurable` | `OwnerRecorded` | `~LateExit` |
| | `AcksAreFinal` | `AckIsFinal` | |
| | `SuccessorStays` | `SuccessorNotMoved` | `~LateExit` |
| | `SessionLeaseImplementsLease` | refinement of `ExclusiveLease` | `~LateExit` |
| `FanoutBudget_proof` | `TypeCorrect` | `TypeOK` | |
| | `AllOrNothing` | `RefusedHoldsNothing` | |
| | `RoomRemains` | `CountedRoomRemains` | until `evicted` |
| | `SlotsAccountForChildren` | `SlotsKept` | until `evicted` |
| | `LimitHolds` | `LimitKept` | until `evicted` |
| | `SlotsImplementBudget` | refinement of `LaunchBudget` | until `evicted` |
| `RunControl_proof` | `TypeCorrect` | `TypeOK` | |
| | `StopsAreRead` | `PersistedStopRead` | until a fault `close`, `drain` |
| | `StopsPrevail` | `StoppedNotResumable` | until `close`, `drain`, `group` |
| | `SteersAreSettled` | `AcceptedSteerSettled` | until `steerClose`, `steerDrain` |
| | `OutcomesAreFinal` | `OutcomeFinal` | until `lateProof` |
| | `FilesImplementOutcome` | refinement of `RunOutcome` | until `close`, `drain`, `group`, `lateProof` |
| `ResumeClaim_proof` | `TypeCorrect` | `TypeOK` | |
| | `ContinuedOnce` | `SingleContinuation` | until `raced` |
| | `ClaimIsFinal` | `ClaimPermanent` | until `raced` |
| | `ClaimsImplementOnce` | refinement of `ContinueOnce` | until `raced` |
| `AsyncCapacity_proof` | `TypeCorrect` | `TypeOK` | |
| | `ActiveKeepsSlot` | `ActiveHoldsSlot` | |
| | `ReleaseNeedsTheEnd` | `ReleasedRunIsOver` | |
| | `SlotsImplementPool` | refinement of `CapacityPool` | |
| `ResultDelivery_proof` | `TypeCorrect` | `TypeOK` | |
| | `NewestStays` | `NewestKeptOrAstray` | until `astray` |
| | `NoSecondNotice` | `AnnouncedOnce` | until `astray` |

`LiveLeaseInPlace` and `CountedRoomRemains` are stated in the modules and proved,
but are in no run: the refinements that the runs check, of `ExclusiveLease` and of
`LaunchBudget`, are violated by the mistakes that would break them.

None of the safety properties is inductive as it stands. The strengthenings,
each of which TLC also finds to hold on the instances of section 4. Where there is a
history variable the proof has one form throughout: a step that does not set it keeps
the strengthening, it is never reset, and so the strengthening holds until it is set.

* `FileLease`, `IInv`: one process at a time is past `mkdir`, and what is at the
  path is its own (`OneWorker`, `WorkerOwnsLock`); a fence holds only the record
  it is named after, whose owner is dead, and that record is nowhere else
  (`Fenced`); and whatever a reclaimer has read is either still in place or
  already fenced once its owner is dead (`SeenAccounted`). The last is what
  `LateExit` would break, and why a late rename fails: its destination is occupied
  exactly when its source is not what was read.
* `SessionLease`, `IInv`: the record of a runner that holds the session, or whose
  writer lives, is in place (`Held`) and says of its writer what a reclaimer must
  know (`WriterRecorded`); a tombstone holds only the record it is named after
  (`Buried`); what a contender has read and judged stale is in place as it was
  read, or its tombstone exists (`SeenAccounted`); an acknowledged runner is gone
  (`Acknowledged`). `WriterRecorded` is the step from "the owner is dead" to
  "nobody writes": a writer is started only after "spawning" is on disk, and
  "spawning" is never stale.
* `FanoutBudget`: `RInv` for all-or-nothing says what a batch has before its
  claims and before its commit, and that a batch that was not begun has nothing;
  it needs no lock. `StuckIsLost` keeps a slot whose removal failed with the call that
  failed to remove it. `LInv` gives the lock one holder (`OneHolder`, `HolderOwns`).
  `CInv` joins them with the holder's arithmetic: slots taken plus slots to take
  are what it asked for, and the room for the rest remains (`Counted`). The limit
  follows because the children map one to one into the slots (`SlotsLimitChildren`).
* `RunControl`: `StopInv` says that the closed marker is on disk from the close
  on (`ClosedInTime`), that a request which passed its check after the write is in the
  inbox or handled (`Counted`, `Kept`, `Read`), that a handled stop is heeded by what
  is settled (`Heeded`), and that a last word that can be resumed is said only when no
  stop can be accepted any more (`Resumable`); it holds while the faults are `Clean`.
  `SteerInv` is the same argument for steering. `OutcomeInv` says who has had the last
  word (`Words`), ties the status on disk and the proof to it (`PausedAtExit`) and adds
  what a caller's earlier look still means when it seals (`Sealable`), which is what a
  late proof breaks (`InTime`).

* `ResumeClaim`, `IInv`: the generations that were ever used have no gap
  (`Contiguous`), and a continuation that started has the highest (`StartedOnTop`);
  a run id belongs to one process (`RunInv`); the generation above the one a taker
  has listed has not been given back (`Listed`); a claimant
  whose run has started is alive when it is probed (`ProbeLive`); these two are
  what `raced` breaks; so a taker that may still create the generation above the highest finds
  no owner and no continuation (`CreateOpen`), and an owner has the highest
  generation and no other (`OwnerTop`, `OneClaim`).
* `AsyncCapacity`, `IInv`: a run whose launch has reserved nothing has no trace
  anywhere (`FreshTraces`, `FreshOwners`), which makes the tokens unique; a run has
  one token for good, although its charge may be handed over and back any number of
  times (`RunToken`), and a token is in one slot (`TokenSlot`); the handle of a launch
  remembers its own run and what it would give back (`Handle`, `Starting`); what a
  reconciliation has read is over (`Releasing`); exit evidence of a run that was let
  go means that its process is gone or could not start (`Proved`, `Worked`, `Ended`). `Charge` is the core: a run
  that goes on, and was or may still be let go, has its slot, a runner with its
  id recorded. It holds because the slot is recorded before the runner is let go, and
  because a slot leaves a run only under a claim, by an owner that matches, and
  after the run is over or the launch has failed.
* `ResultDelivery`, `SInv`: what is pending is the newest payload, and an older one is
  public only beneath it or in the middle of its retirement (`PendingNewest`,
  `PublicBeneath`, which a payload left alone breaks); what the watcher saw beside its
  payload is not newer than it (`BesideOlder`), and a payload newer than the one in
  hand is on disk (`NewerOnDisk`), so a look at the pending path, then at the public
  one, cannot miss it although a lookup may move it in between; what the looks have
  shown holds for as long as the lease is held (`UnderLease`, which a stop that
  writes under the lease breaks); and what counts as delivered was announced (`Delivery`). `AInv` adds that
  a payload written with the mark carries it wherever it is read from again
  (`MarksCarried`), that nothing newer than the payload in hand was announced
  (`InOrder`), and that what waits in the batcher
  was not written with the mark (`QueuedUnmarked`). Both hold until `astray`.

The step lemmas have one step per action. The refinements map each step to an
abstract step or a stutter (`StepImplementsLease`, `StepImplementsBudget`,
`StepImplementsOutcome`, `StepImplementsOnce`, `StepImplementsPool`). That of the
pool also needs that the charged runs map one to one into the slots, so that the
limit of the pool is the number of slots. That of the budget is an argument about
what does not show: the slots that a batch takes and returns are its own and not
yet spent (`NotYet`, `MineIsBatch`), and at the commit they are as many as its
children (`Counted`), so that the commit alone is `Admit` and a death alone `Lose`.
That of the run joins `StopInv` and `OutcomeInv` (`RefInv`): the first shows that
`Publish` keeps its promise to accepted stops, the second that the last word is said
once, whatever was shown before, and that only a paused one is sealed.

Two properties need less than the lease they belong to. `FenceStays` follows from
`FenceInv` alone (a record behind its fence, or about to be moved there, belongs to
a process that is dead, and a fenced record is not in force), and `AckIsFinal` from
`Acknowledged`, the one part of the session lease's `IInv` that is inductive beside
the types (`AckStep`): neither asks when an owner exits.

Only model-checked: everything under fairness (`CallsReturn`, `DeadOwnerReclaimed`,
`DeadSessionFreed`, `StopEndsRun`, `PausedRunStoppable`, `DeadClaimSuperseded`,
`EventuallyFreed`, `EventuallySettled`), which TLAPS cannot treat.

## 7. Not modelled

Reasons are with each component in `PROJECT.json`. In short: parts without a
protocol of their own (rendering, parsing, prompts, settings), which are most of
the lines of the repository; adapters to external programs (git, tmux, other
agents); and the protocols listed in section 8. Of the modelled files, left out are:

* control: stops of one child of a run and of in-process workflows, fast-mode
  snapshots and commands of the control channel;
* runner: the execution of the steps, the handshake files that a launcher and its
  runner exchange (`AsyncCapacity` has their outcome: let go, failed, timed out);
* reconciler: the rules for nested runs and for missing status files;
* process-terminal proof: the overlay of `status.json` (`process-terminal.ts:221`);
* process-terminal in `RunControl`: a proof is observed or unknown, not its fields;
* budget: the validation of the manifest;
* capacity: nothing that changes a slot; a workflow's live controller is looked up in
  the process that reconciles, and is modelled so;
* results: mission observers, delivery by intercom, enrichment of nested results,
  ownership by session, the clean-up of old index entries, the notifier's expiry;
* waits: `bg_wait` itself, wake and reminder rules.

Scheduled runs, worktrees, the supervisor channel, missions, the watchdog, run
indexes, the extension's commands and its RPC, agents and the user interface have
no module.

## 8. What is left

In this order; each module would get its safety run first.

1. `ProcessTerminal`: candidate, proof and the read-modify-write overlay of
   `status.json`, composed with `RunControl`'s seal. Property: no overlay undoes a
   sealed status.
2. `RunnerStartup`: ready, ack, confirm, proceed between launcher and runner with
   the session lease and the slot. Property: after a failed start nobody writes
   the session and the slot is returned. It composes `SessionLease` and
   `AsyncCapacity` through their abstract specifications.
3. The fire claims of scheduled runs: one firing per due time.
4. Small modules: spawn budget, bounded parallel map, model fallback, as pure
   operators checked against a reference definition.
5. Theorems that go past the first event of section 3: `AnnouncedOnce` after a stop that
   wrote under the lease, from an invariant weaker than `SInv` (what counts as
   delivered is marked on disk, or is not what a later look returns).

# Verification of squadrail's control plane

squadrail runs teams of coding agents. Its server keeps issues, agents and runs in
PostgreSQL; every piece of agent work is a *heartbeat run*: a row that is queued by a wakeup,
claimed by a dispatcher, executed through an adapter process, and finished, cancelled, timed
out or lost. Several agents may be woken for one issue at any moment, the server may be
restarted at any moment, and yet an issue should have one worker at a time and no request for
work should get lost. This directory models that part of the server in TLA+, checks it with TLC and
proves its safety properties with TLAPS. On top of it stand models of the two other ways in which the
server coordinates agents, the workflow protocol of an issue, whose messages carry the work from
assignment over review to closing, and the dispatch of those messages, which turns each into wakeups; and
a model of what the server does when an agent is woken for a message and does not answer it.

All paths below are relative to `src/`, the repository; `services/` stands for
`server/src/services/`.

## 1. Inventory

| Component | State it keeps | Operations | Hard behaviour | Correct when |
|---|---|---|---|---|
| Wakeups and issue execution lock (`services/heartbeat-wakeup-control.ts`, `heartbeat-wake-utils.ts`) | `heartbeat_runs`, `agent_wakeup_requests`, `issues.execution_run_id` and `execution_agent_name_key` | `enqueueWakeup`, `releaseIssueExecutionAndPromote`, `cancelRunInternal`, `cancelIssueScope`, `cancelSupersededIssueFollowups`, `cancelActiveForAgent` | wakeups, promotions and releases interleave; a lock may be stale; a release may come twice | one run per issue created under the lock; parked work is served in order, refused or called off, never lost |
| Dispatch (`services/heartbeat-dispatch-lifecycle.ts`) | in memory: start lock per agent, watchdog timers, leases | claim, dispatch watchdog, reaper, `finalizeAgentStatus` | a pick goes stale before the claim; timers race claims; a dispatch throws | slots are respected, finished runs stay finished, every run ends |
| Execution (`services/heartbeat-run-execution.ts`) | in memory: the executors and their processes | `startNextQueuedRunForAgent`, `executeRun` | a long handler with awaits between reading and writing the run and the agent | the outcome agrees with what happened to the run meanwhile |
| Pause and resume (`services/agents.ts`, `server/src/routes/agents.ts`) | `agents.status` | `pause`, `resume`, `terminate` | a pause races wakeups past their check, and executors in their preflight | no new work for a paused agent, and it stays paused |
| Service wiring and timers (`services/heartbeat.ts`, `server/src/index.ts`) | intervals, watchdog timers | `tickTimers`, reaper sweep, idle recovery | a restart loses everything in memory | what was running is found and ended |
| Issue checkout (`services/issues.ts`) | `assignee_agent_id`, `status`, `checkout_run_id`, `execution_run_id` | `checkout`, stale adoption, `assertCheckoutOwner`, `release`, `update` | two owners of one issue; reads separated from writes by id | a live checkout holds the lock and is never stolen |
| Issue workflow protocol (`services/issue-protocol.ts` and policy) | `issue_protocol_state`, messages, review cycles, violations | `appendMessage`, validation, projections, recovery | legal sequences of messages that take a state and its review apart; a state written after it was read | one open review cycle; decisions fall on the latest submission; every wait has somebody who is reminded |
| Dispatch outbox and reconciliation (`services/protocol-dispatch-outbox.ts`, `protocol-dispatch-reconciliation.ts`) | `issue_protocol_dispatch_outbox` | enqueue, drain, mark | at-least-once delivery, two sweeps, wakeups that fail half-way | no message is dropped or wakes an agent twice; none starves |
| Protocol run recovery (`services/heartbeat-protocol-recovery.ts`, `heartbeat-protocol-watchdog.ts`, the end of `executeRun`) | counters in the context of a run | retry, progress follow-up, adapter retry, idle, degraded and superseded recovery | each works from a context read before; wakeups are parked and merged; a cancelled process goes on | budgets bound the runs; no lane is forgotten that was not given up; the server comes to rest |
| Protocol timeouts, auto-assist | timers over protocol states | reminders, escalations | a timeout races an answer | an escalation is for something still open |
| After-commit queue (`packages/db/src/context.ts`) | callbacks of a transaction | register, drain | nested transactions | callbacks run after the commit or never |
| Merge candidates, approvals, costs, knowledge, companies, access, routes, live events, adapters, CLI, UI | see `PROJECT.json` | mostly single-statement updates and reads | little concurrency of their own | - |

How they interact: routes and the protocol ask for work by `enqueueWakeup`; that writes a run or a
parked wakeup in one transaction, then calls the dispatcher of the agent in the same process;
the dispatcher starts executors without awaiting them; an executor drives an adapter, whose child
process calls back over HTTP (checkout, messages); when it is over the executor releases the
issue, which may create and dispatch the next run. Cancellation, pause, the watchdog and the
reaper stop runs through the same release. The database is the only thing that survives a restart. There
is one server process.

`PROJECT.json` lists every component with what is and is not modelled, every hazard with the line
where it bites and the properties that watch it, and for each definition the source
lines it stands for.

## 2. Modules

| Module | What it is |
|---|---|
| `IssueExecutionLock` | abstract specification: what the execution lock of an issue promises |
| `HeartbeatRuns` | the core: wakeups, lock, parking and promotion, dispatch, execution, stops, restart |
| `IssueCheckout` | extends `HeartbeatRuns` with the second owner of an issue, the checkout, and with stale writes of the issue row |
| `ReviewLifecycle` | abstract specification: what the workflow protocol promises about review and approval |
| `IssueProtocol` | the messages, rules, reviews and staff of one issue, the timeout worker, the recovery and the dependency block |
| `ProtocolDispatch` | the outbox, the routes that dispatch what they post, reroutes, and the reconciliation sweeps |
| `RunRecovery` | the automatic follow-ups of a run: retries, watchdog, auto-assist and the merging of their contexts |
| `MCHeartbeatRuns`, `MCIssueCheckout`, `MCIssueProtocol`, `MCProtocolDispatch`, `MCRunRecovery` | model values, symmetry and plans for TLC |
| `HeartbeatRunsProofs` | types, the execution lock, finished runs |
| `HeartbeatQueueProofs` | extends it: parked wakeups, and the refinement of `IssueExecutionLock` |
| `HeartbeatServerProofs` | extends that: slots, leaked locks, the status of agents |
| `IssueCheckoutProofs`, `IssueProtocolProofs`, `ProtocolDispatchProofs`, `RunRecoveryProofs` | the theorems of the other modules |

`IssueCheckout` is composed with `HeartbeatRuns` in one state. `IssueProtocol`, `ProtocolDispatch` and `RunRecovery`
stand beside it, each with the others as its environment: to the heartbeat a message is a wakeup
(anyone may be woken at any time) and, in `IssueCheckout`, a write of the issue row (`ProjectMessage`); to the protocol
a dispatch is the one write `BlockOnDependencies`; to the dispatch a message is its plan and its effect on the issue, and a run is
a record that begins and ends; to the recovery the workflow is a sequence of lanes, and the heartbeat the wakeups, lock and release
of one issue and one agent. Composed states would multiply without a property that needs all of them.

### HeartbeatRuns and the code

One step is one database transaction or one statement, together with the in-memory changes made
before the next `await`. The heartbeat runs in one Node process, so what is between two awaits is
atomic, and the transactions of the lock use `select ... for update` on the issue.

Persistent state: `runStatus`, `runAgent`, `runIssue` are the columns of `heartbeat_runs` (and
`onLockPath` a ghost: was the row inserted by the issue transaction or a promotion?), `lock` and `lockKey` the
two columns of `issues`, `deferred` the `deferred_issue_execution` requests of an issue in
order of `requested_at`, `agentStatus` the column of `agents`. Memory: `dispatch` and `picked` are a pending
or running `startNextQueuedRunForAgent` of an agent and the run it selected, `exec` the stage of `executeRun`,
`stopper` a cancellation, pause, reap or watchdog failure between reading the run and
releasing its issue, `watchdog` the attempts of an armed dispatch watchdog, `waking` the agents with
a wakeup that passed its check of the agent before the agent was paused. `misread` is a ghost: the agents whose last run
ended, although a finalization that had counted it was still to write that the agent is running.

| Action | Code |
|---|---|
| `WakeOnIssue` = `WakeStarts`, `WakeCoalesces`, `WakeDefers` | the issue transaction of `enqueueWakeup`: new run with the lock, merge into the holder, park behind it; stale locks are cleared and active runs adopted on the way |
| `WakeOutsideLock` | wakeups without an issue, and mentions that bypass the lock |
| `PickRun`, `ClaimRun`, `EndDispatch`, `DispatchFails` | `startNextQueuedRunForAgent` and `claimQueuedRun` (a conditional update), and the logged failure of either, which may leave runs it has claimed without executor and watchdog |
| `ExecBegins`, `ExecLaunchesAdapter`, `ExecThrows`, `ExecFollowsUp`, `ExecDecides`, `ExecPersists`, `ExecReleases` | `executeRun` from its status check, over preflight and adapter, to the read-back of the status, the update by id, and the release |
| `ExecFinalizes`, `ExecMarksAgent` | `finalizeAgentStatus` in two steps: the read of the agent and the count of its running runs, then the write by id; the dispatch that follows goes with the write |
| `ExecFailsToBegin`, `ExecIsSuperseded`, `ExecThrowsLate` | what throws before the try block, the preflight's superseded check, and what throws after the outcome was decided: the catch block persists, releases and finalizes again |
| `Cancel`, `Pause`, `Resume`, `Reap` | what begins a stop |
| `CancelParked` | a parked wakeup is cancelled by its id, by `cancelIssueScope` or `cancelSupersededIssueFollowups` |
| `Redispatches`, `GivesUp` (`WatchdogFires`) | `handleDispatchWatchdog`, for a run still queued, or claimed and without an executor |
| `StopPersists`, `StopReleases`, `StopFinalizes`, `StopMarksAgent` | the later steps of a stop; a pause ends with the release |
| `Crash` | the process dies; memory is lost, tables stay |

`ReleaseAndPromote` is `releaseIssueExecutionAndPromote`: parked wakeups of paused agents are refused
until one can be promoted; if none can the lock is cleared.

What is abstracted, and why that is sound for the properties:

- `timed_out` is folded into `failed` and the agent status `error` into `idle`; a terminated
  agent is one that is paused and never resumed.
- The order in which queued runs are claimed depends on issue priority; any queued run may be picked,
  a superset of what the code does. Preemption, protocol recovery and the merge of an issue reach runs only through
  `cancelRunInternal`, so they are `Cancel`.
- `cancelIssueScope` and `cancelSupersededIssueFollowups` (which the issue route calls after every posted message) select parked
  wakeups, cancel them by id without a second look, then select runs and cancel them one by one, with awaits in between. Which ones they
  select depends on contexts the model leaves out, so each wakeup and each run is a step of its own that may come at any time and take any of them:
  `CancelParked` and `Cancel`. A run the caller excepts (`excludeRunId`) is one that is not cancelled. The update of a wakeup that
  was promoted since its selection changes its audit row only: the run goes on.
- Lead-supervisor wakeups, timers, idle and degraded recovery are wakeups: the environment may wake anyone for
  anything at any time.
- One stopper per run. The cancellations of one pause run one after the other in the
  code; the model lets them run independently, which allows more.
- The read of the agent and the count in `finalizeAgentStatus` are one step, so a pause falls before or behind both. What the catch block of `executeRun`, or a stop, throws itself is not modelled; throws after the outcome, and
  before the try block, count as upsets.
- Leases are not clocks here: an executor and an armed watchdog keep a lease fresh, so the reaper
  (five minutes; at once after a restart) takes a run only if neither exists and no dispatch of its agent is under
  way. Likewise the watchdog's eight seconds are taken to outlast a dispatch, or the beginning of an executor, under way. The behaviours this
  excludes (an event loop stalled for that long, so that a second executor is started for a run) are listed as a hazard.
- A watchdog timer that finds its run finished, or driven by an executor, does nothing in the code and is not tracked.
- A run's context, wakeup audit rows, session state, logs, costs and prompts carry no control the
  properties see. The path of an agent deleted under its run is left out.

### IssueCheckout and the code

Adds `assignee`, `issueStatus` (`"todo"` stands for every status but `in_progress`),
`checkoutRun`, and `writes`: the updates of `release` and `update` that have read the row but not yet written it.
`ClaimIssue`, `BoardClaims` and `AdoptCheckout` are the conditional updates of `checkout` and
`adoptStaleCheckoutRun`; `ReadForRelease` (of a run's agent, or of the board, which nothing is asked of), `ReadForUpdate` (of the assignee, the
status or both at once) and `Write` the read-then-write pairs;
`ProjectMessage` what a protocol message does to the row. A run may claim any issue, not only the
one it was woken for, and speaks (`Speaks`) as long as its adapter process lives, even after it was
stopped. An adopted lock leaves `lockKey` as it was, as the code does. Assignment to human users
is like having no assignee.

### IssueExecutionLock and the refinement

The abstract lock knows an issue's holder, who waits for it, and which runs are new, live or
over. Its steps are: begin, wait, hand over to one that waited, free, call off (any part of those who wait), end. `HeartbeatRuns` implements it
(`ImplementsLock`) under `holder <- lock`, `waiting <-` the set of parked agents, `phase <-`
`RunPhase`: every step is one abstract step or a stutter.

### IssueProtocol and the code

One step is one `appendMessage` transaction (`services/issue-protocol.ts`), which holds the
protocol state row `for update` from its checks to its writes, so messages of an issue are applied one after the
other; a message that the checks refuse is no step. `workflow`, `owner`, `blockedPhase` and `currentCycle` are columns of
`issue_protocol_state`, `cycles` the rows of `issue_review_cycles`, `submission` and `questions` what the code looks
up in the message log (the latest `SUBMIT_FOR_REVIEW` and the cycle that reviewed it; `ASK_CLARIFICATION` rows not
acknowledged), `issueStatus` and `assignee` the issue row.

| Definition | Code |
|---|---|
| `Rules`, `MaySend`, `IsAssigned` | `MESSAGE_RULES` and `validateMessage` |
| `Post`, `PhaseBefore`, `StatusOf` | `applyProjection`: state row, blocked phase, issue row |
| `AssignTask`, `Reassign`, `SimpleMessage`, `Implement`, `SubmitForReview` | the staffing and implementation messages |
| `StartReview`, `Closes`, `RequestChanges`, `Approve` | the review messages with their cycle |
| `Ask`, `Answer`, `Resume`, `Acknowledges` | clarifications and the state an answer resumes |
| `TimeoutMessage`, `Watchers`, `Reachable` | `TIMEOUT_RULES`, `resolveRecipient` and what the worker posts |
| `Reopen` | `reopenForRecovery` |
| `FindDependencies`, `BlockOnDependencies` | the read of `dispatchMessage` and its later write of the issue |

What is abstracted: any agent speaks in any role that the rule and the staff allow (the code may refuse some of
them by the agent's configured role); payload, artifact and evidence contracts are taken as met; two questions alike in
every respect that matters are one; the log of violations (`RECORD_PROTOCOL_VIOLATION` and what `validateMessage` writes for a
refused message) is left out, as is a recovery of an issue without a state row. The route offers the recovery only for closed
issues, which is the guard of `Reopen`.

`ReviewLifecycle` knows how far the issue is, whether a review is open and whether a question is asked. `IssueProtocol`
implements it under `stage <- StageOf(workflow)`, `review <- ReviewOpen`, `asked <- questions # {}`. Answers are the one
move that may go anywhere: `resolveClarificationResumeWorkflowState` looks at nothing but the question and the blocked phase.

### ProtocolDispatch and the code

`row` is the status of a message's outbox row (with its reason, if "no_action"), `due` the rows whose `not_before` is past in
the order of `listDuePending`, `job` what each dispatcher (the poster of a message, or a sweep) is about,
`todo` the rest of a sweep's batch, `live` the wakeups and runs on record that name a message. One step is one statement or
transaction with the memory changes before the next await; between any two of a dispatcher's steps others act, and the server may crash.

| Action | Code |
|---|---|
| `Post` with `Enqueue` | `createAndDispatchProtocolMessage` and `appendAndDispatchSystemMessage`: the message with its outbox row |
| `Abandon` | something throws in the route between the message and its dispatch |
| `FallsDue`, `Load`, `Take` | `not_before` passes; `listDuePending`; one row of `reconcilePendingDispatches` with its evidence and its reasons for no action |
| `Reroute`, `SettleRerouted`, `KeepMessage` | `maybeApplyPreRetrievalSupervisorReroute`: the message posted instead, and the mark of the first; or there is nobody to reroute to, and the message is sent itself |
| `BlockOnDependencies`, `Wake`, `Skip` | `dispatchMessage`: the dependency block, one `heartbeat.wakeup` of the plan, an agent that is skipped, counted or not |
| `Throw` with `Fail`, `RetryNow`, `RetryLater` | the catch blocks of route, worker and sweep |
| `Mark`, `Settle`, `LogReconciled` | `markDispatched`, `markNoAction`, and the log entry in the same try block |
| `WorkEnds`, `Cancel`, `Reopen`, `DependenciesFinish`, `Crash` | the environment |

`timely`, chosen at first and never changed, says whether time is on the code's side: dispatches end before
their row falls due (the five seconds of grace) and sweeps run one after the other. Nothing in the code ensures either, so
both cases are explored; what holds only in time says so. When it is `FALSE`, duplicate wakeups do occur, although
`docs/design-docs/protocol-dispatch-reliability-design-2026-03-22.md` wants repeated reconciliation to make no duplicate
execution. The rows of system messages are never marked by who posted them: a sweep finds the evidence of the wakeup while that is on
record, and repeats the dispatch when it has ended, which is why `OnceWithoutFaults` leaves them out.

`dispatchMessage` counts a wakeup as queued even if `enqueueWakeup` returned null (wake on demand is off, the issue is gone) or auto-assist
answered in the agent's place: the row is then settled as dispatched with that agent not woken. `MaySkip` names the agents this may happen to, `skipped`
remembers for whom it did, and `NothingIsDropped` and `OnceWithoutFaults` except exactly those: the code promises them nothing.

A row whose message was rerouted but not marked is rerouted again as long as the issue is just assigned, with another message (`Reroutes` is a
set). Whether the issue is just assigned is not part of the state: `Throw` of a dispatcher that is deciding is the refusal.

What is abstracted: the plan of a message is a constant, names an agent once and does not change between retries; a message's effect on the issue is one of four; dependencies finish
once; the wakeup and run of a dispatch are one record; the reads of `Take` are merged. The messages that auto-assist posts within a dispatch are system messages
that may be posted at any time. Rows older than the outbox (legacy candidates), the transfer of an active run to the new assignee and retrieval hints are left out.

### RunRecovery and the code

The context of a run carries the message it was woken for and three counters of follow-ups (`protocolRequiredRetryCount`,
`protocolProgressFollowupCount`, `adapterRetryCount`, with `protocolDegradedRecoveryCount` for a recovery of its own). In the model a
context is a record with the *lane* the message asks for and these counters; `row` is the context stored with a run, `mem` the copy its executor
read, `parked` that of the deferred wakeup, `said` what the agent has said in the run's lane since it began, `keeper` a recovery or cancellation
between its read and its end, `chosen` whether a route has selected the parked wakeup and is about to cancel it. `stage` is the lane the workflow is in: the lanes are the requirements of
`resolveProtocolRunRequirement` (an assignment, a routing by a supervisor, an implementation, a review or QA gate, a closing; the
answer to a change request differs from an assignment only in always forcing a run of its own).

| Action | Code |
|---|---|
| `Deliver`, `Remind` | the wakeup of a message, with `forceFollowupRun` for the kinds that have it; a reminder, whose context asks for nothing |
| `Enqueue` = `Create`, `Park`, `Coalesce`; `Merge` | `enqueueWakeup` for a free issue, behind its holder, into its holder; `mergeCoalescedContextSnapshot` |
| `Begin`, `Enter`, `Superseded` | `executeRun` reads the context, writes it back at the end of the preflight, or finds that the workflow has left the lane |
| `AdapterReturns`, `Send` | the decisions at the end of `executeRun` (required progress, progress follow-up, adapter retry), and the wakeup decided on |
| `Persist`, `EndRun`, `Release` | the outcome, and `releaseIssueExecutionAndPromote` |
| `Look`, `Wake`, `Assist` | `recoverIdleProtocolRunIfNeeded` and `recoverDegradedProtocolRunIfNeeded`: what they read, the wakeup, the server's answer in the agent's place |
| `CancelSuperseded`, `CancelRun`, `FinishCancel` | the check of the lease heartbeat, and `cancelRunInternal` |
| `ChooseParked`, `CancelParked`, `CancelFollowup` | `cancelSupersededIssueFollowups`: the parked wakeup is selected, cancelled by its id, and so is a run |
| `Speak` | the agent, from the process of any run not yet at its end, a cancelled one included |

`cancelSupersededIssueFollowups` is called after every message that anybody posts on the issue, so its steps may come at any time. It selects the
parked wakeup if that is of a lane the workflow has left; an adapter's retry is not selected, its reason is not among
`SUPERSEDED_PROTOCOL_WAKE_REASONS`. The update that follows is by id and asks for nothing, so a message merged into that row since goes with it.
A promotion takes the row out of its reach. The cancellation of the actor's own run that the route adds (`routes/issues.ts:2581-2614`) is one
of the selections of `CancelFollowup`.

`excused` remembers that the code has given the stage up, or lost it. Given up (`GivesUp`): a run came back with the lane's retries spent, or with
the follow-ups on a partial answer spent, or its adapter failed, with the budget of adapter retries spent or in a way that the code does not retry, *whatever is
left of the other budgets*: `executeRun` asks for a required retry only after a success. Lost: an
unforced wakeup was merged into a run that had read its context before (which the write at the end of the preflight undoes or nobody reads), a route
cancelled the parked wakeup or the run it had selected before the current lane's message was merged into it, or a
wakeup of another lane was merged over it. The last is not only a reminder: `executeRun` decides on an adapter retry without a look at the workflow, so
the retry of a lane that is left can be merged over the parked wakeup of the next, which is then skipped as superseded. Writing the
model showed more of the kind, which break no property here: a process that was killed returns no exit code, which counts as success, so a cancelled run may be
retried twice; the check of `releaseIssueExecutionAndPromote` for superseded reasons never meets a parked wakeup with such a reason; a degraded recovery also counts as a
required retry and so takes from that budget, and its own is not checked against it (hence `LongRetryLimit + DegradedLimit` in `Context`).

What is abstracted: one agent and one issue; thresholds and delays are time passing; timer and sweep are one keeper, so no two recoveries are under
way at once; the claim of a run and its first read are one step; an assist succeeds or does nothing; the rows of runs that are over are used again.

## 3. Runs

All heartbeat runs use one issue, since issues meet only in a process that claims two, and two agents except where stated. Two agents and one issue
give all pairs: holder and waiter, same agent and other agent. Bounds: `MaxRuns` rows, `MaxUpsets` cancellations of runs, pauses, failed
dispatches and late throws (cancellations of parked wakeups are not bounded), `MaxCrashes` restarts, `MaxEdits` releases, updates and messages, `OutsideScopes` the scopes
woken for outside the lock; in `lock`, the state constraint `OutsideWithinTwo` stops at two runs once one was created there, and `ThreeAtWork` at three executors and stops under way. `HasCapacity` keeps a row in hand for each parked wakeup, so the
bound on rows never disables a promotion. `DispatchRetryLimit` is 0 or 1 in the passing runs (2 in the code): a
retry only dispatches again, and one of them is already the loop. Agents are
symmetric in the safety runs; the liveness run uses no symmetry. `CHECK_DEADLOCK FALSE` everywhere:
when the bounds are used up the system rests.

| Run | Configuration | Shows |
|---|---|---|
| `lock` | `HeartbeatLock.cfg`: three runs (two once one of them is without an issue), one upset, a retry | exclusive lock (`OneLockPathRunPerIssue`, `LockLeavesFinishedRun`), parked wakeups (`ParkedBehindHolder`, `OnePlacePerAgent`, `ParkedIsServedOrRefused`, `ParkedInOrder`), `SlotLimit` with a watchdog that redispatches, `AgentStatusSettles`. Three runs are the least for a holder, a parked wakeup promoted behind it, and one more that races the promotion |
| `liveness` | `HeartbeatLiveness.cfg`: two runs, one upset, one restart, a retry | `EveryRunFinishes`; `ParkedIsServed` while there is no restart; over the restart `TypeOK`, `LockPathHolds`, `NoLeakedLock`, `FinishedStaysFinished`, `ImplementsLock`. Two runs are the least for one that ends and one behind it; for more these five are theorems |
| `checkout` | `CheckoutSafety.cfg`: two runs, in and outside the lock so both can be active, one edit | `CheckoutTypeOK`, `LiveCheckoutHoldsLock`, `CheckoutNeverStolen` |
| `protocol` | `IssueProtocol.cfg`: agents a1, the project's lead, and a2, who may also review and test, the board and the system; two review cycles, one open question, dependencies | `ProtocolTypeOK`, `OpenCycleIsCurrent`, `EveryWaitIsWatched`, `ReviewKeepsItsCycle`, `DecidesOnLatestSubmission`, `ImplementsReviewLifecycle`. Two agents give every relation between the staff (lead and engineer alike or not, reviewer and QA alike, roles empty); a second cycle is what a review taken out of order can meet; a question only matters by being open or not |
| `dispatch` | `ProtocolDispatch.cfg`: m1, to a paused supervisor, is rerouted to m2 or sent; m2's plan names an agent without adapter and one that works but may be skipped although counted; m3 is a system message to the board; one error or crash; one sweep that takes one row at a time | `DispatchTypeOK`, `NothingIsDropped`, `OnceWithoutFaults`, `NoDoubleWakeup`, `SettledStaysSettled`, `EventuallySettled`. A batch of one is the least that can starve a row; route, system poster and sweep are all the kinds of dispatchers; the second sweep only matters out of time, where the properties say nothing but that no message is dropped, which is proved for any number of sweeps. Two messages to reroute to need a fourth message, which is too many for TLC: a second reroute is covered by the theorems alone |
| `recovery` | `RunRecovery.cfg`: a review, an implementation, or a routing followed by a closing; every limit 1; four rows in use, one stop at a time; two messages, the second a lane or a reminder | `RecoveryTypeOK`, `ChainIsBounded`, `StageIsAttended`, `ComesToRest`. The three plans have every kind of answer (in part or not, intermediate or not, forced or not) and a lane behind another; a limit of 1 lets each counter be used and be used up; four rows are a holder, a parked wakeup promoted behind it, a recovery of either, and one that a keeper or a process still works with; one stop at a time leaves the route's selection of a parked wakeup (`chosen`) beside it |

Fairness of the heartbeat (`Fairness`): weak fairness of each executor, stopper and dispatch, because Node runs
every continuation that is ready and an adapter has a timeout; of the watchdog, because timers fire; of the reaper, because
it is an interval. Nothing forces a wakeup, cancellation, pause, resume or restart, nor a dispatch to fail. Fairness of the dispatch (`DispatchSpec`): the sweep is an interval timer, time passes
for every unsettled row, and what a dispatcher has begun goes on, each of them weakly fair. Fairness of the recovery (`RecoveryFairness`): a message is dispatched,
an adapter returns (it has a timeout), and what an executor or a keeper has begun goes on; no agent has to speak and no watchdog to look.

### Where the repository's words and its code differ

Each of these runs ends in the counterexample of one property that a document, a test or a message of the code
states.

| Run | What TLC finds |
|---|---|
| `cancel_overwritten` | an executor reads `running`, the run is cancelled, the executor then writes `succeeded` or `failed` over it by id |
| `pause_undone` | the end of the preflight sets the agent to `running` without looking: a pause made meanwhile is gone |
| `adapter_after_stop` | a run cancelled during its preflight has no process to kill, and its adapter is started afterwards |
| `lost_without_restart` | a promoted run that waits for a slot has no lease and no watchdog; the reaper fails it as lost |
| `restart_strands_parked` | a restart between the end of a run and its release leaves parked wakeups behind a finished holder; only a later wakeup of the issue moves them |
| `checkout_takes_lock` | `adoptStaleCheckoutRun` writes the lock without comparing it; the adopting run's release then starts a second active run of the issue |

## 4. Proofs

`tlapm` checks every theorem for every value of the constants, from the named assumptions of
the modules: nulls are not values, bounds, limits and batches are naturals (`NullAssumption`, `PolicyAssumption`, `ScopeAssumption`,
`BoundAssumption`, `KeptAssumption`, `EditsAssumption`; `AgentsAssumption`, `StaffAssumption`, `ResumeAssumption`,
`DependencyAssumption`, `CycleAssumption`; `MessagesAssumption`, `ReroutesAssumption`, `EffectAssumption`, `PlanAssumption`,
`BoundsAssumption`; `PlansAssumption`, `LimitAssumption`, `RecoveryBoundAssumption`). The group of the dispatch also says what the code gives a message: system messages are neither rerouted nor reroutes,
what is rerouted moves the issue, and a plan names an agent once.

| Theorem | States |
|---|---|
| `TypesCorrect` | `Spec => []TypeOK` |
| `LockPathSafe` | `Spec => []LockPathHolds` |
| `MutualExclusion` | `Spec => []OneLockPathRunPerIssue` |
| `FinishedForever` | `Spec => FinishedStaysFinished` |
| `LockKeptUntilOver` | `Spec => LockLeavesFinishedRun` |
| `NothingParkedOnFreeIssue` | `Spec => []ParkedBehindHolder` |
| `ParkedInOnePlace` | `Spec => []OnePlacePerAgent` |
| `QueueKeepsOrder` | `Spec => ParkedInOrder` |
| `NoParkedIsLost` | `Spec => ParkedIsServedOrRefused` |
| `LockImplemented` | `Spec => ImplementsLock` |
| `SlotsRespected` | `Spec => []SlotLimit` |
| `NoLockLeaks` | `Spec => []NoLeakedLock` |
| `StatusSettles` | `Spec => []AgentStatusSettles` |
| `CheckoutTypesCorrect` | `CheckoutSpec => []CheckoutTypeOK` |
| `CheckoutHoldsLock` | `CheckoutSpec => []LiveCheckoutHoldsLock` |
| `CheckoutKept` | `CheckoutSpec => CheckoutNeverStolen` |
| `ProtocolTypesCorrect` | `ProtocolSpec => []ProtocolTypeOK` |
| `OneOpenCycle` | `ProtocolSpec => []OpenCycleIsCurrent` |
| `WaitsAreWatched` | `ProtocolSpec => []EveryWaitIsWatched` |
| `CyclesFollowReviews` | `ProtocolSpec => ReviewKeepsItsCycle` |
| `DecisionsAreOnLatest` | `ProtocolSpec => DecidesOnLatestSubmission` |
| `ProtocolImplementsLifecycle` | `ProtocolSpec => ImplementsReviewLifecycle` |
| `DispatchTypesCorrect` | `DispatchSpec => []DispatchTypeOK` |
| `NothingIsEverDropped` | `DispatchSpec => []NothingIsDropped` |
| `NobodyIsWokenTwice` | `DispatchSpec => NoDoubleWakeup` |
| `EverybodyIsWokenOnce` | `DispatchSpec => []OnceWithoutFaults` |
| `RowsStaySettled` | `DispatchSpec => SettledStaysSettled` |
| `RecoveryTypesCorrect` | `RecoverySpec => []RecoveryTypeOK` |
| `ChainsAreBounded` | `RecoverySpec => []ChainIsBounded` |
| `NoStageIsDropped` | `RecoverySpec => []StageIsAttended` |

**The lock.** `LockPathHolds` (an active run created under the lock holds it) is not
inductive: a release could hit the lock of a run that is still active, or a new run could take the id of an
existing one. `LockInvariant` adds `TypeOK`, `RowsAreWhole` (rows have ids below `nextRun` and an
agent), `WorkHasRow` (executors and stoppers work on rows) and `ReleasedIsOver` (a release is reached
only for a run that is over). With it: a wakeup finds a holder whenever an active run exists, so it
never starts a second one (`LockedByItsRun`, `WakeKeepsLockPath`); a release changes only the lock its own, finished run has
(`ReleaseKeepsLockPath`). `RunStep` and `WorkStep` say once what any step may do to the rows and to the
work on them; `LockStep` that no step takes a lock from an active run, adopted or not.

**The queue and the refinement.** `StepsOfLock` reduces every step of the heartbeat to four moves of the lock: a run row
alone changes, a wakeup's transaction, the release of a run that is over, the cancellation of a parked wakeup. Parked agents are distinct
(`ParkedOnce`), because a wakeup parks an agent only if it is not parked yet, a release takes a prefix of the queue away, and a cancellation one
element (`QueueWithout`). `QueueInvariant` is
`LockInvariant` with that and `ParkedBehindHolder`; under it each of the four moves maps to a step of `IssueExecutionLock` or to a stutter
(`RunMovesImplement`, `WakeImplements`, `ReleaseImplements`, `CancellationImplements`). Order is a relation between agents (`Ahead`), not between positions,
because a cancellation closes the gap it makes; `OrderStep` shows that each of the moves keeps it.

**Slots, leaks, status.** `SlotLimit` needs that what a dispatcher has picked still fits when it is claimed (`PickedFits`): runs of an agent start
only by its own dispatch, of which there is one at a time, so the count can only fall between pick and claim. `NoLeakedLock` needs that an
issue is held by one of its own runs (`HeldByItsRun`), so that a release finds it, and that the end of a run stays under way until it is released
(`EndingStep`). `AgentStatusSettles` is strengthened to `Settling`, which does not count on the release of a pause, as that
finalizes nobody, and to `Counted`: while somebody is about to write that an agent is running, the agent has a running run or is
`misread` (`CountedRunEnds`, `MisreadStays`). The exception is needed: the last run that was counted may end, and its own
finalization write that the agent is idle, before the one that counted it writes that it is running; the agent is then shown as running, with no run,
until its next heartbeat ends. TLC reaches that state in the run `lock`. The guides (`docs/guides/agent-developer/how-agents-work.md:49`) say of
such an agent `Heartbeat in progress`.

**Checkouts.** With checkouts `LockPathHolds` is false (run `checkout_takes_lock`), so `CheckoutInvariant` drops it:
a live checkout holds the lock because a claim demands a lock that is free or the run's own, an
adoption replaces a checkout that is over, and by `LockStep` the heartbeat never takes
the lock from an active run. An adoption may take the lock from an active run, but from none
that has the issue checked out.

**The protocol.** `ProtocolInvariant` is the type invariant, `OpenCycleIsCurrent`, `Led` (with a project lead, an issue that has a state has a tech lead)
and `FoundWithState` (a dispatch only finds dependencies of an issue with a state). The steps are cut twice: by how they store the state
(`StepsStore`) and by what they do to the review (`StepsMove`); each property then follows from a few kinds of steps instead of twenty-odd messages,
and the refinement from the stages they move between.

**The dispatch.** `NothingIsDropped` needs that whom a wakeup on record is for counts as woken (`Recorded`) and that whom
a dispatcher has passed over it has woken, skipped, or could not wake (`Walked`); then whoever marks a row has woken somebody, or
had nobody to wake. `NoDoubleWakeup` needs `InTime` while `timely`: one dispatcher at most is about a message (`OneEach`), a sweep's batch holds no row twice and none that
another is about (`DueOnce`, `InTurn`, `Loaded`), and who has still to wake an agent started when no work of the message was on record (`Fresh`).

`OnceInvariant` adds to these what holds of the rows in time (`InOrder`): a row that is due, on a sweep's list or under way is unsettled, and so is
the row that another message was posted in place of. The writes by id of `markPendingRetryNow` and `markFailed`, which look at no status, then meet
unsettled rows only, but for one: a sweep whose log entry fails has just settled the row it now marks failed (`RowsStaySettled`). Without faults, too,
whoever was woken was woken by one dispatch, which goes on or has settled the row (`WokenByOne`), and whom a dispatcher has yet to wake has
not been woken (`LeftIsUnwoken`); so a later dispatch finds nobody woken, each agent is woken once, and the row is marked when the plan is done.
What is left of the catch blocks then is a refused reroute, before anybody was woken (`FaultlessThrow`; a plan that names a paused agent is not
spoken of).

**The recovery.** Each follow-up adds one to one of four counters of the context it copies and to the length of its chain, so the length is at most the sum
of the counters (`Sound`), and each counter is checked against its limit in the very copy it is counted in, so stale copies may send a
follow-up twice but none past the limit. Merging takes each counter from the newer context that has one, and the chain's length from the newer, so `Sound` survives it
(`MergeSound`). `RecoveryInv` is the type invariant with `Sound` for `Context`.

`StageIsAttended` is shown step by step: whoever stops attending to the stage sends a wakeup that takes over, gives the lane up (`SilenceGivesUp`), or
speaks. `ContextsFit` and `SaidFits` say that no context is of a lane ahead of the workflow and what an executor has heard fits its lane. What is not local is a
cancellation, which takes a run or a wakeup from its lane from outside. The lease heartbeat cancels only runs whose lane the workflow has passed, for
good (`LeaseCancelsPassed`). The watchdog may cancel a run of the stage, but has woken the agent first (`WatchdogWakesFirst`), and from
then on the stage is attended besides that run (`AttendedBesides`). That survives every other step because the row of a run that a keeper works with is not used
again (`KeptRuns`): a fresh run cannot slip under the pending cancellation. A route's cancellation of a run or wakeup that has come to attend to the stage since it
was selected is what the code loses (`excused`).

Model-checked only: the liveness properties (`EveryRunFinishes`, `ParkedIsServed`, `EventuallySettled`, `ComesToRest`), which with fairness and ENABLED are
beyond the prover. Every safety invariant, action property and refinement that a passing run checks is a theorem.

## 5. Not modelled

- The clocks of timeouts and leases: reminders, watchdogs, reaper and sweeps may come at any time their guard allows.
- What a message carries: payload, artifact and evidence contracts, notes, the log of violations. The protocol's decisions that depend on them
  are taken either way.
- The recovery of several agents together (a reviewer's retry while the engineer's run is recovered), the lead that is told of a failed run, and the
  steps inside an auto-assist that fails half-way: to the heartbeat they are cancellations and wakeups at any time.
- Merge candidates and automation: derived from messages and git after the commit; mostly commands of git and GitHub.
- Approvals, costs and budgets: single-statement updates; a budget that is used up pauses an agent.
- The after-commit queue of `packages/db`: dispatch follows the commit in one step here.
- The route-level rules of checkout and release for human users.
- Knowledge, retrieval and memory; companies, teams, projects, intake; access, secrets, storage; live events and dashboard; adapters; CLI and UI:
  data, I/O and rendering with little control. They are most of the 154,000 lines, so the lines this project maps
  stay a small share of the repository, however much of its control is modelled.

## 6. Plan

1. (done) `IssueExecutionLock`, `HeartbeatRuns`, its runs and the lock theorems: the core, because all work passes through it.
2. (done) `IssueCheckout` over `HeartbeatRuns`, and its theorems.
3. (done) `IssueProtocol` and `ReviewLifecycle`, with their theorems.
4. (done) `ProtocolDispatch`, its liveness and its theorems.
5. (done) The refinement of the lock, the queue, slots, leaks and status of `HeartbeatRuns` as theorems.
6. (done) `RunRecovery`: the chains of follow-up and retry runs, bounded, at rest in the end, and its theorems.
7. Two issues in `IssueCheckout`: a run that has checked out both releases one (see the hazards).
8. Merge candidates, composed with `IssueProtocol`.

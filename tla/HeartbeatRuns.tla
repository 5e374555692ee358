----------------------------- MODULE HeartbeatRuns -----------------------------
(***************************************************************************)
(* The life of heartbeat runs and of the issue execution lock.             *)
(*                                                                         *)
(* A wakeup asks for work by an agent, on an issue or on none.  The        *)
(* control plane turns it into a run, merges it into an active run, or     *)
(* parks it behind the run that holds the issue.  A per-agent dispatcher   *)
(* claims queued runs while the agent has a free slot, an executor drives  *)
(* each claimed run through its adapter, and cancellation, pause, the      *)
(* dispatch watchdog and the orphan reaper may stop it at any moment.      *)
(*                                                                         *)
(* One step of this module is one database transaction or one statement,   *)
(* together with the in-memory changes made before the next await.  The    *)
(* tables heartbeat_runs, issues, agent_wakeup_requests and agents survive *)
(* a restart; exec, stopper, watchdog, dispatch, picked and waking are the *)
(* memory of the server process and do not.                                *)
(***************************************************************************)
EXTENDS Naturals, Sequences, FiniteSets

CONSTANTS
    Agents,             \* agents of one company
    Issues,             \* issues agents may be woken for
    NoAgent, NoIssue,   \* the null of a nullable column
    MaxConcurrentRuns,  \* heartbeat policy: running runs allowed per agent
    DispatchRetryLimit, \* RUN_DISPATCH_WATCHDOG_RETRY_LIMIT, 2 in the code
    OutsideScopes,      \* bound: the scopes woken for outside the issue lock
    MaxRuns,            \* bound: runs created in a behaviour
    MaxUpsets,          \* bound: cancellations, pauses and internal failures
    MaxCrashes          \* bound: restarts of the server process

ASSUME NullAssumption == NoAgent \notin Agents /\ NoIssue \notin Issues
ASSUME PolicyAssumption == MaxConcurrentRuns \in Nat \ {0} /\ DispatchRetryLimit \in Nat
ASSUME ScopeAssumption == OutsideScopes \subseteq Issues \cup {NoIssue}
ASSUME BoundAssumption == MaxRuns \in Nat /\ MaxUpsets \in Nat /\ MaxCrashes \in Nat

NoRun == 0
RunIds == 1..MaxRuns
Scopes == Issues \cup {NoIssue}

Off == DispatchRetryLimit + 1   \* no dispatch watchdog timer is armed

Active == {"queued", "running"}
Terminal == {"finished", "cancelled"}   \* finished: succeeded, failed or timed_out
StopKinds == {"cancel", "pause", "reap", "watchdog"}

VARIABLES
    runStatus,    \* heartbeat_runs.status, "none" before the row exists
    runAgent,     \* heartbeat_runs.agent_id
    runIssue,     \* the issueId in heartbeat_runs.context_snapshot
    onLockPath,   \* was the run created under the lock of its issue?
    nextRun,      \* the next run id; ids grow with created_at
    lock,         \* issues.execution_run_id
    lockKey,      \* issues.execution_agent_name_key
    deferred,     \* agents parked on an issue, oldest request first
    agentStatus,  \* agents.status
    waking,       \* paused agents with a wakeup that passed its check before
    misread,      \* ghost: agents whose last run ended after a finalization had counted it
    dispatch,     \* agents with startNextQueuedRunForAgent pending or running
    picked,       \* the queued run that call has selected
    exec,         \* executeRun of a run: where it is and what it will persist
    stopper,      \* a cancellation, pause, reap or watchdog failure of a run
    watchdog,     \* dispatch attempts of an armed watchdog, or Off
    upsets,       \* cancellations, pauses and internal failures so far
    crashes       \* restarts so far

runVars == <<runStatus, runAgent, runIssue, onLockPath, nextRun>>
lockVars == <<lock, lockKey, deferred>>
agentVars == <<agentStatus, waking, misread>>
dispatchVars == <<dispatch, picked>>
boundVars == <<upsets, crashes>>
vars == <<runVars, lockVars, agentVars, dispatchVars, exec, stopper,
          watchdog, boundVars>>

ExecIdle == [pc |-> "none", out |-> "none"]
StopIdle == [pc |-> "none", kind |-> "none"]

Init ==
    /\ runStatus = [r \in RunIds |-> "none"]
    /\ runAgent = [r \in RunIds |-> NoAgent]
    /\ runIssue = [r \in RunIds |-> NoIssue]
    /\ onLockPath = [r \in RunIds |-> FALSE]
    /\ nextRun = 1
    /\ lock = [i \in Issues |-> NoRun]
    /\ lockKey = [i \in Issues |-> NoAgent]
    /\ deferred = [i \in Issues |-> << >>]
    /\ agentStatus = [a \in Agents |-> "idle"]
    /\ waking = {}
    /\ misread = {}
    /\ dispatch = {}
    /\ picked = [a \in Agents |-> NoRun]
    /\ exec = [r \in RunIds |-> ExecIdle]
    /\ stopper = [r \in RunIds |-> StopIdle]
    /\ watchdog = [r \in RunIds |-> Off]
    /\ upsets = 0 /\ crashes = 0

-----------------------------------------------------------------------------
(* Queries the handlers make.                                              *)

IsActive(r) == runStatus[r] \in Active
RunsOf(a, status) == {r \in RunIds : runAgent[r] = a /\ runStatus[r] = status}
SlotFree(a) == Cardinality(RunsOf(a, "running")) < MaxConcurrentRuns
ActiveOn(x) == {r \in RunIds : runIssue[r] = x /\ IsActive(r)}
Oldest(S) == CHOOSE r \in S : \A s \in S : r <= s

\* Wrong: only a running run counts as the holder of an issue.
HasRunningHolder(i) == \E r \in ActiveOn(i) : runStatus[r] = "running"

\* The run a wakeup finds in charge of the issue: the holder of the lock if it
\* is still active, else an active run on the issue, running ones first.
Locked(i) == lock[i] # NoRun /\ IsActive(lock[i])
HasHolder(i) == Locked(i) \/ ActiveOn(i) # {}
HolderOf(i) ==
    LET running == {r \in ActiveOn(i) : runStatus[r] = "running"}
    IN  CASE Locked(i) -> lock[i]
          [] ~Locked(i) /\ running # {} -> Oldest(running)
          [] OTHER -> Oldest(ActiveOn(i))

\* The agent key a wakeup is compared with: the column as it was read, even if
\* the lock it belonged to was stale, else the agent of the holder.
HolderKey(i) == IF lockKey[i] # NoAgent THEN lockKey[i] ELSE runAgent[HolderOf(i)]

Parked(i) == {deferred[i][k] : k \in 1..Len(deferred[i])}
AllParked == {p \in Issues \X Agents : p[2] \in Parked(p[1])}

\* Bound: an id is kept for every parked wakeup, so that a promotion never
\* fails for want of one.
HasCapacity == nextRun + Cardinality(AllParked) <= MaxRuns

-----------------------------------------------------------------------------
(* Steps shared by several handlers.                                       *)

Upset == upsets < MaxUpsets /\ upsets' = upsets + 1 /\ UNCHANGED crashes

CreateRun(a, x, locked) ==
    /\ nextRun <= MaxRuns
    /\ runStatus' = [runStatus EXCEPT ![nextRun] = "queued"]
    /\ runAgent' = [runAgent EXCEPT ![nextRun] = a]
    /\ runIssue' = [runIssue EXCEPT ![nextRun] = x]
    /\ onLockPath' = [onLockPath EXCEPT ![nextRun] = locked]
    /\ nextRun' = nextRun + 1

SetRunStatus(r, status) ==
    /\ runStatus' = [runStatus EXCEPT ![r] = status]
    /\ UNCHANGED <<runAgent, runIssue, onLockPath, nextRun>>

\* Somebody has counted running runs of the agent, and is yet to write that it is running.
IsCounted(a) ==
    \E q \in RunIds : runAgent[q] = a /\ "markRunning" \in {exec[q].pc, stopper[q].pc}

\* The outcome of a run is written.  It may have been the last one that was counted.
EndRun(r, status) ==
    /\ SetRunStatus(r, status)
    /\ misread' = IF IsCounted(runAgent[r]) /\ RunsOf(runAgent[r], "running") \subseteq {r}
                  THEN misread \cup {runAgent[r]} ELSE misread
    /\ UNCHANGED <<agentStatus, waking>>

\* finalizeAgentStatus reads the agent, counts its running runs, and later writes
\* by id what follows from the count.  A paused agent is left alone, and the
\* status "error" is folded into "idle".  Reading and counting are one step.
Marks == {"markRunning", "markIdle"}

\* Wrong: queued runs keep an agent running.
MarkOfActive(a) ==
    IF \E r \in RunIds : runAgent[r] = a /\ IsActive(r) THEN "markRunning" ELSE "markIdle"

MarkFor(a) == IF RunsOf(a, "running") # {} THEN "markRunning" ELSE "markIdle"

WriteMark(a, mark) ==
    /\ agentStatus' = [agentStatus EXCEPT ![a] = IF mark = "markRunning" THEN "running" ELSE "idle"]
    /\ waking' = waking \ {a}
    /\ misread' = IF mark = "markIdle" /\ ~IsCounted(a) THEN misread \ {a} ELSE misread

\* The first parked wakeup whose agent may still be invoked.
FirstInvokable(i) ==
    {k \in 1..Len(deferred[i]) :
        /\ agentStatus[deferred[i][k]] # "paused"
        /\ \A j \in 1..(k - 1) : agentStatus[deferred[i][j]] = "paused"}

\* Wrong: one parked wakeup too many is dropped.
PromoteDropsNext(i) ==
    \E k \in FirstInvokable(i) :
        LET a == deferred[i][k]
        IN  /\ CreateRun(a, i, TRUE)
            /\ lock' = [lock EXCEPT ![i] = nextRun]
            /\ lockKey' = [lockKey EXCEPT ![i] = a]
            /\ deferred' = [deferred EXCEPT ![i] = SubSeq(@, k + 2, Len(@))]
            /\ dispatch' = dispatch \cup {a}

\* Wrong: the wakeups refused on the way to the promoted one stay parked.
PromoteKeepsRefused(i) ==
    \E k \in FirstInvokable(i) :
        LET a == deferred[i][k]
        IN  /\ CreateRun(a, i, TRUE)
            /\ lock' = [lock EXCEPT ![i] = nextRun]
            /\ lockKey' = [lockKey EXCEPT ![i] = a]
            /\ deferred' = [deferred EXCEPT
                               ![i] = SubSeq(@, 1, k - 1) \o SubSeq(@, k + 1, Len(@))]
            /\ dispatch' = dispatch \cup {a}

Promote(i) ==
    \E k \in FirstInvokable(i) :
        LET a == deferred[i][k]
        IN  /\ CreateRun(a, i, TRUE)
            /\ lock' = [lock EXCEPT ![i] = nextRun]
            /\ lockKey' = [lockKey EXCEPT ![i] = a]
            /\ deferred' = [deferred EXCEPT ![i] = SubSeq(@, k + 1, Len(@))]
            /\ dispatch' = dispatch \cup {a}

\* Wrong: the wakeups of paused agents are not refused.
UnlockKeepsParked(i) ==
    /\ FirstInvokable(i) = {}
    /\ lock' = [lock EXCEPT ![i] = NoRun]
    /\ lockKey' = [lockKey EXCEPT ![i] = NoAgent]
    /\ UNCHANGED <<runVars, deferred>>

Unlock(i) ==
    /\ FirstInvokable(i) = {}
    /\ lock' = [lock EXCEPT ![i] = NoRun]
    /\ lockKey' = [lockKey EXCEPT ![i] = NoAgent]
    /\ deferred' = [deferred EXCEPT ![i] = << >>]
    /\ UNCHANGED runVars

\* Wrong: the release looks the issue up by the run, not the run by the issue.
ReleaseUnheld(r) ==
    /\ \/ \E i \in Issues : runIssue[r] = i /\ (Promote(i) \/ (Unlock(i) /\ UNCHANGED dispatch))
       \/ runIssue[r] = NoIssue /\ UNCHANGED <<runVars, lockVars, dispatch>>
    /\ UNCHANGED picked

\* releaseIssueExecutionAndPromote(r): one transaction, then the dispatch of the
\* promoted run, which gets neither a lease nor a watchdog.
ReleaseAndPromote(r) ==
    /\ \/ \E i \in Issues : lock[i] = r /\ (Promote(i) \/ (Unlock(i) /\ UNCHANGED dispatch))
       \/ (\A i \in Issues : lock[i] # r) /\ UNCHANGED <<runVars, lockVars, dispatch>>
    /\ UNCHANGED picked

-----------------------------------------------------------------------------
(* enqueueWakeup                                                           *)

\* A paused agent's wakeup is refused.  The agent is read outside the
\* transaction that acts on it, so a wakeup may be past the check when its agent
\* is paused; waking remembers those.
Admitted(a) == agentStatus[a] # "paused" \/ a \in waking

\* After a run is created: lease, watchdog, dispatch.
ArmAndDispatch(r, a) ==
    /\ watchdog' = [watchdog EXCEPT ![r] = 0]
    /\ dispatch' = dispatch \cup {a}
    /\ UNCHANGED picked

\* The issue transaction.  Nobody holds the issue: a new run takes the lock.
WakeStarts(a, i) ==
    /\ ~HasHolder(i)
    /\ HasCapacity
    /\ CreateRun(a, i, TRUE)
    /\ lock' = [lock EXCEPT ![i] = nextRun]
    /\ lockKey' = [lockKey EXCEPT ![i] = a]
    /\ UNCHANGED deferred
    /\ ArmAndDispatch(nextRun, a)

\* Somebody does.  A stale lock is cleared and an active run created outside
\* the lock is adopted into it, in the same transaction.
AdoptHolder(i) ==
    /\ lock' = [lock EXCEPT ![i] = HolderOf(i)]
    /\ lockKey' = IF Locked(i) THEN lockKey
                  ELSE [lockKey EXCEPT ![i] = runAgent[HolderOf(i)]]

\* shouldQueueFollowupIssueExecution, for the agent that holds the issue.
NeedsFollowup(i, comment, force) ==
    force \/ (comment /\ runStatus[HolderOf(i)] = "running")

\* The holder's own agent: the wakeup is merged into the holder's context.
WakeCoalesces(a, i, comment, force) ==
    /\ HasHolder(i)
    /\ HolderKey(i) = a /\ ~NeedsFollowup(i, comment, force)
    /\ AdoptHolder(i)
    /\ UNCHANGED <<runVars, deferred, dispatchVars, watchdog>>

\* Wrong: a parked wakeup of the agent is not looked for.
DefersAgain(a, i, comment, force) ==
    /\ HasHolder(i)
    /\ HolderKey(i) # a \/ NeedsFollowup(i, comment, force)
    /\ HasCapacity
    /\ AdoptHolder(i)
    /\ deferred' = [deferred EXCEPT ![i] = Append(@, a)]
    /\ UNCHANGED <<runVars, dispatchVars, watchdog>>

\* Another agent, or work for the same one after this run: the wakeup is
\* parked, or merged into the one the agent has parked already.
WakeDefers(a, i, comment, force) ==
    /\ HasHolder(i)
    /\ HolderKey(i) # a \/ NeedsFollowup(i, comment, force)
    /\ a \in Parked(i) \/ HasCapacity
    /\ AdoptHolder(i)
    /\ deferred' = IF a \in Parked(i) THEN deferred
                   ELSE [deferred EXCEPT ![i] = Append(@, a)]
    /\ UNCHANGED <<runVars, dispatchVars, watchdog>>

WakeTransaction(a, i, comment, force) ==
    \/ WakeStarts(a, i)
    \/ WakeCoalesces(a, i, comment, force)
    \/ WakeDefers(a, i, comment, force)

WakeOnIssue(a, i) ==
    /\ Admitted(a)
    /\ \E comment, force \in BOOLEAN : WakeTransaction(a, i, comment, force)
    /\ waking' = waking \ {a}
    /\ UNCHANGED <<agentStatus, misread, exec, stopper, boundVars>>

\* The path outside the lock: wakeups without an issue, and mentions, which
\* bypass the lock of theirs.  A queued run of the same scope absorbs the
\* wakeup, a running one does unless the wakeup carries a comment.
WakeOutsideLock(a, x) ==
    /\ Admitted(a) /\ x \in OutsideScopes
    /\ \/ /\ HasCapacity
          /\ RunsOf(a, "queued") \cap ActiveOn(x) = {}
          /\ x # NoIssue \/ RunsOf(a, "running") \cap ActiveOn(x) = {}
          /\ CreateRun(a, x, FALSE)
          /\ ArmAndDispatch(nextRun, a)
       \/ /\ ActiveOn(x) \cap (RunsOf(a, "queued") \cup
                               (IF x = NoIssue THEN RunsOf(a, "running") ELSE {})) # {}
          /\ UNCHANGED <<runVars, dispatchVars, watchdog>>
    /\ waking' = waking \ {a}
    /\ UNCHANGED <<lockVars, agentStatus, misread, exec, stopper, boundVars>>

-----------------------------------------------------------------------------
(* startNextQueuedRunForAgent, serialised per agent by withAgentStartLock. *)

\* Wrong: the free slots are not counted.
PickAnyway(a) ==
    /\ a \in dispatch /\ picked[a] = NoRun
    /\ \E r \in RunsOf(a, "queued") : picked' = [picked EXCEPT ![a] = r]
    /\ UNCHANGED <<runVars, lockVars, agentVars, dispatch, exec, stopper,
                   watchdog, boundVars>>

\* Runs are ordered by issue priority first, so any queued one may be chosen.
PickRun(a) ==
    /\ a \in dispatch /\ picked[a] = NoRun
    /\ SlotFree(a)
    /\ \E r \in RunsOf(a, "queued") : picked' = [picked EXCEPT ![a] = r]
    /\ UNCHANGED <<runVars, lockVars, agentVars, dispatch, exec, stopper,
                   watchdog, boundVars>>

\* Wrong: the run is claimed without comparing its status.
ClaimUnchecked(a) ==
    /\ a \in dispatch /\ picked[a] # NoRun
    /\ SetRunStatus(picked[a], "running")
    /\ exec' = [exec EXCEPT ![picked[a]] = [pc |-> "launch", out |-> "none"]]
    /\ watchdog' = [watchdog EXCEPT ![picked[a]] = 0]
    /\ picked' = [picked EXCEPT ![a] = NoRun]
    /\ UNCHANGED <<lockVars, agentVars, dispatch, stopper, boundVars>>

\* claimQueuedRun: a compare-and-set on the status; the run picked may have
\* been stopped since.
ClaimRun(a) ==
    /\ a \in dispatch /\ picked[a] # NoRun
    /\ LET r == picked[a]
       IN  IF runStatus[r] = "queued"
           THEN /\ SetRunStatus(r, "running")
                /\ exec' = [exec EXCEPT ![r] = [pc |-> "launch", out |-> "none"]]
                /\ watchdog' = [watchdog EXCEPT ![r] = 0]
           ELSE UNCHANGED <<runVars, exec, watchdog>>
    /\ picked' = [picked EXCEPT ![a] = NoRun]
    /\ UNCHANGED <<lockVars, agentVars, dispatch, stopper, boundVars>>

\* No queued run, or no slot for it.
EndDispatch(a) ==
    /\ a \in dispatch /\ picked[a] = NoRun
    /\ RunsOf(a, "queued") = {} \/ ~SlotFree(a)
    /\ dispatch' = dispatch \ {a}
    /\ UNCHANGED <<runVars, lockVars, agentVars, picked, exec, stopper,
                   watchdog, boundVars>>

\* It throws, which is logged and forgotten.  Executors are started only when
\* every claim of the call is made: what it has claimed before may be left without
\* one, and without a watchdog when its lease could not be written.
DispatchFails(a) ==
    /\ a \in dispatch
    /\ Upset
    /\ dispatch' = dispatch \ {a}
    /\ picked' = [picked EXCEPT ![a] = NoRun]
    /\ \E lost \in SUBSET {r \in RunIds : runAgent[r] = a /\ exec[r].pc = "launch"} :
          /\ exec' = [r \in RunIds |-> IF r \in lost THEN ExecIdle ELSE exec[r]]
          /\ \E unarmed \in SUBSET lost :
                watchdog' = [r \in RunIds |-> IF r \in unarmed THEN Off ELSE watchdog[r]]
    /\ UNCHANGED <<runVars, lockVars, agentVars, stopper>>

-----------------------------------------------------------------------------
(* executeRun, one executor per claimed run.                               *)

ExecTo(r, pc, out) == exec' = [exec EXCEPT ![r] = [pc |-> pc, out |-> out]]

\* It gives up at once, without a dispatch, when the run is no longer active.
ExecBegins(r) ==
    /\ exec[r].pc = "launch"
    /\ IF IsActive(r) THEN ExecTo(r, "preflight", "none") ELSE ExecTo(r, "none", "none")
    /\ watchdog' = [watchdog EXCEPT ![r] = Off]
    /\ UNCHANGED <<runVars, lockVars, agentVars, dispatchVars, stopper, boundVars>>

\* It throws before its try block, which is logged and forgotten too.
ExecFailsToBegin(r) ==
    /\ exec[r].pc = "launch"
    /\ Upset
    /\ ExecTo(r, "none", "none")
    /\ watchdog' = [watchdog EXCEPT ![r] = Off]
    /\ UNCHANGED <<runVars, lockVars, agentVars, dispatchVars, stopper>>

\* Workspace, session and prompt are ready: the agent is marked running and the
\* adapter is started.  Neither the run nor the agent is read again.
ExecLaunchesAdapter(r) ==
    /\ exec[r].pc = "preflight"
    /\ agentStatus' = [agentStatus EXCEPT ![runAgent[r]] = "running"]
    /\ waking' = waking \ {runAgent[r]}
    /\ ExecTo(r, "adapter", "none")
    /\ UNCHANGED <<runVars, lockVars, misread, dispatchVars, stopper, watchdog, boundVars>>

\* Something throws, before the adapter (no workspace) or in it: the catch block
\* fails the run, whatever its status is by now.
ExecThrows(r) ==
    /\ exec[r].pc \in {"preflight", "adapter", "decide"}
    /\ ExecTo(r, "catch", "finished")
    /\ UNCHANGED <<runVars, lockVars, agentVars, dispatchVars, stopper,
                   watchdog, boundVars>>

\* The preflight finds a follow-up superseded and throws, to end it as cancelled.
ExecIsSuperseded(r) ==
    /\ exec[r].pc = "preflight"
    /\ Upset
    /\ ExecTo(r, "catch", "cancelled")
    /\ UNCHANGED <<runVars, lockVars, agentVars, dispatchVars, stopper, watchdog>>

\* Something throws after the outcome was decided, be it persisted and the issue
\* released already: the catch block does it all once more.  What the catch block
\* does itself is not caught again.
ExecThrowsLate(r) ==
    /\ exec[r].pc \in {"persist", "release", "finalize"} \cup Marks
    /\ exec[r].out # "caught"
    /\ Upset
    /\ ExecTo(r, "catch", "finished")
    /\ UNCHANGED <<runVars, lockVars, agentVars, dispatchVars, stopper, watchdog>>

\* Before deciding, the executor may ask for another run of its own agent on the
\* issue (protocol or adapter retry); refused for a paused agent, which throws.
ExecFollowsUp(r) ==
    /\ exec[r].pc = "adapter" /\ runIssue[r] # NoIssue
    /\ IF agentStatus[runAgent[r]] = "paused"
       THEN /\ ExecTo(r, "catch", "finished")
            /\ UNCHANGED <<runVars, lockVars, dispatchVars, watchdog>>
       ELSE /\ WakeTransaction(runAgent[r], runIssue[r], FALSE, TRUE)
            /\ ExecTo(r, "decide", "none")
    /\ UNCHANGED <<agentVars, stopper, boundVars>>

\* Wrong: whatever status is read back is persisted.
DecidesAsRead(r) ==
    /\ exec[r].pc \in {"adapter", "decide"}
    /\ ExecTo(r, "persist", runStatus[r])
    /\ UNCHANGED <<runVars, lockVars, agentVars, dispatchVars, stopper,
                   watchdog, boundVars>>

\* The adapter process has ended, by itself or killed.  The status is read back:
\* a run cancelled meanwhile stays cancelled.
ExecDecides(r) ==
    /\ exec[r].pc \in {"adapter", "decide"}
    /\ ExecTo(r, "persist", IF runStatus[r] = "cancelled" THEN "cancelled" ELSE "finished")
    /\ UNCHANGED <<runVars, lockVars, agentVars, dispatchVars, stopper,
                   watchdog, boundVars>>

\* setRunStatus updates by id, whatever the status is by now.
ExecPersists(r) ==
    /\ exec[r].pc \in {"persist", "catch"}
    /\ EndRun(r, exec[r].out)
    /\ ExecTo(r, "release", IF exec[r].pc = "catch" THEN "caught" ELSE "none")
    /\ UNCHANGED <<lockVars, dispatchVars, stopper, watchdog, boundVars>>

ExecReleases(r) ==
    /\ exec[r].pc = "release"
    /\ ReleaseAndPromote(r)
    /\ ExecTo(r, "finalize", exec[r].out)
    /\ UNCHANGED <<agentVars, stopper, watchdog, boundVars>>

\* The end of the executor: the agent is read and later written, then dispatched.
ExecEnds(r) ==
    /\ ExecTo(r, "none", "none")
    /\ dispatch' = dispatch \cup {runAgent[r]}
    /\ UNCHANGED picked

ExecFinalizes(r) ==
    /\ exec[r].pc = "finalize"
    /\ IF agentStatus[runAgent[r]] = "paused" THEN ExecEnds(r)
       ELSE ExecTo(r, MarkFor(runAgent[r]), exec[r].out) /\ UNCHANGED dispatchVars
    /\ UNCHANGED <<runVars, lockVars, agentVars, stopper, watchdog, boundVars>>

ExecMarksAgent(r) ==
    /\ exec[r].pc \in Marks
    /\ WriteMark(runAgent[r], exec[r].pc)
    /\ ExecEnds(r)
    /\ UNCHANGED <<runVars, lockVars, stopper, watchdog, boundVars>>

\* What the event loop will do sooner or later; a failure it need not do.
ExecStep(r) ==
    \/ ExecBegins(r) \/ ExecLaunchesAdapter(r) \/ ExecThrows(r)
    \/ ExecFollowsUp(r) \/ ExecDecides(r) \/ ExecPersists(r) \/ ExecReleases(r)
    \/ ExecFinalizes(r) \/ ExecMarksAgent(r)
ExecFails(r) == ExecFailsToBegin(r) \/ ExecIsSuperseded(r) \/ ExecThrowsLate(r)

-----------------------------------------------------------------------------
(* Everything that stops a run from outside.  The run is read, and later   *)
(* written without looking at it again; one stopper per run at a time.     *)

StopTo(r, pc, kind) == stopper' = [stopper EXCEPT ![r] = [pc |-> pc, kind |-> kind]]

\* Several of them, asked for from outside.
StartStops(runs, kind) ==
    /\ Upset
    /\ stopper' = [r \in RunIds |->
                     IF r \in runs /\ IsActive(r) /\ stopper[r] = StopIdle
                     THEN [pc |-> "persist", kind |-> kind] ELSE stopper[r]]

\* cancelRunInternal: asked for by a user, or by preemption, cancelIssueScope and
\* cancelSupersededIssueFollowups (for each run they selected, read again), the
\* superseded follow-up check, recovery and the merge of an issue.
Cancel(r) ==
    /\ IsActive(r) /\ stopper[r] = StopIdle
    /\ StartStops({r}, "cancel")
    /\ UNCHANGED <<runVars, lockVars, agentVars, dispatchVars, exec, watchdog>>

\* The other half of those two: wakeups selected before are cancelled by id, under
\* no lock.  Any that are parked may be among them, whether their agent is paused
\* or not; a promoted one is a run by now, which the update does not touch.
CancelParked(i) ==
    /\ \E k \in 1..Len(deferred[i]) :
          deferred' = [deferred EXCEPT ![i] = SubSeq(@, 1, k - 1) \o SubSeq(@, k + 1, Len(@))]
    /\ UNCHANGED <<runVars, lock, lockKey, agentVars, dispatchVars, exec, stopper, watchdog,
                   boundVars>>

\* The pause route: agents.pause, then cancelActiveForAgent.
Pause(a) ==
    /\ agentStatus[a] # "paused"
    /\ agentStatus' = [agentStatus EXCEPT ![a] = "paused"]
    /\ waking' \in {waking, waking \cup {a}}
    /\ StartStops({r \in RunIds : runAgent[r] = a}, "pause")
    /\ UNCHANGED <<runVars, lockVars, misread, dispatchVars, exec, watchdog>>

Resume(a) ==
    /\ agentStatus[a] = "paused"
    /\ agentStatus' = [agentStatus EXCEPT ![a] = "idle"]
    /\ waking' = waking \ {a}
    /\ UNCHANGED <<runVars, lockVars, misread, dispatchVars, exec, stopper, watchdog, boundVars>>

\* Wrong: only running runs are looked for.
ReapRunning(r) ==
    /\ runStatus[r] = "running" /\ stopper[r] = StopIdle
    /\ exec[r].pc = "none" /\ watchdog[r] = Off
    /\ runAgent[r] \notin dispatch
    /\ StopTo(r, "persist", "reap")
    /\ UNCHANGED <<runVars, lockVars, agentVars, dispatchVars, exec,
                   watchdog, boundVars>>

\* reapOrphanedRuns: an active run whose lease is old or missing.  An executor
\* and an armed watchdog keep the lease fresh, and the threshold of minutes
\* outlasts a dispatch under way.
Reap(r) ==
    /\ IsActive(r) /\ stopper[r] = StopIdle
    /\ exec[r].pc = "none" /\ watchdog[r] = Off
    /\ runAgent[r] \notin dispatch
    /\ StopTo(r, "persist", "reap")
    /\ UNCHANGED <<runVars, lockVars, agentVars, dispatchVars, exec,
                   watchdog, boundVars>>

\* handleDispatchWatchdog of a run still queued, with a slot free, or claimed but
\* left without an executor; while no slot is free, the timer is only armed again.
\* A timer that finds its run finished does nothing, and is not tracked.  Its
\* seconds, too, outlast a dispatch or the start of an executor under way.
Overdue(r) ==
    /\ watchdog[r] # Off /\ runAgent[r] \notin dispatch
    /\ \/ runStatus[r] = "queued" /\ SlotFree(runAgent[r])
       \/ runStatus[r] = "running" /\ exec[r].pc = "none"

Redispatches(r) ==
    /\ Overdue(r) /\ watchdog[r] < DispatchRetryLimit
    /\ watchdog' = [watchdog EXCEPT ![r] = @ + 1]
    /\ IF runStatus[r] = "queued"
       THEN dispatch' = dispatch \cup {runAgent[r]} /\ UNCHANGED exec
       ELSE ExecTo(r, "launch", "none") /\ UNCHANGED dispatch
    /\ UNCHANGED <<runVars, lockVars, agentVars, picked, stopper, boundVars>>

GivesUp(r) ==
    /\ Overdue(r) /\ watchdog[r] >= DispatchRetryLimit
    /\ stopper[r] = StopIdle
    /\ StopTo(r, "persist", "watchdog")
    /\ UNCHANGED <<runVars, lockVars, agentVars, dispatchVars, exec, watchdog, boundVars>>

WatchdogFires(r) == Redispatches(r) \/ GivesUp(r)

StopPersists(r) ==
    /\ stopper[r].pc = "persist"
    /\ EndRun(r, IF stopper[r].kind \in {"cancel", "pause"} THEN "cancelled" ELSE "finished")
    /\ StopTo(r, "release", stopper[r].kind)
    /\ watchdog' = [watchdog EXCEPT ![r] = Off]
    /\ UNCHANGED <<lockVars, dispatchVars, exec, boundVars>>

\* Wrong: a pause cancels the run but does not release its issue.
PauseKeepsIssue(r) ==
    /\ stopper[r].pc = "release"
    /\ IF stopper[r].kind = "pause"
       THEN UNCHANGED <<runVars, lockVars, dispatchVars>> /\ StopTo(r, "none", "none")
       ELSE ReleaseAndPromote(r) /\ StopTo(r, "finalize", "none")
    /\ UNCHANGED <<agentVars, exec, watchdog, boundVars>>

\* Then the agent is finalized and dispatched, but not after a pause.
StopReleases(r) ==
    /\ stopper[r].pc = "release"
    /\ ReleaseAndPromote(r)
    /\ StopTo(r, IF stopper[r].kind = "pause" THEN "none" ELSE "finalize", "none")
    /\ UNCHANGED <<agentVars, exec, watchdog, boundVars>>

StopEnds(r) ==
    /\ StopTo(r, "none", "none")
    /\ dispatch' = dispatch \cup {runAgent[r]}
    /\ UNCHANGED picked

StopFinalizes(r) ==
    /\ stopper[r].pc = "finalize"
    /\ IF agentStatus[runAgent[r]] = "paused" THEN StopEnds(r)
       ELSE StopTo(r, MarkFor(runAgent[r]), "none") /\ UNCHANGED dispatchVars
    /\ UNCHANGED <<runVars, lockVars, agentVars, exec, watchdog, boundVars>>

StopMarksAgent(r) ==
    /\ stopper[r].pc \in Marks
    /\ WriteMark(runAgent[r], stopper[r].pc)
    /\ StopEnds(r)
    /\ UNCHANGED <<runVars, lockVars, exec, watchdog, boundVars>>

StopStep(r) == StopPersists(r) \/ StopReleases(r) \/ StopFinalizes(r) \/ StopMarksAgent(r)

-----------------------------------------------------------------------------
\* The server process dies and is started again: its memory is lost, the
\* adapter processes it drove with it.
Crash ==
    /\ crashes < MaxCrashes
    /\ crashes' = crashes + 1
    /\ waking' = {}
    /\ dispatch' = {}
    /\ picked' = [a \in Agents |-> NoRun]
    /\ exec' = [r \in RunIds |-> ExecIdle]
    /\ stopper' = [r \in RunIds |-> StopIdle]
    /\ watchdog' = [r \in RunIds |-> Off]
    /\ UNCHANGED <<runVars, lockVars, agentStatus, misread, upsets>>

Next ==
    \/ \E a \in Agents, x \in Scopes : WakeOutsideLock(a, x)
    \/ \E a \in Agents, i \in Issues : WakeOnIssue(a, i)
    \/ \E a \in Agents : PickRun(a) \/ ClaimRun(a) \/ EndDispatch(a) \/ DispatchFails(a)
    \/ \E a \in Agents : Pause(a) \/ Resume(a)
    \/ \E r \in RunIds : ExecStep(r) \/ ExecFails(r) \/ StopStep(r)
    \/ \E r \in RunIds : Cancel(r) \/ Reap(r) \/ WatchdogFires(r)
    \/ \E i \in Issues : CancelParked(i)
    \/ Crash

\* The event loop runs every continuation it has, timers fire, the reaper comes
\* back every interval, and an adapter process ends (its timeout sees to it).
\* Nothing makes anybody wake, cancel, pause, resume or crash.
Fairness ==
    /\ \A r \in RunIds : /\ WF_vars(ExecStep(r)) /\ WF_vars(StopStep(r))
                         /\ WF_vars(Reap(r)) /\ WF_vars(WatchdogFires(r))
    /\ \A a \in Agents : WF_vars(PickRun(a) \/ ClaimRun(a) \/ EndDispatch(a))

Spec == Init /\ [][Next]_vars /\ Fairness

-----------------------------------------------------------------------------
(* Properties.                                                             *)

RunsTypeOK ==
    /\ runStatus \in [RunIds -> Active \cup Terminal \cup {"none"}]
    /\ runAgent \in [RunIds -> Agents \cup {NoAgent}]
    /\ runIssue \in [RunIds -> Scopes]
    /\ onLockPath \in [RunIds -> BOOLEAN]
    /\ nextRun \in 1..(MaxRuns + 1)

LocksTypeOK ==
    /\ lock \in [Issues -> RunIds \cup {NoRun}]
    /\ lockKey \in [Issues -> Agents \cup {NoAgent}]
    /\ deferred \in [Issues -> Seq(Agents)]

ExecStages ==
    [pc : {"none", "launch", "preflight", "adapter", "decide"}, out : {"none"}]
        \cup [pc : {"persist", "catch"}, out : Terminal]
        \cup [pc : {"release", "finalize"} \cup Marks, out : {"none", "caught"}]

StopStages ==
    [pc : {"persist", "release"}, kind : StopKinds]
        \cup [pc : {"none", "finalize"} \cup Marks, kind : {"none"}]

ServerTypeOK ==
    /\ agentStatus \in [Agents -> {"idle", "running", "paused"}]
    /\ waking \in SUBSET Agents /\ misread \in SUBSET Agents
    /\ dispatch \in SUBSET Agents
    /\ picked \in [Agents -> RunIds \cup {NoRun}]
    /\ exec \in [RunIds -> ExecStages]
    /\ stopper \in [RunIds -> StopStages]
    /\ watchdog \in [RunIds -> 0..Off]
    /\ upsets \in 0..MaxUpsets /\ crashes \in 0..MaxCrashes

\* Every variable keeps its type; an executor carries an outcome exactly while it
\* is about to persist it, and a stopper a kind exactly while it is at work.
TypeOK == RunsTypeOK /\ LocksTypeOK /\ ServerTypeOK

\* A row has an agent and an id already given out; only a row is worked on.
RowsAreWhole ==
    \A r \in RunIds : runStatus[r] # "none" => runAgent[r] \in Agents /\ r < nextRun
WorkHasRow ==
    \A r \in RunIds : exec[r].pc # "none" \/ stopper[r].pc # "none" => runStatus[r] # "none"

\* A release is only reached for a run that is over.
ReleasedIsOver ==
    \A r \in RunIds : exec[r].pc = "release" \/ stopper[r].pc = "release" =>
        runStatus[r] \in Terminal

\* A run created under the lock of its issue holds that lock for as long as it
\* is active: no interleaving of wakeups, promotions, cancellations, reaping and
\* restarts gives the issue to another run first.
LockPathHolds ==
    \A r \in RunIds : IsActive(r) /\ onLockPath[r] =>
        runIssue[r] \in Issues /\ lock[runIssue[r]] = r

\* LockPathHolds is inductive together with the facts its steps rest on.
LockInvariant ==
    TypeOK /\ RowsAreWhole /\ WorkHasRow /\ ReleasedIsOver /\ LockPathHolds

\* So at most one run per issue created under the lock is active at a time.
OneLockPathRunPerIssue ==
    \A q, r \in RunIds :
        /\ IsActive(q) /\ onLockPath[q] /\ IsActive(r) /\ onLockPath[r]
        /\ runIssue[q] = runIssue[r]
        => q = r

\* A wakeup is parked only behind a run: releasing the lock of an issue serves
\* or refuses every wakeup parked on it.
ParkedBehindHolder == \A i \in Issues : deferred[i] # << >> => lock[i] # NoRun

\* An agent waits for an issue in one place at most, however often it is woken.
OnePlacePerAgent == \A i \in Issues : Len(deferred[i]) = Cardinality(Parked(i))

\* The dispatcher never starts more runs of an agent than its policy allows,
\* whatever is claimed, stopped or dispatched again meanwhile.
SlotLimit == \A a \in Agents : Cardinality(RunsOf(a, "running")) <= MaxConcurrentRuns

\* Only an active run, or one whose release is still to come, holds an issue: no
\* lock leaks while the server stays up.
NoLeakedLock ==
    \A i \in Issues : lock[i] # NoRun /\ ~IsActive(lock[i]) =>
        \/ exec[lock[i]].pc \in {"preflight", "adapter", "decide", "persist", "catch", "release"}
        \/ stopper[lock[i]].pc \in {"persist", "release"}
        \/ crashes > 0

\* A finished run never becomes active again: not by a late claim of a stale
\* pick, and not by the executor of a run stopped under it.
FinishedStaysFinished ==
    [][\A r \in RunIds : runStatus[r] \in Terminal => runStatus'[r] \in Terminal]_vars

\* The lock of an issue is only ever taken away from a run that is over.
LockLeavesFinishedRun ==
    [][\A i \in Issues : lock'[i] # lock[i] /\ lock[i] # NoRun => ~IsActive(lock[i])]_vars

\* A parked wakeup leaves the queue of its issue by being promoted to the run that
\* holds the issue, by being refused because its agent is paused, or by being
\* called off in a step that does nothing else.
ParkedIsServedOrRefused ==
    [][\A i \in Issues, a \in Agents :
          a \in Parked(i) /\ a \notin Parked(i)' =>
            \/ agentStatus[a] = "paused"
            \/ lock'[i] # lock[i] /\ lock'[i] # NoRun /\ runAgent'[lock'[i]] = a
            \/ UNCHANGED <<runVars, lock, lockKey, agentVars, dispatchVars, exec, stopper, watchdog,
                           boundVars>>
      ]_vars

\* Wakeups parked on an issue keep their order: nobody gets ahead of an agent that
\* waits already, and when the issue changes hands nobody is served, or refused,
\* while an agent ahead of it goes on waiting.
Ahead(queue, a, b) == \E j, k \in 1..Len(queue) : j < k /\ queue[j] = a /\ queue[k] = b
ParkedInOrder ==
    [][\A i \in Issues, a, b \in Agents :
          /\ b \in Parked(i) /\ Ahead(deferred'[i], a, b) => Ahead(deferred[i], a, b)
          /\ Ahead(deferred[i], a, b) /\ a \in Parked(i)' /\ lock'[i] # lock[i] => b \in Parked(i)'
      ]_vars

\* While the server stays up, an agent is shown as running only as long as one
\* of its runs is, or an executor or a cancellation has still to finalize it: no
\* order of claims, finishes and failures leaves it running for good.  A cancelled
\* run may, because a pause does not finalize the agent; and so may a
\* finalization that writes when every run it counted is over (misread).
AgentStatusSettles ==
    \A a \in Agents : agentStatus[a] = "running" =>
        \/ RunsOf(a, "running") # {}
        \/ \E r \in RunIds :
              /\ runAgent[r] = a
              /\ \/ exec[r].pc \notin {"none", "launch", "preflight"}
                 \/ stopper[r].pc \in {"release", "finalize"} \cup Marks
                 \/ runStatus[r] = "cancelled"
        \/ a \in misread
        \/ crashes > 0

\* The lock, as IssueExecutionLock promises it.
RunPhase(r) == IF runStatus[r] = "none" THEN "new" ELSE IF IsActive(r) THEN "live" ELSE "over"
Abstract == INSTANCE IssueExecutionLock WITH
    Runs <- RunIds,
    holder <- lock,
    waiting <- [i \in Issues |-> Parked(i)],
    phase <- [r \in RunIds |-> RunPhase(r)]
ImplementsLock == Abstract!Spec

\* Every run ends, whatever is cancelled, paused or lost in a restart.
EveryRunFinishes ==
    \A r \in RunIds : (runStatus[r] \in Active) ~> (runStatus[r] \in Terminal)

\* Without a restart, a parked wakeup is promoted or refused in the end.
ParkedIsServed ==
    \A i \in Issues, a \in Agents : (a \in Parked(i)) ~> (a \notin Parked(i) \/ crashes > 0)

-----------------------------------------------------------------------------
(* What the repository says of the program, and the code does not do.      *)

\* heartbeat-dispatch-watchdog.test.ts:157-164: a run found cancelled when its
\* executor finishes ends as cancelled.
CancelledStaysCancelled ==
    [][\A r \in RunIds : runStatus[r] = "cancelled" => runStatus'[r] = "cancelled"]_vars

\* agent-runs.md:367: the queue is in the database for restart safety; a wakeup
\* parked there is promoted or refused in the end, over restarts too.
ParkedSurvivesRestart ==
    \A i \in Issues, a \in Agents : (a \in Parked(i)) ~> (a \notin Parked(i))

\* SPEC-implementation.md:346: a paused agent becomes idle, by being resumed.
PausedOnlyBecomesIdle ==
    [][\A a \in Agents : agentStatus[a] = "paused" => agentStatus'[a] \in {"paused", "idle"}]_vars

\* agent-runs.md:746: a pause (or a cancellation) interrupts the local process of
\* a run; none is started for a run that is over.
NoAdapterForFinishedRun ==
    [][\A r \in RunIds :
          exec[r].pc # "adapter" /\ exec'[r].pc = "adapter" => IsActive(r)]_vars

\* heartbeat-runtime-utils.ts:123: a run is lost because the server restarted.
LostOnlyByRestart ==
    \A r \in RunIds : stopper[r].kind = "reap" => crashes > 0
================================================================================

------------------------------ MODULE RunRecovery ------------------------------
(***************************************************************************)
(* Follow-up runs: what the server does with an agent that was woken for a *)
(* message of the protocol and does not answer it.                         *)
(*                                                                         *)
(* The context of a run says what its message asks for, its lane, and      *)
(* counts the automatic runs that led to it.  When the adapter returns,    *)
(* the executor looks at what the agent has said and may wake the agent    *)
(* again; a watchdog does so for a run whose adapter hangs, and cancels    *)
(* it.  Each works from a copy of the context it has read before, wakeups  *)
(* of a busy issue are parked and merged, and the process of a cancelled   *)
(* run may go on speaking.  The question is whether the budgets still      *)
(* bound the runs, and whether a lane nobody has answered is dropped only  *)
(* where the code gives it up.                                             *)
(*                                                                         *)
(* One agent and one issue, whose workflow passes through the lanes of     *)
(* plan; stage is the lane it is in.  Queue, slots, pauses and restarts    *)
(* are those of HeartbeatRuns and left out; so are the runs of other       *)
(* agents, such as the lead that is told of a failed run.                  *)
(***************************************************************************)
EXTENDS Naturals, Sequences, FiniteSets

CONSTANTS
    Plans,           \* the sequences of lanes a workflow may ask the agent for
    RetryLimit,      \* PROTOCOL_REQUIRED_RETRY_LIMIT, 1 in the code
    LongRetryLimit,  \* IMPLEMENTATION_PROTOCOL_REQUIRED_RETRY_LIMIT, 3
    ProgressLimit,   \* IMPLEMENTATION_PROGRESS_FOLLOWUP_LIMIT, 2
    AdapterLimit,    \* RETRYABLE_ADAPTER_FAILURE_LIMIT, 2
    AutoAssist,      \* does the server answer for a degraded run?
    MaxRuns,         \* bound: rows in use at a time; a wakeup waits for a free one
    MaxStops,        \* bound: runs being stopped, and executors whose run is over
    MaxMessages      \* bound: lanes of the plan and reminders of the timeout worker

LaneKinds == {"assignment", "routing", "implementation", "review", "closing"}

ASSUME PlansAssumption == Plans \subseteq Seq(LaneKinds) \ {<< >>}
ASSUME LimitAssumption ==
    /\ RetryLimit \in Nat /\ LongRetryLimit \in Nat /\ RetryLimit <= LongRetryLimit
    /\ ProgressLimit \in Nat /\ AdapterLimit \in Nat /\ AutoAssist \in BOOLEAN
ASSUME RecoveryBoundAssumption ==
    MaxRuns \in Nat /\ MaxStops \in Nat /\ MaxMessages \in Nat

NoRun == 0
RunIds == 1..MaxRuns
Active == {"queued", "running"}
DegradedLimit == 1  \* a literal in shouldRecoverDegradedProtocolRun

\* Who stops a run: the watchdog, a timer of the run and a sweep over all runs
\* that call the same two recoveries, the lease heartbeat of the executor, and
\* the route that a message was posted by.
Keepers == {"watchdog", "lease", "route"}

VARIABLES
    plan,      \* the lanes of this workflow, never changed
    stage,     \* the lane it is in, Len(plan) + 1 when it has left them all
    mail,      \* lanes whose message is posted and not yet dispatched
    status,    \* heartbeat_runs.status; a row that is over is used again
    row,       \* heartbeat_runs.context_snapshot, until the run is over
    lock,      \* issues.execution_run_id
    parked,    \* context of the deferred wakeup, or NoContext
    chosen,    \* whether a route is about to call that wakeup off
    executor,  \* where executeRun of a run is
    mem,       \* the context it has read, then the one it is about to send
    said,      \* how the agent has answered the run's lane since the run began
    keeper,    \* the recovery or cancellation a keeper is in the middle of
    reminders, \* how many there were
    excused    \* ghost: the code has given up the stage, or lost it

vars == <<plan, stage, mail, status, row, lock, parked, chosen, executor, mem, said,
          keeper, reminders, excused>>

-----------------------------------------------------------------------------
(* Contexts.  Lane 0 is that of a reminder, which asks for nothing; a      *)
(* counter is 0 where the context has none.  hops is a ghost: the number   *)
(* of automatic follow-ups since the message.                              *)

Reasons == {"adapter_retry", "other"}
Context ==
    [lane : Nat, retries : 0..(LongRetryLimit + DegradedLimit), degraded : 0..DegradedLimit,
     progress : 0..ProgressLimit, adapter : 0..AdapterLimit,
     forced : BOOLEAN, reason : Reasons, hops : Nat]

Kind(l) == IF l \in DOMAIN plan THEN plan[l] ELSE "none"
HasPartial(k) == k \in {"assignment", "review", "implementation"}
Intermediate(k) == k \in {"assignment", "review"}
Supervisory(k) == k \in {"review", "closing"}
LimitOf(k) == IF k = "implementation" THEN LongRetryLimit ELSE RetryLimit

InLane(c) == c.lane = stage /\ Kind(c.lane) # "none"
IsSuperseded(c) == Kind(c.lane) # "none" /\ ~InLane(c)
\* Wrong: the limit is checked as if the retry had been counted already.
MayRetryOnce(c) == InLane(c) /\ c.retries <= LimitOf(Kind(c.lane))
MayRetry(c) == InLane(c) /\ c.retries < LimitOf(Kind(c.lane))
Closed == stage > Len(plan) /\ plan[Len(plan)] = "closing"

NoContext == [lane |-> 0, retries |-> 0, degraded |-> 0, progress |-> 0, adapter |-> 0,
              forced |-> TRUE, reason |-> "other", hops |-> 0]

\* The wakeup of a message: some kinds ask for a run of their own.
Message(l) ==
    [NoContext EXCEPT !.lane = l,
                      !.forced = Kind(l) \in {"implementation", "review", "closing"}]

Again(c, why) == [c EXCEPT !.forced = TRUE, !.reason = why, !.hops = @ + 1]
Retry(c) == [Again(c, "other") EXCEPT !.retries = @ + 1]
DegradedRetry(c) == [Retry(c) EXCEPT !.degraded = @ + 1]
Followup(c) == [Again(c, "other") EXCEPT !.progress = @ + 1]
\* Wrong: the copied context keeps its old count.
AdapterRetryUncounted(c) == Again(c, "adapter_retry")
AdapterRetry(c) == [Again(c, "adapter_retry") EXCEPT !.adapter = @ + 1]

\* The incoming context written over the existing one, key by key.
Later(old, new) == IF new > 0 THEN new ELSE old
\* Wrong: a retry that is parked stays one for its own message.
MergeKeepsLane(old, new) ==
    [old EXCEPT !.retries = Later(@, new.retries), !.forced = @ \/ new.forced]
Merge(old, new) ==
    [new EXCEPT !.retries = Later(old.retries, @), !.degraded = Later(old.degraded, @),
                !.progress = Later(old.progress, @), !.adapter = Later(old.adapter, @),
                !.forced = old.forced \/ @]

-----------------------------------------------------------------------------
(* Wakeups, as HeartbeatRuns has them for one agent and one issue.         *)

Held == lock # NoRun /\ status[lock] \in Active
ExcusedIf(holds) == excused' = (excused \/ holds)

\* Rows nobody works with or refers to.
FreeRuns ==
    {r \in RunIds : /\ status[r] = "over" /\ executor[r] = "none" /\ lock # r
                    /\ \A k \in Keepers : keeper[k].run # r}

Create(c) ==
    /\ FreeRuns # {}
    /\ LET r == CHOOSE i \in FreeRuns : TRUE
       IN  /\ status' = [status EXCEPT ![r] = "queued"]
           /\ row' = [row EXCEPT ![r] = c]
           /\ lock' = r

\* A forced wakeup is parked behind the run that holds the issue, in the same row
\* if one is parked already; another is merged into that run, which may have
\* read its context long ago.
Park(c) ==
    /\ parked' = IF parked = NoContext THEN c ELSE Merge(parked, c)
    /\ ExcusedIf(parked # NoContext /\ InLane(parked) /\ c.lane # stage)
    /\ UNCHANGED <<status, row, lock, chosen>>

Coalesce(c) ==
    /\ row' = [row EXCEPT ![lock] = Merge(@, c)]
    /\ IF executor[lock] = "none"
       THEN ExcusedIf(InLane(row[lock]) /\ c.lane # stage)
       ELSE ExcusedIf(InLane(c))
    /\ UNCHANGED <<status, lock, parked, chosen>>

Enqueue(c) ==
    \/ ~Held /\ Create(c) /\ UNCHANGED <<parked, chosen, excused>>
    \/ Held /\ c.forced /\ Park(c)
    \/ Held /\ ~c.forced /\ Coalesce(c)

\* Wrong: the lock is cleared and nobody promoted.
ReleaseOnly(r) ==
    /\ lock' = IF lock = r THEN NoRun ELSE lock
    /\ UNCHANGED <<status, row, parked, chosen>>
Release(r) ==
    IF lock # r THEN UNCHANGED <<status, row, lock, parked, chosen>>
    ELSE IF parked = NoContext
    THEN lock' = NoRun /\ UNCHANGED <<status, row, parked, chosen>>
    ELSE Create(parked) /\ parked' = NoContext /\ chosen' = FALSE

\* The run is over, and its context of no more use.
Over(r) ==
    /\ status' = [status EXCEPT ![r] = "over"]
    /\ row' = [row EXCEPT ![r] = NoContext]

\* The executor has decided: it keeps what it is about to send.
Forget(r, c) ==
    /\ mem' = [mem EXCEPT ![r] = c]
    /\ said' = [said EXCEPT ![r] = {}]

Deliver(l) ==
    /\ l \in mail
    /\ mail' = mail \ {l}
    /\ Enqueue(Message(l))
    /\ UNCHANGED <<plan, stage, executor, mem, said, keeper, reminders>>

Remind ==
    /\ Len(plan) + reminders < MaxMessages /\ stage <= Len(plan)
    /\ reminders' = reminders + 1
    /\ Enqueue(Message(0))
    /\ UNCHANGED <<plan, stage, mail, executor, mem, said, keeper>>

-----------------------------------------------------------------------------
(* The executor of a run.                                                  *)

ExecutorAt(r, here, there) == executor[r] = here /\ executor' = [executor EXCEPT ![r] = there]

Begin(r) ==
    /\ status[r] = "queued"
    /\ ExecutorAt(r, "none", "begun")
    /\ status' = [status EXCEPT ![r] = "running"]
    /\ mem' = [mem EXCEPT ![r] = row[r]]
    /\ UNCHANGED <<plan, stage, mail, row, lock, parked, chosen, said, keeper, reminders, excused>>

\* The preflight writes the context back as it was read.
Enter(r) ==
    /\ ~IsSuperseded(mem[r])
    /\ ExecutorAt(r, "begun", "adapter")
    /\ row' = [row EXCEPT ![r] = IF status[r] = "over" THEN @ ELSE mem[r]]
    /\ UNCHANGED <<plan, stage, mail, status, lock, parked, chosen, mem, said, keeper,
                   reminders, excused>>

Superseded(r) ==
    /\ IsSuperseded(mem[r])
    /\ ExecutorAt(r, "begun", "releasing")
    /\ Over(r) /\ Forget(r, NoContext)
    /\ UNCHANGED <<plan, stage, mail, lock, parked, chosen, keeper, reminders, excused>>

\* The workflow moves on, and asks the agent for the next lane if there is one.
Advance ==
    /\ stage' = stage + 1
    /\ mail' = IF stage < Len(plan) THEN mail \cup {stage + 1} ELSE mail
    /\ excused' = FALSE

Hears(r) == executor[r] \in {"begun", "adapter"}
Listen(what) ==
    said' = [r \in RunIds |->
                IF Hears(r) THEN said[r] \cup {IF mem[r].lane = stage THEN what ELSE "other"}
                            ELSE said[r]]

\* The agent answers, from the process of any run that is still alive.
Speak(r, what) ==
    /\ executor[r] = "adapter" /\ stage <= Len(plan)
    /\ Listen(what)
    /\ \/ what = "full" /\ Advance
       \/ /\ what = "partial" /\ HasPartial(Kind(stage))
          /\ UNCHANGED <<stage, mail, excused>>
    /\ UNCHANGED <<plan, status, row, lock, parked, chosen, executor, mem, keeper, reminders>>

\* hasRequiredProtocolProgress of what was said in the run's lane.
Satisfied(r) ==
    /\ said[r] \cap {"partial", "full"} # {}
    /\ said[r] = {"partial"} /\ Intermediate(Kind(mem[r].lane)) => ~InLane(mem[r])

WantsRetry(r) == MayRetry(mem[r]) /\ ~Satisfied(r)
WantsFollowup(r) ==
    /\ InLane(mem[r]) /\ Kind(stage) = "implementation"
    /\ mem[r].forced /\ mem[r].progress < ProgressLimit
    /\ said[r] = {"partial"}

\* Where the executor gives up a lane that is not answered: its agent has had the
\* retries of the lane, or the follow-ups on an answer in part, or the adapter has
\* failed too often, or in a way that is not worth a retry.
GivesUp(r, result) ==
    /\ InLane(mem[r])
    /\ \/ result = "failed"
       \/ result = "incomplete" /\ mem[r].adapter = AdapterLimit
       \/ result = "ok" /\ mem[r].retries >= LimitOf(Kind(stage))
       \/ /\ result = "ok" /\ Kind(stage) = "implementation" /\ "partial" \in said[r]
          /\ mem[r].progress = ProgressLimit

\* The adapter returns and the executor decides what to send.  A process that
\* was killed has no exit code, which counts as success.
AdapterReturns(r, result) ==
    LET sends(c) == /\ ExecutorAt(r, "adapter", "sending")
                    /\ Forget(r, c)
                    /\ UNCHANGED excused
        retry == result = "ok" /\ WantsRetry(r)
        followup == result = "ok" /\ WantsFollowup(r)
        again == result = "incomplete" /\ mem[r].adapter < AdapterLimit /\ ~Closed
    IN  /\ \/ retry /\ sends(Retry(mem[r]))
           \/ followup /\ sends(Followup(mem[r]))
           \/ again /\ sends(AdapterRetry(mem[r]))
           \/ /\ ~retry /\ ~followup /\ ~again
              /\ ExecutorAt(r, "adapter", "sent")
              /\ ExcusedIf(GivesUp(r, result))
              /\ Forget(r, NoContext)
        /\ UNCHANGED <<plan, stage, mail, status, row, lock, parked, chosen, keeper, reminders>>

Send(r) ==
    /\ ExecutorAt(r, "sending", "sent")
    /\ Enqueue(mem[r])
    /\ Forget(r, NoContext)
    /\ UNCHANGED <<plan, stage, mail, keeper, reminders>>

Persist(r) ==
    /\ ExecutorAt(r, "sent", "releasing")
    /\ Over(r)
    /\ UNCHANGED <<plan, stage, mail, lock, parked, chosen, mem, said, keeper, reminders,
                   excused>>

EndRun(r) ==
    /\ ExecutorAt(r, "releasing", "none")
    /\ Release(r)
    /\ UNCHANGED <<plan, stage, mail, mem, said, keeper, reminders, excused>>

-----------------------------------------------------------------------------
(* Who stops a run.                                                        *)

NotKeeping == [pc |-> "idle", run |-> NoRun, context |-> NoContext]
Keep(k, pc, r) == keeper' = [keeper EXCEPT ![k] = [NotKeeping EXCEPT !.pc = pc, !.run = r]]

\* A run works on the lane that the workflow is in.
Attends(r) ==
    /\ status[r] \in Active
    /\ \/ executor[r] = "none" /\ row[r].lane = stage
       \/ executor[r] \in {"begun", "adapter", "sending"} /\ mem[r].lane = stage

\* The bound on stopping: executors whose run is over, and keepers at work.
Lingering == {r \in RunIds : status[r] = "over" /\ executor[r] # "none"}
Busy == {k \in Keepers : keeper[k] # NotKeeping}
CanStop(k) == k \notin Busy /\ Cardinality(Busy) + Cardinality(Lingering) < MaxStops

\* The adapter hangs: the watchdog asks for another run, then cancels this one.
Hangs(r) == status[r] = "running" /\ executor[r] = "adapter"

Stalls(r) ==
    /\ Hangs(r) /\ MayRetry(row[r])
    /\ Kind(stage) = "implementation" => said[r] \subseteq {"partial"}

IsDegraded(r) ==
    /\ Hangs(r) /\ InLane(row[r]) /\ Kind(stage) # "implementation"
    /\ row[r].degraded < DegradedLimit
    /\ \/ row[r].reason = "adapter_retry" /\ row[r].adapter > 0
       \/ Supervisory(Kind(stage))

\* A recovery reads, wakes the agent and cancels the run, on what it has read.
WillWake(r, c) ==
    keeper' = [keeper EXCEPT !["watchdog"] = [pc |-> "wake", run |-> r, context |-> c]]

Look(r) ==
    /\ CanStop("watchdog")
    /\ \/ Stalls(r) /\ WillWake(r, Retry(row[r]))
       \/ IsDegraded(r) /\ WillWake(r, DegradedRetry(row[r]))
    /\ UNCHANGED <<plan, stage, mail, status, row, lock, parked, chosen, executor, mem, said,
                   reminders, excused>>

Wake(k) ==
    /\ keeper[k].pc = "wake"
    /\ Enqueue(keeper[k].context)
    /\ Keep(k, "cancel", keeper[k].run)
    /\ UNCHANGED <<plan, stage, mail, executor, mem, said, reminders>>

\* With auto-assist the server answers in the agent's place.
Assist(r) ==
    /\ AutoAssist /\ CanStop("watchdog") /\ IsDegraded(r)
    /\ Listen("full") /\ Advance
    /\ Keep("watchdog", "cancel", r)
    /\ UNCHANGED <<plan, status, row, lock, parked, chosen, executor, mem, reminders>>

\* The lease heartbeat, for a run whose lane the workflow has left (it may do so
\* for one that is over too, and nothing happens).
CancelSuperseded(r) ==
    /\ CanStop("lease")
    /\ executor[r] = "adapter" /\ IsSuperseded(mem[r])
    /\ status[r] \in Active
    /\ Keep("lease", "cancel", r)
    /\ UNCHANGED <<plan, stage, mail, status, row, lock, parked, chosen, executor, mem, said,
                   reminders, excused>>

\* cancelSupersededIssueFollowups, by the route of a message: it selects the runs
\* whose context is of a lane the workflow has left, ...
CancelFollowup(r) ==
    /\ CanStop("route")
    /\ status[r] \in Active /\ IsSuperseded(row[r])
    /\ Keep("route", "cancel", r)
    /\ UNCHANGED <<plan, stage, mail, status, row, lock, parked, chosen, executor, mem,
                   said, reminders, excused>>

\* ... and before them the parked wakeups, but for those of an adapter's retry, ...
ChooseParked ==
    /\ ~chosen /\ parked # NoContext
    /\ IsSuperseded(parked) /\ parked.reason # "adapter_retry"
    /\ chosen' = TRUE
    /\ UNCHANGED <<plan, stage, mail, status, row, lock, parked, executor, mem, said,
                   keeper, reminders, excused>>

\* ... which it cancels by their id, whatever was merged into them since.
CancelParked ==
    /\ chosen
    /\ parked' = NoContext /\ chosen' = FALSE
    /\ ExcusedIf(InLane(parked))
    /\ UNCHANGED <<plan, stage, mail, status, row, lock, executor, mem, said, keeper,
                   reminders>>

\* cancelRunInternal: nothing happens to a run that is over.  A route may have
\* selected it before the message of the current lane was merged into it.
CancelRun(k) ==
    LET r == keeper[k].run
    IN  /\ keeper[k].pc = "cancel"
        /\ IF status[r] \in Active
           THEN Over(r) /\ Keep(k, "release", r)
           ELSE keeper' = [keeper EXCEPT ![k] = NotKeeping] /\ UNCHANGED <<status, row>>
        /\ ExcusedIf(k = "route" /\ Attends(r))
        /\ UNCHANGED <<plan, stage, mail, lock, parked, chosen, executor, mem, said, reminders>>

FinishCancel(k) ==
    /\ keeper[k].pc = "release"
    /\ Release(keeper[k].run)
    /\ keeper' = [keeper EXCEPT ![k] = NotKeeping]
    /\ UNCHANGED <<plan, stage, mail, executor, mem, said, reminders, excused>>

-----------------------------------------------------------------------------

\* The first message is on its way.
RecoveryInit ==
    /\ plan \in Plans /\ stage = 1 /\ mail = {1}
    /\ status = [r \in RunIds |-> "over"]
    /\ row = [r \in RunIds |-> NoContext]
    /\ lock = NoRun /\ parked = NoContext /\ chosen = FALSE
    /\ executor = [r \in RunIds |-> "none"]
    /\ mem = [r \in RunIds |-> NoContext]
    /\ said = [r \in RunIds |-> {}]
    /\ keeper = [k \in Keepers |-> NotKeeping]
    /\ reminders = 0 /\ excused = FALSE

Results == {"ok", "incomplete", "failed"}
Returns(r) == \E result \in Results : AdapterReturns(r, result)

Executes(r) ==
    \/ Begin(r) \/ Enter(r) \/ Superseded(r) \/ Returns(r) \/ Send(r) \/ Persist(r)
    \/ EndRun(r)
Stops(k) == Wake(k) \/ CancelRun(k) \/ FinishCancel(k)

RecoveryNext ==
    \/ \E l \in mail : Deliver(l)
    \/ Remind
    \/ \E r \in RunIds :
          \/ Executes(r)
          \/ \E what \in {"partial", "full"} : Speak(r, what)
          \/ Look(r) \/ Assist(r) \/ CancelSuperseded(r) \/ CancelFollowup(r)
    \/ \E k \in Keepers : Stops(k)
    \/ ChooseParked \/ CancelParked

\* What has been started goes on: a message is dispatched, an adapter returns
\* sooner or later, an executor and a keeper carry out what they have begun.
\* Nothing obliges an agent to speak or a watchdog to look.
RecoveryFairness ==
    WF_vars(\/ \E l \in mail : Deliver(l)
            \/ \E r \in RunIds : Executes(r)
            \/ \E k \in Keepers : Stops(k)
            \/ CancelParked)

RecoverySpec == RecoveryInit /\ [][RecoveryNext]_vars /\ RecoveryFairness

-----------------------------------------------------------------------------
(* Properties.                                                             *)

\* Every context is within the budgets of the code, whatever was merged into it
\* and however stale the copy a follow-up was counted on.
RecoveryTypeOK ==
    /\ plan \in Plans /\ stage \in Nat \ {0} /\ mail \subseteq Nat \ {0}
    /\ lock \in 0..MaxRuns /\ status \in [RunIds -> Active \cup {"over"}]
    /\ row \in [RunIds -> Context] /\ mem \in [RunIds -> Context] /\ parked \in Context
    /\ chosen \in BOOLEAN
    /\ executor \in [RunIds -> {"none", "begun", "adapter", "sending", "sent", "releasing"}]
    /\ said \in [RunIds -> SUBSET {"partial", "full", "other"}]
    /\ keeper \in [Keepers -> [pc : {"idle", "wake", "cancel", "release"},
                              run : 0..MaxRuns, context : Context]]
    /\ reminders \in Nat /\ excused \in BOOLEAN

\* A chain of automatic follow-ups is no longer than the budgets together: the
\* executor, the watchdog and the merging of wakeups each carry counters over,
\* and none of them starts a chain anew without a message.
ChainLimit == LongRetryLimit + DegradedLimit + ProgressLimit + AdapterLimit
ChainIsBounded ==
    /\ parked.hops <= ChainLimit
    /\ \A r \in RunIds : row[r].hops <= ChainLimit /\ mem[r].hops <= ChainLimit
    /\ \A k \in Keepers : keeper[k].context.hops <= ChainLimit

\* A lane the agent has not answered is posted, parked or worked on, unless the
\* code has given it up or lost it.  It is given up when the budget for it is
\* spent, or its adapter fails in a way that is not retried, spent or not
\* (GivesUp).  It is lost when its wakeup is merged with one of another lane or
\* into a run under way, and when a route cancels a wakeup or a run that it has
\* selected as one of a lane left, and the current one was merged into since.
Attended ==
    \/ stage \in mail
    \/ parked # NoContext /\ parked.lane = stage
    \/ \E r \in RunIds : Attends(r)
StageIsAttended == stage <= Len(plan) /\ ~excused => Attended

\* The server comes to rest: it does not wake the agent for ever, and leaves no
\* wakeup parked, no run queued and no cancellation half done.
AtRest ==
    /\ mail = {} /\ parked = NoContext
    /\ \A r \in RunIds : status[r] = "over" /\ executor[r] = "none"
    /\ \A k \in Keepers : keeper[k] = NotKeeping
ComesToRest == <>[]AtRest
================================================================================

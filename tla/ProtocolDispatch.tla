---------------------------- MODULE ProtocolDispatch ----------------------------
(***************************************************************************)
(* How the messages of one issue reach the agents they are addressed to.   *)
(* appendMessage writes an outbox row with every message.  The route that  *)
(* posted it dispatches it at once and settles its row; rows that nobody   *)
(* settled fall due and are taken up by the reconciliation sweeps, which   *)
(* look for evidence of an earlier dispatch first.  The timeout worker and *)
(* auto-assist dispatch what they post, too, but leave the row to sweeps.  *)
(* A CANCEL_TASK has no row and is not dispatched.                         *)
(*                                                                         *)
(* A dispatch wakes the agents of the message's plan one by one and stops  *)
(* where a wakeup throws.  The server may crash at any point; its rows and *)
(* the work that it recorded stay.                                         *)
(***************************************************************************)
EXTENDS Naturals, SequencesExt

CONSTANTS
    Messages, NoMessage,
    SystemMessages,   \* messages of the timeout worker and auto-assist
    Reroutes,         \* messages that a dispatch may post instead, by message
    Effect,           \* "moves" the issue, "keeps" its state, "blocks" or "closes" it
    Agents,
    Plan,             \* the agents that a message is to wake, in order, each once
    Unsupported,      \* agents that do not exist or have no adapter for it: skipped
    NotInvokable,     \* agents whose wakeup always throws, as long as they are paused
    MaySkip,          \* agents that may be counted as woken although they are not
    Sweeps,           \* reconciliation sweeps that may run at once
    BatchSize,        \* rows a sweep takes up
    HasDependencies,  \* whether the issue depends on others that are unfinished at first
    MaxFaults         \* bound: errors, but for agents that are not invokable, and crashes

Rerouting == UNION {Reroutes[m] : m \in Messages}
Dispatchers == Messages \cup Sweeps   \* who posted a message is named by it

ASSUME MessagesAssumption == NoMessage \notin Messages /\ Messages \cap Sweeps = {}
ASSUME ReroutesAssumption ==
    /\ Reroutes \in [Messages -> SUBSET Messages]
    /\ SystemMessages \subseteq {m \in Messages : Reroutes[m] = {}} \ Rerouting
ASSUME EffectAssumption ==
    /\ Effect \in [Messages -> {"moves", "keeps", "blocks", "closes"}]
    /\ \A m \in Messages : Reroutes[m] # {} \/ m \in Rerouting => Effect[m] = "moves"
ASSUME PlanAssumption ==
    /\ Plan \in [Messages -> Seq(Agents)]
    /\ \A m \in Messages : \A i, j \in 1..Len(Plan[m]) : Plan[m][i] = Plan[m][j] => i = j
ASSUME BoundsAssumption ==
    /\ BatchSize \in Nat \ {0} /\ HasDependencies \in BOOLEAN
    /\ MaxFaults \in Nat

VARIABLES
    row,        \* issue_protocol_dispatch_outbox.status, or why it is "no_action";
                \* "none" before the message
    due,        \* the rows to dispatch whose notBefore is past, in its order
    job,        \* what each dispatcher is about
    todo,       \* the rest of the rows a sweep has loaded
    live,       \* agents with a wakeup or run on record for a message
    wakeups,    \* how often an agent was woken for a message, up to two
    skipped,    \* agents that were counted for a message, but not woken
    held,       \* messages logged as "blocked_by_dependency"
    closed,     \* whether the issue is done or cancelled
    blockedBy,  \* issue_protocol_state.blocked_by_message_id
    depends,    \* whether issues that this one depends on are unfinished
    faults,     \* errors and crashes so far
    timely      \* whether dispatches end before their row falls due and sweeps in turn

rowVars == <<row, due>>
workVars == <<live, wakeups, skipped, held>>
issueVars == <<closed, blockedBy, depends>>
boundVars == <<faults, timely>>
vars == <<rowVars, job, todo, workVars, issueVars, boundVars>>

\* Wrong: a row that is settled by its dispatch is taken up again.
NotWithoutAction == {"pending", "failed", "dispatched"}

Unsettled == {"pending", "failed"}
\* The reason in dispatch_result that goes with "no_action".
NoAction == {"terminal_issue", "blocked_by_same_message", "no_wakeup_targets", "queued_zero",
             "rerouted_before_retrieval"}
Settled == {"dispatched"} \cup NoAction

\* A dispatcher is about a message, maybe posted in place of another (first); it
\* still has to wake the agents left, and has woken some of the plan (queued).
Job(pc, message, first, left) ==
    [pc |-> pc, message |-> message, first |-> first, left |-> left, queued |-> FALSE]
Idle == Job("idle", NoMessage, NoMessage, <<>>)

\* What may be rerouted is not sent before that is decided.
Sending(m, first) == Job("sending", m, first, Plan[m])
Start(m) == IF Reroutes[m] = {} THEN Sending(m, NoMessage) ELSE Job("deciding", m, NoMessage, <<>>)
At(d, pc) == job[d].pc = pc
Does(d, j) == job' = [job EXCEPT ![d] = j]

\* Nothing has come of a dispatch yet.
IsNew(d) == At(d, "sending") /\ job[d].left = Plan[job[d].message]

IsBusyWith(m) == \E d \in Dispatchers : m \in {job[d].message, job[d].first}

DispatchInit ==
    /\ row = [m \in Messages |-> "none"]
    /\ due = <<>>
    /\ job = [d \in Dispatchers |-> Idle]
    /\ todo = [s \in Sweeps |-> <<>>]
    /\ live = [m \in Messages |-> {}]
    /\ wakeups = [m \in Messages |-> [a \in Agents |-> 0]]
    /\ skipped = [m \in Messages |-> {}]
    /\ held = {}
    /\ closed = FALSE /\ blockedBy = NoMessage /\ depends = HasDependencies
    /\ faults = 0
    /\ timely \in BOOLEAN

-----------------------------------------------------------------------------
(* The outbox.                                                             *)

\* enqueueProtocolDispatchOutboxTx, in the transaction of the message.
Enqueue(m) ==
    /\ row' = [row EXCEPT ![m] = "pending"]
    /\ UNCHANGED due

\* A sequence without an element that it has once, if at all.
Without(s, m) == IF m \in Range(s) THEN RemoveAt(s, CHOOSE i \in DOMAIN s : s[i] = m) ELSE s

\* Wrong: the status is the one that the design names.
SettleAsSent(m, status) ==
    /\ row' = [row EXCEPT ![m] = IF status = "dispatched" THEN "sent" ELSE status]
    /\ due' = Without(due, m)

\* Wrong: a row is due whatever its status.
SettleQueued(m, status) ==
    /\ row' = [row EXCEPT ![m] = status]
    /\ UNCHANGED due

\* markDispatched and markNoAction, whatever the row was.
Settle(m, status) ==
    /\ row' = [row EXCEPT ![m] = status]
    /\ due' = Without(due, m)

\* markPendingRetryNow, by a route.
RetryNow(m) ==
    /\ row' = [row EXCEPT ![m] = "pending"]
    /\ due' = Append(Without(due, m), m)

\* Wrong: a row that failed keeps its place.
RetryFirst(m) ==
    /\ row' = [row EXCEPT ![m] = "failed"]
    /\ UNCHANGED due

\* markFailed, by a sweep.
RetryLater(m) ==
    /\ row' = [row EXCEPT ![m] = "failed"]
    /\ due' = Without(due, m)

\* Time passes, and a row falls due.
FallsDue(m) ==
    /\ row[m] \in Unsettled /\ m \notin Range(due)
    /\ timely => ~IsBusyWith(m)
    /\ due' = Append(due, m)
    /\ UNCHANGED <<row, job, todo, workVars, issueVars, boundVars>>

-----------------------------------------------------------------------------
(* Who posts a message dispatches it.                                      *)

\* createAndDispatchProtocolMessage, or appendAndDispatchSystemMessage.  An issue that
\* was blocked and stays so is blocked by the latest message.
Post(m) ==
    /\ row[m] = "none" /\ m \notin Rerouting
    /\ closed => Effect[m] = "keeps"
    /\ Enqueue(m)
    /\ Does(m, Start(m))
    /\ closed' = (closed \/ Effect[m] = "closes")
    /\ blockedBy' = IF Effect[m] = "blocks" \/ (Effect[m] = "keeps" /\ blockedBy # NoMessage)
                    THEN m ELSE NoMessage
    /\ UNCHANGED <<todo, workVars, depends, boundVars>>

\* An error or a crash.
Fault == faults < MaxFaults /\ faults' = faults + 1 /\ UNCHANGED timely

\* Something throws that the route does between the message and its dispatch.
Abandon(m) ==
    /\ m \notin SystemMessages /\ job[m] = Start(m) /\ Fault
    /\ Does(m, Idle)
    /\ UNCHANGED <<rowVars, todo, workVars, issueVars>>

-----------------------------------------------------------------------------
(* The reconciliation.                                                     *)

IsSweeping(s) == todo[s] # <<>> \/ ~At(s, "idle")

\* listDuePending.
Load(s) ==
    /\ ~IsSweeping(s) /\ due # <<>>
    /\ timely => \A other \in Sweeps : ~IsSweeping(other)
    /\ todo' = [todo EXCEPT
                    ![s] = SubSeq(due, 1, IF BatchSize < Len(due) THEN BatchSize ELSE Len(due))]
    /\ UNCHANGED <<rowVars, job, workVars, issueVars, boundVars>>

\* Wrong: any work on the issue is evidence.
HasWorkOnIssue(m) == \E other \in Messages : live[other] # {}

\* Wrong: a row that is not settled has not been dispatched.
HasNone(m) == FALSE

\* hasDispatchEvidence: a wakeup or run that is not over names the message.
HasEvidence(m) == live[m] # {}

\* Why there is nothing to do for a row.
Needless(m) ==
    CASE closed -> "terminal_issue"
      [] ~closed /\ blockedBy = m -> "blocked_by_same_message"
      [] ~closed /\ blockedBy # m /\ Plan[m] = <<>> -> "no_wakeup_targets"
      [] OTHER -> "needed"

\* The next row of a sweep is settled, or its message is dispatched once more; what
\* was read of the issue and the work may be stale by then.
Take(s) ==
    LET m == Head(todo[s])
    IN  /\ At(s, "idle") /\ todo[s] # <<>>
        /\ todo' = [todo EXCEPT ![s] = Tail(@)]
        /\ \/ HasEvidence(m) /\ Settle(m, "dispatched") /\ UNCHANGED job
           \/ /\ ~HasEvidence(m) /\ Needless(m) # "needed"
              /\ Settle(m, Needless(m)) /\ UNCHANGED job
           \/ /\ ~HasEvidence(m) /\ Needless(m) = "needed"
              /\ Does(s, Start(m)) /\ UNCHANGED rowVars
        /\ UNCHANGED <<workVars, issueVars, boundVars>>

-----------------------------------------------------------------------------
(* A dispatch.                                                             *)

\* maybeApplyPreRetrievalSupervisorReroute posts another message, as often as it is
\* asked while the issue is just assigned...
Reroute(d) ==
    LET m == job[d].message
    IN  /\ At(d, "deciding") /\ ~closed /\ blockedBy = NoMessage
        /\ \E r \in Reroutes[m] :
              /\ row[r] = "none" /\ Enqueue(r)
              /\ Does(d, Job("rerouted", r, m, <<>>))
        /\ UNCHANGED <<todo, workVars, issueVars, boundVars>>

\* ... or finds no engineer to reroute to: the message is sent itself.
KeepMessage(d) ==
    /\ At(d, "deciding")
    /\ Does(d, Sending(job[d].message, NoMessage))
    /\ UNCHANGED <<rowVars, todo, workVars, issueVars, boundVars>>

\* The message that was rerouted is settled, and the other is sent.
SettleRerouted(d) ==
    /\ At(d, "rerouted")
    /\ Settle(job[d].first, "rerouted_before_retrieval")
    /\ Does(d, Sending(job[d].message, job[d].first))
    /\ UNCHANGED <<todo, workVars, issueVars, boundVars>>

\* Before it wakes anybody, dispatchMessage blocks an issue that depends on others,
\* whatever its state.
BlockOnDependencies(d) ==
    LET m == job[d].message
    IN  /\ depends
        /\ IsNew(d) /\ Plan[m] # <<>>
        /\ job' = [job EXCEPT ![d].left = <<>>]
        /\ blockedBy' = m /\ closed' = FALSE
        /\ held' = held \cup {m}
        /\ UNCHANGED <<rowVars, todo, live, wakeups, skipped, depends, boundVars>>

\* heartbeat.wakeup for the next agent of the plan.
Wake(d) ==
    LET m == job[d].message
        a == Head(job[d].left)
    IN  /\ At(d, "sending") /\ job[d].left # <<>> /\ (depends => ~IsNew(d))
        /\ a \notin Unsupported \cup NotInvokable
        /\ live' = [live EXCEPT ![m] = @ \cup {a}]
        /\ wakeups' = [wakeups EXCEPT ![m][a] = IF @ < 2 THEN @ + 1 ELSE @]
        /\ job' = [job EXCEPT ![d].left = Tail(@), ![d].queued = TRUE]
        /\ UNCHANGED <<rowVars, todo, skipped, held, issueVars, boundVars>>

\* The next agent is passed over, as it should be.  Or it is counted as queued, but not
\* woken: enqueueWakeup returns null if wake on demand is off or the issue is gone, and
\* before it, auto-assist may answer in the agent's place, by messages of the system.
Skip(d) ==
    LET m == job[d].message
        a == Head(job[d].left)
    IN  /\ At(d, "sending") /\ job[d].left # <<>> /\ (depends => ~IsNew(d))
        /\ \/ a \in Unsupported
              /\ job' = [job EXCEPT ![d].left = Tail(@)] /\ UNCHANGED skipped
           \/ a \in MaySkip
              /\ job' = [job EXCEPT ![d].left = Tail(@), ![d].queued = TRUE]
              /\ skipped' = [skipped EXCEPT ![m] = @ \cup {a}]
        /\ UNCHANGED <<rowVars, todo, live, wakeups, held, issueVars, boundVars>>

\* The catch block of a dispatcher.  A reroute that is not finished is one of the
\* first message still.
Fail(d) ==
    LET m == IF At(d, "rerouted") THEN job[d].first ELSE job[d].message
    IN  \/ d \in Sweeps /\ RetryLater(m)
        \/ d \in Messages \ SystemMessages /\ RetryNow(m)
        \/ d \in SystemMessages /\ UNCHANGED rowVars

\* Anything in a dispatch throws, also what settles its row, as do a reroute of an
\* issue that is no longer just assigned and the wakeup of a paused agent.
Throw(d) ==
    /\ \/ ~At(d, "idle") /\ Fault
       \/ At(d, "deciding") /\ UNCHANGED boundVars
       \/ /\ At(d, "sending") /\ job[d].left # <<>> /\ Head(job[d].left) \in NotInvokable
          /\ depends => ~IsNew(d)
          /\ UNCHANGED boundVars
    /\ Fail(d) /\ Does(d, Idle)
    /\ UNCHANGED <<todo, workVars, issueVars>>

\* A route settles its row in any case, a sweep that woke nobody for no action; but the
\* rows of system messages, and of what a sweep has posted and woken nobody for, stay.
Mark(d) ==
    LET m == job[d].message
    IN  /\ At(d, "sending") /\ job[d].left = <<>>
        /\ \/ /\ d \in Messages \ SystemMessages
              /\ Settle(m, "dispatched") /\ Does(d, Idle)
           \/ /\ d \in SystemMessages
                 \/ (d \in Sweeps /\ ~job[d].queued /\ job[d].first # NoMessage)
              /\ UNCHANGED rowVars /\ Does(d, Idle)
           \/ /\ d \in Sweeps /\ ~job[d].queued /\ job[d].first = NoMessage
              /\ Settle(m, "queued_zero") /\ Does(d, Idle)
           \/ /\ d \in Sweeps /\ job[d].queued
              /\ Settle(m, "dispatched") /\ Does(d, Job("marked", m, NoMessage, <<>>))
        /\ UNCHANGED <<todo, workVars, issueVars, boundVars>>

\* What a sweep logs when it has settled a row is in the same try block.
LogReconciled(s) ==
    /\ At(s, "marked") /\ Does(s, Idle)
    /\ UNCHANGED <<rowVars, todo, workVars, issueVars, boundVars>>

-----------------------------------------------------------------------------
(* The rest of the world.                                                  *)

\* A run is over.
WorkEnds(m, a) ==
    /\ a \in live[m]
    /\ live' = [live EXCEPT ![m] = @ \ {a}]
    /\ UNCHANGED <<rowVars, job, todo, wakeups, skipped, held, issueVars, boundVars>>

\* A CANCEL_TASK, or a recovery reopens the issue.
Cancel ==
    /\ ~closed /\ closed' = TRUE /\ blockedBy' = NoMessage
    /\ UNCHANGED <<rowVars, job, todo, workVars, depends, boundVars>>

Reopen ==
    /\ closed /\ closed' = FALSE /\ blockedBy' = NoMessage
    /\ UNCHANGED <<rowVars, job, todo, workVars, depends, boundVars>>

DependenciesFinish ==
    /\ depends /\ depends' = FALSE
    /\ UNCHANGED <<rowVars, job, todo, workVars, closed, blockedBy, boundVars>>

Crash ==
    /\ Fault
    /\ job' = [d \in Dispatchers |-> Idle]
    /\ todo' = [s \in Sweeps |-> <<>>]
    /\ UNCHANGED <<rowVars, workVars, issueVars>>

-----------------------------------------------------------------------------

Dispatch(d) ==
    \/ Reroute(d) \/ KeepMessage(d) \/ SettleRerouted(d) \/ BlockOnDependencies(d)
    \/ Wake(d) \/ Skip(d) \/ Throw(d) \/ Mark(d)

Sweep(s) == Take(s) \/ LogReconciled(s) \/ Dispatch(s)

DispatchNext ==
    \/ \E m \in Messages : \/ Post(m) \/ Abandon(m) \/ Dispatch(m) \/ FallsDue(m)
                           \/ \E a \in Agents : WorkEnds(m, a)
    \/ \E s \in Sweeps : Load(s) \/ Sweep(s)
    \/ Cancel \/ Reopen \/ DependenciesFinish \/ Crash

\* Timers fire, time passes, and what was begun goes on unless the server crashes.
DispatchSpec ==
    /\ DispatchInit /\ [][DispatchNext]_vars
    /\ WF_vars(\E s \in Sweeps : Load(s))
    /\ \A m \in Messages : WF_vars(FallsDue(m)) /\ WF_vars(Dispatch(m))
    /\ \A s \in Sweeps : WF_vars(Sweep(s))

-----------------------------------------------------------------------------
(* Properties.                                                             *)

Woken(m) == {a \in Agents : wakeups[m][a] > 0}
Supported(m) == Range(Plan[m]) \ Unsupported
IsInvokable(m) == Range(Plan[m]) \cap NotInvokable = {}

Jobs ==
    [pc : {"idle", "deciding", "rerouted", "sending", "marked"},
     message : Messages \cup {NoMessage}, first : Messages \cup {NoMessage},
     left : Seq(Agents), queued : BOOLEAN]

\* The outbox, the issue and what the dispatchers are about are in their types.
DispatchTypeOK ==
    /\ row \in [Messages -> {"none"} \cup Unsettled \cup Settled]
    /\ due \in Seq(Messages) /\ todo \in [Sweeps -> Seq(Messages)]
    /\ job \in [Dispatchers -> Jobs]
    /\ \A d \in Dispatchers : /\ job[d].pc # "idle" => job[d].message \in Messages
                              /\ job[d].pc = "rerouted" => job[d].first \in Messages
    /\ live \in [Messages -> SUBSET Agents]
    /\ wakeups \in [Messages -> [Agents -> 0..2]]
    /\ skipped \in [Messages -> SUBSET Agents]
    /\ held \subseteq Messages
    /\ closed \in BOOLEAN /\ blockedBy \in Messages \cup {NoMessage} /\ depends \in BOOLEAN
    /\ faults \in 0..MaxFaults /\ timely \in BOOLEAN

\* A row is settled without a wakeup only if its message has nobody to wake, all its
\* agents were skipped although they were counted, or the issue was closed, blocked by
\* dependencies or by this message, or another message was posted instead; whatever was
\* lost in errors and crashes, by whichever of the dispatchers (markDispatched and
\* markNoAction do not look at the row).
NothingIsDropped ==
    \A m \in Messages :
        row[m] \in Settled /\ Woken(m) = {} /\ Supported(m) # {}
            => \/ m \in held
               \/ Supported(m) \subseteq skipped[m]
               \/ row[m] \in {"terminal_issue", "blocked_by_same_message",
                             "rerouted_before_retrieval"}

\* Without errors and crashes, and in time, a message that a route has posted or put
\* in place of another wakes each of its agents once, but for those skipped although
\* they were counted, and none twice.
OnceWithoutFaults ==
    timely /\ faults = 0 =>
        \A m \in Messages \ SystemMessages :
            IsInvokable(m) =>
                /\ \A a \in Agents : wakeups[m][a] < 2
                /\ row[m] = "dispatched" => Supported(m) \subseteq Woken(m) \cup skipped[m]
                                             \/ m \in held

\* No agent is woken for a message while a wakeup or run that it was woken to is on
\* record, whatever failed: the sweeps look for it (hasDispatchEvidence).  Only in
\* time: a route slower than the grace period, or two sweeps at once, do wake twice.
NoDoubleWakeup ==
    [][timely => \A m \in Messages : \A a \in live[m] : wakeups'[m][a] = wakeups[m][a]]_vars

\* In time, no row is taken up again once it is settled: markPendingRetryNow and markFailed
\* do not look at the row, but nobody else is about it then.  The exception is a sweep whose
\* log entry fails when it has just settled the row: its catch block marks it failed.
SettledStaysSettled ==
    [][timely => \A m \in Messages :
          row[m] \in Settled /\ row'[m] \notin Settled
              => \E s \in Sweeps : At(s, "marked") /\ job[s].message = m]_vars

\* Whatever messages are posted that are not rerouted, and whose agents can all be woken,
\* are settled for good in the end, even if others fail over and over (a paused agent, a
\* reroute that is refused): they do not starve them of the sweeps' batch.
EventuallySettled ==
    <>[](\A m \in Messages : IsInvokable(m) /\ Reroutes[m] = {} => row[m] \notin Unsettled)
================================================================================

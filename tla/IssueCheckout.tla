----------------------------- MODULE IssueCheckout -----------------------------
(***************************************************************************)
(* Checkout: an agent's process claims an issue for its run.               *)
(*                                                                         *)
(* An issue has two owners.  The execution lock of HeartbeatRuns says which*)
(* run works on it; the checkout says which run of the assignee may change *)
(* it.  A checkout takes both, by one conditional UPDATE; a later run of   *)
(* the assignee adopts the checkout of a run that is over.  Releases and   *)
(* updates of an issue read its row first and write it later by id, so     *)
(* anything may happen to it in between.                                   *)
(***************************************************************************)
EXTENDS HeartbeatRuns

CONSTANTS
    Kept,       \* a field that an update of an issue does not mention
    MaxEdits    \* bound: releases, updates and protocol messages

ASSUME KeptAssumption == Kept \notin Agents \cup {NoAgent}
ASSUME EditsAssumption == MaxEdits \in Nat

VARIABLES
    assignee,     \* issues.assignee_agent_id
    issueStatus,  \* issues.status: "in_progress", or "todo" for all the others
    checkoutRun,  \* issues.checkout_run_id
    writes,       \* updates of an issue that have read its row, not yet written
    edits         \* releases, updates and protocol messages so far

issueVars == <<assignee, issueStatus, checkoutRun, writes, edits>>
allVars == <<vars, issueVars>>

Statuses == {"todo", "in_progress"}

\* A write sets the assignee and the status, or keeps one, and may clear the checkout.
Writes == [issue : Issues, assignee : Agents \cup {NoAgent, Kept},
           status : Statuses \cup {Kept}, clears : BOOLEAN]

CheckoutInit ==
    /\ Init
    /\ assignee = [i \in Issues |-> NoAgent]
    /\ issueStatus = [i \in Issues |-> "todo"]
    /\ checkoutRun = [i \in Issues |-> NoRun]
    /\ writes = {}
    /\ edits = 0

\* Of heartbeat state a checkout changes nothing but the lock, and not its key.
OnlyLockChanges ==
    UNCHANGED <<runVars, lockKey, deferred, agentVars, dispatchVars, exec, stopper,
                watchdog, boundVars>>

\* A run's process talks to the API, also after the run was stopped.
Speaks(r) == exec[r].pc = "adapter"

\* Wrong: the checkout does not take the lock.
TakesCheckoutOnly(i, r) == checkoutRun' = [checkoutRun EXCEPT ![i] = r] /\ UNCHANGED lock

\* Wrong: the columns of the agent and the run are swapped.
TakesForAgent(i, r) ==
    /\ checkoutRun' = [checkoutRun EXCEPT ![i] = runAgent[r]]
    /\ lock' = [lock EXCEPT ![i] = r]

Takes(i, r) ==
    /\ checkoutRun' = [checkoutRun EXCEPT ![i] = r]
    /\ lock' = [lock EXCEPT ![i] = r]

-----------------------------------------------------------------------------

\* checkout of an issue that nobody owns, or the agent itself with no other run;
\* no other run may hold the lock, be it one that is over.
ClaimIssue(r, i) ==
    LET a == runAgent[r]
    IN  /\ Speaks(r)
        /\ assignee[i] = NoAgent \/ (assignee[i] = a /\ checkoutRun[i] \in {NoRun, r})
        /\ lock[i] \in {NoRun, r}
        /\ Takes(i, r)
        /\ assignee' = [assignee EXCEPT ![i] = a]
        /\ issueStatus' = [issueStatus EXCEPT ![i] = "in_progress"]
        /\ UNCHANGED <<writes, edits>> /\ OnlyLockChanges

\* checkout for an agent asked for by the board, without a run.
BoardClaims(a, i) ==
    /\ assignee[i] = NoAgent \/ (assignee[i] = a /\ checkoutRun[i] = NoRun)
    /\ lock[i] = NoRun
    /\ assignee' = [assignee EXCEPT ![i] = a]
    /\ issueStatus' = [issueStatus EXCEPT ![i] = "in_progress"]
    /\ checkoutRun' = [checkoutRun EXCEPT ![i] = NoRun]
    /\ UNCHANGED <<vars, writes, edits>>

\* Wrong: a run whose adapter was started counts as over.
IsStaleOnceStarted(q) == runStatus[q] # "queued"

\* adoptStaleCheckoutRun, by a checkout or any other request of the assignee's
\* new run.  Nobody asks who holds the lock by now.
IsStale(q) == runStatus[q] \in Terminal
AdoptCheckout(r, i) ==
    /\ Speaks(r)
    /\ issueStatus[i] = "in_progress" /\ assignee[i] = runAgent[r]
    /\ checkoutRun[i] \notin {NoRun, r} /\ IsStale(checkoutRun[i])
    /\ Takes(i, r)
    /\ UNCHANGED <<assignee, issueStatus, writes, edits>> /\ OnlyLockChanges

-----------------------------------------------------------------------------

Edit == edits < MaxEdits /\ edits' = edits + 1

\* release, for the board (r = NoRun) or a run's agent: not of another agent's issue,
\* and not of its own in progress while another run has it checked out.
ReadForRelease(r, i) ==
    /\ r # NoRun => /\ Speaks(r)
                    /\ assignee[i] \in {NoAgent, runAgent[r]}
                    /\ issueStatus[i] = "in_progress" /\ assignee[i] = runAgent[r] =>
                          checkoutRun[i] \in {NoRun, r}
    /\ Edit
    /\ writes' = writes \cup
                    {[issue |-> i, assignee |-> NoAgent, status |-> "todo", clears |-> TRUE]}
    /\ UNCHANGED <<vars, assignee, issueStatus, checkoutRun>>

\* update, of the assignee, the status or both: it clears the checkout when the
\* status is another than in_progress or the assignee differs from the one it read.
ReadForUpdate(i) ==
    \E who \in Agents \cup {NoAgent, Kept}, status \in Statuses \cup {Kept} :
        /\ who # Kept \/ status # Kept
        /\ status = "in_progress" => NoAgent # IF who = Kept THEN assignee[i] ELSE who
        /\ Edit
        /\ writes' = writes \cup {[issue |-> i, assignee |-> who, status |-> status,
                                   clears |-> status = "todo" \/ who \notin {Kept, assignee[i]}]}
        /\ UNCHANGED <<vars, assignee, issueStatus, checkoutRun>>

\* The UPDATE of either, by the id of the issue.
Write(w) ==
    /\ writes' = writes \ {w}
    /\ assignee' = IF w.assignee = Kept THEN assignee
                   ELSE [assignee EXCEPT ![w.issue] = w.assignee]
    /\ issueStatus' = IF w.status = Kept THEN issueStatus
                      ELSE [issueStatus EXCEPT ![w.issue] = w.status]
    /\ checkoutRun' = IF w.clears THEN [checkoutRun EXCEPT ![w.issue] = NoRun] ELSE checkoutRun
    /\ UNCHANGED <<vars, edits>>

\* appendMessage: a protocol message projects an assignee and a status on the
\* issue, in one transaction, and leaves the checkout as it is.
ProjectMessage(i, a, status) ==
    /\ Edit
    /\ assignee' = [assignee EXCEPT ![i] = a]
    /\ issueStatus' = [issueStatus EXCEPT ![i] = status]
    /\ UNCHANGED <<vars, checkoutRun, writes>>

CheckoutStep ==
    \/ \E r \in RunIds, i \in Issues : ClaimIssue(r, i) \/ AdoptCheckout(r, i)
    \/ \E r \in RunIds \cup {NoRun}, i \in Issues : ReadForRelease(r, i)
    \/ \E a \in Agents, i \in Issues : BoardClaims(a, i)
    \/ \E i \in Issues : ReadForUpdate(i)
    \/ \E w \in writes : Write(w)
    \/ \E i \in Issues, a \in Agents \cup {NoAgent}, status \in Statuses :
          ProjectMessage(i, a, status)

CheckoutNext == (Next /\ UNCHANGED issueVars) \/ CheckoutStep

CheckoutSpec == CheckoutInit /\ [][CheckoutNext]_allVars

-----------------------------------------------------------------------------
(* Properties.                                                             *)

\* Every field of an issue keeps its type; a checkout is by a run with a row.
CheckoutTypeOK ==
    /\ assignee \in [Issues -> Agents \cup {NoAgent}]
    /\ issueStatus \in [Issues -> Statuses]
    /\ checkoutRun \in [Issues -> RunIds \cup {NoRun}]
    /\ writes \subseteq Writes
    /\ edits \in 0..MaxEdits

\* A run that has an issue checked out and is still active holds its execution
\* lock too: no wakeup, promotion, adoption or stale write of the issue's row
\* lets another run work on the issue under it.
LiveCheckoutHoldsLock ==
    \A i \in Issues : checkoutRun[i] # NoRun /\ IsActive(checkoutRun[i]) =>
        lock[i] = checkoutRun[i]

\* The checkout of an active run is never handed to another run, whoever is the
\* assignee by now and whatever update of the issue is under way.
CheckoutNeverStolen ==
    [][\A i \in Issues :
          checkoutRun[i] # NoRun /\ IsActive(checkoutRun[i]) =>
              checkoutRun'[i] \in {checkoutRun[i], NoRun}]_allVars

\* heartbeat-service-flow.test.ts:1145: while a run works on an issue under its
\* lock, other work for that issue is deferred, not started.
ExecutionIsExclusive == OneLockPathRunPerIssue
================================================================================

-------------------------- MODULE IssueCheckoutProofs --------------------------
(***************************************************************************)
(* Proofs about IssueCheckout: checkouts and the execution lock together,  *)
(* for any agents, issues, policy and bounds.                              *)
(***************************************************************************)
EXTENDS IssueCheckout, HeartbeatRunsProofs

\* A checkout is by a run with a row, so a run created later is not that run.
CheckoutHasRow ==
    \A i \in Issues : checkoutRun[i] # NoRun => runStatus[checkoutRun[i]] # "none"

\* What LiveCheckoutHoldsLock rests on: the heartbeat's facts without those about
\* the lock, which an adopted checkout does break.
CheckoutInvariant ==
    /\ TypeOK /\ RowsAreWhole /\ WorkHasRow /\ ReleasedIsOver
    /\ CheckoutTypeOK /\ CheckoutHasRow /\ LiveCheckoutHoldsLock

\* An active run has a row and is not over, and conversely.
LEMMA ActiveOrOver ==
    ASSUME TypeOK, NEW r \in RunIds, runStatus[r] # "none", runStatus[r] \notin Terminal
    PROVE  IsActive(r)
BY DEF TypeOK, RunsTypeOK, IsActive

\* The two steps that take an issue for a run: by a claim, if the lock was free
\* or the run's own, and by adoption.  Heartbeat state but the lock is kept.
LEMMA TakesKeepsWork ==
    ASSUME TypeOK, RowsAreWhole, WorkHasRow, ReleasedIsOver, CheckoutTypeOK, CheckoutHasRow,
           LiveCheckoutHoldsLock, NEW r \in RunIds, NEW i \in Issues,
           Speaks(r), Takes(i, r), OnlyLockChanges
    PROVE  /\ TypeOK' /\ RowsAreWhole' /\ WorkHasRow' /\ ReleasedIsOver'
           /\ checkoutRun' \in [Issues -> RunIds \cup {NoRun}]
           /\ CheckoutHasRow' /\ LiveCheckoutHoldsLock'
<1> USE DEF OnlyLockChanges, runVars, agentVars, boundVars, dispatchVars
<1>1. RunsTypeOK' /\ LocksTypeOK' /\ ServerTypeOK'
  BY DEF Takes, TypeOK, RunsTypeOK, LocksTypeOK, ServerTypeOK
<1>2. RowsAreWhole' /\ WorkHasRow' /\ ReleasedIsOver'
  BY DEF RowsAreWhole, WorkHasRow, ReleasedIsOver
<1>3. checkoutRun' \in [Issues -> RunIds \cup {NoRun}]
  BY DEF Takes, CheckoutTypeOK
<1>4. runStatus[r] # "none"
  BY DEF Speaks, WorkHasRow
<1>5. CheckoutHasRow'
  BY <1>4 DEF Takes, CheckoutHasRow, CheckoutTypeOK
<1>6. LiveCheckoutHoldsLock'
  BY DEF Takes, LiveCheckoutHoldsLock, IsActive, CheckoutTypeOK, TypeOK, LocksTypeOK
<1> QED BY <1>1, <1>2, <1>3, <1>5, <1>6 DEF TypeOK

\* Before the first checkout the invariant holds.
LEMMA CheckoutInvariantInit == CheckoutInit => CheckoutInvariant
<1> SUFFICES ASSUME CheckoutInit PROVE CheckoutInvariant
  OBVIOUS
<1>1. TypeOK /\ RowsAreWhole /\ WorkHasRow /\ ReleasedIsOver
  BY LockInit DEF CheckoutInit, LockInvariant
<1>2. CheckoutTypeOK /\ CheckoutHasRow /\ LiveCheckoutHoldsLock
  BY EditsAssumption
  DEF CheckoutInit, CheckoutTypeOK, CheckoutHasRow, LiveCheckoutHoldsLock, Statuses
<1> QED BY <1>1, <1>2 DEF CheckoutInvariant

\* A step of the heartbeat keeps what the checkouts rest on.
LEMMA HeartbeatKeepsCheckouts ==
    ASSUME CheckoutInvariant, [Next]_vars, UNCHANGED issueVars
    PROVE  CheckoutInvariant'
<1> USE DEF CheckoutInvariant, issueVars
<1>1. TypeOK' /\ RowsAreWhole' /\ WorkHasRow' /\ ReleasedIsOver'
  BY WorkNext
<1>2. CheckoutTypeOK'
  BY DEF CheckoutTypeOK
<1>3. CheckoutHasRow'
  BY RunsKept DEF CheckoutHasRow, CheckoutTypeOK
<1>4. LiveCheckoutHoldsLock'
  <2> SUFFICES ASSUME NEW i \in Issues, checkoutRun[i] # NoRun, IsActive(checkoutRun[i])'
               PROVE  lock'[i] = checkoutRun[i]
    BY DEF LiveCheckoutHoldsLock
  <2> DEFINE q == checkoutRun[i]
  <2>1. q \in RunIds /\ runStatus[q] # "none"
    BY DEF CheckoutTypeOK, CheckoutHasRow
  <2>2. runStatus[q] \notin Terminal
    BY <2>1, RunsKept DEF IsActive, Active, Terminal
  <2>3. IsActive(q)
    BY <2>1, <2>2, ActiveOrOver
  <2>4. lock[i] = q /\ Locked(i)
    BY <2>3 DEF LiveCheckoutHoldsLock, Locked
  <2> QED BY <2>4, LockStep
<1> QED BY <1>1, <1>2, <1>3, <1>4

\* A pending write has the fields it should.
LEMMA WriteIsTyped ==
    ASSUME NEW i \in Issues, NEW who \in Agents \cup {NoAgent, Kept},
           NEW status \in Statuses \cup {Kept},
           NEW clears \in BOOLEAN
    PROVE  [issue |-> i, assignee |-> who, status |-> status, clears |-> clears] \in Writes
BY Zenon DEF Writes

\* A checkout, release, update or message keeps the invariant.
LEMMA CheckoutStepKeeps == CheckoutInvariant /\ CheckoutStep => CheckoutInvariant'
<1> SUFFICES ASSUME CheckoutInvariant, CheckoutStep PROVE CheckoutInvariant'
  OBVIOUS
<1> USE DEF CheckoutInvariant
<1>0. ASSUME UNCHANGED vars
      PROVE  TypeOK' /\ RowsAreWhole' /\ WorkHasRow' /\ ReleasedIsOver'
  BY <1>0, WorkNext
<1>1. ASSUME NEW r \in RunIds, NEW i \in Issues, ClaimIssue(r, i) PROVE CheckoutInvariant'
  <2>1. Speaks(r) /\ Takes(i, r) /\ OnlyLockChanges
    BY <1>1 DEF ClaimIssue
  <2>2. runAgent[r] \in Agents
    BY <2>1 DEF Speaks, WorkHasRow, RowsAreWhole
  <2>3. CheckoutTypeOK'
    BY <1>1, <2>1, <2>2, TakesKeepsWork DEF ClaimIssue, CheckoutTypeOK, Statuses
  <2> QED BY <2>1, <2>3, TakesKeepsWork
<1>2. ASSUME NEW r \in RunIds, NEW i \in Issues, AdoptCheckout(r, i) PROVE CheckoutInvariant'
  <2>1. Speaks(r) /\ Takes(i, r) /\ OnlyLockChanges
    BY <1>2 DEF AdoptCheckout
  <2>2. CheckoutTypeOK'
    BY <1>2, <2>1, TakesKeepsWork DEF AdoptCheckout, CheckoutTypeOK
  <2> QED BY <2>1, <2>2, TakesKeepsWork
<1>3. ASSUME UNCHANGED vars, CheckoutTypeOK',
             \A i \in Issues : checkoutRun'[i] \in {checkoutRun[i], NoRun}
      PROVE  CheckoutInvariant'
  <2>1. CheckoutHasRow' /\ LiveCheckoutHoldsLock'
    BY <1>3 DEF CheckoutHasRow, LiveCheckoutHoldsLock, IsActive, vars, runVars, lockVars
  <2> QED BY <1>0, <1>3, <2>1
<1>4. ASSUME NEW a \in Agents, NEW i \in Issues, BoardClaims(a, i) PROVE CheckoutInvariant'
  <2>1. CheckoutTypeOK' /\ \A j \in Issues : checkoutRun'[j] \in {checkoutRun[j], NoRun}
    BY <1>4 DEF BoardClaims, CheckoutTypeOK, Statuses
  <2> QED BY <1>3, <1>4, <2>1 DEF BoardClaims
<1>5. ASSUME Edit PROVE edits' \in 0..MaxEdits
  BY <1>5, EditsAssumption DEF Edit, CheckoutTypeOK
<1>6. ASSUME NEW r \in RunIds \cup {NoRun}, NEW i \in Issues, ReadForRelease(r, i)
      PROVE  CheckoutInvariant'
  <2>1. [issue |-> i, assignee |-> NoAgent, status |-> "todo", clears |-> TRUE] \in Writes
    BY WriteIsTyped DEF Statuses
  <2>2. writes' \subseteq Writes
    BY <1>6, <2>1 DEF ReadForRelease, CheckoutTypeOK
  <2> QED BY <1>3, <1>5, <1>6, <2>2 DEF ReadForRelease, CheckoutTypeOK
<1>7. ASSUME NEW i \in Issues, ReadForUpdate(i) PROVE CheckoutInvariant'
  <2>1. PICK who \in Agents \cup {NoAgent, Kept}, status \in Statuses \cup {Kept} :
          /\ Edit
          /\ writes' = writes \cup {[issue |-> i, assignee |-> who,
                                     status |-> status,
                                     clears |-> status = "todo" \/ who \notin {Kept, assignee[i]}]}
    BY <1>7 DEF ReadForUpdate
  <2>2. [issue |-> i, assignee |-> who, status |-> status,
         clears |-> status = "todo" \/ who \notin {Kept, assignee[i]}] \in Writes
    BY WriteIsTyped
  <2>3. writes' \subseteq Writes
    BY <2>1, <2>2 DEF CheckoutTypeOK
  <2> QED BY <1>3, <1>5, <1>7, <2>1, <2>3 DEF ReadForUpdate, CheckoutTypeOK
<1>8. ASSUME NEW w \in writes, Write(w) PROVE CheckoutInvariant'
  <2>1. w \in Writes
    BY DEF CheckoutTypeOK
  <2>2. /\ assignee' \in [Issues -> Agents \cup {NoAgent}]
        /\ issueStatus' \in [Issues -> Statuses]
        /\ checkoutRun' \in [Issues -> RunIds \cup {NoRun}]
        /\ \A j \in Issues : checkoutRun'[j] \in {checkoutRun[j], NoRun}
    BY <1>8, <2>1 DEF Write, Writes, CheckoutTypeOK
  <2> QED BY <1>3, <1>8, <2>2 DEF Write, CheckoutTypeOK
<1>9. ASSUME NEW i \in Issues, NEW a \in Agents \cup {NoAgent}, NEW status \in Statuses,
             ProjectMessage(i, a, status)
      PROVE  CheckoutInvariant'
  BY <1>3, <1>5, <1>9 DEF ProjectMessage, CheckoutTypeOK
<1> QED BY <1>1, <1>2, <1>4, <1>6, <1>7, <1>8, <1>9 DEF CheckoutStep

\* Steps of the heartbeat, of the checkouts and stuttering keep the invariant.
LEMMA CheckoutInvariantNext == CheckoutInvariant /\ [CheckoutNext]_allVars => CheckoutInvariant'
<1> SUFFICES ASSUME CheckoutInvariant, [CheckoutNext]_allVars PROVE CheckoutInvariant'
  OBVIOUS
<1>1. CASE Next /\ UNCHANGED issueVars
  BY <1>1, HeartbeatKeepsCheckouts
<1>2. CASE CheckoutStep
  BY <1>2, CheckoutStepKeeps
<1>3. CASE UNCHANGED allVars
  BY <1>3, HeartbeatKeepsCheckouts DEF allVars
<1> QED BY <1>1, <1>2, <1>3 DEF CheckoutNext

\* The invariant of the composition holds in every reachable state.
LEMMA CheckoutInvariantHolds == CheckoutSpec => []CheckoutInvariant
BY CheckoutInvariantInit, CheckoutInvariantNext, PTL DEF CheckoutSpec

-----------------------------------------------------------------------------
(* Theorems.                                                               *)

\* The columns of checkout, ownership and status, and the writes that are under
\* way, keep their types.
THEOREM CheckoutTypesCorrect == CheckoutSpec => []CheckoutTypeOK
<1>1. CheckoutInvariant => CheckoutTypeOK
  BY DEF CheckoutInvariant
<1> QED BY <1>1, CheckoutInvariantHolds, PTL

\* A run that has an issue checked out and is not over holds the issue's
\* execution lock, in every interleaving with wakeups, stops and stale writes.
THEOREM CheckoutHoldsLock == CheckoutSpec => []LiveCheckoutHoldsLock
<1>1. CheckoutInvariant => LiveCheckoutHoldsLock
  BY DEF CheckoutInvariant
<1> QED BY <1>1, CheckoutInvariantHolds, PTL

\* The checkout of a run that is not over is released, but never given to
\* another run: the guard on the execution lock protects it even when a stale
\* update has taken the assignee away.
THEOREM CheckoutKept == CheckoutSpec => CheckoutNeverStolen
<1> DEFINE Kept1 == \A i \in Issues :
             checkoutRun[i] # NoRun /\ IsActive(checkoutRun[i]) =>
                 checkoutRun'[i] \in {checkoutRun[i], NoRun}
<1>1. ASSUME CheckoutInvariant, CheckoutStep PROVE Kept1
  <2> SUFFICES ASSUME NEW i \in Issues, checkoutRun[i] # NoRun, IsActive(checkoutRun[i])
               PROVE  checkoutRun'[i] \in {checkoutRun[i], NoRun}
    OBVIOUS
  <2>1. lock[i] = checkoutRun[i]
    BY <1>1 DEF CheckoutInvariant, LiveCheckoutHoldsLock
  <2>2. checkoutRun \in [Issues -> RunIds \cup {NoRun}] /\ writes \subseteq Writes
    BY <1>1 DEF CheckoutInvariant, CheckoutTypeOK
  <2>3. ASSUME NEW r \in RunIds, NEW j \in Issues, ClaimIssue(r, j)
        PROVE  checkoutRun'[i] \in {checkoutRun[i], NoRun}
    BY <2>1, <2>2, <2>3 DEF ClaimIssue, Takes
  <2>4. ASSUME NEW r \in RunIds, NEW j \in Issues, AdoptCheckout(r, j)
        PROVE  checkoutRun'[i] \in {checkoutRun[i], NoRun}
    BY <2>2, <2>4 DEF AdoptCheckout, Takes, IsStale, IsActive, Active, Terminal
  <2>5. ASSUME NEW w \in writes, Write(w)
        PROVE  checkoutRun'[i] \in {checkoutRun[i], NoRun}
    BY <2>2, <2>5 DEF Write, Writes
  <2> QED
    BY <1>1, <2>2, <2>3, <2>4, <2>5
    DEF CheckoutStep, BoardClaims, ReadForRelease, ReadForUpdate, ProjectMessage
<1>2. CheckoutInvariant /\ [CheckoutNext]_allVars => [Kept1]_allVars
  BY <1>1 DEF CheckoutNext, issueVars
<1> QED BY <1>2, CheckoutInvariantHolds, PTL DEF CheckoutSpec, CheckoutNeverStolen
================================================================================

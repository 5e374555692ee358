------------------------- MODULE HeartbeatServerProofs -------------------------
(***************************************************************************)
(* Proofs about the slots and the status of agents, and about locks that   *)
(* leak, for any agents, issues, policy and bounds.                        *)
(***************************************************************************)
EXTENDS HeartbeatQueueProofs

-----------------------------------------------------------------------------
(* What any step does to a row.                                            *)

\* A row keeps its agent and its issue.
LEMMA RowsKept ==
    ASSUME LockInvariant, [Next]_vars, NEW r \in RunIds, runStatus[r] # "none"
    PROVE  runAgent'[r] = runAgent[r] /\ runIssue'[r] = runIssue[r]
<1> USE DEF LockInvariant
<1>1. ASSUME NEW a \in Agents, NEW x \in Scopes, NEW locked \in BOOLEAN, CreateRun(a, x, locked)
      PROVE  runAgent'[r] = runAgent[r] /\ runIssue'[r] = runIssue[r]
  <2>1. r # nextRun
    BY DEF RowsAreWhole, RunIds
  <2> QED BY <1>1, <2>1 DEF CreateRun, TypeOK, RunsTypeOK
<1> QED BY <1>1, RunStep DEF SetRunStatus, runVars

\* A created run is queued, and had no row before.
LEMMA CreatedIsQueued ==
    ASSUME LockInvariant, NEW a \in Agents, NEW x \in Scopes, NEW locked \in BOOLEAN,
           CreateRun(a, x, locked)
    PROVE  /\ nextRun \in RunIds /\ runStatus[nextRun] = "none"
           /\ \A r \in RunIds : runStatus'[r] = IF r = nextRun THEN "queued" ELSE runStatus[r]
<1>1. nextRun \in RunIds
  BY CreateRunTypes DEF LockInvariant, TypeOK
<1>2. runStatus[nextRun] = "none"
  BY <1>1 DEF LockInvariant, RowsAreWhole, RunIds
<1> QED BY <1>1, <1>2 DEF CreateRun, LockInvariant, TypeOK, RunsTypeOK

\* The moves of the lock create a queued run at most; other runs keep their status.
LEMMA LockMovesKeepStatus ==
    ASSUME LockInvariant, NEW r \in RunIds, runStatus[r] # "none",
           \/ \E a \in Agents, i \in Issues, comment, force \in BOOLEAN :
                 WakeTransaction(a, i, comment, force)
           \/ \E q \in RunIds : runStatus[q] \in Terminal /\ ReleaseAndPromote(q)
    PROVE  runStatus'[r] = runStatus[r]
<1>1. ASSUME NEW a \in Agents, NEW i \in Issues, CreateRun(a, i, TRUE)
      PROVE  runStatus'[r] = runStatus[r]
  BY <1>1, CreatedIsQueued DEF Scopes
<1>2. ASSUME NEW a \in Agents, NEW i \in Issues, NEW comment \in BOOLEAN, NEW force \in BOOLEAN,
             WakeTransaction(a, i, comment, force)
      PROVE  runStatus'[r] = runStatus[r]
  BY <1>1, <1>2 DEF WakeTransaction, WakeStarts, WakeCoalesces, WakeDefers, runVars
<1>3. ASSUME NEW q \in RunIds, runStatus[q] \in Terminal, ReleaseAndPromote(q)
      PROVE  runStatus'[r] = runStatus[r]
  <2>1. ASSUME NEW i \in Issues, NEW k \in FirstInvokable(i), CreateRun(deferred[i][k], i, TRUE)
        PROVE  runStatus'[r] = runStatus[r]
    <3>1. deferred[i][k] \in Agents
      BY DEF FirstInvokable, LockInvariant, TypeOK, LocksTypeOK
    <3> QED BY <1>1, <2>1, <3>1
  <2> QED BY <1>3, <2>1, ReleaseMoves DEF runVars
<1> QED BY <1>2, <1>3

\* A run starts to run by being claimed, and in no other way.
LEMMA OnlyClaimsRun ==
    ASSUME LockInvariant, [Next]_vars, NEW r \in RunIds,
           runStatus'[r] = "running", runStatus[r] # "running"
    PROVE  \E a \in Agents : ClaimRun(a) /\ picked[a] = r
<1> USE DEF LockInvariant
<1>1. UNCHANGED runStatus => FALSE
  OBVIOUS
<1>2. ASSUME NEW a \in Agents, NEW x \in Scopes, NEW locked \in BOOLEAN, CreateRun(a, x, locked)
      PROVE  FALSE
  BY <1>2, CreatedIsQueued
<1>3. ASSUME NEW q \in RunIds, NEW s \in Terminal, SetRunStatus(q, s) PROVE FALSE
  BY <1>3 DEF SetRunStatus, Terminal, TypeOK, RunsTypeOK
<1>4. ASSUME NEW a \in Agents, NEW i \in Issues, NEW comment \in BOOLEAN, NEW force \in BOOLEAN,
             WakeTransaction(a, i, comment, force)
      PROVE  FALSE
  BY <1>1, <1>2, <1>4 DEF WakeTransaction, WakeStarts, WakeCoalesces, WakeDefers, runVars, Scopes
<1>5. ASSUME NEW q \in RunIds, runStatus[q] \in Terminal, ReleaseAndPromote(q)
      PROVE  FALSE
  <2>1. ASSUME NEW i \in Issues, NEW k \in FirstInvokable(i), CreateRun(deferred[i][k], i, TRUE)
        PROVE  FALSE
    <3>1. deferred[i][k] \in Agents
      BY DEF FirstInvokable, TypeOK, LocksTypeOK
    <3> QED BY <1>2, <2>1, <3>1 DEF Scopes
  <2> QED BY <1>1, <1>5, <2>1, ReleaseMoves DEF runVars
<1>6. ASSUME NEW q \in RunIds, exec[q].pc # "none" \/ stopper[q].pc # "none"
      PROVE  runAgent[q] \in Agents
  BY <1>6 DEF RowsAreWhole, WorkHasRow
<1>7. ASSUME NEW q \in RunIds, ExecStep(q) PROVE FALSE
  <2>1. CASE ExecFollowsUp(q)
    <3>1. runAgent[q] \in Agents /\ runIssue[q] \in Issues
      BY <1>6, <2>1 DEF ExecFollowsUp, TypeOK, RunsTypeOK, Scopes
    <3> QED BY <1>1, <1>4, <2>1, <3>1 DEF ExecFollowsUp, runVars
  <2>2. CASE ExecPersists(q)
    <3>1. exec[q].out \in Terminal
      BY <2>2, StageCarries DEF ExecPersists, TypeOK
    <3> QED BY <1>3, <2>2, <3>1 DEF ExecPersists, EndRun
  <2>3. CASE ExecReleases(q)
    BY <1>5, <1>6, <2>3 DEF ExecReleases, ReleasedIsOver
  <2> QED
    BY <1>1, <1>7, <2>1, <2>2, <2>3
    DEF ExecStep, ExecFinalizes, ExecMarksAgent, ExecEnds, ExecBegins, ExecLaunchesAdapter,
        ExecThrows, ExecDecides, runVars
<1>8. ASSUME NEW q \in RunIds, StopStep(q) PROVE FALSE
  <2>1. CASE StopPersists(q)
    <3>1. PICK s \in Terminal : SetRunStatus(q, s)
      BY <2>1 DEF StopPersists, EndRun, Terminal
    <3> QED BY <1>3, <3>1
  <2>2. CASE StopReleases(q)
    BY <1>5, <1>6, <2>2 DEF StopReleases, ReleasedIsOver
  <2> QED BY <1>8, <2>1, <2>2 DEF StopStep, StopFinalizes, StopMarksAgent, StopEnds, runVars
<1>9. ASSUME NEW a \in Agents, NEW x \in Scopes, WakeOutsideLock(a, x) PROVE FALSE
  BY <1>1, <1>2, <1>9 DEF WakeOutsideLock, runVars
<1>10. ASSUME NEW a \in Agents, NEW i \in Issues, WakeOnIssue(a, i) PROVE FALSE
  BY <1>4, <1>10 DEF WakeOnIssue
<1>11. ASSUME NEW a \in Agents, ClaimRun(a) PROVE picked[a] = r
  BY <1>1, <1>11 DEF ClaimRun, SetRunStatus, runVars, TypeOK, RunsTypeOK
<1>12. CASE \/ \E a \in Agents : PickRun(a) \/ EndDispatch(a) \/ DispatchFails(a)
            \/ \E a \in Agents : Pause(a) \/ Resume(a)
            \/ \E q \in RunIds : ExecFails(q) \/ Cancel(q) \/ Reap(q) \/ WatchdogFires(q)
            \/ \E i \in Issues : CancelParked(i)
            \/ Crash
            \/ UNCHANGED vars
  BY <1>1, <1>12
  DEF PickRun, EndDispatch, DispatchFails, Pause, Resume, Cancel, Reap, WatchdogFires,
      Redispatches, GivesUp, ExecFails, ExecFailsToBegin, ExecIsSuperseded, ExecThrowsLate,
      CancelParked, Crash, vars, runVars
<1> QED BY <1>7, <1>8, <1>9, <1>10, <1>11, <1>12 DEF Next

-----------------------------------------------------------------------------
(* Slots.                                                                  *)

\* The run that a dispatch has picked is one of its agent, for which a slot is free.
PickedFits ==
    \A a \in Agents : picked[a] # NoRun =>
        /\ runStatus[picked[a]] # "none" /\ runAgent[picked[a]] = a
        /\ SlotFree(a)

SlotInvariant == LockInvariant /\ PickedFits /\ SlotLimit

\* The runs of an agent are finitely many, and fewer if some are left out.
LEMMA FewerRuns ==
    ASSUME NEW S \in SUBSET RunIds, NEW T \in SUBSET S
    PROVE  /\ IsFiniteSet(S) /\ Cardinality(S) \in Nat /\ Cardinality(T) \in Nat
           /\ Cardinality(T) <= Cardinality(S)
<1>1. IsFiniteSet(RunIds)
  BY FS_Interval, BoundAssumption DEF RunIds
<1>2. IsFiniteSet(S) /\ IsFiniteSet(T)
  BY <1>1, FS_Subset
<1> QED BY <1>2, FS_Subset, FS_CardinalityType

\* What picks a run: nothing but a pick with a slot free.
LEMMA PickStep ==
    ASSUME LockInvariant, [Next]_vars, NEW a \in Agents, picked'[a] # NoRun
    PROVE  picked'[a] = picked[a] \/ (SlotFree(a) /\ picked'[a] \in RunsOf(a, "queued"))
<1> USE DEF LockInvariant
<1>1. ASSUME NEW b \in Agents, NEW i \in Issues, NEW comment \in BOOLEAN, NEW force \in BOOLEAN,
             WakeTransaction(b, i, comment, force)
      PROVE  UNCHANGED picked
  BY <1>1 DEF WakeTransaction, WakeStarts, WakeCoalesces, WakeDefers, ArmAndDispatch, dispatchVars
<1>2. ASSUME NEW r \in RunIds, ExecStep(r) PROVE UNCHANGED picked
  <2>1. CASE ExecFollowsUp(r)
    <3>1. runAgent[r] \in Agents /\ runIssue[r] \in Issues
      BY <2>1 DEF ExecFollowsUp, RowsAreWhole, WorkHasRow, TypeOK, RunsTypeOK, Scopes
    <3> QED BY <1>1, <2>1, <3>1 DEF ExecFollowsUp, dispatchVars
  <2> QED
    BY <1>2, <2>1
    DEF ExecStep, ExecFinalizes, ExecMarksAgent, ExecEnds, ExecBegins, ExecLaunchesAdapter,
        ExecThrows, ExecDecides, ExecPersists, ExecReleases, ReleaseAndPromote, dispatchVars
<1>3. ASSUME NEW r \in RunIds, StopStep(r) PROVE UNCHANGED picked
  BY <1>3
  DEF StopStep, StopFinalizes, StopMarksAgent, StopEnds, StopPersists, StopReleases,
      ReleaseAndPromote, dispatchVars
<1>4. ASSUME NEW b \in Agents, PickRun(b)
      PROVE  picked'[a] = picked[a] \/ (SlotFree(a) /\ picked'[a] \in RunsOf(a, "queued"))
  BY <1>4 DEF PickRun, TypeOK, ServerTypeOK
<1>5. ASSUME NEW b \in Agents, ClaimRun(b) \/ DispatchFails(b) PROVE picked'[a] = picked[a]
  BY <1>5 DEF ClaimRun, DispatchFails, TypeOK, ServerTypeOK
<1>6. CASE Crash
  BY <1>6 DEF Crash
<1>7. CASE \/ \E b \in Agents, x \in Scopes : WakeOutsideLock(b, x)
           \/ \E b \in Agents, i \in Issues : WakeOnIssue(b, i)
           \/ \E b \in Agents : EndDispatch(b) \/ Pause(b) \/ Resume(b)
           \/ \E r \in RunIds : ExecFails(r) \/ Cancel(r) \/ Reap(r) \/ WatchdogFires(r)
           \/ \E i \in Issues : CancelParked(i)
           \/ UNCHANGED vars
  <2>1. UNCHANGED picked
    BY <1>1, <1>7
    DEF WakeOutsideLock, WakeOnIssue, ArmAndDispatch, EndDispatch, Pause, Resume, Cancel, Reap,
        WatchdogFires, Redispatches, GivesUp, ExecFails, ExecFailsToBegin, ExecIsSuperseded,
        ExecThrowsLate, CancelParked, vars, dispatchVars
  <2> QED BY <2>1
<1> QED BY <1>2, <1>3, <1>4, <1>5, <1>6, <1>7 DEF Next

\* What is claimed is what was picked, so an agent gets one run at a time, in a slot
\* that was free.
LEMMA SlotNext == SlotInvariant /\ [Next]_vars => SlotInvariant'
<1> SUFFICES ASSUME SlotInvariant, [Next]_vars PROVE SlotInvariant'
  OBVIOUS
<1> USE DEF SlotInvariant, LockInvariant
<1>1. LockInvariant'
  BY LockNext
<1>2. \A a \in Agents, status \in Active : RunsOf(a, status) \in SUBSET RunIds
  BY DEF RunsOf
<1>3. ASSUME NEW a \in Agents, NEW r \in RunsOf(a, "running")', r \notin RunsOf(a, "running")
      PROVE  ClaimRun(a) /\ r = picked[a] /\ picked[a] # NoRun
  <2>1. r \in RunIds /\ runAgent'[r] = a /\ runStatus'[r] = "running"
    BY <1>3 DEF RunsOf
  <2>2. runStatus[r] # "none"
    <3>1. ASSUME runStatus[r] = "none" PROVE FALSE
      <4>1. PICK b \in Agents : ClaimRun(b) /\ picked[b] = r
        BY <2>1, <3>1, OnlyClaimsRun
      <4> QED BY <3>1, <4>1 DEF PickedFits, ClaimRun
    <3> QED BY <3>1
  <2>3. runAgent[r] = a /\ runStatus[r] # "running"
    BY <1>3, <2>1, <2>2, RowsKept DEF RunsOf
  <2>4. PICK b \in Agents : ClaimRun(b) /\ picked[b] = r
    BY <2>1, <2>3, OnlyClaimsRun
  <2>5. b = a /\ picked[b] # NoRun
    BY <2>3, <2>4 DEF PickedFits, ClaimRun
  <2> QED BY <2>4, <2>5
<1>4. ASSUME NEW a \in Agents, ~ClaimRun(a)
      PROVE  Cardinality(RunsOf(a, "running"))' <= Cardinality(RunsOf(a, "running"))
  <2>1. RunsOf(a, "running")' \in SUBSET RunsOf(a, "running")
    BY <1>3, <1>4
  <2> QED BY <1>2, <2>1, FewerRuns DEF Active
<1>5. SlotLimit'
  <2> SUFFICES ASSUME NEW a \in Agents
               PROVE  Cardinality(RunsOf(a, "running"))' <= MaxConcurrentRuns
    BY DEF SlotLimit
  <2>1. CASE ~ClaimRun(a)
    <3>1. RunsOf(a, "running") \in SUBSET RunIds /\ RunsOf(a, "running")' \in SUBSET RunIds
      BY DEF RunsOf
    <3>2. Cardinality(RunsOf(a, "running")) \in Nat /\ Cardinality(RunsOf(a, "running"))' \in Nat
      BY <3>1, FewerRuns
    <3> QED BY <1>4, <2>1, <3>2, PolicyAssumption DEF SlotLimit
  <2>2. CASE ClaimRun(a)
    <3> DEFINE S == RunsOf(a, "running")
    <3>1. S \in SUBSET RunIds /\ S' \in SUBSET RunIds /\ picked[a] \in RunIds
      BY <2>2 DEF RunsOf, ClaimRun, TypeOK, ServerTypeOK
    <3>2. S' \in SUBSET (S \cup {picked[a]})
      BY <1>3
    <3>3. Cardinality(S) < MaxConcurrentRuns
      BY <2>2 DEF PickedFits, SlotFree, ClaimRun
    <3>4. /\ Cardinality(S) \in Nat
          /\ Cardinality(S \cup {picked[a]}) <= Cardinality(S) + 1
      <4>1. IsFiniteSet(S) /\ Cardinality(S) \in Nat
        BY <3>1, FewerRuns
      <4>2. Cardinality(S \cup {picked[a]})
              = IF picked[a] \in S THEN Cardinality(S) ELSE Cardinality(S) + 1
        BY <4>1, FS_AddElement
      <4> QED BY <4>1, <4>2
    <3>5. /\ Cardinality(S') \in Nat /\ Cardinality(S \cup {picked[a]}) \in Nat
          /\ Cardinality(S') <= Cardinality(S \cup {picked[a]})
      <4>1. S \cup {picked[a]} \in SUBSET RunIds
        BY <3>1
      <4> HIDE DEF S
      <4> QED BY <3>2, <4>1, FewerRuns
    <3> HIDE DEF S
    <3>6. Cardinality(S') <= MaxConcurrentRuns
      BY <3>3, <3>4, <3>5, PolicyAssumption
    <3> QED BY <3>6 DEF S
  <2> QED BY <2>1, <2>2
<1>6. PickedFits'
  <2> SUFFICES ASSUME NEW a \in Agents, picked'[a] # NoRun
               PROVE  /\ runStatus'[picked'[a]] # "none" /\ runAgent'[picked'[a]] = a
                      /\ SlotFree(a)'
    BY DEF PickedFits
  <2>1. ~ClaimRun(a)
    BY DEF ClaimRun, TypeOK, ServerTypeOK
  <2>2. picked'[a] \in RunIds /\ runStatus[picked'[a]] # "none" /\ runAgent[picked'[a]] = a
    BY PickStep DEF PickedFits, RunsOf, TypeOK, ServerTypeOK
  <2>3. SlotFree(a)
    BY PickStep DEF PickedFits
  <2>4. SlotFree(a)'
    <3>1. RunsOf(a, "running") \in SUBSET RunIds /\ RunsOf(a, "running")' \in SUBSET RunIds
      BY DEF RunsOf
    <3>2. Cardinality(RunsOf(a, "running")) \in Nat /\ Cardinality(RunsOf(a, "running"))' \in Nat
      BY <3>1, FewerRuns
    <3> QED BY <1>4, <2>1, <2>3, <3>2, PolicyAssumption DEF SlotFree
  <2>5. runStatus'[picked'[a]] # "none" /\ runAgent'[picked'[a]] = a
    BY <2>2, RowsKept, RunsKept
  <2> QED BY <2>4, <2>5
<1> QED BY <1>1, <1>5, <1>6

\* The dispatcher never starts more runs of an agent than its policy allows, whatever is
\* claimed, stopped, dispatched again or restarted between a pick and its claim.
THEOREM SlotsRespected == Spec => []SlotLimit
<1>1. Init => SlotInvariant
  <2> SUFFICES ASSUME Init PROVE SlotInvariant
    OBVIOUS
  <2>1. PickedFits
    BY DEF Init, PickedFits
  <2>2. \A a \in Agents : RunsOf(a, "running") = {}
    BY DEF Init, RunsOf
  <2>3. SlotLimit
    BY <2>2, FS_EmptySet, PolicyAssumption DEF SlotLimit
  <2> QED BY <2>1, <2>3, LockInit DEF SlotInvariant
<1>2. SlotInvariant => SlotLimit
  BY DEF SlotInvariant
<1> QED BY <1>1, <1>2, SlotNext, PTL DEF Spec

-----------------------------------------------------------------------------
(* Locks that leak.                                                        *)

\* An issue is held by one of its own runs.
HeldByItsRun ==
    \A i \in Issues : lock[i] # NoRun => runStatus[lock[i]] # "none" /\ runIssue[lock[i]] = i

LeakInvariant == QueueInvariant /\ HeldByItsRun /\ NoLeakedLock

\* The end of a run is under way: its executor or a stopper will release it.
Ending(r) ==
    \/ exec[r].pc \in {"preflight", "adapter", "decide", "persist", "catch", "release"}
    \/ stopper[r].pc \in {"persist", "release"}

\* A step that gives an issue to another run gives it to an active one of its own.
LEMMA NewHolder ==
    ASSUME LockInvariant, [Next]_vars, NEW i \in Issues, lock'[i] # lock[i], lock'[i] # NoRun
    PROVE  lock'[i] \in RunIds /\ IsActive(lock[i])' /\ runIssue'[lock'[i]] = i
<1> USE DEF LockInvariant
<1> DEFINE Goal == lock'[i] \in RunIds /\ IsActive(lock[i])' /\ runIssue'[lock'[i]] = i
<1>1. ASSUME NEW a \in Agents, CreateRun(a, i, TRUE), lock'[i] = nextRun
      PROVE  Goal
  <2>1. nextRun \in RunIds /\ runStatus'[nextRun] = "queued"
    BY <1>1, CreatedIsQueued DEF Scopes
  <2>2. runIssue'[nextRun] = i
    BY <1>1, <2>1 DEF CreateRun, TypeOK, RunsTypeOK
  <2> QED BY <1>1, <2>1, <2>2 DEF IsActive, Active
<1>2. ASSUME NEW a \in Agents, NEW j \in Issues, NEW comment \in BOOLEAN, NEW force \in BOOLEAN,
             WakeTransaction(a, j, comment, force)
      PROVE  Goal
  <2>1. CASE WakeStarts(a, j)
    <3>1. i = j /\ lock'[i] = nextRun
      BY <2>1 DEF WakeStarts, TypeOK, LocksTypeOK
    <3> QED BY <1>1, <2>1, <3>1 DEF WakeStarts
  <2>2. CASE WakeCoalesces(a, j, comment, force) \/ WakeDefers(a, j, comment, force)
    <3>1. HasHolder(j) /\ UNCHANGED runVars /\ lock' = [lock EXCEPT ![j] = HolderOf(j)]
      BY <2>2 DEF WakeCoalesces, WakeDefers, AdoptHolder
    <3>2. i = j /\ lock'[i] = HolderOf(i)
      BY <3>1 DEF TypeOK, LocksTypeOK
    <3>3. HolderOf(i) \in RunIds /\ IsActive(HolderOf(i))
      BY <3>1, <3>2, HolderIsActive
    <3>4. ~Locked(i) /\ ActiveOn(i) # {}
      BY <3>1, <3>2 DEF HolderOf, HasHolder
    <3>5. HolderOf(i) \in ActiveOn(i)
      <4> DEFINE running == {r \in ActiveOn(i) : runStatus[r] = "running"}
      <4>1. running \subseteq ActiveOn(i) /\ ActiveOn(i) \subseteq Nat
        BY DEF ActiveOn, RunIds
      <4>2. running # {} => Oldest(running) \in running
        BY <4>1, OldestIsIn
      <4>3. Oldest(ActiveOn(i)) \in ActiveOn(i)
        BY <3>4, <4>1, OldestIsIn
      <4> QED BY <3>4, <4>1, <4>2, <4>3 DEF HolderOf
    <3> QED BY <3>1, <3>2, <3>3, <3>5 DEF ActiveOn, IsActive, runVars
  <2> QED BY <1>2, <2>1, <2>2 DEF WakeTransaction
<1>3. ASSUME NEW r \in RunIds, runStatus[r] \in Terminal, ReleaseAndPromote(r)
      PROVE  Goal
  <2>1. PICK j \in Issues : \E k \in FirstInvokable(j) :
          CreateRun(deferred[j][k], j, TRUE) /\ lock' = [lock EXCEPT ![j] = nextRun]
    BY <1>3, ReleaseMoves DEF lockVars, TypeOK, LocksTypeOK
  <2>2. i = j /\ lock'[i] = nextRun
    BY <2>1 DEF TypeOK, LocksTypeOK
  <2>3. \A k \in FirstInvokable(j) : deferred[j][k] \in Agents
    BY DEF FirstInvokable, TypeOK, LocksTypeOK
  <2> QED BY <1>1, <2>1, <2>2, <2>3
<1> QED BY <1>2, <1>3, StepsOfLock DEF LockMoves, CancelParked

\* The holders of issues stay runs of their own.
LEMMA HeldNext ==
    ASSUME LockInvariant, HeldByItsRun, [Next]_vars
    PROVE  HeldByItsRun'
<1> SUFFICES ASSUME NEW i \in Issues, lock'[i] # NoRun
             PROVE  runStatus'[lock'[i]] # "none" /\ runIssue'[lock'[i]] = i
  BY DEF HeldByItsRun
<1>1. CASE lock'[i] = lock[i]
  <2>1. lock[i] \in RunIds /\ runStatus[lock[i]] # "none" /\ runIssue[lock[i]] = i
    BY <1>1 DEF HeldByItsRun, LockInvariant, TypeOK, LocksTypeOK
  <2> QED BY <1>1, <2>1, RowsKept, RunsKept DEF LockInvariant
<1>2. CASE lock'[i] # lock[i]
  BY <1>2, NewHolder DEF IsActive, Active
<1> QED BY <1>1, <1>2

\* A release of a run leaves it no issue.
LEMMA ReleaseLeavesNone ==
    ASSUME LockInvariant, HeldByItsRun, NEW r \in RunIds, runStatus[r] \in Terminal,
           ReleaseAndPromote(r)
    PROVE  \A i \in Issues : lock'[i] # r
<1> USE DEF LockInvariant
<1>1. r # NoRun
  BY DEF RunIds, NoRun
<1>2. \A i, j \in Issues : lock[i] = r /\ lock[j] = r => i = j
  BY <1>1 DEF HeldByItsRun
<1>3. CASE \A i \in Issues : lock[i] # r
  BY <1>3 DEF ReleaseAndPromote, lockVars, Promote, Unlock
<1>4. ASSUME NEW i \in Issues, lock[i] = r
      PROVE  \A j \in Issues : lock'[j] # r
  <2>1. \/ lock' = [lock EXCEPT ![i] = NoRun]
        \/ r # nextRun /\ lock' = [lock EXCEPT ![i] = nextRun]
    <3>1. ~UNCHANGED <<runVars, lockVars>> \/ Promote(i) \/ Unlock(i)
      BY <1>2, <1>4 DEF ReleaseAndPromote
    <3>2. CASE Promote(i)
      <4>1. PICK k \in FirstInvokable(i) :
              CreateRun(deferred[i][k], i, TRUE) /\ lock' = [lock EXCEPT ![i] = nextRun]
        BY <3>2 DEF Promote
      <4>2. deferred[i][k] \in Agents
        BY DEF FirstInvokable, TypeOK, LocksTypeOK
      <4>3. runStatus[nextRun] = "none"
        BY <4>1, <4>2, CreatedIsQueued DEF Scopes
      <4>4. r # nextRun
        BY <4>3 DEF Terminal
      <4> QED BY <4>1, <4>4
    <3>3. CASE Unlock(i)
      BY <3>3 DEF Unlock
    <3> QED BY <1>2, <1>4, <3>2, <3>3 DEF ReleaseAndPromote
  <2> QED BY <1>1, <1>2, <1>4, <2>1 DEF TypeOK, LocksTypeOK
<1> QED BY <1>3, <1>4

\* The end of a run that is over is under way until it is released.
LEMMA EndingStep ==
    ASSUME LockInvariant, HeldByItsRun, [Next]_vars, NEW r \in RunIds,
           Ending(r), ~IsActive(r), crashes' = crashes
    PROVE  Ending(r)' \/ \A i \in Issues : lock'[i] # r
<1> USE DEF LockInvariant
<1> DEFINE Goal == Ending(r)' \/ \A i \in Issues : lock'[i] # r
<1>1. ASSUME UNCHANGED <<exec, stopper>> PROVE Goal
  BY <1>1 DEF Ending
<1>2. ASSUME NEW q \in RunIds, ExecStep(q) PROVE Goal
  <2>1. UNCHANGED stopper
    BY <1>2
    DEF ExecStep, ExecFinalizes, ExecMarksAgent, ExecEnds, ExecBegins, ExecLaunchesAdapter,
        ExecThrows, ExecFollowsUp, ExecDecides, ExecPersists, ExecReleases
  <2>2. ASSUME NEW pc, NEW out, ExecTo(q, pc, out),
               \/ exec[q].pc \in {"launch", "finalize"} \cup Marks
               \/ pc \in {"preflight", "adapter", "decide", "persist", "catch", "release"}
        PROVE  Goal
    BY <2>1, <2>2 DEF ExecTo, Ending, Marks, TypeOK, ServerTypeOK
  <2>3. CASE ExecReleases(q)
    <3>1. CASE q = r
      <4>1. runStatus[r] \in Terminal /\ runAgent[r] \in Agents
        BY <2>3, <3>1 DEF ExecReleases, ReleasedIsOver, RowsAreWhole, WorkHasRow
      <4> QED BY <2>3, <3>1, <4>1, ReleaseLeavesNone DEF ExecReleases
    <3>2. CASE q # r
      BY <2>1, <2>3, <3>2 DEF ExecReleases, ExecTo, Ending, TypeOK, ServerTypeOK
    <3> QED BY <3>1, <3>2
  <2>4. CASE ExecBegins(q) \/ ExecLaunchesAdapter(q) \/ ExecThrows(q)
    BY <2>2, <2>4 DEF ExecBegins, ExecLaunchesAdapter, ExecThrows
  <2>5. CASE ExecFollowsUp(q) \/ ExecDecides(q) \/ ExecPersists(q)
    BY <2>2, <2>5 DEF ExecFollowsUp, ExecDecides, ExecPersists
  <2>6. CASE ExecFinalizes(q) \/ ExecMarksAgent(q)
    BY <2>2, <2>6 DEF ExecFinalizes, ExecMarksAgent, ExecEnds
  <2> QED BY <1>2, <2>3, <2>4, <2>5, <2>6 DEF ExecStep
<1>3. ASSUME NEW q \in RunIds, StopStep(q) PROVE Goal
  <2>1. UNCHANGED exec
    BY <1>3 DEF StopStep, StopFinalizes, StopMarksAgent, StopEnds, StopPersists, StopReleases
  <2>2. CASE StopPersists(q)
    BY <2>1, <2>2 DEF StopPersists, StopTo, Ending, TypeOK, ServerTypeOK
  <2>3. CASE StopReleases(q)
    <3>1. CASE q = r
      <4>1. runStatus[r] \in Terminal /\ runAgent[r] \in Agents
        BY <2>3, <3>1 DEF StopReleases, ReleasedIsOver, RowsAreWhole, WorkHasRow
      <4> QED BY <2>3, <3>1, <4>1, ReleaseLeavesNone DEF StopReleases
    <3>2. CASE q # r
      BY <2>1, <2>3, <3>2 DEF StopReleases, StopTo, Ending, TypeOK, ServerTypeOK
    <3> QED BY <3>1, <3>2
  <2>4. CASE StopFinalizes(q) \/ StopMarksAgent(q)
    BY <2>1, <2>4
    DEF StopFinalizes, StopMarksAgent, StopEnds, StopTo, Ending, Marks, TypeOK, ServerTypeOK
  <2> QED BY <1>3, <2>2, <2>3, <2>4 DEF StopStep
<1>4. ASSUME NEW runs, NEW kind, StartStops(runs, kind), UNCHANGED exec PROVE Goal
  BY <1>4 DEF StartStops, Ending, StopIdle
<1>5. ASSUME NEW q \in RunIds, NEW kind, StopTo(q, "persist", kind), UNCHANGED exec PROVE Goal
  BY <1>5 DEF StopTo, Ending, TypeOK, ServerTypeOK
<1>12. ASSUME NEW q \in RunIds, ExecFails(q) PROVE Goal
  <2>1. UNCHANGED stopper
    BY <1>12 DEF ExecFails, ExecFailsToBegin, ExecIsSuperseded, ExecThrowsLate
  <2>2. CASE ExecFailsToBegin(q)
    BY <2>1, <2>2 DEF ExecFailsToBegin, ExecTo, Ending, TypeOK, ServerTypeOK
  <2>3. CASE ExecIsSuperseded(q) \/ ExecThrowsLate(q)
    BY <2>1, <2>3 DEF ExecIsSuperseded, ExecThrowsLate, ExecTo, Ending, TypeOK, ServerTypeOK
  <2> QED BY <1>12, <2>2, <2>3 DEF ExecFails
<1>6. ASSUME NEW q \in RunIds, Cancel(q) \/ Reap(q) \/ WatchdogFires(q) PROVE Goal
  <2>1. CASE Redispatches(q)
    BY <2>1 DEF Redispatches, Overdue, ExecTo, Ending, TypeOK, ServerTypeOK
  <2> QED BY <1>4, <1>5, <1>6, <2>1 DEF Cancel, Reap, WatchdogFires, GivesUp
<1>7. ASSUME NEW a \in Agents, Pause(a) PROVE Goal
  BY <1>4, <1>7 DEF Pause
<1>8. ASSUME NEW a \in Agents, DispatchFails(a) PROVE Goal
  BY <1>8 DEF DispatchFails, Ending, TypeOK, ServerTypeOK
<1>9. ASSUME NEW a \in Agents, ClaimRun(a) PROVE Goal
  <2>1. picked[a] # r \/ runStatus[picked[a]] # "queued"
    BY DEF IsActive, Active
  <2>2. exec'[r] = exec[r] /\ UNCHANGED stopper
    BY <1>9, <2>1 DEF ClaimRun, TypeOK, ServerTypeOK
  <2> QED BY <2>2 DEF Ending
<1>10. CASE Crash
  BY <1>10 DEF Crash, TypeOK, ServerTypeOK
<1>11. CASE \/ \E a \in Agents, x \in Scopes : WakeOutsideLock(a, x)
            \/ \E a \in Agents, i \in Issues : WakeOnIssue(a, i)
            \/ \E a \in Agents : PickRun(a) \/ EndDispatch(a) \/ Resume(a)
            \/ \E i \in Issues : CancelParked(i)
            \/ UNCHANGED vars
  BY <1>1, <1>11
  DEF WakeOutsideLock, WakeOnIssue, PickRun, EndDispatch, Resume, CancelParked, vars
<1> QED BY <1>2, <1>3, <1>6, <1>7, <1>8, <1>9, <1>10, <1>11, <1>12 DEF Next

\* Who ends an active run is about to release it.
LEMMA EnderReleases ==
    ASSUME LockInvariant, [Next]_vars, NEW r \in RunIds, IsActive(r), ~IsActive(r)'
    PROVE  Ending(r)'
<1> USE DEF LockInvariant
<1>1. runStatus'[r] # runStatus[r] /\ runStatus[r] # "none"
  BY DEF IsActive, Active
<1>2. ASSUME NEW q \in RunIds, ExecStep(q) PROVE Ending(r)'
  <2>1. CASE ExecPersists(q)
    BY <1>1, <2>1
    DEF ExecPersists, EndRun, SetRunStatus, ExecTo, Ending, TypeOK, RunsTypeOK, ServerTypeOK
  <2>2. CASE ExecFollowsUp(q)
    <3>1. runAgent[q] \in Agents /\ runIssue[q] \in Issues
      BY <2>2 DEF ExecFollowsUp, RowsAreWhole, WorkHasRow, TypeOK, RunsTypeOK, Scopes
    <3> QED BY <1>1, <2>2, <3>1, LockMovesKeepStatus DEF ExecFollowsUp, runVars
  <2>3. CASE ExecReleases(q)
    <3>1. runStatus[q] \in Terminal /\ runAgent[q] \in Agents
      BY <2>3 DEF ExecReleases, ReleasedIsOver, RowsAreWhole, WorkHasRow
    <3> QED BY <1>1, <2>3, <3>1, LockMovesKeepStatus DEF ExecReleases
  <2> QED
    BY <1>1, <1>2, <2>1, <2>2, <2>3
    DEF ExecStep, ExecFinalizes, ExecMarksAgent, ExecEnds, ExecBegins, ExecLaunchesAdapter,
        ExecThrows, ExecDecides, runVars
<1>3. ASSUME NEW q \in RunIds, StopStep(q) PROVE Ending(r)'
  <2>1. CASE StopPersists(q)
    BY <1>1, <2>1
    DEF StopPersists, EndRun, StopTo, SetRunStatus, Ending, TypeOK, RunsTypeOK, ServerTypeOK
  <2>2. CASE StopReleases(q)
    <3>1. runStatus[q] \in Terminal /\ runAgent[q] \in Agents
      BY <2>2 DEF StopReleases, ReleasedIsOver, RowsAreWhole, WorkHasRow
    <3> QED BY <1>1, <2>2, <3>1, LockMovesKeepStatus DEF StopReleases
  <2> QED
    BY <1>1, <1>3, <2>1, <2>2 DEF StopStep, StopFinalizes, StopMarksAgent, StopEnds, runVars
<1>4. ASSUME NEW a \in Agents, NEW x \in Scopes, WakeOutsideLock(a, x) PROVE FALSE
  BY <1>1, <1>4, CreatedIsQueued DEF WakeOutsideLock, runVars
<1>5. ASSUME NEW a \in Agents, NEW i \in Issues, WakeOnIssue(a, i) PROVE FALSE
  BY <1>1, <1>5, LockMovesKeepStatus DEF WakeOnIssue
<1>6. ASSUME NEW a \in Agents, ClaimRun(a) PROVE FALSE
  BY <1>6 DEF ClaimRun, SetRunStatus, runVars, IsActive, Active, TypeOK, RunsTypeOK
<1>7. CASE \/ \E a \in Agents : PickRun(a) \/ EndDispatch(a) \/ DispatchFails(a)
           \/ \E a \in Agents : Pause(a) \/ Resume(a)
           \/ \E q \in RunIds : ExecFails(q) \/ Cancel(q) \/ Reap(q) \/ WatchdogFires(q)
           \/ \E i \in Issues : CancelParked(i)
           \/ Crash
           \/ UNCHANGED vars
  BY <1>1, <1>7
  DEF PickRun, EndDispatch, DispatchFails, Pause, Resume, Cancel, Reap, WatchdogFires,
      Redispatches, GivesUp, ExecFails, ExecFailsToBegin, ExecIsSuperseded, ExecThrowsLate,
      CancelParked, Crash, vars, runVars
<1> QED BY <1>2, <1>3, <1>4, <1>5, <1>6, <1>7 DEF Next

\* Crashes are counted.
LEMMA CrashesStep ==
    ASSUME LockInvariant, [Next]_vars
    PROVE  crashes' = crashes \/ crashes' > 0
<1> USE DEF boundVars
<1>1. ASSUME NEW runs, NEW kind, StartStops(runs, kind) PROVE crashes' = crashes
  BY <1>1 DEF StartStops, Upset
<1>2. ASSUME NEW r \in RunIds, ExecStep(r) \/ StopStep(r) PROVE crashes' = crashes
  BY <1>2
  DEF ExecStep, ExecFinalizes, ExecMarksAgent, ExecEnds, ExecBegins, ExecLaunchesAdapter,
      ExecThrows, ExecFollowsUp, ExecDecides, ExecPersists, ExecReleases, StopStep, StopPersists,
      StopReleases, StopFinalizes, StopMarksAgent
<1>3. CASE Crash
  BY <1>3 DEF Crash, LockInvariant, TypeOK, ServerTypeOK
<1>4. CASE \/ \E a \in Agents, x \in Scopes : WakeOutsideLock(a, x)
           \/ \E a \in Agents, i \in Issues : WakeOnIssue(a, i)
           \/ \E a \in Agents : PickRun(a) \/ ClaimRun(a) \/ EndDispatch(a) \/ DispatchFails(a)
           \/ \E a \in Agents : Pause(a) \/ Resume(a)
           \/ \E r \in RunIds : ExecFails(r) \/ Cancel(r) \/ Reap(r) \/ WatchdogFires(r)
           \/ \E i \in Issues : CancelParked(i)
           \/ UNCHANGED vars
  BY <1>1, <1>4
  DEF WakeOutsideLock, WakeOnIssue, PickRun, ClaimRun, EndDispatch, DispatchFails, Upset, Pause,
      Resume, Cancel, Reap, WatchdogFires, Redispatches, GivesUp, ExecFails, ExecFailsToBegin,
      ExecIsSuperseded, ExecThrowsLate, CancelParked, vars
<1> QED BY <1>2, <1>3, <1>4 DEF Next

\* A lock is held by an active run, or the end of its holder is under way.
LEMMA LeakNext == LeakInvariant /\ [Next]_vars => LeakInvariant'
<1> SUFFICES ASSUME LeakInvariant, [Next]_vars PROVE LeakInvariant'
  OBVIOUS
<1> USE DEF LeakInvariant, QueueInvariant
<1>1. QueueInvariant' /\ HeldByItsRun'
  BY QueueNext, HeldNext
<1>2. ASSUME NEW i \in Issues, lock'[i] # NoRun, ~IsActive(lock[i])', ~(crashes' > 0)
      PROVE  Ending(lock[i])'
  <2>1. crashes' = crashes /\ ~(crashes > 0)
    BY <1>2, CrashesStep
  <2>2. PICK q \in RunIds : q = lock[i] /\ q = lock'[i]
    BY <1>2, NewHolder DEF LockInvariant, TypeOK, LocksTypeOK
  <2>3. ~IsActive(q)'
    BY <1>2, <2>2 DEF IsActive
  <2>4. CASE IsActive(q)
    <3>1. Ending(q)'
      BY <2>3, <2>4, EnderReleases
    <3> QED BY <2>2, <3>1 DEF Ending
  <2>5. CASE ~IsActive(q)
    <3>1. Ending(q)
      BY <1>2, <2>1, <2>2, <2>5 DEF NoLeakedLock, Ending
    <3>2. Ending(q)'
      BY <1>2, <2>1, <2>2, <2>5, <3>1, EndingStep
    <3> QED BY <2>2, <3>2 DEF Ending
  <2> QED BY <2>4, <2>5
<1>3. NoLeakedLock'
  BY <1>2 DEF NoLeakedLock, Ending
<1> QED BY <1>1, <1>3

\* While the server stays up no lock leaks: a holder that is over has an executor or a
\* stopper that will release it, whichever of the two ended it.
THEOREM NoLockLeaks == Spec => []NoLeakedLock
<1>1. Init => LeakInvariant
  <2> SUFFICES ASSUME Init PROVE LeakInvariant
    OBVIOUS
  <2>1. HeldByItsRun /\ NoLeakedLock
    BY DEF Init, HeldByItsRun, NoLeakedLock
  <2> QED BY <2>1, QueueInit DEF LeakInvariant
<1>2. LeakInvariant => NoLeakedLock
  BY DEF LeakInvariant
<1> QED BY <1>1, <1>2, LeakNext, PTL DEF Spec

-----------------------------------------------------------------------------
(* The status of agents.                                                   *)

\* Somebody has still to finalize the agent of a run, or a pause did not.
Unfinalized(r) ==
    \/ exec[r].pc \in {"adapter", "decide", "persist", "catch", "release", "finalize"} \cup Marks
    \/ stopper[r].pc = "release" /\ stopper[r].kind # "pause"
    \/ stopper[r].pc \in {"finalize"} \cup Marks
    \/ runStatus[r] = "cancelled"

\* AgentStatusSettles, but without counting on the release of a pause, which does not
\* finalize the agent: until it is overwritten, the status of its run shows it.
Settling ==
    \A a \in Agents : agentStatus[a] = "running" =>
        \/ RunsOf(a, "running") # {}
        \/ \E r \in RunIds : runAgent[r] = a /\ Unfinalized(r)
        \/ a \in misread
        \/ crashes > 0

\* What a finalization has counted still runs, or misread says that it does not.
Counted == \A a \in Agents : IsCounted(a) => RunsOf(a, "running") # {} \/ a \in misread

StatusInvariant == LockInvariant /\ Counted /\ Settling

\* The steps that write what a finalization of the agent of a run read, or find it paused.
Finalizes(r) ==
    \/ ExecMarksAgent(r) \/ StopMarksAgent(r)
    \/ (ExecFinalizes(r) \/ StopFinalizes(r)) /\ agentStatus[runAgent[r]] = "paused"

\* A running run ends when its executor or its stopper writes the outcome.
LEMMA RunningEnds ==
    ASSUME LockInvariant, [Next]_vars, NEW r \in RunIds, runStatus[r] = "running"
    PROVE  runStatus'[r] = "running" \/ ExecPersists(r) \/ StopPersists(r)
<1> USE DEF LockInvariant
<1> DEFINE Goal == runStatus'[r] = "running" \/ ExecPersists(r) \/ StopPersists(r)
<1>1. ASSUME NEW q \in RunIds, ExecStep(q) PROVE Goal
  <2>1. CASE ExecPersists(q)
    BY <2>1 DEF ExecPersists, EndRun, SetRunStatus, TypeOK, RunsTypeOK
  <2>2. CASE ExecFollowsUp(q)
    <3>1. runAgent[q] \in Agents /\ runIssue[q] \in Issues
      BY <2>2 DEF ExecFollowsUp, RowsAreWhole, WorkHasRow, TypeOK, RunsTypeOK, Scopes
    <3> QED BY <2>2, <3>1, LockMovesKeepStatus DEF ExecFollowsUp, runVars
  <2>3. CASE ExecReleases(q)
    <3>1. runStatus[q] \in Terminal /\ runAgent[q] \in Agents
      BY <2>3 DEF ExecReleases, ReleasedIsOver, RowsAreWhole, WorkHasRow
    <3> QED BY <2>3, <3>1, LockMovesKeepStatus DEF ExecReleases
  <2> QED
    BY <1>1, <2>1, <2>2, <2>3
    DEF ExecStep, ExecFinalizes, ExecMarksAgent, ExecEnds, ExecBegins, ExecLaunchesAdapter,
        ExecThrows, ExecDecides, runVars
<1>2. ASSUME NEW q \in RunIds, StopStep(q) PROVE Goal
  <2>1. CASE StopPersists(q)
    BY <2>1 DEF StopPersists, EndRun, SetRunStatus, TypeOK, RunsTypeOK
  <2>2. CASE StopReleases(q)
    <3>1. runStatus[q] \in Terminal /\ runAgent[q] \in Agents
      BY <2>2 DEF StopReleases, ReleasedIsOver, RowsAreWhole, WorkHasRow
    <3> QED BY <2>2, <3>1, LockMovesKeepStatus DEF StopReleases
  <2> QED BY <1>2, <2>1, <2>2 DEF StopStep, StopFinalizes, StopMarksAgent, StopEnds, runVars
<1>3. ASSUME NEW a \in Agents, NEW x \in Scopes, WakeOutsideLock(a, x) PROVE Goal
  BY <1>3, CreatedIsQueued DEF WakeOutsideLock, runVars
<1>4. ASSUME NEW a \in Agents, NEW i \in Issues, WakeOnIssue(a, i) PROVE Goal
  BY <1>4, LockMovesKeepStatus DEF WakeOnIssue
<1>5. ASSUME NEW a \in Agents, ClaimRun(a) PROVE Goal
  BY <1>5 DEF ClaimRun, SetRunStatus, runVars, TypeOK, RunsTypeOK
<1>6. CASE \/ \E a \in Agents : PickRun(a) \/ EndDispatch(a) \/ DispatchFails(a)
           \/ \E a \in Agents : Pause(a) \/ Resume(a)
           \/ \E q \in RunIds : ExecFails(q) \/ Cancel(q) \/ Reap(q) \/ WatchdogFires(q)
           \/ \E i \in Issues : CancelParked(i)
           \/ Crash
           \/ UNCHANGED vars
  BY <1>6
  DEF PickRun, EndDispatch, DispatchFails, Pause, Resume, Cancel, Reap, WatchdogFires,
      Redispatches, GivesUp, ExecFails, ExecFailsToBegin, ExecIsSuperseded, ExecThrowsLate,
      CancelParked, Crash, vars, runVars
<1> QED BY <1>1, <1>2, <1>3, <1>4, <1>5, <1>6 DEF Next

\* Who ends a running run has still to finalize its agent.
LEMMA EndedIsUnfinalized ==
    ASSUME LockInvariant, [Next]_vars, NEW r \in RunIds, runStatus[r] = "running"
    PROVE  runStatus'[r] = "running" \/ Unfinalized(r)'
<1> USE DEF LockInvariant
<1>1. CASE ExecPersists(r)
  BY <1>1 DEF ExecPersists, ExecTo, Unfinalized, TypeOK, ServerTypeOK
<1>2. CASE StopPersists(r)
  <2>1. stopper[r].kind \in StopKinds
    BY <1>2, StageCarries DEF StopPersists, TypeOK
  <2> QED
    BY <1>2, <2>1
    DEF StopPersists, EndRun, StopTo, SetRunStatus, StopKinds, Unfinalized, TypeOK, RunsTypeOK,
        ServerTypeOK
<1> QED BY <1>1, <1>2, RunningEnds

\* Of an agent that is counted, a run goes on running, or misread says that none does.
LEMMA CountedRunEnds ==
    ASSUME LockInvariant, [Next]_vars, NEW a \in Agents, IsCounted(a), RunsOf(a, "running") # {}
    PROVE  RunsOf(a, "running")' # {} \/ a \in misread'
<1>1. ASSUME NEW r \in RunsOf(a, "running"), runStatus'[r] = "running"
      PROVE  RunsOf(a, "running")' # {}
  BY <1>1, RowsKept DEF RunsOf
<1>2. PICK r \in RunsOf(a, "running") : TRUE
  OBVIOUS
<1>3. ASSUME NEW status, EndRun(r, status) PROVE RunsOf(a, "running")' # {} \/ a \in misread'
  <2>1. CASE RunsOf(a, "running") \subseteq {r}
    BY <1>3, <2>1 DEF EndRun, RunsOf
  <2>2. ASSUME NEW s \in RunsOf(a, "running"), s # r PROVE RunsOf(a, "running")' # {}
    BY <1>1, <1>3, <2>2 DEF EndRun, SetRunStatus, RunsOf, LockInvariant, TypeOK, RunsTypeOK
  <2> QED BY <2>1, <2>2
<1> QED BY <1>1, <1>2, <1>3, RunningEnds DEF ExecPersists, StopPersists, RunsOf

\* The agent of a run stays to be finalized until it is, or the run runs again.
LEMMA UnfinalizedStep ==
    ASSUME LockInvariant, [Next]_vars, NEW r \in RunIds, Unfinalized(r), crashes' = crashes
    PROVE  Unfinalized(r)' \/ runStatus'[r] = "running" \/ Finalizes(r)
<1> USE DEF LockInvariant
<1> DEFINE Goal == Unfinalized(r)' \/ runStatus'[r] = "running" \/ Finalizes(r)
<1>0. runStatus[r] # "none"
  BY DEF Unfinalized, Marks, WorkHasRow
<1>1. ASSUME UNCHANGED <<exec, stopper>>, runStatus'[r] = runStatus[r] PROVE Goal
  BY <1>1 DEF Unfinalized
<1>2. ASSUME NEW q \in RunIds, ExecStep(q) PROVE Goal
  <2>1. UNCHANGED stopper
    BY <1>2
    DEF ExecStep, ExecFinalizes, ExecMarksAgent, ExecEnds, ExecBegins, ExecLaunchesAdapter,
        ExecThrows, ExecFollowsUp, ExecDecides, ExecPersists, ExecReleases
  <2>2. ASSUME NEW pc, NEW out, ExecTo(q, pc, out), runStatus'[r] = runStatus[r],
               \/ exec[q].pc \in {"launch", "preflight"}
               \/ pc \in {"adapter", "decide", "persist", "catch", "release", "finalize"} \cup Marks
        PROVE  Goal
    BY <2>1, <2>2 DEF ExecTo, Unfinalized, Marks, TypeOK, ServerTypeOK
  <2>3. CASE ExecReleases(q)
    <3>1. runStatus[q] \in Terminal /\ runAgent[q] \in Agents
      BY <2>3 DEF ExecReleases, ReleasedIsOver, RowsAreWhole, WorkHasRow
    <3>2. runStatus'[r] = runStatus[r]
      BY <1>0, <2>3, <3>1, LockMovesKeepStatus DEF ExecReleases
    <3> QED BY <2>2, <2>3, <3>2 DEF ExecReleases
  <2>4. CASE ExecBegins(q) \/ ExecLaunchesAdapter(q) \/ ExecThrows(q) \/ ExecDecides(q)
    BY <2>2, <2>4 DEF ExecBegins, ExecLaunchesAdapter, ExecThrows, ExecDecides, runVars
  <2>5. CASE ExecFollowsUp(q)
    <3>1. runAgent[q] \in Agents /\ runIssue[q] \in Issues
      BY <2>5 DEF ExecFollowsUp, RowsAreWhole, WorkHasRow, TypeOK, RunsTypeOK, Scopes
    <3>2. runStatus'[r] = runStatus[r]
      BY <1>0, <2>5, <3>1, LockMovesKeepStatus DEF ExecFollowsUp, runVars
    <3> QED BY <2>2, <2>5, <3>2 DEF ExecFollowsUp
  <2>6. CASE ExecPersists(q)
    <3>1. CASE q = r
      BY <2>6, <3>1 DEF ExecPersists, ExecTo, Unfinalized, TypeOK, ServerTypeOK
    <3>2. CASE q # r
      BY <2>2, <2>6, <3>2 DEF ExecPersists, EndRun, SetRunStatus, TypeOK, RunsTypeOK
    <3> QED BY <3>1, <3>2
  <2>7. CASE ExecFinalizes(q) \/ ExecMarksAgent(q)
    <3>1. runStatus'[r] = runStatus[r]
      BY <2>7 DEF ExecFinalizes, ExecMarksAgent, runVars
    <3>2. CASE q = r /\ Finalizes(q)
      BY <3>2
    <3>3. CASE q = r /\ ~Finalizes(q)
      BY <2>2, <2>7, <3>1, <3>3, MarkForIn DEF Finalizes, ExecFinalizes
    <3>4. CASE q # r
      BY <2>1, <2>7, <3>1, <3>4
      DEF ExecFinalizes, ExecMarksAgent, ExecEnds, ExecTo, Unfinalized, TypeOK, ServerTypeOK
    <3> QED BY <3>2, <3>3, <3>4
  <2> QED BY <1>2, <2>3, <2>4, <2>5, <2>6, <2>7 DEF ExecStep
<1>14. ASSUME NEW q \in RunIds, ExecFails(q) PROVE Goal
  <2>1. UNCHANGED <<stopper, runStatus>>
    BY <1>14 DEF ExecFails, ExecFailsToBegin, ExecIsSuperseded, ExecThrowsLate, runVars
  <2>2. CASE ExecFailsToBegin(q)
    BY <2>1, <2>2 DEF ExecFailsToBegin, ExecTo, Unfinalized, Marks, TypeOK, ServerTypeOK
  <2>3. CASE ExecIsSuperseded(q) \/ ExecThrowsLate(q)
    BY <2>1, <2>3 DEF ExecIsSuperseded, ExecThrowsLate, ExecTo, Unfinalized, TypeOK, ServerTypeOK
  <2> QED BY <1>14, <2>2, <2>3 DEF ExecFails
<1>3. ASSUME NEW q \in RunIds, StopStep(q) PROVE Goal
  <2>1. UNCHANGED exec
    BY <1>3 DEF StopStep, StopFinalizes, StopMarksAgent, StopEnds, StopPersists, StopReleases
  <2>2. CASE StopPersists(q)
    <3>1. CASE q = r
      <4>1. stopper[q].kind \in StopKinds
        BY <2>2, StageCarries DEF StopPersists, TypeOK
      <4> QED
        BY <2>2, <3>1, <4>1
        DEF StopPersists, EndRun, StopTo, SetRunStatus, StopKinds, Unfinalized, TypeOK, RunsTypeOK,
            ServerTypeOK
    <3>2. CASE q # r
      BY <2>1, <2>2, <3>2
      DEF StopPersists, EndRun, StopTo, SetRunStatus, Unfinalized, TypeOK, RunsTypeOK, ServerTypeOK
    <3> QED BY <3>1, <3>2
  <2>3. CASE StopReleases(q)
    <3>1. runStatus[q] \in Terminal /\ runAgent[q] \in Agents
      BY <2>3 DEF StopReleases, ReleasedIsOver, RowsAreWhole, WorkHasRow
    <3>2. runStatus'[r] = runStatus[r]
      BY <1>0, <2>3, <3>1, LockMovesKeepStatus DEF StopReleases
    <3> QED
      BY <2>1, <2>3, <3>2 DEF StopReleases, StopTo, Unfinalized, Marks, TypeOK, ServerTypeOK
  <2>4. CASE StopFinalizes(q) \/ StopMarksAgent(q)
    <3>1. runStatus'[r] = runStatus[r]
      BY <2>4 DEF StopFinalizes, StopMarksAgent, runVars
    <3>2. CASE q = r /\ Finalizes(q)
      BY <3>2
    <3>3. CASE q = r /\ ~Finalizes(q)
      BY <2>1, <2>4, <3>1, <3>3, MarkForIn
      DEF Finalizes, StopFinalizes, StopTo, Unfinalized, TypeOK, ServerTypeOK
    <3>4. CASE q # r
      BY <2>1, <2>4, <3>1, <3>4
      DEF StopFinalizes, StopMarksAgent, StopEnds, StopTo, Unfinalized, TypeOK, ServerTypeOK
    <3> QED BY <3>2, <3>3, <3>4
  <2> QED BY <1>3, <2>2, <2>3, <2>4 DEF StopStep
<1>4. ASSUME NEW runs, NEW kind, StartStops(runs, kind), UNCHANGED <<exec, runStatus>> PROVE Goal
  BY <1>4 DEF StartStops, Unfinalized, StopIdle, Marks
<1>5. ASSUME NEW q \in RunIds, NEW kind, StopTo(q, "persist", kind), stopper[q] = StopIdle,
             UNCHANGED <<exec, runStatus>>
      PROVE  Goal
  BY <1>5 DEF StopTo, Unfinalized, StopIdle, Marks, TypeOK, ServerTypeOK
<1>6. ASSUME NEW q \in RunIds, Cancel(q) \/ Reap(q) \/ WatchdogFires(q) PROVE Goal
  <2>1. CASE Redispatches(q)
    BY <2>1
    DEF Redispatches, Overdue, ExecTo, Unfinalized, Marks, runVars, TypeOK, ServerTypeOK
  <2> QED BY <1>4, <1>5, <1>6, <2>1 DEF Cancel, Reap, WatchdogFires, GivesUp, runVars
<1>7. ASSUME NEW a \in Agents, Pause(a) PROVE Goal
  BY <1>4, <1>7 DEF Pause, runVars
<1>8. ASSUME NEW a \in Agents, DispatchFails(a) PROVE Goal
  BY <1>8 DEF DispatchFails, Unfinalized, Marks, runVars, TypeOK, ServerTypeOK
<1>9. ASSUME NEW a \in Agents, ClaimRun(a) PROVE Goal
  <2>1. CASE picked[a] = r /\ runStatus[r] = "queued"
    BY <1>9, <2>1 DEF ClaimRun, SetRunStatus, TypeOK, RunsTypeOK
  <2>2. CASE ~(picked[a] = r /\ runStatus[r] = "queued")
    BY <1>9, <2>2
    DEF ClaimRun, SetRunStatus, runVars, Unfinalized, TypeOK, RunsTypeOK, ServerTypeOK
  <2> QED BY <2>1, <2>2
<1>10. CASE Crash
  BY <1>10 DEF Crash, TypeOK, ServerTypeOK
<1>11. ASSUME NEW a \in Agents, NEW x \in Scopes, WakeOutsideLock(a, x) PROVE Goal
  BY <1>0, <1>1, <1>11, CreatedIsQueued DEF WakeOutsideLock, runVars
<1>12. ASSUME NEW a \in Agents, NEW i \in Issues, WakeOnIssue(a, i) PROVE Goal
  BY <1>0, <1>1, <1>12, LockMovesKeepStatus DEF WakeOnIssue
<1>13. CASE \/ \E a \in Agents : PickRun(a) \/ EndDispatch(a) \/ Resume(a)
            \/ \E i \in Issues : CancelParked(i)
            \/ UNCHANGED vars
  BY <1>1, <1>13 DEF PickRun, EndDispatch, Resume, CancelParked, vars, runVars
<1> QED
  BY <1>2, <1>3, <1>6, <1>7, <1>8, <1>9, <1>10, <1>11, <1>12, <1>13, <1>14 DEF Next

\* Who is about to mark an agent as running was so before, or counts its runs just now.
LEMMA CountsRunning ==
    ASSUME LockInvariant, [Next]_vars, NEW q \in RunIds,
           "markRunning" \in {exec'[q].pc, stopper'[q].pc}
    PROVE  /\ runStatus[q] # "none"
           /\ \/ "markRunning" \in {exec[q].pc, stopper[q].pc}
              \/ RunsOf(runAgent[q], "running") # {} /\ UNCHANGED runVars
<1> USE DEF LockInvariant
<1> DEFINE Goal == \/ "markRunning" \in {exec[q].pc, stopper[q].pc}
                   \/ /\ RunsOf(runAgent[q], "running") # {} /\ UNCHANGED runVars
                      /\ "finalize" \in {exec[q].pc, stopper[q].pc}
<1>1. ASSUME NEW p \in RunIds, NEW pc, NEW out, ExecTo(p, pc, out), pc # "markRunning",
             UNCHANGED stopper
      PROVE  Goal
  BY <1>1 DEF ExecTo, TypeOK, ServerTypeOK
<1>2. ASSUME NEW p \in RunIds, NEW pc, NEW kind, StopTo(p, pc, kind), pc # "markRunning",
             UNCHANGED exec
      PROVE  Goal
  BY <1>2 DEF StopTo, TypeOK, ServerTypeOK
<1>3. ASSUME UNCHANGED <<exec, stopper>> PROVE Goal
  BY <1>3
<1>4. ASSUME NEW runs, NEW kind, StartStops(runs, kind), UNCHANGED exec PROVE Goal
  BY <1>4 DEF StartStops, TypeOK, ServerTypeOK
<1>5. ASSUME NEW a PROVE MarkFor(a) = "markRunning" => RunsOf(a, "running") # {}
  BY DEF MarkFor
<1>6. ASSUME NEW p \in RunIds, ExecStep(p) PROVE Goal
  <2>1. CASE ExecFinalizes(p)
    <3>1. CASE ExecEnds(p) \/ MarkFor(runAgent[p]) # "markRunning"
      BY <1>1, <2>1, <3>1 DEF ExecFinalizes, ExecEnds
    <3>2. CASE p = q /\ MarkFor(runAgent[p]) = "markRunning"
      BY <1>5, <2>1, <3>2 DEF ExecFinalizes
    <3>3. CASE p # q /\ ExecTo(p, MarkFor(runAgent[p]), exec[p].out)
      BY <2>1, <3>3 DEF ExecFinalizes, ExecTo, TypeOK, ServerTypeOK
    <3> QED BY <2>1, <3>1, <3>2, <3>3 DEF ExecFinalizes
  <2> QED
    BY <1>1, <1>6, <2>1
    DEF ExecStep, ExecMarksAgent, ExecEnds, ExecBegins, ExecLaunchesAdapter, ExecThrows,
        ExecFollowsUp, ExecDecides, ExecPersists, ExecReleases
<1>7. ASSUME NEW p \in RunIds, StopStep(p) PROVE Goal
  <2>1. CASE StopFinalizes(p)
    <3>1. CASE StopEnds(p) \/ MarkFor(runAgent[p]) # "markRunning"
      BY <1>2, <2>1, <3>1 DEF StopFinalizes, StopEnds
    <3>2. CASE p = q /\ MarkFor(runAgent[p]) = "markRunning"
      BY <1>5, <2>1, <3>2 DEF StopFinalizes
    <3>3. CASE p # q /\ StopTo(p, MarkFor(runAgent[p]), "none")
      BY <2>1, <3>3 DEF StopFinalizes, StopTo, TypeOK, ServerTypeOK
    <3> QED BY <2>1, <3>1, <3>2, <3>3 DEF StopFinalizes
  <2> QED
    BY <1>2, <1>7, <2>1 DEF StopStep, StopMarksAgent, StopEnds, StopPersists, StopReleases
<1>8. ASSUME NEW p \in RunIds, ExecFails(p) \/ Cancel(p) \/ Reap(p) \/ WatchdogFires(p) PROVE Goal
  BY <1>1, <1>2, <1>3, <1>4, <1>8
  DEF ExecFails, ExecFailsToBegin, ExecIsSuperseded, ExecThrowsLate, Cancel, Reap, WatchdogFires,
      Redispatches, GivesUp
<1>9. ASSUME NEW a \in Agents, DispatchFails(a) PROVE Goal
  BY <1>9 DEF DispatchFails, ExecIdle, TypeOK, ServerTypeOK
<1>10. ASSUME NEW a \in Agents, ClaimRun(a) PROVE Goal
  BY <1>10 DEF ClaimRun, TypeOK, ServerTypeOK
<1>11. ASSUME Crash PROVE Goal
  BY <1>11 DEF Crash, ExecIdle, StopIdle
<1>12. ASSUME \/ \E a \in Agents, x \in Scopes : WakeOutsideLock(a, x)
              \/ \E a \in Agents, i \in Issues : WakeOnIssue(a, i)
              \/ \E a \in Agents : PickRun(a) \/ EndDispatch(a) \/ Resume(a)
              \/ \E i \in Issues : CancelParked(i)
              \/ UNCHANGED vars
       PROVE  Goal
  <2>1. UNCHANGED <<exec, stopper>>
    BY <1>12
    DEF WakeOutsideLock, WakeOnIssue, PickRun, EndDispatch, Resume, CancelParked, vars
  <2> QED BY <1>3, <2>1
<1>13. ASSUME NEW a \in Agents, Pause(a) PROVE Goal
  <2>1. StartStops({r \in RunIds : runAgent[r] = a}, "pause") /\ UNCHANGED exec
    BY <1>13 DEF Pause
  <2> QED BY <1>4, <2>1
<1>14. Goal
  BY <1>6, <1>7, <1>8, <1>9, <1>10, <1>11, <1>12, <1>13 DEF Next
<1>15. runStatus[q] # "none"
  BY <1>14 DEF WorkHasRow
<1> QED BY <1>14, <1>15

\* An agent that is counted stays misread.
LEMMA MisreadStays ==
    ASSUME LockInvariant, [Next]_vars, NEW a \in misread, IsCounted(a), IsCounted(a)'
    PROVE  a \in misread'
<1>1. ASSUME NEW b, NEW mark, WriteMark(b, mark) PROVE a \in misread'
  BY <1>1 DEF WriteMark
<1>2. ASSUME NEW r, NEW status, EndRun(r, status) PROVE a \in misread'
  BY <1>2 DEF EndRun
<1>3. ~Crash
  BY DEF Crash, IsCounted, ExecIdle, StopIdle
<1>4. ASSUME NEW r \in RunIds, ExecStep(r) \/ ExecFails(r) \/ StopStep(r) PROVE a \in misread'
  BY <1>1, <1>2, <1>4
  DEF ExecStep, ExecBegins, ExecLaunchesAdapter, ExecThrows, ExecFollowsUp, ExecDecides,
      ExecPersists, ExecReleases, ExecFinalizes, ExecMarksAgent, ExecFails, ExecFailsToBegin,
      ExecIsSuperseded, ExecThrowsLate, StopStep, StopPersists, StopReleases, StopFinalizes,
      StopMarksAgent, agentVars
<1> QED
  BY <1>3, <1>4
  DEF Next, WakeOutsideLock, WakeOnIssue, PickRun, ClaimRun, EndDispatch, DispatchFails, Pause,
      Resume, Cancel, Reap, WatchdogFires, Redispatches, GivesUp, CancelParked, vars, agentVars

\* The counts stay true, or are known not to be.
LEMMA CountedNext == LockInvariant /\ Counted /\ [Next]_vars => Counted'
<1> SUFFICES ASSUME LockInvariant, Counted, [Next]_vars, NEW a \in Agents, IsCounted(a)'
             PROVE  RunsOf(a, "running")' # {} \/ a \in misread'
  BY DEF Counted
<1>1. PICK q \in RunIds :
        runAgent'[q] = a /\ "markRunning" \in {exec'[q].pc, stopper'[q].pc}
  BY DEF IsCounted
<1>2. runStatus[q] # "none" /\ runAgent[q] = a
  BY <1>1, CountsRunning, RowsKept
<1>3. CASE "markRunning" \in {exec[q].pc, stopper[q].pc}
  <2>1. IsCounted(a)
    BY <1>2, <1>3 DEF IsCounted
  <2> QED BY <2>1, CountedRunEnds, MisreadStays DEF Counted
<1>4. CASE RunsOf(a, "running") # {} /\ UNCHANGED runVars
  BY <1>4 DEF RunsOf, runVars
<1> QED BY <1>1, <1>2, <1>3, <1>4, CountsRunning

\* An agent is shown as running because it was, because an adapter starts, or because it
\* is finalized while a run of it is running, or as if one was.
LEMMA ShownAsRunning ==
    ASSUME LockInvariant, Counted, [Next]_vars, NEW a \in Agents, agentStatus'[a] = "running"
    PROVE  \/ /\ agentStatus[a] = "running" /\ (a \in misread => a \in misread')
              /\ \A r \in RunIds : runAgent[r] = a => ~Finalizes(r)
           \/ \E r \in RunIds : runStatus[r] # "none" /\ runAgent[r] = a /\ exec'[r].pc = "adapter"
           \/ RunsOf(a, "running") # {}
           \/ a \in misread'
<1> USE DEF LockInvariant
<1> DEFINE Goal ==
      \/ /\ agentStatus[a] = "running" /\ (a \in misread => a \in misread')
         /\ \A r \in RunIds : runAgent[r] = a => ~Finalizes(r)
      \/ \E r \in RunIds : runStatus[r] # "none" /\ runAgent[r] = a /\ exec'[r].pc = "adapter"
      \/ RunsOf(a, "running") # {}
      \/ a \in misread'
<1>8. ASSUME NEW r \in RunIds, runAgent[r] \in Agents, ExecMarksAgent(r) \/ StopMarksAgent(r)
      PROVE  IF runAgent[r] = a
             THEN RunsOf(a, "running") # {} \/ a \in misread'
             ELSE agentStatus[a] = "running" /\ (a \in misread => a \in misread')
  <2>1. PICK mark \in {exec[r].pc, stopper[r].pc} : WriteMark(runAgent[r], mark)
    BY <1>8 DEF ExecMarksAgent, StopMarksAgent
  <2>2. CASE runAgent[r] = a
    <3>1. mark = "markRunning"
      BY <2>1, <2>2 DEF WriteMark, TypeOK, ServerTypeOK
    <3>2. RunsOf(a, "running") # {} \/ a \in misread
      BY <2>2, <3>1 DEF Counted, IsCounted
    <3> QED BY <2>1, <2>2, <3>1, <3>2 DEF WriteMark
  <2>3. CASE runAgent[r] # a
    BY <2>1, <2>3 DEF WriteMark, TypeOK, ServerTypeOK
  <2> QED BY <2>2, <2>3
<1>9. ASSUME NEW r \in RunIds, exec[r].pc # "none" \/ stopper[r].pc # "none"
      PROVE  runAgent[r] \in Agents
  BY <1>9 DEF RowsAreWhole, WorkHasRow
<1>1. ASSUME NEW r \in RunIds, Finalizes(r), runAgent[r] = a
      PROVE  RunsOf(a, "running") # {} \/ a \in misread'
  <2>1. ASSUME agentStatus[a] = "paused", UNCHANGED agentStatus PROVE FALSE
    BY <2>1
  <2> QED
    BY <1>1, <1>8, <2>1
    DEF Finalizes, ExecMarksAgent, StopMarksAgent, ExecFinalizes, StopFinalizes, agentVars
<1>2. ASSUME agentStatus[a] = "running", a \in misread => a \in misread' PROVE Goal
  BY <1>1, <1>2
<1>3. ASSUME NEW q \in RunIds, ExecLaunchesAdapter(q) PROVE Goal
  <2>1. CASE runAgent[q] = a
    BY <1>3, <2>1 DEF ExecLaunchesAdapter, ExecTo, WorkHasRow, TypeOK, ServerTypeOK
  <2>2. CASE runAgent[q] # a
    BY <1>2, <1>3, <2>2 DEF ExecLaunchesAdapter, TypeOK, ServerTypeOK
  <2> QED BY <2>1, <2>2
<1>4. ASSUME NEW q \in RunIds, ExecMarksAgent(q) \/ StopMarksAgent(q) PROVE Goal
  <2>1. runAgent[q] \in Agents
    BY <1>4, <1>9 DEF ExecMarksAgent, StopMarksAgent, Marks
  <2> QED BY <1>2, <1>4, <1>8, <2>1 DEF ExecMarksAgent, StopMarksAgent
<1>5. ASSUME NEW b \in Agents, Pause(b) \/ Resume(b) PROVE Goal
  BY <1>2, <1>5 DEF Pause, Resume, TypeOK, ServerTypeOK
<1>6. ASSUME NEW q \in RunIds, ExecStep(q) \/ StopStep(q) PROVE Goal
  BY <1>2, <1>3, <1>4, <1>6
  DEF ExecStep, ExecBegins, ExecThrows, ExecFollowsUp, ExecDecides, ExecPersists, ExecReleases,
      ExecFinalizes, StopStep, StopPersists, StopReleases, StopFinalizes, EndRun, agentVars
<1>7. CASE \/ \E b \in Agents, x \in Scopes : WakeOutsideLock(b, x)
           \/ \E b \in Agents, i \in Issues : WakeOnIssue(b, i)
           \/ \E b \in Agents : PickRun(b) \/ ClaimRun(b) \/ EndDispatch(b) \/ DispatchFails(b)
           \/ \E q \in RunIds : ExecFails(q) \/ Cancel(q) \/ Reap(q) \/ WatchdogFires(q)
           \/ \E i \in Issues : CancelParked(i)
           \/ Crash
           \/ UNCHANGED vars
  BY <1>2, <1>7
  DEF WakeOutsideLock, WakeOnIssue, PickRun, ClaimRun, EndDispatch, DispatchFails, Cancel, Reap,
      WatchdogFires, Redispatches, GivesUp, ExecFails,
      ExecFailsToBegin, ExecIsSuperseded, ExecThrowsLate, CancelParked, Crash, vars, agentVars
<1> QED BY <1>5, <1>6, <1>7 DEF Next

\* The strengthening is inductive.
LEMMA StatusNext == StatusInvariant /\ [Next]_vars => StatusInvariant'
<1> SUFFICES ASSUME StatusInvariant, [Next]_vars PROVE StatusInvariant'
  OBVIOUS
<1> USE DEF StatusInvariant
<1>1. ASSUME NEW a \in Agents, agentStatus'[a] = "running", ~(crashes' > 0)
      PROVE  \/ RunsOf(a, "running")' # {}
             \/ \E r \in RunIds : runAgent'[r] = a /\ Unfinalized(r)'
             \/ a \in misread'
  <2> DEFINE Goal == \/ RunsOf(a, "running")' # {}
                     \/ \E r \in RunIds : runAgent'[r] = a /\ Unfinalized(r)'
                     \/ a \in misread'
  <2>1. crashes' = crashes /\ ~(crashes > 0)
    BY <1>1, CrashesStep
  <2>2. ASSUME NEW r \in RunIds, runStatus[r] # "none", runAgent[r] = a,
               runStatus'[r] = "running" \/ Unfinalized(r)'
        PROVE  Goal
    BY <2>2, RowsKept DEF RunsOf
  <2>3. CASE RunsOf(a, "running") # {}
    <3>1. PICK r \in RunIds : runAgent[r] = a /\ runStatus[r] = "running"
      BY <2>3 DEF RunsOf
    <3> QED BY <2>2, <3>1, EndedIsUnfinalized
  <2>4. ASSUME NEW r \in RunIds, runStatus[r] # "none", runAgent[r] = a, exec'[r].pc = "adapter"
        PROVE  Goal
    BY <2>2, <2>4 DEF Unfinalized
  <2>5. CASE /\ agentStatus[a] = "running" /\ (a \in misread => a \in misread')
             /\ \A r \in RunIds : runAgent[r] = a => ~Finalizes(r)
    <3>1. CASE \E r \in RunIds : runAgent[r] = a /\ Unfinalized(r)
      <4>1. PICK r \in RunIds : runAgent[r] = a /\ Unfinalized(r)
        BY <3>1
      <4>2. runStatus[r] # "none"
        BY <4>1 DEF Unfinalized, Marks, LockInvariant, WorkHasRow
      <4> QED BY <2>1, <2>2, <2>5, <4>1, <4>2, UnfinalizedStep
    <3> QED BY <2>1, <2>3, <2>5, <3>1 DEF Settling
  <2> QED BY <1>1, <2>3, <2>4, <2>5, ShownAsRunning
<1>2. Settling'
  BY <1>1 DEF Settling
<1> QED BY <1>2, CountedNext, LockNext

\* While the server stays up, an agent is shown as running only as long as one of its
\* runs is, or somebody has still to finalize it, or a pause cancelled a run of it, or the
\* one that finalized it last had counted runs that were all over when it wrote: nothing else
\* leaves it running for good, in whatever order runs are claimed, finished and stopped.
THEOREM StatusSettles == Spec => []AgentStatusSettles
<1>1. Init => StatusInvariant
  <2> SUFFICES ASSUME Init PROVE StatusInvariant
    OBVIOUS
  <2>1. Counted /\ Settling
    BY DEF Init, Counted, IsCounted, ExecIdle, StopIdle, Settling
  <2> QED BY <2>1, LockInit DEF StatusInvariant
<1>2. StatusInvariant => AgentStatusSettles
  BY DEF StatusInvariant, Settling, Unfinalized, Marks, AgentStatusSettles
<1> QED BY <1>1, <1>2, StatusNext, PTL DEF Spec

================================================================================

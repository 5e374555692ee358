-------------------------- MODULE HeartbeatRunsProofs --------------------------
(***************************************************************************)
(* Proofs about HeartbeatRuns, for any agents, issues, policy and bounds.  *)
(***************************************************************************)
EXTENDS HeartbeatRuns, WellFoundedInduction, SequenceTheorems, TLAPS

\* A set of numbers has a least one.
LEMMA FirstIsLeast ==
    ASSUME NEW S \in SUBSET Nat, S # {}
    PROVE  \E k \in S : \A j \in S : k <= j
<1> DEFINE Below == OpToRel(<, Nat)
<1>1. IsWellFoundedOn(Below, Nat)
  BY NatLessThanWellFounded
<1>2. PICK k \in S : \A j \in S : ~(<<j, k>> \in Below)
  <2> HIDE DEF Below
  <2> QED BY <1>1, WFMin
<1>3. \A m, n \in Nat : m < n => <<m, n>> \in Below
  BY DEF OpToRel
<1>4. ASSUME NEW j \in S PROVE k <= j
  <2> HIDE DEF Below
  <2>1. ~(j < k)
    BY <1>2, <1>3
  <2> QED BY <2>1
<1> QED BY <1>4

\* So a nonempty set of run ids has an oldest member.
LEMMA OldestIsIn ==
    ASSUME NEW S, S \subseteq Nat, S # {}
    PROVE  Oldest(S) \in S
BY FirstIsLeast DEF Oldest

\* The run a wakeup finds in charge of an issue is active.
LEMMA HolderIsActive ==
    ASSUME TypeOK, NEW i \in Issues, HasHolder(i)
    PROVE  HolderOf(i) \in RunIds /\ IsActive(HolderOf(i))
<1> DEFINE running == {r \in ActiveOn(i) : runStatus[r] = "running"}
<1>1. CASE Locked(i)
  BY <1>1 DEF HolderOf, Locked, TypeOK, LocksTypeOK, NoRun
<1>2. CASE ~Locked(i) /\ running # {}
  <2>1. Oldest(running) \in running
    BY <1>2, OldestIsIn DEF ActiveOn, RunIds
  <2>2. HolderOf(i) = Oldest(running)
    BY <1>2 DEF HolderOf
  <2> QED BY <2>1, <2>2 DEF ActiveOn
<1>3. CASE ~Locked(i) /\ running = {}
  <2>1. ActiveOn(i) # {}
    BY <1>3 DEF HasHolder
  <2>2. Oldest(ActiveOn(i)) \in ActiveOn(i)
    BY <2>1, OldestIsIn DEF ActiveOn, RunIds
  <2>3. HolderOf(i) = Oldest(ActiveOn(i))
    BY <1>3 DEF HolderOf
  <2> QED BY <2>2, <2>3 DEF ActiveOn
<1> QED BY <1>1, <1>2, <1>3

-----------------------------------------------------------------------------
(* Type correctness.                                                       *)

\* The counters a watchdog takes are in range.
LEMMA ZeroAttempts == Off \in Nat /\ 0 \in 0..Off /\ Off \in 0..Off
BY PolicyAssumption DEF Off

\* Creating a run, of an agent on an issue or none, keeps the types of the rows.
LEMMA CreateRunTypes ==
    ASSUME RunsTypeOK, NEW a \in Agents, NEW x \in Scopes, NEW locked \in BOOLEAN,
           CreateRun(a, x, locked)
    PROVE  RunsTypeOK' /\ nextRun \in RunIds
<1>1. nextRun \in RunIds
  BY BoundAssumption DEF CreateRun, RunsTypeOK, RunIds
<1>2. nextRun' \in 1..(MaxRuns + 1)
  BY BoundAssumption DEF CreateRun, RunsTypeOK
<1> QED BY <1>1, <1>2 DEF CreateRun, RunsTypeOK, Active

\* So does writing the status of a run.
LEMMA SetRunStatusTypes ==
    ASSUME RunsTypeOK, NEW r \in RunIds, NEW s \in Active \cup Terminal, SetRunStatus(r, s)
    PROVE  RunsTypeOK'
BY DEF RunsTypeOK, SetRunStatus

\* Promotion and unlocking keep the types; the agents dispatched are agents.
LEMMA ReleaseTypes ==
    ASSUME TypeOK, NEW r \in RunIds, ReleaseAndPromote(r)
    PROVE  RunsTypeOK' /\ LocksTypeOK' /\ dispatch' \in SUBSET Agents /\ picked' = picked
<1>1. ASSUME NEW i \in Issues, Promote(i)
      PROVE  RunsTypeOK' /\ LocksTypeOK' /\ dispatch' \in SUBSET Agents
  <2>1. PICK k \in FirstInvokable(i) :
          /\ CreateRun(deferred[i][k], i, TRUE)
          /\ lock' = [lock EXCEPT ![i] = nextRun]
          /\ lockKey' = [lockKey EXCEPT ![i] = deferred[i][k]]
          /\ deferred' = [deferred EXCEPT ![i] = SubSeq(@, k + 1, Len(@))]
          /\ dispatch' = dispatch \cup {deferred[i][k]}
    BY <1>1 DEF Promote
  <2>2. deferred[i] \in Seq(Agents) /\ k \in 1..Len(deferred[i])
    BY DEF TypeOK, LocksTypeOK, FirstInvokable
  <2>3. deferred[i][k] \in Agents
    BY <2>2
  <2>4. SubSeq(deferred[i], k + 1, Len(deferred[i])) \in Seq(Agents)
    BY <2>2, SubSeqProperties
  <2>5. RunsTypeOK' /\ nextRun \in RunIds
    BY <2>1, <2>3, CreateRunTypes DEF TypeOK, Scopes
  <2> QED BY <2>1, <2>3, <2>4, <2>5 DEF TypeOK, LocksTypeOK, ServerTypeOK
<1>2. ASSUME NEW i \in Issues, Unlock(i)
      PROVE  RunsTypeOK' /\ LocksTypeOK'
  BY <1>2 DEF Unlock, TypeOK, RunsTypeOK, LocksTypeOK, runVars, NoRun
<1>3. CASE UNCHANGED <<runVars, lockVars, dispatch>>
  BY <1>3 DEF ReleaseAndPromote, TypeOK, RunsTypeOK, LocksTypeOK, ServerTypeOK, runVars, lockVars
<1> QED BY <1>1, <1>2, <1>3 DEF ReleaseAndPromote, TypeOK, ServerTypeOK

\* A wakeup that finds a holder keeps the types of the locks.
LEMMA AdoptHolderTypes ==
    ASSUME TypeOK, NEW i \in Issues, HasHolder(i), AdoptHolder(i)
    PROVE  /\ lock' \in [Issues -> RunIds \cup {NoRun}]
           /\ lockKey' \in [Issues -> Agents \cup {NoAgent}]
<1>1. HolderOf(i) \in RunIds
  BY HolderIsActive
<1>2. runAgent[HolderOf(i)] \in Agents \cup {NoAgent}
  BY <1>1 DEF TypeOK, RunsTypeOK
<1> QED BY <1>1, <1>2 DEF AdoptHolder, TypeOK, LocksTypeOK

\* The transaction of a wakeup keeps every type, whichever branch it takes.
LEMMA WakeTransactionTypes ==
    ASSUME TypeOK, NEW a \in Agents, NEW i \in Issues,
           NEW comment \in BOOLEAN, NEW force \in BOOLEAN,
           WakeTransaction(a, i, comment, force)
    PROVE  /\ RunsTypeOK' /\ LocksTypeOK'
           /\ dispatch' \in SUBSET Agents
           /\ picked' = picked
           /\ watchdog' \in [RunIds -> 0..Off]
<1>1. CASE WakeStarts(a, i)
  <2>1. RunsTypeOK' /\ nextRun \in RunIds
    BY <1>1, CreateRunTypes DEF WakeStarts, TypeOK, Scopes
  <2>2. LocksTypeOK'
    BY <1>1, <2>1 DEF WakeStarts, TypeOK, LocksTypeOK
  <2>3. watchdog' \in [RunIds -> 0..Off]
    BY <1>1, ZeroAttempts DEF WakeStarts, ArmAndDispatch, TypeOK, ServerTypeOK
  <2> QED BY <1>1, <2>1, <2>2, <2>3 DEF WakeStarts, ArmAndDispatch, TypeOK, ServerTypeOK
<1>2. CASE WakeCoalesces(a, i, comment, force)
  BY <1>2, AdoptHolderTypes
  DEF WakeCoalesces, TypeOK, RunsTypeOK, LocksTypeOK, ServerTypeOK, runVars, dispatchVars
<1>3. CASE WakeDefers(a, i, comment, force)
  <2>1. deferred' \in [Issues -> Seq(Agents)]
    BY <1>3 DEF WakeDefers, TypeOK, LocksTypeOK
  <2> QED
    BY <1>3, <2>1, AdoptHolderTypes
    DEF WakeDefers, TypeOK, RunsTypeOK, LocksTypeOK, ServerTypeOK, runVars, dispatchVars
<1> QED BY <1>1, <1>2, <1>3 DEF WakeTransaction

\* What an executor carries from stage to stage, and what a stopper does.
LEMMA StageCarries ==
    ASSUME ServerTypeOK, NEW r \in RunIds
    PROVE  /\ exec[r].pc \in {"persist", "catch"} => exec[r].out \in Terminal
           /\ exec[r].pc \in {"release", "finalize"} \cup Marks =>
                 exec[r].out \in {"none", "caught"}
           /\ stopper[r].pc \in {"persist", "release"} => stopper[r].kind \in StopKinds
<1>1. exec[r] \in ExecStages /\ stopper[r] \in StopStages
  BY DEF ServerTypeOK
<1>2. CASE exec[r] \in [pc : {"none", "launch", "preflight", "adapter", "decide"}, out : {"none"}]
  BY <1>1, <1>2 DEF StopStages, Marks
<1>3. CASE exec[r] \in [pc : {"persist", "catch"}, out : Terminal]
  BY <1>1, <1>3 DEF StopStages, Marks
<1>4. CASE exec[r] \in [pc : {"release", "finalize"} \cup Marks, out : {"none", "caught"}]
  BY <1>1, <1>4 DEF StopStages, Marks
<1> QED BY <1>1, <1>2, <1>3, <1>4 DEF ExecStages

\* Moving an executor to one of its stages keeps the types of the server.
LEMMA ExecToTypes ==
    ASSUME ServerTypeOK, NEW r \in RunIds, NEW pc, NEW out,
           [pc |-> pc, out |-> out] \in ExecStages, ExecTo(r, pc, out)
    PROVE  exec' \in [RunIds -> ExecStages]
BY DEF ExecTo, ServerTypeOK

\* Starting stoppers keeps their types and those of the bounds.
LEMMA StartStopsTypes ==
    ASSUME ServerTypeOK, NEW runs, NEW kind \in StopKinds, StartStops(runs, kind)
    PROVE  /\ stopper' \in [RunIds -> StopStages]
           /\ upsets' \in 0..MaxUpsets /\ crashes' = crashes
<1>1. [pc |-> "persist", kind |-> kind] \in StopStages
  BY DEF StopStages
<1>2. stopper' \in [RunIds -> StopStages]
  BY <1>1 DEF StartStops, ServerTypeOK
<1>3. upsets' \in 0..MaxUpsets /\ crashes' = crashes
  BY BoundAssumption DEF StartStops, Upset, ServerTypeOK
<1> QED BY <1>2, <1>3

\* Writing what a finalization read of an agent keeps the types of the agents.
LEMMA WriteMarkTypes ==
    ASSUME ServerTypeOK, NEW a \in Agents, NEW mark, WriteMark(a, mark)
    PROVE  /\ agentStatus' \in [Agents -> {"idle", "running", "paused"}]
           /\ waking' \in SUBSET Agents /\ misread' \in SUBSET Agents
BY DEF WriteMark, ServerTypeOK

\* What it read is one of two marks.
LEMMA MarkForIn == ASSUME NEW a PROVE MarkFor(a) \in Marks
BY DEF MarkFor, Marks

\* A freshly started server is well typed.
LEMMA TypeInit == Init => TypeOK
<1> SUFFICES ASSUME Init PROVE TypeOK
  OBVIOUS
<1>1. RunsTypeOK
  BY BoundAssumption DEF Init, RunsTypeOK, Scopes
<1>2. LocksTypeOK
  BY DEF Init, LocksTypeOK
<1>3. exec \in [RunIds -> ExecStages] /\ stopper \in [RunIds -> StopStages]
  BY DEF Init, ExecStages, StopStages, ExecIdle, StopIdle
<1>4. ServerTypeOK
  BY <1>3, BoundAssumption, ZeroAttempts DEF Init, ServerTypeOK
<1> QED BY <1>1, <1>2, <1>4 DEF TypeOK

\* Every step keeps the types, of rows that are whole.
LEMMA TypeNext == TypeOK /\ RowsAreWhole /\ WorkHasRow /\ [Next]_vars => TypeOK'
<1> SUFFICES ASSUME TypeOK, RowsAreWhole, WorkHasRow, [Next]_vars PROVE TypeOK'
  OBVIOUS
<1> USE DEF TypeOK
<1>0. ASSUME NEW r \in RunIds, exec[r].pc # "none" \/ stopper[r].pc # "none"
      PROVE  runAgent[r] \in Agents
  BY <1>0 DEF RowsAreWhole, WorkHasRow
<1>1. ASSUME NEW a \in Agents, NEW x \in Scopes, WakeOutsideLock(a, x) PROVE TypeOK'
  <2>1. CASE CreateRun(a, x, FALSE) /\ ArmAndDispatch(nextRun, a)
    <3>1. RunsTypeOK' /\ nextRun \in RunIds
      BY <2>1, CreateRunTypes
    <3>2. watchdog' \in [RunIds -> 0..Off]
      BY <2>1, ZeroAttempts DEF ArmAndDispatch, ServerTypeOK
    <3> QED
      BY <1>1, <2>1, <3>1, <3>2
      DEF WakeOutsideLock, ArmAndDispatch, LocksTypeOK, ServerTypeOK, lockVars, boundVars
  <2>2. CASE UNCHANGED <<runVars, dispatchVars, watchdog>>
    BY <1>1, <2>2
    DEF WakeOutsideLock, RunsTypeOK, LocksTypeOK, ServerTypeOK, runVars, lockVars, dispatchVars,
        boundVars
  <2> QED BY <1>1, <2>1, <2>2 DEF WakeOutsideLock
<1>2. ASSUME NEW a \in Agents, NEW i \in Issues, WakeOnIssue(a, i) PROVE TypeOK'
  BY <1>2, WakeTransactionTypes DEF WakeOnIssue, ServerTypeOK, boundVars
<1>3. ASSUME NEW a \in Agents, PickRun(a) PROVE TypeOK'
  BY <1>3
  DEF PickRun, RunsOf, RunsTypeOK, LocksTypeOK, ServerTypeOK, runVars, lockVars, agentVars,
      boundVars
<1>4. ASSUME NEW a \in Agents, ClaimRun(a) PROVE TypeOK'
  <2> DEFINE r == picked[a]
  <2>1. r \in RunIds
    BY <1>4 DEF ClaimRun, ServerTypeOK
  <2>2. CASE runStatus[r] = "queued"
    <3>1. RunsTypeOK'
      BY <1>4, <2>1, <2>2, SetRunStatusTypes DEF ClaimRun, Active
    <3>2. exec' \in [RunIds -> ExecStages]
      BY <1>4, <2>1, <2>2 DEF ClaimRun, ServerTypeOK, ExecStages
    <3>3. watchdog' \in [RunIds -> 0..Off]
      BY <1>4, <2>1, <2>2, ZeroAttempts DEF ClaimRun, ServerTypeOK
    <3> QED
      BY <1>4, <3>1, <3>2, <3>3
      DEF ClaimRun, LocksTypeOK, ServerTypeOK, lockVars, agentVars, boundVars
  <2>3. CASE runStatus[r] # "queued"
    BY <1>4, <2>3
    DEF ClaimRun, RunsTypeOK, LocksTypeOK, ServerTypeOK, runVars, lockVars, agentVars, boundVars
  <2> QED BY <2>2, <2>3
<1>5. ASSUME NEW a \in Agents, EndDispatch(a) PROVE TypeOK'
  BY <1>5
  DEF EndDispatch, RunsTypeOK, LocksTypeOK, ServerTypeOK, runVars, lockVars, agentVars, boundVars
<1>6. ASSUME NEW a \in Agents, DispatchFails(a) PROVE TypeOK'
  <2>1. upsets' \in 0..MaxUpsets /\ crashes' \in 0..MaxCrashes
    BY <1>6, BoundAssumption DEF DispatchFails, Upset, ServerTypeOK
  <2>2. exec' \in [RunIds -> ExecStages]
    BY <1>6 DEF DispatchFails, ServerTypeOK, ExecStages, ExecIdle
  <2>3. watchdog' \in [RunIds -> 0..Off]
    BY <1>6, ZeroAttempts DEF DispatchFails, ServerTypeOK
  <2> QED
    BY <1>6, <2>1, <2>2, <2>3
    DEF DispatchFails, RunsTypeOK, LocksTypeOK, ServerTypeOK, runVars, lockVars, agentVars
<1>7. ASSUME NEW a \in Agents, Pause(a) PROVE TypeOK'
  <2>1. /\ stopper' \in [RunIds -> StopStages]
        /\ upsets' \in 0..MaxUpsets /\ crashes' = crashes
    BY <1>7, StartStopsTypes DEF Pause, StopKinds
  <2> QED
    BY <1>7, <2>1
    DEF Pause, RunsTypeOK, LocksTypeOK, ServerTypeOK, runVars, lockVars, dispatchVars
<1>8. ASSUME NEW a \in Agents, Resume(a) PROVE TypeOK'
  BY <1>8
  DEF Resume, RunsTypeOK, LocksTypeOK, ServerTypeOK, runVars, lockVars, dispatchVars, boundVars
<1>17. ASSUME NEW r \in RunIds, ExecEnds(r) \/ StopEnds(r), runAgent[r] \in Agents
       PROVE  dispatch' \in SUBSET Agents /\ picked' = picked
  BY <1>17 DEF ExecEnds, StopEnds, ServerTypeOK
<1>9. ASSUME NEW r \in RunIds, ExecStep(r) PROVE TypeOK'
  <2> USE DEF runVars, lockVars, agentVars, dispatchVars, boundVars
  <2>1. CASE ExecBegins(r)
    <3>1. exec' \in [RunIds -> ExecStages]
      BY <2>1, ExecToTypes DEF ExecBegins, ExecStages
    <3>2. watchdog' \in [RunIds -> 0..Off]
      BY <2>1, ZeroAttempts DEF ExecBegins, ServerTypeOK
    <3> QED BY <2>1, <3>1, <3>2 DEF ExecBegins, RunsTypeOK, LocksTypeOK, ServerTypeOK
  <2>2. CASE ExecLaunchesAdapter(r)
    <3>1. exec' \in [RunIds -> ExecStages]
      BY <2>2, ExecToTypes DEF ExecLaunchesAdapter, ExecStages
    <3> QED BY <2>2, <3>1 DEF ExecLaunchesAdapter, RunsTypeOK, LocksTypeOK, ServerTypeOK
  <2>3. CASE ExecThrows(r)
    <3>1. exec' \in [RunIds -> ExecStages]
      BY <2>3, ExecToTypes DEF ExecThrows, ExecStages, Terminal
    <3> QED BY <2>3, <3>1 DEF ExecThrows, RunsTypeOK, LocksTypeOK, ServerTypeOK
  <2>4. CASE ExecFollowsUp(r)
    <3>1. exec' \in [RunIds -> ExecStages]
      BY <2>4, ExecToTypes DEF ExecFollowsUp, ExecStages, Terminal
    <3>2. CASE agentStatus[runAgent[r]] = "paused"
      BY <2>4, <3>1, <3>2 DEF ExecFollowsUp, RunsTypeOK, LocksTypeOK, ServerTypeOK
    <3>3. CASE agentStatus[runAgent[r]] # "paused"
      <4>1. WakeTransaction(runAgent[r], runIssue[r], FALSE, TRUE)
        BY <2>4, <3>3 DEF ExecFollowsUp
      <4>2. runIssue[r] \in Issues
        BY <2>4 DEF ExecFollowsUp, RunsTypeOK, Scopes
      <4>3. runAgent[r] \in Agents
        BY <1>0, <2>4 DEF ExecFollowsUp
      <4> QED
        BY <2>4, <3>1, <4>1, <4>2, <4>3, WakeTransactionTypes DEF ExecFollowsUp, ServerTypeOK
    <3> QED BY <3>2, <3>3
  <2>5. CASE ExecDecides(r)
    <3>1. exec' \in [RunIds -> ExecStages]
      BY <2>5, ExecToTypes DEF ExecDecides, ExecStages, Terminal
    <3> QED BY <2>5, <3>1 DEF ExecDecides, RunsTypeOK, LocksTypeOK, ServerTypeOK
  <2>6. CASE ExecPersists(r)
    <3>1. exec' \in [RunIds -> ExecStages]
      BY <2>6, ExecToTypes DEF ExecPersists, ExecStages
    <3>2. exec[r].out \in Terminal
      BY <2>6, StageCarries DEF ExecPersists
    <3>3. RunsTypeOK'
      BY <2>6, <3>2, SetRunStatusTypes DEF ExecPersists, EndRun
    <3>4. UNCHANGED <<agentStatus, waking>> /\ misread' \in SUBSET Agents
      BY <1>0, <2>6 DEF ExecPersists, EndRun, ServerTypeOK
    <3> QED BY <2>6, <3>1, <3>3, <3>4 DEF ExecPersists, LocksTypeOK, ServerTypeOK
  <2>7. CASE ExecReleases(r)
    <3>1. exec' \in [RunIds -> ExecStages]
      BY <2>7, StageCarries, ExecToTypes DEF ExecReleases, ExecStages
    <3>2. RunsTypeOK' /\ LocksTypeOK' /\ dispatch' \in SUBSET Agents /\ picked' = picked
      BY <1>0, <2>7, ReleaseTypes DEF ExecReleases
    <3> QED BY <2>7, <3>1, <3>2 DEF ExecReleases, ServerTypeOK
  <2>8. CASE ExecFinalizes(r)
    <3>1. exec[r].out \in {"none", "caught"} /\ runAgent[r] \in Agents
      BY <1>0, <2>8, StageCarries DEF ExecFinalizes
    <3>2. exec' \in [RunIds -> ExecStages]
      BY <2>8, <3>1, MarkForIn, ExecToTypes DEF ExecFinalizes, ExecEnds, ExecStages
    <3>3. dispatch' \in SUBSET Agents /\ picked' = picked
      BY <1>17, <2>8, <3>1 DEF ExecFinalizes, ServerTypeOK
    <3> QED BY <2>8, <3>2, <3>3 DEF ExecFinalizes, RunsTypeOK, LocksTypeOK, ServerTypeOK
  <2>9. CASE ExecMarksAgent(r)
    <3>1. runAgent[r] \in Agents
      BY <1>0, <2>9 DEF ExecMarksAgent, Marks
    <3>2. exec' \in [RunIds -> ExecStages]
      BY <2>9, ExecToTypes DEF ExecMarksAgent, ExecEnds, ExecStages
    <3>3. dispatch' \in SUBSET Agents /\ picked' = picked
      BY <1>17, <2>9, <3>1 DEF ExecMarksAgent
    <3>4. /\ agentStatus' \in [Agents -> {"idle", "running", "paused"}]
          /\ waking' \in SUBSET Agents /\ misread' \in SUBSET Agents
      BY <2>9, <3>1, WriteMarkTypes DEF ExecMarksAgent
    <3> QED BY <2>9, <3>2, <3>3, <3>4 DEF ExecMarksAgent, RunsTypeOK, LocksTypeOK, ServerTypeOK
  <2> QED
    BY <1>9, <2>1, <2>2, <2>3, <2>4, <2>5, <2>6, <2>7, <2>8, <2>9 DEF ExecStep
<1>18. ASSUME NEW r \in RunIds, ExecFails(r) PROVE TypeOK'
  <2>1. exec' \in [RunIds -> ExecStages]
    BY <1>18, ExecToTypes
    DEF ExecFails, ExecFailsToBegin, ExecIsSuperseded, ExecThrowsLate, ExecStages, Terminal
  <2>2. watchdog' \in [RunIds -> 0..Off]
    BY <1>18, ZeroAttempts
    DEF ExecFails, ExecFailsToBegin, ExecIsSuperseded, ExecThrowsLate, ServerTypeOK
  <2>3. upsets' \in 0..MaxUpsets /\ crashes' \in 0..MaxCrashes
    BY <1>18, BoundAssumption
    DEF ExecFails, ExecFailsToBegin, ExecIsSuperseded, ExecThrowsLate, Upset, ServerTypeOK
  <2>4. UNCHANGED <<runVars, lockVars, agentVars, dispatchVars, stopper>>
    BY <1>18 DEF ExecFails, ExecFailsToBegin, ExecIsSuperseded, ExecThrowsLate
  <2> QED
    BY <2>1, <2>2, <2>3, <2>4
    DEF RunsTypeOK, LocksTypeOK, ServerTypeOK, runVars, lockVars, agentVars, dispatchVars
<1>10. ASSUME NEW r \in RunIds, StopStep(r) PROVE TypeOK'
  <2> USE DEF runVars, lockVars, agentVars, dispatchVars, boundVars
  <2>0. ASSUME NEW pc, NEW kind, [pc |-> pc, kind |-> kind] \in StopStages, StopTo(r, pc, kind)
        PROVE  stopper' \in [RunIds -> StopStages]
    BY <2>0 DEF StopTo, ServerTypeOK
  <2>1. CASE StopPersists(r)
    <3>1. stopper' \in [RunIds -> StopStages]
      BY <2>0, <2>1, StageCarries DEF StopPersists, StopStages
    <3>2. RunsTypeOK'
      <4>1. PICK s \in Active \cup Terminal : SetRunStatus(r, s)
        BY <2>1 DEF StopPersists, EndRun, Terminal
      <4> QED BY <4>1, SetRunStatusTypes
    <3>3. watchdog' \in [RunIds -> 0..Off]
      BY <2>1, ZeroAttempts DEF StopPersists, ServerTypeOK
    <3>4. UNCHANGED <<agentStatus, waking>> /\ misread' \in SUBSET Agents
      BY <1>0, <2>1 DEF StopPersists, EndRun, ServerTypeOK
    <3> QED BY <2>1, <3>1, <3>2, <3>3, <3>4 DEF StopPersists, LocksTypeOK, ServerTypeOK
  <2>2. CASE StopReleases(r)
    <3>1. stopper' \in [RunIds -> StopStages]
      BY <2>0, <2>2 DEF StopReleases, StopStages
    <3>2. RunsTypeOK' /\ LocksTypeOK' /\ dispatch' \in SUBSET Agents /\ picked' = picked
      BY <2>2, ReleaseTypes DEF StopReleases
    <3> QED BY <2>2, <3>1, <3>2 DEF StopReleases, ServerTypeOK
  <2>3. CASE StopFinalizes(r)
    <3>1. runAgent[r] \in Agents
      BY <1>0, <2>3 DEF StopFinalizes
    <3>2. stopper' \in [RunIds -> StopStages]
      BY <2>0, <2>3, MarkForIn DEF StopFinalizes, StopEnds, StopStages
    <3>3. dispatch' \in SUBSET Agents /\ picked' = picked
      BY <1>17, <2>3, <3>1 DEF StopFinalizes, ServerTypeOK
    <3> QED BY <2>3, <3>2, <3>3 DEF StopFinalizes, RunsTypeOK, LocksTypeOK, ServerTypeOK
  <2>4. CASE StopMarksAgent(r)
    <3>1. runAgent[r] \in Agents
      BY <1>0, <2>4 DEF StopMarksAgent, Marks
    <3>2. stopper' \in [RunIds -> StopStages]
      BY <2>0, <2>4 DEF StopMarksAgent, StopEnds, StopStages
    <3>3. dispatch' \in SUBSET Agents /\ picked' = picked
      BY <1>17, <2>4, <3>1 DEF StopMarksAgent
    <3>4. /\ agentStatus' \in [Agents -> {"idle", "running", "paused"}]
          /\ waking' \in SUBSET Agents /\ misread' \in SUBSET Agents
      BY <2>4, <3>1, WriteMarkTypes DEF StopMarksAgent
    <3> QED BY <2>4, <3>2, <3>3, <3>4 DEF StopMarksAgent, RunsTypeOK, LocksTypeOK, ServerTypeOK
  <2> QED BY <1>10, <2>1, <2>2, <2>3, <2>4 DEF StopStep
<1>11. ASSUME NEW r \in RunIds, Cancel(r) PROVE TypeOK'
  <2>1. /\ stopper' \in [RunIds -> StopStages]
        /\ upsets' \in 0..MaxUpsets /\ crashes' = crashes
    BY <1>11, StartStopsTypes DEF Cancel, StopKinds
  <2> QED
    BY <1>11, <2>1
    DEF Cancel, RunsTypeOK, LocksTypeOK, ServerTypeOK, runVars, lockVars, agentVars, dispatchVars
<1>12. ASSUME NEW r \in RunIds, Reap(r) PROVE TypeOK'
  <2>1. stopper' \in [RunIds -> StopStages]
    BY <1>12 DEF Reap, StopTo, ServerTypeOK, StopStages, StopKinds
  <2> QED
    BY <1>12, <2>1
    DEF Reap, RunsTypeOK, LocksTypeOK, ServerTypeOK, runVars, lockVars, agentVars, dispatchVars,
        boundVars
<1>13. ASSUME NEW r \in RunIds, WatchdogFires(r) PROVE TypeOK'
  <2> USE DEF runVars, lockVars, agentVars, dispatchVars, boundVars
  <2>1. CASE Redispatches(r)
    <3>1. runAgent[r] \in Agents
      BY <2>1 DEF Redispatches, Overdue, RowsAreWhole
    <3>2. watchdog[r] + 1 \in 0..Off
      BY <2>1, ZeroAttempts, PolicyAssumption DEF Redispatches, ServerTypeOK, Off
    <3>3. watchdog' \in [RunIds -> 0..Off]
      BY <2>1, <3>2 DEF Redispatches, ServerTypeOK
    <3>4. exec' \in [RunIds -> ExecStages]
      BY <2>1, ExecToTypes DEF Redispatches, ServerTypeOK, ExecStages
    <3> QED
      BY <2>1, <3>1, <3>3, <3>4 DEF Redispatches, RunsTypeOK, LocksTypeOK, ServerTypeOK
  <2>2. CASE GivesUp(r)
    <3>1. stopper' \in [RunIds -> StopStages]
      BY <2>2 DEF GivesUp, StopTo, ServerTypeOK, StopStages, StopKinds
    <3> QED BY <2>2, <3>1 DEF GivesUp, RunsTypeOK, LocksTypeOK, ServerTypeOK
  <2> QED BY <1>13, <2>1, <2>2 DEF WatchdogFires
<1>14. ASSUME NEW i \in Issues, CancelParked(i) PROVE TypeOK'
  <2>1. PICK k \in 1..Len(deferred[i]) :
          deferred' = [deferred EXCEPT ![i] = SubSeq(@, 1, k - 1) \o SubSeq(@, k + 1, Len(@))]
    BY <1>14 DEF CancelParked
  <2>2. deferred[i] \in Seq(Agents)
    BY DEF LocksTypeOK
  <2>3. SubSeq(deferred[i], 1, k - 1) \in Seq(Agents)
    BY <2>2, SubSeqProperties
  <2>4. SubSeq(deferred[i], k + 1, Len(deferred[i])) \in Seq(Agents)
    BY <2>2, SubSeqProperties
  <2>5. deferred' \in [Issues -> Seq(Agents)]
    BY <2>1, <2>3, <2>4, ConcatProperties DEF LocksTypeOK
  <2> QED
    BY <1>14, <2>5
    DEF CancelParked, RunsTypeOK, LocksTypeOK, ServerTypeOK, runVars, agentVars, dispatchVars,
        boundVars
<1>15. CASE Crash
  <2>1. exec' \in [RunIds -> ExecStages] /\ stopper' \in [RunIds -> StopStages]
    BY <1>15 DEF Crash, ExecStages, StopStages, ExecIdle, StopIdle
  <2>2. crashes' \in 0..MaxCrashes
    BY <1>15, BoundAssumption DEF Crash, ServerTypeOK
  <2>3. watchdog' \in [RunIds -> 0..Off]
    BY <1>15, ZeroAttempts DEF Crash
  <2> QED
    BY <1>15, <2>1, <2>2, <2>3
    DEF Crash, RunsTypeOK, LocksTypeOK, ServerTypeOK, runVars, lockVars
<1>16. CASE UNCHANGED vars
  BY <1>16
  DEF vars, RunsTypeOK, LocksTypeOK, ServerTypeOK, runVars, lockVars, agentVars, dispatchVars,
      boundVars
<1> QED
  BY <1>1, <1>2, <1>3, <1>4, <1>5, <1>6, <1>7, <1>8, <1>9, <1>10, <1>11, <1>12, <1>13, <1>14,
     <1>15, <1>16, <1>18
  DEF Next

-----------------------------------------------------------------------------
(* What any step may do to the runs.                                       *)

\* A step leaves the runs alone, creates one, claims a queued one, or gives one
\* that exists a terminal status.
LEMMA RunStep ==
    ASSUME TypeOK, RowsAreWhole, WorkHasRow, [Next]_vars
    PROVE  \/ UNCHANGED runVars
           \/ \E a \in Agents, x \in Scopes, locked \in BOOLEAN : CreateRun(a, x, locked)
           \/ \E r \in RunIds : runStatus[r] = "queued" /\ SetRunStatus(r, "running")
           \/ \E r \in RunIds, s \in Terminal : runStatus[r] # "none" /\ SetRunStatus(r, s)
<1> DEFINE Goal == \/ UNCHANGED runVars
                   \/ \E a \in Agents, x \in Scopes, locked \in BOOLEAN : CreateRun(a, x, locked)
                   \/ \E r \in RunIds : runStatus[r] = "queued" /\ SetRunStatus(r, "running")
                   \/ \E r \in RunIds, s \in Terminal :
                         runStatus[r] # "none" /\ SetRunStatus(r, s)
<1> SUFFICES Goal
  OBVIOUS
<1>1. ASSUME NEW a \in Agents, NEW x \in Scopes, WakeOutsideLock(a, x) PROVE Goal
  BY <1>1 DEF WakeOutsideLock
<1>2. ASSUME NEW a \in Agents, NEW i \in Issues,
             NEW comment \in BOOLEAN, NEW force \in BOOLEAN,
             WakeTransaction(a, i, comment, force)
      PROVE  Goal
  BY <1>2 DEF WakeTransaction, WakeStarts, WakeCoalesces, WakeDefers, Scopes
<1>3. ASSUME NEW a \in Agents, NEW i \in Issues, WakeOnIssue(a, i) PROVE Goal
  BY <1>2, <1>3 DEF WakeOnIssue
<1>4. ASSUME NEW r \in RunIds, ReleaseAndPromote(r) PROVE Goal
  <2>1. ASSUME NEW i \in Issues, Promote(i) PROVE Goal
    <3>1. PICK k \in FirstInvokable(i) : CreateRun(deferred[i][k], i, TRUE)
      BY <2>1 DEF Promote
    <3>2. deferred[i][k] \in Agents
      BY <3>1 DEF FirstInvokable, TypeOK, LocksTypeOK
    <3> QED BY <3>1, <3>2 DEF Scopes
  <2> QED BY <1>4, <2>1 DEF ReleaseAndPromote, Unlock
<1>5. ASSUME NEW r \in RunIds, ExecStep(r) PROVE Goal
  <2>1. CASE ExecFollowsUp(r)
    <3>1. CASE agentStatus[runAgent[r]] = "paused"
      BY <2>1, <3>1 DEF ExecFollowsUp
    <3>2. CASE agentStatus[runAgent[r]] # "paused"
      <4>1. runAgent[r] \in Agents /\ runIssue[r] \in Issues
        BY <2>1 DEF ExecFollowsUp, RowsAreWhole, WorkHasRow, TypeOK, RunsTypeOK, Scopes
      <4> QED BY <1>2, <2>1, <3>2, <4>1 DEF ExecFollowsUp
    <3> QED BY <3>1, <3>2
  <2>2. CASE ExecPersists(r)
    <3>1. exec[r].out \in Terminal
      BY <2>2, StageCarries DEF ExecPersists, TypeOK
    <3>2. runStatus[r] # "none"
      BY <2>2 DEF ExecPersists, WorkHasRow
    <3> QED BY <2>2, <3>1, <3>2 DEF ExecPersists, EndRun
  <2>3. CASE ExecReleases(r)
    BY <1>4, <2>3 DEF ExecReleases
  <2> QED
    BY <1>5, <2>1, <2>2, <2>3
    DEF ExecStep, ExecBegins, ExecLaunchesAdapter, ExecThrows, ExecDecides, ExecFinalizes,
        ExecMarksAgent
<1>6. ASSUME NEW r \in RunIds, StopStep(r) PROVE Goal
  <2>1. CASE StopPersists(r)
    <3>1. runStatus[r] # "none"
      BY <2>1 DEF StopPersists, WorkHasRow
    <3>2. PICK s \in Terminal : SetRunStatus(r, s)
      BY <2>1 DEF StopPersists, EndRun, Terminal
    <3> QED BY <3>1, <3>2
  <2>2. CASE StopReleases(r)
    BY <1>4, <2>2 DEF StopReleases
  <2> QED BY <1>6, <2>1, <2>2 DEF StopStep, StopFinalizes, StopMarksAgent
<1>7. ASSUME NEW a \in Agents, ClaimRun(a) PROVE Goal
  <2>1. picked[a] \in RunIds
    BY <1>7 DEF ClaimRun, TypeOK, ServerTypeOK
  <2> QED BY <1>7, <2>1 DEF ClaimRun
<1>8. CASE \/ \E a \in Agents : PickRun(a) \/ EndDispatch(a) \/ DispatchFails(a)
           \/ \E a \in Agents : Pause(a) \/ Resume(a)
           \/ \E r \in RunIds : ExecFails(r) \/ Cancel(r) \/ Reap(r) \/ WatchdogFires(r)
           \/ \E i \in Issues : CancelParked(i)
           \/ Crash
           \/ UNCHANGED vars
  BY <1>8
  DEF PickRun, EndDispatch, DispatchFails, Pause, Resume, ExecFails, ExecFailsToBegin,
      ExecIsSuperseded, ExecThrowsLate, Cancel, Reap, WatchdogFires, Redispatches, GivesUp,
      CancelParked, Crash, vars
<1> QED BY <1>1, <1>3, <1>5, <1>6, <1>7, <1>8 DEF Next

\* So rows stay whole, and a finished run stays finished.
LEMMA RunsKept ==
    ASSUME TypeOK, RowsAreWhole, WorkHasRow, [Next]_vars
    PROVE  /\ RowsAreWhole'
           /\ \A r \in RunIds : runStatus[r] # "none" => runStatus'[r] # "none"
           /\ \A r \in RunIds : runStatus[r] \in Terminal => runStatus'[r] \in Terminal
<1>1. CASE UNCHANGED runVars
  BY <1>1 DEF runVars, RowsAreWhole
<1>2. ASSUME NEW a \in Agents, NEW x \in Scopes, NEW locked \in BOOLEAN, CreateRun(a, x, locked)
      PROVE  /\ RowsAreWhole'
             /\ \A r \in RunIds : runStatus[r] # "none" => runStatus'[r] # "none"
             /\ \A r \in RunIds : runStatus[r] \in Terminal => runStatus'[r] \in Terminal
  <2>1. nextRun \in RunIds /\ runStatus[nextRun] = "none"
    BY <1>2, CreateRunTypes DEF RowsAreWhole, TypeOK, RunIds
  <2>2. RowsAreWhole'
    BY <1>2, <2>1 DEF CreateRun, RowsAreWhole, TypeOK, RunsTypeOK, RunIds
  <2> QED BY <1>2, <2>1, <2>2 DEF CreateRun, TypeOK, RunsTypeOK, Terminal
<1>3. ASSUME NEW r \in RunIds, runStatus[r] = "queued", SetRunStatus(r, "running")
      PROVE  /\ RowsAreWhole'
             /\ \A q \in RunIds : runStatus[q] # "none" => runStatus'[q] # "none"
             /\ \A q \in RunIds : runStatus[q] \in Terminal => runStatus'[q] \in Terminal
  BY <1>3 DEF SetRunStatus, RowsAreWhole, TypeOK, RunsTypeOK, Terminal
<1>4. ASSUME NEW r \in RunIds, NEW s \in Terminal, runStatus[r] # "none", SetRunStatus(r, s)
      PROVE  /\ RowsAreWhole'
             /\ \A q \in RunIds : runStatus[q] # "none" => runStatus'[q] # "none"
             /\ \A q \in RunIds : runStatus[q] \in Terminal => runStatus'[q] \in Terminal
  BY <1>4 DEF SetRunStatus, RowsAreWhole, TypeOK, RunsTypeOK, Terminal
<1> QED BY RunStep, <1>1, <1>2, <1>3, <1>4

\* What any step may do to the executors and stoppers: one starts only on a
\* queued or active run, and reaches its release only by persisting an end.
LEMMA WorkStep ==
    ASSUME TypeOK, [Next]_vars, NEW r \in RunIds
    PROVE  /\ exec'[r].pc # "none" => exec[r].pc # "none" \/ runStatus[r] # "none"
           /\ stopper'[r].pc # "none" => stopper[r].pc # "none" \/ runStatus[r] # "none"
           /\ exec'[r].pc = "release" => exec[r].pc = "release" \/ runStatus'[r] \in Terminal
           /\ stopper'[r].pc = "release" =>
                 stopper[r].pc = "release" \/ runStatus'[r] \in Terminal
<1> DEFINE ExecOK == /\ exec'[r].pc # "none" => exec[r].pc # "none" \/ runStatus[r] # "none"
                     /\ exec'[r].pc = "release" =>
                           exec[r].pc = "release" \/ runStatus'[r] \in Terminal
           StopOK == /\ stopper'[r].pc # "none" => stopper[r].pc # "none" \/ runStatus[r] # "none"
                     /\ stopper'[r].pc = "release" =>
                           stopper[r].pc = "release" \/ runStatus'[r] \in Terminal
<1> SUFFICES ExecOK /\ StopOK
  OBVIOUS
<1>1. ASSUME NEW q \in RunIds, ExecStep(q) PROVE ExecOK /\ StopOK
  <2>1. exec[q].pc # "none" /\ exec \in [RunIds -> ExecStages]
    BY <1>1
    DEF ExecStep, ExecBegins, ExecLaunchesAdapter, ExecThrows, ExecFollowsUp, ExecDecides,
        ExecPersists, ExecReleases, ExecFinalizes, ExecMarksAgent, Marks, TypeOK, ServerTypeOK
  <2>2. StopOK
    BY <1>1
    DEF ExecStep, ExecBegins, ExecLaunchesAdapter, ExecThrows, ExecFollowsUp, ExecDecides,
        ExecPersists, ExecReleases, ExecFinalizes, ExecMarksAgent
  <2>3. CASE ExecPersists(q)
    <3>1. exec[q].out \in Terminal
      BY <2>3, StageCarries DEF ExecPersists, TypeOK
    <3> QED
      BY <2>1, <2>2, <2>3, <3>1
      DEF ExecPersists, EndRun, ExecTo, SetRunStatus, TypeOK, RunsTypeOK
  <2>4. ASSUME NEW pc, NEW out, ExecTo(q, pc, out), pc # "release"
        PROVE  ExecOK
    BY <2>1, <2>4 DEF ExecTo
  <2>5. CASE ExecBegins(q) \/ ExecLaunchesAdapter(q) \/ ExecThrows(q)
    BY <2>2, <2>4, <2>5 DEF ExecBegins, ExecLaunchesAdapter, ExecThrows
  <2>6. CASE ExecFollowsUp(q) \/ ExecDecides(q) \/ ExecReleases(q)
    BY <2>2, <2>4, <2>6 DEF ExecFollowsUp, ExecDecides, ExecReleases
  <2>7. CASE ExecFinalizes(q) \/ ExecMarksAgent(q)
    <3>1. MarkFor(runAgent[q]) # "release"
      BY MarkForIn DEF Marks
    <3> QED BY <2>2, <2>4, <2>7, <3>1 DEF ExecFinalizes, ExecMarksAgent, ExecEnds
  <2> QED BY <1>1, <2>3, <2>5, <2>6, <2>7 DEF ExecStep
<1>11. ASSUME NEW q \in RunIds, ExecFails(q) PROVE ExecOK /\ StopOK
  <2>1. exec[q].pc # "none" /\ exec \in [RunIds -> ExecStages] /\ UNCHANGED stopper
    BY <1>11
    DEF ExecFails, ExecFailsToBegin, ExecIsSuperseded, ExecThrowsLate, Marks, TypeOK, ServerTypeOK
  <2>2. PICK pc \in {"none", "catch"}, out \in Terminal \cup {"none"} : ExecTo(q, pc, out)
    BY <1>11 DEF Terminal, ExecFails, ExecFailsToBegin, ExecIsSuperseded, ExecThrowsLate
  <2> QED BY <1>11, <2>1, <2>2
    DEF ExecTo, ExecFails, ExecFailsToBegin, ExecIsSuperseded, ExecThrowsLate
<1>2. ASSUME NEW q \in RunIds, StopStep(q) PROVE ExecOK /\ StopOK
  <2>1. ExecOK
    BY <1>2 DEF StopStep, StopPersists, StopReleases, StopFinalizes, StopMarksAgent
  <2>2. CASE StopPersists(q)
    BY <2>1, <2>2
    DEF StopPersists, EndRun, StopTo, SetRunStatus, Terminal, TypeOK, RunsTypeOK, ServerTypeOK
  <2>3. ASSUME stopper[q].pc # "none", NEW pc, NEW kind, StopTo(q, pc, kind), pc # "release"
        PROVE  StopOK
    BY <2>3 DEF StopTo, TypeOK, ServerTypeOK
  <2>4. CASE StopReleases(q) \/ StopMarksAgent(q)
    BY <2>1, <2>3, <2>4 DEF StopReleases, StopMarksAgent, StopEnds, Marks
  <2>5. CASE StopFinalizes(q)
    <3>1. MarkFor(runAgent[q]) # "release"
      BY MarkForIn DEF Marks
    <3> QED BY <2>1, <2>3, <2>5, <3>1 DEF StopFinalizes, StopEnds
  <2> QED BY <1>2, <2>2, <2>4, <2>5 DEF StopStep
<1>3. ASSUME NEW runs, NEW kind, StartStops(runs, kind) PROVE StopOK
  BY <1>3 DEF StartStops, IsActive, Active
<1>4. ASSUME NEW q \in RunIds, NEW kind, StopTo(q, "persist", kind), IsActive(q) PROVE StopOK
  BY <1>4 DEF StopTo, IsActive, Active, TypeOK, ServerTypeOK
<1>5. ASSUME NEW q \in RunIds, Cancel(q) \/ Reap(q) \/ WatchdogFires(q) PROVE ExecOK /\ StopOK
  <2>1. CASE Cancel(q)
    BY <1>3, <2>1 DEF Cancel
  <2>2. CASE Reap(q)
    BY <1>4, <2>2 DEF Reap
  <2>3. CASE Redispatches(q)
    BY <2>3 DEF Redispatches, Overdue, ExecTo, TypeOK, ServerTypeOK
  <2>4. CASE GivesUp(q)
    BY <1>4, <2>4 DEF GivesUp, Overdue, IsActive, Active
  <2> QED BY <1>5, <2>1, <2>2, <2>3, <2>4 DEF WatchdogFires
<1>6. ASSUME NEW a \in Agents, ClaimRun(a) PROVE ExecOK /\ StopOK
  <2>1. picked[a] \in RunIds
    BY <1>6 DEF ClaimRun, TypeOK, ServerTypeOK
  <2> QED BY <1>6, <2>1 DEF ClaimRun, TypeOK, ServerTypeOK
<1>7. ASSUME NEW a \in Agents, Pause(a) PROVE ExecOK /\ StopOK
  BY <1>3, <1>7 DEF Pause
<1>8. ASSUME NEW a \in Agents, DispatchFails(a) PROVE ExecOK /\ StopOK
  BY <1>8 DEF DispatchFails, ExecIdle
<1>9. CASE Crash
  BY <1>9 DEF Crash, ExecIdle, StopIdle
<1>10. CASE \/ \E a \in Agents, x \in Scopes : WakeOutsideLock(a, x)
            \/ \E a \in Agents, i \in Issues : WakeOnIssue(a, i)
            \/ \E a \in Agents : PickRun(a) \/ EndDispatch(a) \/ Resume(a)
            \/ \E i \in Issues : CancelParked(i)
            \/ UNCHANGED vars
  BY <1>10
  DEF WakeOutsideLock, WakeOnIssue, PickRun, EndDispatch, Resume, CancelParked, vars
<1> QED BY <1>1, <1>2, <1>5, <1>6, <1>7, <1>8, <1>9, <1>10, <1>11 DEF Next

-----------------------------------------------------------------------------
(* The lock.                                                               *)

\* While an active run created under the lock of an issue exists, nobody else
\* can be found in charge of it.
LEMMA LockedByItsRun ==
    ASSUME LockPathHolds, NEW r \in RunIds, IsActive(r), onLockPath[r]
    PROVE  Locked(runIssue[r]) /\ HolderOf(runIssue[r]) = r /\ HasHolder(runIssue[r])
<1>1. lock[runIssue[r]] = r
  BY DEF LockPathHolds
<1>2. r # NoRun
  BY DEF RunIds, NoRun
<1>3. Locked(runIssue[r])
  BY <1>1, <1>2 DEF Locked
<1> QED BY <1>1, <1>3 DEF HolderOf, HasHolder

\* A fresh run that takes the lock of an issue no other one holds.
LEMMA FreshHolder ==
    ASSUME TypeOK, RowsAreWhole, LockPathHolds, NEW a \in Agents, NEW i \in Issues,
           CreateRun(a, i, TRUE), lock' = [lock EXCEPT ![i] = nextRun],
           \A r \in RunIds : IsActive(r) /\ onLockPath[r] => runIssue[r] # i
    PROVE  LockPathHolds'
<1>1. nextRun \in RunIds
  BY CreateRunTypes DEF TypeOK, Scopes
<1> SUFFICES ASSUME NEW r \in RunIds, IsActive(r)', onLockPath'[r]
             PROVE  runIssue'[r] \in Issues /\ lock'[runIssue'[r]] = r
  BY DEF LockPathHolds
<1>2. CASE r = nextRun
  BY <1>1, <1>2 DEF CreateRun, TypeOK, RunsTypeOK, LocksTypeOK
<1>3. CASE r # nextRun
  <2>1. IsActive(r) /\ onLockPath[r] /\ runIssue'[r] = runIssue[r]
    BY <1>1, <1>3 DEF CreateRun, IsActive, TypeOK, RunsTypeOK
  <2> QED BY <2>1 DEF LockPathHolds, TypeOK, LocksTypeOK
<1> QED BY <1>2, <1>3

\* A wakeup never takes the lock from the run it belongs to.
LEMMA WakeKeepsLockPath ==
    ASSUME TypeOK, RowsAreWhole, LockPathHolds, NEW a \in Agents, NEW i \in Issues,
           NEW comment \in BOOLEAN, NEW force \in BOOLEAN,
           WakeTransaction(a, i, comment, force)
    PROVE  LockPathHolds'
<1>1. CASE WakeStarts(a, i)
  <2>1. \A r \in RunIds : IsActive(r) /\ onLockPath[r] => runIssue[r] # i
    BY <1>1, LockedByItsRun DEF WakeStarts
  <2> QED BY <1>1, <2>1, FreshHolder DEF WakeStarts
<1>2. ASSUME UNCHANGED runVars, AdoptHolder(i)
      PROVE  LockPathHolds'
  <2> SUFFICES ASSUME NEW r \in RunIds, IsActive(r), onLockPath[r]
               PROVE  runIssue[r] \in Issues /\ lock'[runIssue[r]] = r
    BY <1>2 DEF LockPathHolds, IsActive, runVars
  <2>1. runIssue[r] \in Issues /\ lock[runIssue[r]] = r
    BY DEF LockPathHolds
  <2>2. CASE runIssue[r] = i
    BY <1>2, <2>1, <2>2, LockedByItsRun DEF AdoptHolder, TypeOK, LocksTypeOK
  <2>3. CASE runIssue[r] # i
    BY <1>2, <2>1, <2>3 DEF AdoptHolder, TypeOK, LocksTypeOK
  <2> QED BY <2>2, <2>3
<1>3. CASE WakeCoalesces(a, i, comment, force) \/ WakeDefers(a, i, comment, force)
  BY <1>2, <1>3 DEF WakeCoalesces, WakeDefers
<1> QED BY <1>1, <1>3 DEF WakeTransaction

\* Releasing a run that is over never takes the lock from another one.
LEMMA ReleaseKeepsLockPath ==
    ASSUME TypeOK, RowsAreWhole, LockPathHolds, NEW r \in RunIds, ~IsActive(r),
           ReleaseAndPromote(r)
    PROVE  LockPathHolds'
<1>1. ASSUME NEW i \in Issues, lock[i] = r, NEW q \in RunIds, IsActive(q), onLockPath[q]
      PROVE  runIssue[q] # i
  BY <1>1 DEF LockPathHolds
<1>2. ASSUME NEW i \in Issues, lock[i] = r, Promote(i)
      PROVE  LockPathHolds'
  <2>1. PICK k \in FirstInvokable(i) :
          CreateRun(deferred[i][k], i, TRUE) /\ lock' = [lock EXCEPT ![i] = nextRun]
    BY <1>2 DEF Promote
  <2>2. deferred[i][k] \in Agents
    BY <2>1 DEF FirstInvokable, TypeOK, LocksTypeOK
  <2> QED BY <1>1, <1>2, <2>1, <2>2, FreshHolder
<1>3. ASSUME NEW i \in Issues, lock[i] = r, Unlock(i)
      PROVE  LockPathHolds'
  BY <1>1, <1>3 DEF Unlock, LockPathHolds, IsActive, runVars, TypeOK, LocksTypeOK
<1>4. CASE UNCHANGED <<runVars, lockVars>>
  BY <1>4 DEF LockPathHolds, IsActive, runVars, lockVars
<1> QED BY <1>2, <1>3, <1>4 DEF ReleaseAndPromote

\* The invariant is inductive.
LEMMA LockInit == Init => LockInvariant
<1> SUFFICES ASSUME Init PROVE LockInvariant
  OBVIOUS
<1>1. RowsAreWhole /\ WorkHasRow /\ ReleasedIsOver /\ LockPathHolds
  BY DEF Init, RowsAreWhole, WorkHasRow, ReleasedIsOver, LockPathHolds, IsActive, Active,
         ExecIdle, StopIdle
<1> QED BY <1>1, TypeInit DEF LockInvariant

\* No step takes the lock from an active run that was created under it.
LEMMA LockPathNext == LockInvariant /\ [Next]_vars => LockPathHolds'
<1> SUFFICES ASSUME LockInvariant, [Next]_vars PROVE LockPathHolds'
  OBVIOUS
<1> USE DEF LockInvariant
<1>1. ASSUME UNCHANGED <<runVars, lock>> PROVE LockPathHolds'
  BY <1>1 DEF LockPathHolds, IsActive, runVars
<1>2. ASSUME UNCHANGED lock, NEW r \in RunIds, NEW s,
             SetRunStatus(r, s), s \in Active => IsActive(r)
      PROVE  LockPathHolds'
  BY <1>2 DEF LockPathHolds, IsActive, SetRunStatus, TypeOK, RunsTypeOK
<1>3. ASSUME NEW a \in Agents, NEW x \in Scopes, WakeOutsideLock(a, x) PROVE LockPathHolds'
  <2>1. CASE CreateRun(a, x, FALSE)
    <3>1. nextRun \in RunIds
      BY <2>1, CreateRunTypes DEF TypeOK
    <3>2. UNCHANGED lock
      BY <1>3 DEF WakeOutsideLock, lockVars
    <3> QED BY <2>1, <3>1, <3>2 DEF CreateRun, LockPathHolds, IsActive, TypeOK, RunsTypeOK
  <2> QED BY <1>1, <1>3, <2>1 DEF WakeOutsideLock, lockVars
<1>4. ASSUME NEW a \in Agents, NEW i \in Issues, WakeOnIssue(a, i) PROVE LockPathHolds'
  BY <1>4, WakeKeepsLockPath DEF WakeOnIssue
<1>5. ASSUME NEW a \in Agents, ClaimRun(a) PROVE LockPathHolds'
  <2>1. picked[a] \in RunIds
    BY <1>5 DEF ClaimRun, TypeOK, ServerTypeOK
  <2> QED BY <1>1, <1>2, <1>5, <2>1 DEF ClaimRun, IsActive, Active, lockVars
<1>6. ASSUME NEW r \in RunIds, ExecStep(r) PROVE LockPathHolds'
  <2>1. CASE ExecFollowsUp(r)
    <3>1. runAgent[r] \in Agents /\ runIssue[r] \in Issues
      BY <2>1 DEF ExecFollowsUp, RowsAreWhole, WorkHasRow, TypeOK, RunsTypeOK, Scopes
    <3> QED BY <1>1, <2>1, <3>1, WakeKeepsLockPath DEF ExecFollowsUp, lockVars
  <2>2. CASE ExecPersists(r)
    <3>1. exec[r].out \notin Active
      BY <2>2, StageCarries DEF ExecPersists, TypeOK, Terminal, Active
    <3> QED BY <1>2, <2>2, <3>1 DEF ExecPersists, EndRun, lockVars
  <2>3. CASE ExecReleases(r)
    <3>1. ~IsActive(r)
      BY <2>3 DEF ExecReleases, ReleasedIsOver, IsActive, Active, Terminal
    <3> QED BY <2>3, <3>1, ReleaseKeepsLockPath DEF ExecReleases
  <2> QED
    BY <1>1, <1>6, <2>1, <2>2, <2>3
    DEF ExecStep, ExecBegins, ExecLaunchesAdapter, ExecThrows, ExecDecides, ExecFinalizes,
        ExecMarksAgent, lockVars
<1>7. ASSUME NEW r \in RunIds, StopStep(r) PROVE LockPathHolds'
  <2>1. CASE StopPersists(r)
    BY <1>2, <2>1 DEF StopPersists, EndRun, Active, lockVars
  <2>2. CASE StopReleases(r)
    <3>1. ~IsActive(r)
      BY <2>2 DEF StopReleases, ReleasedIsOver, IsActive, Active, Terminal
    <3> QED BY <2>2, <3>1, ReleaseKeepsLockPath DEF StopReleases
  <2> QED BY <1>1, <1>7, <2>1, <2>2 DEF StopStep, StopFinalizes, StopMarksAgent, lockVars
<1>8. CASE \/ \E a \in Agents : PickRun(a) \/ EndDispatch(a) \/ DispatchFails(a)
           \/ \E a \in Agents : Pause(a) \/ Resume(a)
           \/ \E r \in RunIds : ExecFails(r) \/ Cancel(r) \/ Reap(r) \/ WatchdogFires(r)
           \/ \E i \in Issues : CancelParked(i)
           \/ Crash
           \/ UNCHANGED vars
  BY <1>1, <1>8
  DEF PickRun, EndDispatch, DispatchFails, Pause, Resume, ExecFails, ExecFailsToBegin,
      ExecIsSuperseded, ExecThrowsLate, Cancel, Reap, WatchdogFires, Redispatches, GivesUp,
      CancelParked, Crash, vars, lockVars
<1> QED BY <1>3, <1>4, <1>5, <1>6, <1>7, <1>8 DEF Next

\* No step takes the lock of an issue away from an active run, whether that run
\* was created under the lock or adopted into it.
LEMMA LockStep ==
    ASSUME TypeOK, RowsAreWhole, WorkHasRow, ReleasedIsOver, [Next]_vars,
           NEW i \in Issues, Locked(i)
    PROVE  lock'[i] = lock[i]
<1>1. ASSUME NEW a \in Agents, NEW j \in Issues, NEW comment \in BOOLEAN, NEW force \in BOOLEAN,
             WakeTransaction(a, j, comment, force)
      PROVE  lock'[i] = lock[i]
  <2>1. CASE WakeStarts(a, j)
    <3>1. i # j
      BY <2>1 DEF WakeStarts, HasHolder
    <3> QED BY <2>1, <3>1 DEF WakeStarts, TypeOK, LocksTypeOK
  <2>2. ASSUME AdoptHolder(j) PROVE lock'[i] = lock[i]
    <3>1. i = j => HolderOf(j) = lock[i]
      BY DEF HolderOf
    <3> QED BY <2>2, <3>1 DEF AdoptHolder, TypeOK, LocksTypeOK
  <2> QED BY <1>1, <2>1, <2>2 DEF WakeTransaction, WakeCoalesces, WakeDefers
<1>2. ASSUME NEW r \in RunIds, ~IsActive(r), ReleaseAndPromote(r)
      PROVE  lock'[i] = lock[i]
  <2>1. lock[i] # r
    BY <1>2 DEF Locked
  <2>2. ASSUME NEW j \in Issues, lock[j] = r, Promote(j) \/ Unlock(j)
        PROVE  lock'[i] = lock[i]
    BY <2>1, <2>2 DEF Promote, Unlock, TypeOK, LocksTypeOK
  <2> QED BY <1>2, <2>2 DEF ReleaseAndPromote, lockVars
<1>3. ASSUME NEW r \in RunIds, ExecStep(r) PROVE lock'[i] = lock[i]
  <2>1. CASE ExecFollowsUp(r)
    <3>1. runAgent[r] \in Agents /\ runIssue[r] \in Issues
      BY <2>1 DEF ExecFollowsUp, RowsAreWhole, WorkHasRow, TypeOK, RunsTypeOK, Scopes
    <3> QED BY <1>1, <2>1, <3>1 DEF ExecFollowsUp, lockVars
  <2>2. CASE ExecReleases(r)
    <3>1. ~IsActive(r)
      BY <2>2 DEF ExecReleases, ReleasedIsOver, IsActive, Active, Terminal
    <3> QED BY <1>2, <2>2, <3>1 DEF ExecReleases
  <2> QED
    BY <1>3, <2>1, <2>2
    DEF ExecStep, ExecBegins, ExecLaunchesAdapter, ExecThrows, ExecDecides, ExecPersists,
        ExecFinalizes, ExecMarksAgent, lockVars
<1>4. ASSUME NEW r \in RunIds, StopStep(r) PROVE lock'[i] = lock[i]
  <2>1. CASE StopReleases(r)
    <3>1. ~IsActive(r)
      BY <2>1 DEF StopReleases, ReleasedIsOver, IsActive, Active, Terminal
    <3> QED BY <1>2, <2>1, <3>1 DEF StopReleases
  <2> QED BY <1>4, <2>1 DEF StopStep, StopPersists, StopFinalizes, StopMarksAgent, lockVars
<1>5. ASSUME NEW a \in Agents, NEW j \in Issues, WakeOnIssue(a, j) PROVE lock'[i] = lock[i]
  BY <1>1, <1>5 DEF WakeOnIssue
<1>6. CASE \/ \E a \in Agents, x \in Scopes : WakeOutsideLock(a, x)
           \/ \E a \in Agents : PickRun(a) \/ ClaimRun(a) \/ EndDispatch(a) \/ DispatchFails(a)
           \/ \E a \in Agents : Pause(a) \/ Resume(a)
           \/ \E r \in RunIds : ExecFails(r) \/ Cancel(r) \/ Reap(r) \/ WatchdogFires(r)
           \/ \E j \in Issues : CancelParked(j)
           \/ Crash
           \/ UNCHANGED vars
  BY <1>6
  DEF WakeOutsideLock, PickRun, ClaimRun, EndDispatch, DispatchFails, Pause, Resume, ExecFails,
      ExecFailsToBegin, ExecIsSuperseded, ExecThrowsLate, Cancel, Reap, WatchdogFires,
      Redispatches, GivesUp, CancelParked, Crash, vars, lockVars
<1> QED BY <1>3, <1>4, <1>5, <1>6 DEF Next

\* The facts LockStep rests on are inductive without the lock.
LEMMA WorkNext ==
    ASSUME TypeOK, RowsAreWhole, WorkHasRow, ReleasedIsOver, [Next]_vars
    PROVE  TypeOK' /\ RowsAreWhole' /\ WorkHasRow' /\ ReleasedIsOver'
<1>1. TypeOK'
  BY TypeNext
<1>2. RowsAreWhole'
  BY RunsKept
<1>3. WorkHasRow'
  BY RunsKept, WorkStep DEF WorkHasRow
<1>4. ReleasedIsOver'
  BY RunsKept, WorkStep DEF ReleasedIsOver
<1> QED BY <1>1, <1>2, <1>3, <1>4

\* The invariant is preserved by every step.
LEMMA LockNext == LockInvariant /\ [Next]_vars => LockInvariant'
<1> SUFFICES ASSUME LockInvariant, [Next]_vars PROVE LockInvariant'
  OBVIOUS
<1>1. TypeOK' /\ RowsAreWhole' /\ WorkHasRow' /\ ReleasedIsOver'
  BY WorkNext DEF LockInvariant
<1>2. LockPathHolds'
  BY LockPathNext
<1> QED BY <1>1, <1>2 DEF LockInvariant

-----------------------------------------------------------------------------
(* Theorems.                                                               *)

\* LockInvariant holds in every reachable state.
LEMMA Invariant == Spec => []LockInvariant
BY LockInit, LockNext, PTL DEF Spec

\* Every variable of the model keeps its type: executors and stoppers only visit
\* the stages the code has, in whatever order requests, timers and restarts come.
THEOREM TypesCorrect == Spec => []TypeOK
<1>1. LockInvariant => TypeOK
  BY DEF LockInvariant
<1> QED BY <1>1, Invariant, PTL

\* A run created by enqueueWakeup or a promotion under the lock of its issue
\* holds that lock as long as it is queued or running.
THEOREM LockPathSafe == Spec => []LockPathHolds
<1>1. LockInvariant => LockPathHolds
  BY DEF LockInvariant
<1> QED BY <1>1, Invariant, PTL

\* So no two active runs created under the lock share an issue.
THEOREM MutualExclusion == Spec => []OneLockPathRunPerIssue
<1>1. LockInvariant => OneLockPathRunPerIssue
  BY DEF LockInvariant, LockPathHolds, OneLockPathRunPerIssue
<1> QED BY <1>1, Invariant, PTL

\* A run that has finished is never queued or running again, whatever late claim,
\* executor or stopper still writes its status.
THEOREM FinishedForever == Spec => FinishedStaysFinished
<1>1. LockInvariant /\ [Next]_vars
        => [\A r \in RunIds : runStatus[r] \in Terminal => runStatus'[r] \in Terminal]_vars
  BY RunsKept DEF LockInvariant
<1> QED BY <1>1, Invariant, PTL DEF Spec, FinishedStaysFinished

\* The lock of an issue is taken away only from a run that is over: no wakeup
\* that adopts a run, no promotion and no restart passes it on earlier.
THEOREM LockKeptUntilOver == Spec => LockLeavesFinishedRun
<1>1. LockInvariant /\ [Next]_vars
        => [\A i \in Issues : lock'[i] # lock[i] /\ lock[i] # NoRun => ~IsActive(lock[i])]_vars
  BY LockStep DEF LockInvariant, Locked
<1> QED BY <1>1, Invariant, PTL DEF Spec, LockLeavesFinishedRun
================================================================================

-------------------------- MODULE HeartbeatQueueProofs --------------------------
(***************************************************************************)
(* Proofs about the queue of an issue and about IssueExecutionLock, which  *)
(* HeartbeatRuns implements, for any agents, issues, policy and bounds.    *)
(***************************************************************************)
EXTENDS HeartbeatRunsProofs, FiniteSetTheorems

\* An agent is parked on an issue once.
ParkedOnce ==
    \A i \in Issues : \A j, k \in 1..Len(deferred[i]) : deferred[i][j] = deferred[i][k] => j = k

\* What the queue properties rest on.
QueueInvariant == LockInvariant /\ ParkedBehindHolder /\ ParkedOnce

\* What any step may do to the lock and the queue of the issues: nothing, with at most
\* one run created beside the lock or given a later status; a wakeup's transaction; the
\* release of a run that is over; the calling off of one parked wakeup.
RunMoves ==
    \/ UNCHANGED runVars
    \/ \E a \in Agents, x \in Scopes : CreateRun(a, x, FALSE)
    \/ \E r \in RunIds : runStatus[r] = "queued" /\ SetRunStatus(r, "running")
    \/ \E r \in RunIds, s \in Terminal : runStatus[r] # "none" /\ SetRunStatus(r, s)

LockMoves ==
    \/ UNCHANGED <<lock, deferred>> /\ RunMoves
    \/ \E a \in Agents, i \in Issues, comment, force \in BOOLEAN :
          WakeTransaction(a, i, comment, force)
    \/ \E r \in RunIds : runStatus[r] \in Terminal /\ ReleaseAndPromote(r)
    \/ \E i \in Issues : CancelParked(i)

\* Every step is one of them.
LEMMA StepsOfLock ==
    ASSUME LockInvariant, [Next]_vars
    PROVE  LockMoves
<1> USE DEF LockInvariant, LockMoves
<1>1. ASSUME NEW a \in Agents, NEW x \in Scopes, WakeOutsideLock(a, x) PROVE LockMoves
  BY <1>1 DEF WakeOutsideLock, lockVars, RunMoves
<1>2. ASSUME NEW a \in Agents, NEW i \in Issues, WakeOnIssue(a, i) PROVE LockMoves
  BY <1>2 DEF WakeOnIssue
<1>3. ASSUME NEW a \in Agents, ClaimRun(a) PROVE LockMoves
  <2>1. picked[a] \in RunIds
    BY <1>3 DEF ClaimRun, TypeOK, ServerTypeOK
  <2> QED BY <1>3, <2>1 DEF ClaimRun, lockVars, RunMoves
<1>4. ASSUME NEW r \in RunIds, exec[r].pc # "none" \/ stopper[r].pc # "none"
      PROVE  runAgent[r] \in Agents
  BY <1>4 DEF RowsAreWhole, WorkHasRow
<1>5. ASSUME NEW r \in RunIds, ExecStep(r) PROVE LockMoves
  <2>1. CASE ExecFollowsUp(r)
    <3>1. runAgent[r] \in Agents /\ runIssue[r] \in Issues
      BY <1>4, <2>1 DEF ExecFollowsUp, TypeOK, RunsTypeOK, Scopes
    <3> QED BY <2>1, <3>1 DEF ExecFollowsUp, lockVars, RunMoves
  <2>2. CASE ExecPersists(r)
    <3>1. exec[r].out \in Terminal /\ runStatus[r] # "none"
      BY <2>2, StageCarries DEF ExecPersists, WorkHasRow, TypeOK
    <3> QED BY <2>2, <3>1 DEF ExecPersists, EndRun, lockVars, RunMoves
  <2>3. CASE ExecReleases(r)
    BY <2>3 DEF ExecReleases, ReleasedIsOver
  <2> QED
    BY <1>5, <2>1, <2>2, <2>3
    DEF ExecStep, ExecBegins, ExecLaunchesAdapter, ExecThrows, ExecDecides, ExecFinalizes,
        ExecMarksAgent, lockVars, RunMoves
<1>6. ASSUME NEW r \in RunIds, StopStep(r) PROVE LockMoves
  <2>1. CASE StopPersists(r)
    <3>1. PICK s \in Terminal : SetRunStatus(r, s)
      BY <2>1 DEF StopPersists, EndRun, Terminal
    <3> QED BY <2>1, <3>1 DEF StopPersists, WorkHasRow, lockVars, RunMoves
  <2>2. CASE StopReleases(r)
    BY <2>2 DEF StopReleases, ReleasedIsOver
  <2> QED
    BY <1>6, <2>1, <2>2 DEF StopStep, StopFinalizes, StopMarksAgent, lockVars, RunMoves
<1>7. CASE \E i \in Issues : CancelParked(i)
  BY <1>7
<1>8. CASE \/ \E a \in Agents : PickRun(a) \/ EndDispatch(a) \/ DispatchFails(a)
           \/ \E a \in Agents : Pause(a) \/ Resume(a)
           \/ \E r \in RunIds : ExecFails(r) \/ Cancel(r) \/ Reap(r) \/ WatchdogFires(r)
           \/ Crash
           \/ UNCHANGED vars
  BY <1>8
  DEF PickRun, EndDispatch, DispatchFails, Pause, Resume, ExecFails, ExecFailsToBegin,
      ExecIsSuperseded, ExecThrowsLate, Cancel, Reap, WatchdogFires, Redispatches, GivesUp, Crash,
      vars, lockVars, RunMoves
<1> QED BY <1>1, <1>2, <1>3, <1>5, <1>6, <1>7, <1>8 DEF Next

-----------------------------------------------------------------------------
(* What the moves do to a queue.                                           *)

\* A queue without its first k members.
Rest(i, k) == SubSeq(deferred[i], k + 1, Len(deferred[i]))

\* The rest of a queue has the members behind the first k, in their order.
LEMMA RestOfQueue ==
    ASSUME TypeOK, NEW i \in Issues, NEW k \in 0..Len(deferred[i])
    PROVE  /\ Rest(i, k) \in Seq(Agents)
           /\ Len(Rest(i, k)) = Len(deferred[i]) - k
           /\ \A j \in 1..Len(Rest(i, k)) : Rest(i, k)[j] = deferred[i][j + k]
<1>1. deferred[i] \in Seq(Agents) /\ Len(deferred[i]) \in Nat
  BY DEF TypeOK, LocksTypeOK
<1>2. \A j \in (k + 1)..Len(deferred[i]) : deferred[i][j] \in Agents
  BY <1>1
<1>3. k + 1 \in Int /\ Len(deferred[i]) \in Int
  BY <1>1
<1>4. /\ Rest(i, k) \in Seq(Agents)
      /\ Len(Rest(i, k)) = IF k + 1 <= Len(deferred[i]) THEN Len(deferred[i]) - (k + 1) + 1 ELSE 0
      /\ \A j \in 1..(Len(deferred[i]) - (k + 1) + 1) : Rest(i, k)[j] = deferred[i][k + 1 + j - 1]
  BY <1>2, <1>3, SubSeqProperties DEF Rest
<1> QED BY <1>1, <1>4

\* A queue without its k-th member.
Without(i, k) == SubSeq(deferred[i], 1, k - 1) \o SubSeq(deferred[i], k + 1, Len(deferred[i]))

\* It has the other members, in their order.
LEMMA QueueWithout ==
    ASSUME TypeOK, NEW i \in Issues, NEW k \in 1..Len(deferred[i])
    PROVE  /\ Len(Without(i, k)) = Len(deferred[i]) - 1
           /\ \A j \in 1..Len(Without(i, k)) :
                 Without(i, k)[j] = IF j < k THEN deferred[i][j] ELSE deferred[i][j + 1]
<1> DEFINE Front == SubSeq(deferred[i], 1, k - 1)
<1>1. deferred[i] \in Seq(Agents) /\ Len(deferred[i]) \in Nat /\ k \in 0..Len(deferred[i])
  BY DEF TypeOK, LocksTypeOK
<1>2. /\ Front \in Seq(Agents) /\ Len(Front) = k - 1
      /\ \A j \in 1..(k - 1) : Front[j] = deferred[i][j]
  <2>1. \A j \in 1..(k - 1) : deferred[i][j] \in Agents
    BY <1>1
  <2>2. 1 \in Int /\ k - 1 \in Int
    BY <1>1
  <2>3. /\ Front \in Seq(Agents)
        /\ Len(Front) = IF 1 <= k - 1 THEN k - 1 - 1 + 1 ELSE 0
        /\ \A j \in 1..(k - 1 - 1 + 1) : Front[j] = deferred[i][1 + j - 1]
    BY <2>1, <2>2, SubSeqProperties
  <2> QED BY <1>1, <2>3
<1>3. /\ Rest(i, k) \in Seq(Agents) /\ Len(Rest(i, k)) = Len(deferred[i]) - k
      /\ \A j \in 1..Len(Rest(i, k)) : Rest(i, k)[j] = deferred[i][j + k]
  BY <1>1, RestOfQueue
<1>4. Without(i, k) = Front \o Rest(i, k)
  BY DEF Without, Rest
<1> HIDE DEF Front
<1>5. /\ Len(Without(i, k)) = Len(Front) + Len(Rest(i, k))
      /\ \A j \in 1..(Len(Front) + Len(Rest(i, k))) :
            Without(i, k)[j] = IF j <= Len(Front) THEN Front[j] ELSE Rest(i, k)[j - Len(Front)]
  <2>1. Front \in Seq(Agents) /\ Rest(i, k) \in Seq(Agents)
    BY <1>2, <1>3
  <2>2. /\ Len(Front \o Rest(i, k)) = Len(Front) + Len(Rest(i, k))
        /\ \A j \in 1..(Len(Front) + Len(Rest(i, k))) :
              (Front \o Rest(i, k))[j]
                = IF j <= Len(Front) THEN Front[j] ELSE Rest(i, k)[j - Len(Front)]
    BY ONLY <2>1, ConcatProperties
  <2> QED BY <1>4, <2>2
<1>6. ASSUME NEW j \in 1..Len(Without(i, k))
      PROVE  Without(i, k)[j] = IF j < k THEN deferred[i][j] ELSE deferred[i][j + 1]
  <2>1. CASE j < k
    BY <1>1, <1>2, <1>3, <1>5, <2>1
  <2>2. CASE ~(j < k)
    <3>1. j - (k - 1) \in 1..Len(Rest(i, k)) /\ (j - (k - 1)) + k = j + 1
      BY <1>1, <1>2, <1>3, <1>5, <2>2
    <3>2. Without(i, k)[j] = Rest(i, k)[j - (k - 1)]
      BY <1>1, <1>2, <1>3, <1>5, <2>2
    <3> QED BY <1>3, <2>2, <3>1, <3>2
  <2> QED BY <2>1, <2>2
<1> QED BY <1>1, <1>2, <1>3, <1>5, <1>6

\* Calling off a parked wakeup takes one out of its queue.
LEMMA CallingOffMoves ==
    ASSUME TypeOK, NEW i \in Issues, CancelParked(i)
    PROVE  /\ UNCHANGED <<runVars, lock>>
           /\ \E k \in 1..Len(deferred[i]) : deferred' = [deferred EXCEPT ![i] = Without(i, k)]
BY DEF CancelParked, Without

\* A wakeup gives an issue a live run to hold it, and appends to its queue at most.
LEMMA WakeMoves ==
    ASSUME LockInvariant, NEW a \in Agents, NEW i \in Issues,
           NEW comment \in BOOLEAN, NEW force \in BOOLEAN,
           WakeTransaction(a, i, comment, force)
    PROVE  /\ \E r \in RunIds : lock' = [lock EXCEPT ![i] = r]
           /\ \/ deferred' = deferred
              \/ /\ a \notin Parked(i)
                 /\ deferred' = [deferred EXCEPT ![i] = Append(@, a)]
<1>1. CASE WakeStarts(a, i)
  BY <1>1, CreateRunTypes DEF WakeStarts, LockInvariant, TypeOK, Scopes
<1>2. CASE WakeCoalesces(a, i, comment, force) \/ WakeDefers(a, i, comment, force)
  <2>1. HolderOf(i) \in RunIds
    BY <1>2, HolderIsActive DEF WakeCoalesces, WakeDefers, LockInvariant
  <2> QED BY <1>2, <2>1 DEF WakeCoalesces, WakeDefers, AdoptHolder
<1> QED BY <1>1, <1>2 DEF WakeTransaction

\* A release serves one that is parked, or refuses all of them.
LEMMA ReleaseMoves ==
    ASSUME LockInvariant, NEW r \in RunIds, runStatus[r] \in Terminal, ReleaseAndPromote(r)
    PROVE  \/ UNCHANGED <<runVars, lockVars>>
           \/ \E i \in Issues : /\ lock[i] = r /\ UNCHANGED runVars
                                /\ FirstInvokable(i) = {}
                                /\ lock' = [lock EXCEPT ![i] = NoRun]
                                /\ deferred' = [deferred EXCEPT ![i] = << >>]
           \/ \E i \in Issues : \E k \in FirstInvokable(i) :
                 /\ lock[i] = r /\ r # nextRun
                 /\ CreateRun(deferred[i][k], i, TRUE)
                 /\ nextRun \in RunIds /\ runStatus[nextRun] = "none"
                 /\ lock' = [lock EXCEPT ![i] = nextRun]
                 /\ deferred' = [deferred EXCEPT ![i] = Rest(i, k)]
<1>1. ASSUME NEW i \in Issues, lock[i] = r, Promote(i)
      PROVE  \E k \in FirstInvokable(i) :
                 /\ r # nextRun
                 /\ CreateRun(deferred[i][k], i, TRUE)
                 /\ nextRun \in RunIds /\ runStatus[nextRun] = "none"
                 /\ lock' = [lock EXCEPT ![i] = nextRun]
                 /\ deferred' = [deferred EXCEPT ![i] = Rest(i, k)]
  <2>1. PICK k \in FirstInvokable(i) :
          /\ CreateRun(deferred[i][k], i, TRUE)
          /\ lock' = [lock EXCEPT ![i] = nextRun]
          /\ deferred' = [deferred EXCEPT ![i] = Rest(i, k)]
    BY <1>1 DEF Promote, Rest
  <2>2. deferred[i][k] \in Agents
    BY <2>1 DEF FirstInvokable, LockInvariant, TypeOK, LocksTypeOK
  <2>3. nextRun \in RunIds
    BY <2>1, <2>2, CreateRunTypes DEF LockInvariant, TypeOK, Scopes
  <2>4. runStatus[nextRun] = "none"
    BY <2>3 DEF LockInvariant, RowsAreWhole, RunIds
  <2>5. r # nextRun
    BY <2>4 DEF Terminal
  <2> QED BY <2>1, <2>3, <2>4, <2>5
<1> QED BY <1>1 DEF ReleaseAndPromote, Unlock

-----------------------------------------------------------------------------
(* The invariant of the queue.                                             *)

\* The queues are empty at first.
LEMMA QueueInit == Init => QueueInvariant
<1> SUFFICES ASSUME Init PROVE QueueInvariant
  OBVIOUS
<1>1. ParkedBehindHolder /\ ParkedOnce
  BY DEF Init, ParkedBehindHolder, ParkedOnce
<1> QED BY <1>1, LockInit DEF QueueInvariant

\* A wakeup parks an agent that is not parked yet, on an issue that is held by then.
LEMMA WakeKeepsQueue ==
    ASSUME QueueInvariant, NEW a \in Agents, NEW i \in Issues,
           NEW comment \in BOOLEAN, NEW force \in BOOLEAN,
           WakeTransaction(a, i, comment, force)
    PROVE  ParkedBehindHolder' /\ ParkedOnce'
<1> USE DEF QueueInvariant, LockInvariant
<1>1. PICK r \in RunIds : lock' = [lock EXCEPT ![i] = r]
  BY WakeMoves
<1>2. lock'[i] # NoRun /\ \A j \in Issues \ {i} : lock'[j] = lock[j]
  BY <1>1 DEF RunIds, NoRun, TypeOK, LocksTypeOK
<1>3. CASE deferred' = deferred
  BY <1>2, <1>3 DEF ParkedBehindHolder, ParkedOnce
<1>4. CASE a \notin Parked(i) /\ deferred' = [deferred EXCEPT ![i] = Append(@, a)]
  <2>1. deferred[i] \in Seq(Agents) /\ Len(deferred[i]) \in Nat
    BY DEF TypeOK, LocksTypeOK
  <2>2. /\ deferred'[i] = Append(deferred[i], a)
        /\ \A j \in Issues \ {i} : deferred'[j] = deferred[j]
    BY <1>4 DEF TypeOK, LocksTypeOK
  <2>3. /\ Len(deferred'[i]) = Len(deferred[i]) + 1
        /\ \A k \in 1..Len(deferred[i]) : deferred'[i][k] = deferred[i][k]
        /\ deferred'[i][Len(deferred[i]) + 1] = a
    BY <2>1, <2>2, AppendProperties
  <2>4. \A k \in 1..Len(deferred[i]) : deferred[i][k] # a
    BY <1>4 DEF Parked
  <2>5. ASSUME NEW j \in 1..Len(deferred'[i]), NEW k \in 1..Len(deferred'[i]),
               deferred'[i][j] = deferred'[i][k]
        PROVE  j = k
    <3> DEFINE n == Len(deferred[i])
    <3>1. j \in 1..n \/ j = n + 1
      BY <2>1, <2>3
    <3>2. k \in 1..n \/ k = n + 1
      BY <2>1, <2>3
    <3>3. CASE j \in 1..n /\ k \in 1..n
      BY <2>3, <2>5, <3>3 DEF ParkedOnce
    <3>4. CASE j = n + 1 /\ k = n + 1
      BY <3>4
    <3> QED BY <2>3, <2>4, <2>5, <3>1, <3>2, <3>3, <3>4
  <2> QED BY <1>2, <2>2, <2>5 DEF ParkedBehindHolder, ParkedOnce
<1> QED BY <1>3, <1>4, WakeMoves

\* A release empties the queue or leaves its rest behind the run it created.
LEMMA ReleaseKeepsQueue ==
    ASSUME QueueInvariant, NEW r \in RunIds, runStatus[r] \in Terminal, ReleaseAndPromote(r)
    PROVE  ParkedBehindHolder' /\ ParkedOnce'
<1> USE DEF QueueInvariant, LockInvariant
<1>1. CASE UNCHANGED <<runVars, lockVars>>
  BY <1>1 DEF lockVars, ParkedBehindHolder, ParkedOnce
<1>2. ASSUME NEW i \in Issues, lock' = [lock EXCEPT ![i] = NoRun],
             deferred' = [deferred EXCEPT ![i] = << >>]
      PROVE  ParkedBehindHolder' /\ ParkedOnce'
  BY <1>2 DEF TypeOK, LocksTypeOK, ParkedBehindHolder, ParkedOnce
<1>3. ASSUME NEW i \in Issues, NEW k \in FirstInvokable(i), nextRun \in RunIds,
             lock' = [lock EXCEPT ![i] = nextRun], deferred' = [deferred EXCEPT ![i] = Rest(i, k)]
      PROVE  ParkedBehindHolder' /\ ParkedOnce'
  <2>1. k \in 0..Len(deferred[i]) /\ Len(deferred[i]) \in Nat
    BY DEF FirstInvokable, TypeOK, LocksTypeOK
  <2>2. /\ deferred'[i] = Rest(i, k) /\ lock'[i] # NoRun
        /\ \A j \in Issues \ {i} : deferred'[j] = deferred[j] /\ lock'[j] = lock[j]
    BY <1>3 DEF TypeOK, LocksTypeOK, RunIds, NoRun
  <2>3. ASSUME NEW j \in 1..Len(Rest(i, k)), NEW l \in 1..Len(Rest(i, k)),
               Rest(i, k)[j] = Rest(i, k)[l]
        PROVE  j = l
    <3>1. /\ Len(Rest(i, k)) = Len(deferred[i]) - k
          /\ Rest(i, k)[j] = deferred[i][j + k] /\ Rest(i, k)[l] = deferred[i][l + k]
      BY <2>1, RestOfQueue
    <3>2. j + k \in 1..Len(deferred[i]) /\ l + k \in 1..Len(deferred[i])
      BY <2>1, <3>1
    <3>3. j + k = l + k
      BY <2>3, <3>1, <3>2 DEF ParkedOnce
    <3> QED BY <2>1, <3>3
  <2> QED BY <2>2, <2>3 DEF ParkedBehindHolder, ParkedOnce
<1> QED BY <1>1, <1>2, <1>3, ReleaseMoves

\* A queue without one of its members waits behind the same run.
LEMMA CallingOffKeepsQueue ==
    ASSUME QueueInvariant, NEW i \in Issues, CancelParked(i)
    PROVE  ParkedBehindHolder' /\ ParkedOnce'
<1> USE DEF QueueInvariant, LockInvariant
<1>1. PICK k \in 1..Len(deferred[i]) : deferred' = [deferred EXCEPT ![i] = Without(i, k)]
  BY CallingOffMoves
<1>2. /\ deferred'[i] = Without(i, k) /\ lock' = lock
      /\ \A j \in Issues \ {i} : deferred'[j] = deferred[j]
  BY <1>1, CallingOffMoves DEF TypeOK, LocksTypeOK
<1>3. deferred[i] \in Seq(Agents) /\ Len(deferred[i]) \in Nat
  BY DEF TypeOK, LocksTypeOK
<1>4. deferred[i] # << >>
  BY <1>3
<1>5. ASSUME NEW j \in 1..Len(Without(i, k)), NEW l \in 1..Len(Without(i, k)),
             Without(i, k)[j] = Without(i, k)[l]
      PROVE  j = l
  <2> DEFINE at(m) == IF m < k THEN m ELSE m + 1
  <2>1. /\ at(j) \in 1..Len(deferred[i]) /\ at(l) \in 1..Len(deferred[i])
        /\ Without(i, k)[j] = deferred[i][at(j)] /\ Without(i, k)[l] = deferred[i][at(l)]
    <3>1. /\ Len(Without(i, k)) = Len(deferred[i]) - 1
          /\ \A m \in 1..Len(Without(i, k)) :
                Without(i, k)[m] = IF m < k THEN deferred[i][m] ELSE deferred[i][m + 1]
      BY QueueWithout
    <3> QED BY <1>3, <3>1
  <2>2. at(j) = at(l)
    BY <1>5, <2>1 DEF ParkedOnce
  <2> QED BY <1>3, <2>2
<1> QED BY <1>2, <1>4, <1>5 DEF ParkedBehindHolder, ParkedOnce

\* The invariant of the queue is inductive.
LEMMA QueueNext == QueueInvariant /\ [Next]_vars => QueueInvariant'
<1> SUFFICES ASSUME QueueInvariant, [Next]_vars PROVE QueueInvariant'
  OBVIOUS
<1>1. LockInvariant'
  BY LockNext DEF QueueInvariant
<1>2. CASE UNCHANGED <<lock, deferred>>
  BY <1>1, <1>2 DEF QueueInvariant, ParkedBehindHolder, ParkedOnce
<1> QED
  BY <1>1, <1>2, StepsOfLock, WakeKeepsQueue, ReleaseKeepsQueue, CallingOffKeepsQueue
  DEF LockMoves, QueueInvariant

\* The invariant of the queue holds in every reachable state.
LEMMA QueueInvariantHolds == Spec => []QueueInvariant
BY QueueInit, QueueNext, PTL DEF Spec

-----------------------------------------------------------------------------
(* Theorems about the queue.                                               *)

\* A wakeup is parked only behind a run: whatever adopts, promotes, releases or
\* cancels, nothing is left waiting for an issue that nobody holds.
THEOREM NothingParkedOnFreeIssue == Spec => []ParkedBehindHolder
<1>1. QueueInvariant => ParkedBehindHolder
  BY DEF QueueInvariant
<1> QED BY <1>1, QueueInvariantHolds, PTL

\* An agent waits for an issue in one place at most, however often it is woken.
THEOREM ParkedInOnePlace == Spec => []OnePlacePerAgent
<1>1. ASSUME QueueInvariant, NEW i \in Issues PROVE Len(deferred[i]) = Cardinality(Parked(i))
  <2>1. deferred[i] \in Seq(Agents) /\ Len(deferred[i]) \in Nat
    BY <1>1 DEF QueueInvariant, LockInvariant, TypeOK, LocksTypeOK
  <2>2. deferred[i] \in [1..Len(deferred[i]) -> Parked(i)]
    BY <2>1, LenProperties DEF Parked
  <2>3. deferred[i] \in Bijection(1..Len(deferred[i]), Parked(i))
    BY <1>1, <2>2 DEF QueueInvariant, ParkedOnce, Parked, Bijection, Injection, Surjection,
           IsInjective
  <2> QED BY <2>1, <2>3, FS_CountingElements DEF ExistsBijection
<1>2. QueueInvariant => OnePlacePerAgent
  BY <1>1 DEF OnePlacePerAgent
<1> QED BY <1>2, QueueInvariantHolds, PTL

\* A queue is cut at its front, or appended to, or loses a member while its issue
\* stays with the run that holds it.
LEMMA QueueStep ==
    ASSUME QueueInvariant, [Next]_vars, NEW i \in Issues
    PROVE  \/ \E k \in 0..Len(deferred[i]) : deferred'[i] = Rest(i, k)
           \/ \E a \in Agents \ Parked(i) : deferred'[i] = Append(deferred[i], a)
           \/ lock'[i] = lock[i] /\ \E k \in 1..Len(deferred[i]) : deferred'[i] = Without(i, k)
<1> USE DEF QueueInvariant, LockInvariant
<1> DEFINE Goal ==
      \/ \E k \in 0..Len(deferred[i]) : deferred'[i] = Rest(i, k)
      \/ \E a \in Agents \ Parked(i) : deferred'[i] = Append(deferred[i], a)
      \/ lock'[i] = lock[i] /\ \E k \in 1..Len(deferred[i]) : deferred'[i] = Without(i, k)
<1>1. deferred[i] \in Seq(Agents) /\ Len(deferred[i]) \in Nat
  BY DEF TypeOK, LocksTypeOK
<1>2. ASSUME deferred'[i] = deferred[i] PROVE Goal
  <2>1. Rest(i, 0) = deferred[i]
    BY <1>1, SubSeqFull DEF Rest
  <2> QED BY <1>1, <1>2, <2>1
<1>3. ASSUME deferred'[i] = << >> PROVE Goal
  <2>1. Rest(i, Len(deferred[i])) = << >>
    BY <1>1, SubSeqEmpty DEF Rest
  <2> QED BY <1>1, <1>3, <2>1
<1>4. ASSUME NEW a \in Agents, NEW j \in Issues, NEW comment \in BOOLEAN, NEW force \in BOOLEAN,
             WakeTransaction(a, j, comment, force)
      PROVE  Goal
  <2>1. \/ deferred'[i] = deferred[i]
        \/ a \notin Parked(i) /\ deferred'[i] = Append(deferred[i], a)
    BY <1>4, WakeMoves DEF TypeOK, LocksTypeOK
  <2> QED BY <1>2, <2>1
<1>5. ASSUME NEW r \in RunIds, runStatus[r] \in Terminal, ReleaseAndPromote(r)
      PROVE  Goal
  <2>1. ASSUME NEW j \in Issues, NEW k \in FirstInvokable(j),
               deferred' = [deferred EXCEPT ![j] = Rest(j, k)]
        PROVE  Goal
    <3>1. CASE i = j
      BY <2>1, <3>1 DEF FirstInvokable, TypeOK, LocksTypeOK
    <3>2. CASE i # j
      BY <1>2, <2>1, <3>2 DEF TypeOK, LocksTypeOK
    <3> QED BY <3>1, <3>2
  <2>2. ASSUME NEW j \in Issues, deferred' = [deferred EXCEPT ![j] = << >>] PROVE Goal
    BY <1>2, <1>3, <2>2 DEF TypeOK, LocksTypeOK
  <2> QED BY <1>2, <1>5, <2>1, <2>2, ReleaseMoves DEF lockVars
<1>6. ASSUME NEW j \in Issues, CancelParked(j) PROVE Goal
  <2>1. PICK k \in 1..Len(deferred[j]) :
          deferred' = [deferred EXCEPT ![j] = Without(j, k)] /\ lock' = lock
    BY <1>6, CallingOffMoves
  <2>2. CASE i = j
    BY <2>1, <2>2 DEF TypeOK, LocksTypeOK
  <2>3. CASE i # j
    BY <1>2, <2>1, <2>3 DEF TypeOK, LocksTypeOK
  <2> QED BY <2>2, <2>3
<1> QED BY <1>2, <1>4, <1>5, <1>6, StepsOfLock DEF LockMoves

\* So nobody gets ahead of one that waits already, and nobody is served, or refused,
\* before one that goes on waiting.
LEMMA OrderStep ==
    ASSUME QueueInvariant, [Next]_vars, NEW i \in Issues, NEW a \in Agents, NEW b \in Agents
    PROVE  /\ b \in Parked(i) /\ Ahead(deferred'[i], a, b) => Ahead(deferred[i], a, b)
           /\ Ahead(deferred[i], a, b) /\ a \in Parked(i)' /\ lock'[i] # lock[i] => b \in Parked(i)'
<1> USE DEF QueueInvariant, LockInvariant
<1> DEFINE First == b \in Parked(i) /\ Ahead(deferred'[i], a, b) => Ahead(deferred[i], a, b)
           Second == Ahead(deferred[i], a, b) /\ a \in Parked(i)' /\ lock'[i] # lock[i]
                       => b \in Parked(i)'
<1>1. deferred[i] \in Seq(Agents) /\ Len(deferred[i]) \in Nat
  BY DEF TypeOK, LocksTypeOK
<1>2. ASSUME NEW n \in 0..Len(deferred[i]), deferred'[i] = Rest(i, n)
      PROVE  First /\ Second
  <2>1. /\ Len(deferred'[i]) = Len(deferred[i]) - n
        /\ \A j \in 1..Len(deferred'[i]) : deferred'[i][j] = deferred[i][j + n]
    BY <1>2, RestOfQueue
  <2>2. ASSUME Ahead(deferred'[i], a, b) PROVE Ahead(deferred[i], a, b)
    <3>1. PICK j, k \in 1..Len(deferred'[i]) : j < k /\ deferred'[i][j] = a /\ deferred'[i][k] = b
      BY <2>2 DEF Ahead
    <3>2. /\ j + n \in 1..Len(deferred[i]) /\ k + n \in 1..Len(deferred[i]) /\ j + n < k + n
          /\ deferred[i][j + n] = a /\ deferred[i][k + n] = b
      BY <1>1, <2>1, <3>1
    <3> QED BY <3>2 DEF Ahead
  <2>3. ASSUME Ahead(deferred[i], a, b), a \in Parked(i)' PROVE b \in Parked(i)'
    <3>1. PICK j, k \in 1..Len(deferred[i]) : j < k /\ deferred[i][j] = a /\ deferred[i][k] = b
      BY <2>3 DEF Ahead
    <3>2. PICK l \in 1..Len(deferred'[i]) : deferred'[i][l] = a
      BY <2>3 DEF Parked
    <3>3. l + n \in 1..Len(deferred[i]) /\ deferred[i][l + n] = a
      BY <1>1, <2>1, <3>2
    <3>4. l + n = j
      BY <3>1, <3>3 DEF ParkedOnce
    <3>5. k - n \in 1..Len(deferred'[i]) /\ (k - n) + n = k
      BY <1>1, <2>1, <3>1, <3>2, <3>4
    <3>6. deferred'[i][k - n] = b
      BY <2>1, <3>1, <3>5
    <3> QED BY <3>5, <3>6 DEF Parked
  <2> QED BY <2>2, <2>3
<1>3. ASSUME NEW c \in Agents \ Parked(i), deferred'[i] = Append(deferred[i], c)
      PROVE  First /\ Second
  <2>1. /\ Len(deferred'[i]) = Len(deferred[i]) + 1
        /\ \A k \in 1..Len(deferred[i]) : deferred'[i][k] = deferred[i][k]
        /\ deferred'[i][Len(deferred[i]) + 1] = c
    BY <1>1, <1>3, AppendProperties
  <2>2. ASSUME b \in Parked(i), Ahead(deferred'[i], a, b) PROVE Ahead(deferred[i], a, b)
    <3>1. PICK j, k \in 1..Len(deferred'[i]) : j < k /\ deferred'[i][j] = a /\ deferred'[i][k] = b
      BY <2>2 DEF Ahead
    <3>2. k # Len(deferred[i]) + 1
      BY <2>1, <2>2, <3>1
    <3>3. j \in 1..Len(deferred[i]) /\ k \in 1..Len(deferred[i])
      BY <1>1, <2>1, <3>1, <3>2
    <3> QED BY <2>1, <3>1, <3>3 DEF Ahead
  <2>3. ASSUME Ahead(deferred[i], a, b) PROVE b \in Parked(i)'
    <3>1. PICK k \in 1..Len(deferred[i]) : deferred[i][k] = b
      BY <2>3 DEF Ahead
    <3>2. k \in 1..Len(deferred'[i]) /\ deferred'[i][k] = b
      BY <1>1, <2>1, <3>1
    <3> QED BY <3>2 DEF Parked
  <2> QED BY <2>2, <2>3
<1>4. ASSUME NEW n \in 1..Len(deferred[i]), deferred'[i] = Without(i, n), lock'[i] = lock[i]
      PROVE  First /\ Second
  <2> DEFINE at(m) == IF m < n THEN m ELSE m + 1
  <2>1. /\ Len(deferred'[i]) = Len(deferred[i]) - 1
        /\ \A j \in 1..Len(deferred'[i]) : deferred'[i][j] = deferred[i][at(j)]
    BY <1>1, <1>4, QueueWithout
  <2>2. ASSUME Ahead(deferred'[i], a, b) PROVE Ahead(deferred[i], a, b)
    <3>1. PICK j, k \in 1..Len(deferred'[i]) : j < k /\ deferred'[i][j] = a /\ deferred'[i][k] = b
      BY <2>2 DEF Ahead
    <3>2. at(j) \in 1..Len(deferred[i]) /\ at(k) \in 1..Len(deferred[i]) /\ at(j) < at(k)
      BY <1>1, <2>1, <3>1
    <3>3. deferred[i][at(j)] = a /\ deferred[i][at(k)] = b
      BY <2>1, <3>1
    <3> HIDE DEF at
    <3> QED BY <3>2, <3>3 DEF Ahead
  <2> QED BY <1>4, <2>2
<1> QED BY <1>2, <1>3, <1>4, QueueStep

\* Parked wakeups do not overtake each other, whatever cancels some of them: the ones
\* that go on waiting keep their order, and an issue that changes hands serves or
\* refuses nobody behind an agent that goes on waiting.
THEOREM QueueKeepsOrder == Spec => ParkedInOrder
<1>1. QueueInvariant /\ [Next]_vars
        => [\A i \in Issues, a, b \in Agents :
              /\ b \in Parked(i) /\ Ahead(deferred'[i], a, b) => Ahead(deferred[i], a, b)
              /\ Ahead(deferred[i], a, b) /\ a \in Parked(i)' /\ lock'[i] # lock[i]
                    => b \in Parked(i)']_vars
  BY OrderStep
<1> QED BY <1>1, QueueInvariantHolds, PTL DEF Spec, ParkedInOrder

\* If none of a queue can be promoted, every agent in it is paused.
LEMMA NoneInvokable ==
    ASSUME TypeOK, NEW i \in Issues, FirstInvokable(i) = {}
    PROVE  \A a \in Parked(i) : agentStatus[a] = "paused"
<1> DEFINE able == {k \in 1..Len(deferred[i]) : agentStatus[deferred[i][k]] # "paused"}
<1>1. ASSUME able # {} PROVE FALSE
  <2>1. able \subseteq Nat /\ Len(deferred[i]) \in Nat
    BY DEF TypeOK, LocksTypeOK
  <2>2. PICK k \in able : \A j \in able : k <= j
    BY <1>1, <2>1, FirstIsLeast
  <2>3. k \in FirstInvokable(i)
    BY <2>1, <2>2 DEF FirstInvokable
  <2> QED BY <2>3
<1> QED BY <1>1 DEF Parked

\* What may happen to an agent parked on an issue in a step.
LEMMA ServedOrRefused ==
    ASSUME QueueInvariant, [Next]_vars, NEW i \in Issues, NEW a \in Parked(i),
           a \notin Parked(i)'
    PROVE  \/ agentStatus[a] = "paused"
           \/ lock'[i] # lock[i] /\ lock'[i] # NoRun /\ runAgent'[lock'[i]] = a
           \/ UNCHANGED <<runVars, lock, lockKey, agentVars, dispatchVars, exec, stopper, watchdog,
                          boundVars>>
<1> USE DEF QueueInvariant, LockInvariant
<1> DEFINE Goal ==
      \/ agentStatus[a] = "paused"
      \/ lock'[i] # lock[i] /\ lock'[i] # NoRun /\ runAgent'[lock'[i]] = a
      \/ UNCHANGED <<runVars, lock, lockKey, agentVars, dispatchVars, exec, stopper, watchdog,
                     boundVars>>
<1>1. /\ deferred[i] \in Seq(Agents) /\ Len(deferred[i]) \in Nat
      /\ deferred'[i] # deferred[i]
  BY DEF Parked, TypeOK, LocksTypeOK
<1>2. ASSUME NEW b \in Agents, NEW j \in Issues, NEW comment \in BOOLEAN, NEW force \in BOOLEAN,
             WakeTransaction(b, j, comment, force)
      PROVE  FALSE
  <2>1. deferred'[i] = Append(deferred[i], b)
    <3>1. deferred' = deferred \/ deferred' = [deferred EXCEPT ![j] = Append(@, b)]
      BY <1>2, WakeMoves
    <3> QED BY <1>1, <3>1 DEF TypeOK, LocksTypeOK
  <2>2. PICK k \in 1..Len(deferred[i]) : deferred[i][k] = a
    BY DEF Parked
  <2>3. deferred'[i][k] = a /\ k \in 1..Len(deferred'[i])
    BY <1>1, <2>1, <2>2, AppendProperties
  <2> QED BY <2>3 DEF Parked
<1>3. ASSUME NEW r \in RunIds, runStatus[r] \in Terminal, ReleaseAndPromote(r)
      PROVE  Goal
  <2>1. ASSUME NEW j \in Issues, FirstInvokable(j) = {}, deferred' = [deferred EXCEPT ![j] = << >>]
        PROVE  Goal
    <3>1. j = i
      BY <1>1, <2>1 DEF TypeOK, LocksTypeOK
    <3> QED BY <2>1, <3>1, NoneInvokable
  <2>2. ASSUME NEW j \in Issues, NEW k \in FirstInvokable(j), lock[j] = r, r # nextRun,
               CreateRun(deferred[j][k], j, TRUE), nextRun \in RunIds,
               lock' = [lock EXCEPT ![j] = nextRun], deferred' = [deferred EXCEPT ![j] = Rest(j, k)]
        PROVE  Goal
    <3>1. j = i
      BY <1>1, <2>2 DEF TypeOK, LocksTypeOK
    <3>2. k \in 1..Len(deferred[i]) /\ k \in 0..Len(deferred[i])
      BY <1>1, <3>1 DEF FirstInvokable
    <3>3. PICK l \in 1..Len(deferred[i]) : deferred[i][l] = a
      BY DEF Parked
    <3>4. CASE l < k
      BY <3>1, <3>2, <3>3, <3>4 DEF FirstInvokable
    <3>5. CASE l = k
      <4>1. lock'[i] = nextRun /\ runAgent'[nextRun] = a
        BY <2>2, <3>1, <3>3, <3>5 DEF CreateRun, TypeOK, RunsTypeOK, LocksTypeOK
      <4>2. nextRun # NoRun /\ nextRun # lock[i]
        BY <2>2, <3>1 DEF RunIds, NoRun
      <4> QED BY <4>1, <4>2
    <3>6. CASE l > k
      <4>1. deferred'[i] = Rest(i, k)
        BY <2>2, <3>1 DEF TypeOK, LocksTypeOK
      <4>2. Len(Rest(i, k)) = Len(deferred[i]) - k
        BY <3>2, RestOfQueue
      <4>3. l - k \in 1..Len(Rest(i, k)) /\ (l - k) + k = l
        BY <1>1, <3>2, <3>6, <4>2
      <4>4. Rest(i, k)[l - k] = deferred[i][(l - k) + k]
        BY <3>2, <4>3, RestOfQueue
      <4>5. Rest(i, k)[l - k] = a
        BY <3>3, <4>3, <4>4
      <4> QED BY <4>1, <4>3, <4>5 DEF Parked
    <3> QED BY <3>2, <3>4, <3>5, <3>6
  <2> QED BY <1>1, <1>3, <2>1, <2>2, ReleaseMoves DEF lockVars
<1>4. ASSUME NEW j \in Issues, CancelParked(j) PROVE Goal
  BY <1>4 DEF CancelParked
<1> QED BY <1>1, <1>2, <1>3, <1>4, StepsOfLock DEF LockMoves

\* No parked wakeup is lost: it leaves its queue by becoming the run that holds the
\* issue, because its agent is paused, or by being called off in a step of its own, in which
\* no run is created or ended, and no lock changes hands.
THEOREM NoParkedIsLost == Spec => ParkedIsServedOrRefused
<1>1. QueueInvariant /\ [Next]_vars
        => [\A i \in Issues, a \in Agents :
              a \in Parked(i) /\ a \notin Parked(i)' =>
                \/ agentStatus[a] = "paused"
                \/ lock'[i] # lock[i] /\ lock'[i] # NoRun /\ runAgent'[lock'[i]] = a
                \/ UNCHANGED <<runVars, lock, lockKey, agentVars, dispatchVars, exec, stopper,
                               watchdog, boundVars>>
           ]_vars
  BY ServedOrRefused
<1> QED BY <1>1, QueueInvariantHolds, PTL DEF Spec, ParkedIsServedOrRefused

-----------------------------------------------------------------------------
(* The abstract lock.                                                      *)

\* Its view of the queues and of the runs.
Waiting == [i \in Issues |-> Parked(i)]
Phase == [r \in RunIds |-> RunPhase(r)]

\* A run that is created becomes live, and was new.
LEMMA PhaseOfCreated ==
    ASSUME LockInvariant, NEW a \in Agents, NEW x \in Scopes, NEW locked \in BOOLEAN,
           CreateRun(a, x, locked)
    PROVE  /\ nextRun \in RunIds /\ Phase[nextRun] = "new"
           /\ Phase' = [Phase EXCEPT ![nextRun] = "live"]
<1> USE DEF LockInvariant
<1>1. nextRun \in RunIds
  BY CreateRunTypes DEF TypeOK
<1>2. runStatus[nextRun] = "none"
  BY <1>1 DEF RowsAreWhole, RunIds
<1>3. \A r \in RunIds : runStatus'[r] = IF r = nextRun THEN "queued" ELSE runStatus[r]
  BY <1>1 DEF CreateRun, TypeOK, RunsTypeOK
<1>4. \A r \in RunIds : RunPhase(r)' = IF r = nextRun THEN "live" ELSE RunPhase(r)
  BY <1>3 DEF RunPhase, IsActive, Active
<1> QED BY <1>1, <1>2, <1>4 DEF Phase, RunPhase

\* The status of a run decides whether it is live.
LEMMA PhaseOfRun ==
    ASSUME TypeOK, NEW r \in RunIds
    PROVE  /\ Phase[r] = "live" <=> IsActive(r)
           /\ runStatus[r] \in Terminal => Phase[r] = "over"
BY DEF TypeOK, RunsTypeOK, Phase, RunPhase, IsActive, Active, Terminal

\* A holder that is not live may be followed by another run.
LEMMA NotLocked ==
    ASSUME TypeOK, NEW i \in Issues, ~Locked(i)
    PROVE  ~(lock[i] \in RunIds /\ Phase[lock[i]] = "live")
BY PhaseOfRun DEF Locked, RunIds, NoRun

\* What waits after a queue has changed.
LEMMA WaitingAfter ==
    ASSUME TypeOK, NEW i \in Issues, NEW s, deferred' = [deferred EXCEPT ![i] = s]
    PROVE  Waiting' = [Waiting EXCEPT ![i] = {s[k] : k \in 1..Len(s)}]
<1>1. \A j \in Issues : deferred'[j] = IF j = i THEN s ELSE deferred[j]
  BY DEF TypeOK, LocksTypeOK
<1>2. \A j \in Issues : Parked(j)' = IF j = i THEN {s[k] : k \in 1..Len(s)} ELSE Parked(j)
  BY <1>1 DEF Parked
<1> QED BY <1>2 DEF Waiting

\* Nobody waits after a queue has been emptied.
LEMMA NobodyWaits ==
    ASSUME TypeOK, NEW i \in Issues, deferred' = [deferred EXCEPT ![i] = << >>]
    PROVE  Waiting' = [Waiting EXCEPT ![i] = {}]
<1>1. \A j \in Issues : deferred'[j] = IF j = i THEN << >> ELSE deferred[j]
  BY DEF TypeOK, LocksTypeOK
<1>2. \A j \in Issues : Parked(j)' = IF j = i THEN {} ELSE Parked(j)
  BY <1>1 DEF Parked
<1> QED BY <1>2 DEF Waiting

\* A fresh server has a free lock.
LEMMA LockInitImplements == Init => Abstract!Init
<1> SUFFICES ASSUME Init PROVE Abstract!Init
  OBVIOUS
<1>1. \A i \in Issues : Parked(i) = {}
  BY DEF Init, Parked
<1>2. \A r \in RunIds : RunPhase(r) = "new"
  BY DEF Init, RunPhase
<1> QED BY <1>1, <1>2 DEF Init, Abstract!Init

\* A step that touches neither lock nor queue begins a run beside the lock, ends one,
\* or is not seen.
LEMMA RunMovesImplement ==
    ASSUME QueueInvariant, UNCHANGED <<lock, deferred>>, RunMoves
    PROVE  \/ \E r \in RunIds : Abstract!BeginBeside(r) \/ Abstract!End(r)
           \/ UNCHANGED <<lock, Waiting, Phase>>
<1> USE DEF QueueInvariant, LockInvariant
<1>1. UNCHANGED Waiting
  BY DEF Waiting, Parked
<1>2. CASE UNCHANGED runVars
  BY <1>1, <1>2 DEF runVars, Phase, RunPhase, IsActive
<1>3. ASSUME NEW a \in Agents, NEW x \in Scopes, CreateRun(a, x, FALSE)
      PROVE  \E r \in RunIds : Abstract!BeginBeside(r)
  BY <1>1, <1>3, PhaseOfCreated DEF Abstract!BeginBeside, Phase, Waiting
<1>4. ASSUME NEW r \in RunIds, runStatus[r] = "queued", SetRunStatus(r, "running")
      PROVE  UNCHANGED Phase
  BY <1>4 DEF SetRunStatus, Phase, RunPhase, IsActive, Active, TypeOK, RunsTypeOK
<1>5. ASSUME NEW r \in RunIds, NEW s \in Terminal, runStatus[r] # "none", SetRunStatus(r, s)
      PROVE  \/ Abstract!End(r)
             \/ UNCHANGED Phase
  <2>1. \A q \in RunIds : RunPhase(q)' = IF q = r THEN "over" ELSE RunPhase(q)
    BY <1>5 DEF SetRunStatus, RunPhase, IsActive, Active, Terminal, TypeOK, RunsTypeOK
  <2>2. CASE IsActive(r)
    <3>1. Phase[r] = "live" /\ Phase' = [Phase EXCEPT ![r] = "over"]
      BY <2>1, <2>2, PhaseOfRun DEF Phase
    <3> QED BY <1>1, <3>1 DEF Abstract!End, Phase, Waiting
  <2>3. CASE ~IsActive(r)
    BY <1>5, <2>1, <2>3 DEF Phase, RunPhase
  <2> QED BY <2>2, <2>3
<1> QED BY <1>1, <1>2, <1>3, <1>4, <1>5 DEF RunMoves

\* A wakeup's transaction begins a run on a free issue, or waits behind the live run
\* that holds it or is given it.
LEMMA WakeImplements ==
    ASSUME QueueInvariant, NEW a \in Agents, NEW i \in Issues,
           NEW comment \in BOOLEAN, NEW force \in BOOLEAN,
           WakeTransaction(a, i, comment, force)
    PROVE  \E r \in RunIds : \/ Abstract!Begin(i, r)
                             \/ \E W \in SUBSET Agents : Abstract!Wait(i, r, W)
<1> USE DEF QueueInvariant, LockInvariant
<1>1. CASE WakeStarts(a, i)
  <2>1. UNCHANGED Waiting
    BY <1>1 DEF WakeStarts, Waiting, Parked
  <2>2. ~Locked(i) /\ CreateRun(a, i, TRUE) /\ lock' = [lock EXCEPT ![i] = nextRun]
    BY <1>1 DEF WakeStarts, HasHolder
  <2> QED
    BY <2>1, <2>2, PhaseOfCreated, NotLocked
    DEF Abstract!Begin, Abstract!Live, Scopes, Waiting, Phase
<1>2. CASE WakeCoalesces(a, i, comment, force) \/ WakeDefers(a, i, comment, force)
  <2> DEFINE r == HolderOf(i)
  <2>1. HasHolder(i) /\ UNCHANGED runVars /\ lock' = [lock EXCEPT ![i] = r]
    BY <1>2 DEF WakeCoalesces, WakeDefers, AdoptHolder
  <2>2. r \in RunIds /\ IsActive(r) /\ UNCHANGED Phase
    BY <2>1, HolderIsActive DEF runVars, Phase, RunPhase, IsActive
  <2>3. Phase[r] = "live"
    BY <2>2, PhaseOfRun
  <2>4. r = lock[i] \/ ~(lock[i] \in RunIds /\ Phase[lock[i]] = "live")
    BY NotLocked DEF HolderOf
  <2>5. PICK W \in SUBSET Agents : Waiting' = [Waiting EXCEPT ![i] = @ \cup W]
    <3>1. CASE deferred' = deferred
      <4>1. Waiting' = [Waiting EXCEPT ![i] = @ \cup {}]
        BY <3>1 DEF Waiting, Parked
      <4> QED BY <4>1
    <3>2. CASE deferred' = [deferred EXCEPT ![i] = Append(@, a)]
      <4>1. deferred[i] \in Seq(Agents) /\ Len(deferred[i]) \in Nat
        BY DEF TypeOK, LocksTypeOK
      <4>2. {Append(deferred[i], a)[k] : k \in 1..Len(Append(deferred[i], a))}
              = Parked(i) \cup {a}
        BY <4>1, AppendProperties DEF Parked
      <4>3. Waiting' = [Waiting EXCEPT ![i] = Parked(i) \cup {a}]
        BY <3>2, <4>2, WaitingAfter
      <4> QED BY <4>3 DEF Waiting
    <3> QED BY <3>1, <3>2, WakeMoves
  <2> HIDE DEF r
  <2> QED BY <2>1, <2>2, <2>3, <2>4, <2>5 DEF Abstract!Wait, Abstract!Live, Waiting, Phase
<1> QED BY <1>1, <1>2 DEF WakeTransaction

\* A release hands the issue over to one that waited, or frees it.
LEMMA ReleaseImplements ==
    ASSUME QueueInvariant, NEW r \in RunIds, runStatus[r] \in Terminal, ReleaseAndPromote(r)
    PROVE  \/ UNCHANGED <<lock, Waiting, Phase>>
           \/ \E i \in Issues : Abstract!Free(i)
           \/ \E i \in Issues, q \in RunIds, W \in SUBSET Agents : Abstract!HandOver(i, q, W)
<1> USE DEF QueueInvariant, LockInvariant
<1>1. \A i \in Issues : lock[i] = r => ~Locked(i)
  BY DEF Locked, IsActive, Active, Terminal
<1>2. CASE UNCHANGED <<runVars, lockVars>>
  BY <1>2 DEF runVars, lockVars, Waiting, Parked, Phase, RunPhase, IsActive
<1>3. ASSUME NEW i \in Issues, lock[i] = r, UNCHANGED runVars,
             lock' = [lock EXCEPT ![i] = NoRun], deferred' = [deferred EXCEPT ![i] = << >>]
      PROVE  Abstract!Free(i)
  <2>1. Waiting' = [Waiting EXCEPT ![i] = {}]
    BY <1>3, NobodyWaits
  <2>2. UNCHANGED Phase
    BY <1>3 DEF runVars, Phase, RunPhase, IsActive
  <2> QED BY <1>1, <1>3, <2>1, <2>2, NotLocked DEF Abstract!Free, Abstract!Live, Waiting, Phase
<1>4. ASSUME NEW i \in Issues, NEW k \in FirstInvokable(i), lock[i] = r,
             CreateRun(deferred[i][k], i, TRUE),
             lock' = [lock EXCEPT ![i] = nextRun], deferred' = [deferred EXCEPT ![i] = Rest(i, k)]
      PROVE  \E q \in RunIds, W \in SUBSET Agents : Abstract!HandOver(i, q, W)
  <2> DEFINE W == {Rest(i, k)[j] : j \in 1..Len(Rest(i, k))}
  <2>1. /\ k \in 1..Len(deferred[i]) /\ k \in 0..Len(deferred[i])
        /\ Len(deferred[i]) \in Nat /\ deferred[i][k] \in Agents
    BY DEF FirstInvokable, TypeOK, LocksTypeOK
  <2>2. /\ Rest(i, k) \in Seq(Agents)
        /\ Len(Rest(i, k)) = Len(deferred[i]) - k
        /\ \A j \in 1..Len(Rest(i, k)) : Rest(i, k)[j] = deferred[i][j + k]
    BY <2>1, RestOfQueue
  <2>3. W \subseteq Parked(i) /\ W \in SUBSET Agents
    <3>1. ASSUME NEW j \in 1..Len(Rest(i, k))
          PROVE  j + k \in 1..Len(deferred[i]) /\ Rest(i, k)[j] = deferred[i][j + k]
      <4>1. Len(Rest(i, k)) = Len(deferred[i]) - k /\ Rest(i, k)[j] = deferred[i][j + k]
        BY <2>2
      <4>2. j \in 1..(Len(deferred[i]) - k)
        BY <4>1
      <4> QED BY <2>1, <4>1, <4>2
    <3>2. W \subseteq Parked(i)
      BY <3>1 DEF Parked
    <3>3. Parked(i) \subseteq Agents
      BY DEF Parked, TypeOK, LocksTypeOK
    <3> QED BY <3>2, <3>3
  <2>4. deferred[i][k] \in Parked(i) /\ deferred[i][k] \notin W
    <3>1. deferred[i][k] \in Parked(i)
      BY <2>1 DEF Parked
    <3>2. ASSUME NEW j \in 1..Len(Rest(i, k)), Rest(i, k)[j] = deferred[i][k] PROVE FALSE
      <4>1. j + k \in 1..Len(deferred[i]) /\ deferred[i][j + k] = deferred[i][k] /\ j + k # k
        BY <2>1, <2>2, <3>2
      <4> QED BY <2>1, <4>1 DEF ParkedOnce
    <3> QED BY <3>1, <3>2
  <2>5. Waiting[i] = Parked(i) /\ Waiting' = [Waiting EXCEPT ![i] = W]
    <3>1. Waiting' = [Waiting EXCEPT ![i] = W]
      BY <1>4, WaitingAfter
    <3> QED BY <3>1 DEF Waiting
  <2>6. /\ nextRun \in RunIds /\ Phase[nextRun] = "new"
        /\ Phase' = [Phase EXCEPT ![nextRun] = "live"]
    BY <1>4, <2>1, PhaseOfCreated DEF Scopes
  <2> HIDE DEF W
  <2> QED
    BY <1>1, <1>4, <2>3, <2>4, <2>5, <2>6, NotLocked
    DEF Abstract!HandOver, Abstract!Live, Waiting, Phase
<1> QED BY <1>2, <1>3, <1>4, ReleaseMoves

\* Calling off a parked wakeup calls off its work.
LEMMA CancellationImplements ==
    ASSUME QueueInvariant, NEW i \in Issues, CancelParked(i)
    PROVE  \E W \in SUBSET Agents : Abstract!CallOff(i, W)
<1> USE DEF QueueInvariant, LockInvariant
<1>1. PICK k \in 1..Len(deferred[i]) : deferred' = [deferred EXCEPT ![i] = Without(i, k)]
  BY CallingOffMoves
<1>2. /\ deferred[i] \in Seq(Agents) /\ Len(deferred[i]) \in Nat /\ deferred[i][k] \in Agents
      /\ Len(Without(i, k)) = Len(deferred[i]) - 1
      /\ \A j \in 1..Len(Without(i, k)) :
            Without(i, k)[j] = IF j < k THEN deferred[i][j] ELSE deferred[i][j + 1]
  BY QueueWithout DEF TypeOK, LocksTypeOK
<1>3. {Without(i, k)[j] : j \in 1..Len(Without(i, k))} = Parked(i) \ {deferred[i][k]}
  <2>1. ASSUME NEW j \in 1..Len(Without(i, k))
        PROVE  Without(i, k)[j] \in Parked(i) \ {deferred[i][k]}
    <3>1. PICK l \in 1..Len(deferred[i]) : l # k /\ Without(i, k)[j] = deferred[i][l]
      BY <1>2
    <3> QED BY <3>1 DEF Parked, ParkedOnce
  <2>2. ASSUME NEW l \in 1..Len(deferred[i]), deferred[i][l] # deferred[i][k]
        PROVE  \E j \in 1..Len(Without(i, k)) : Without(i, k)[j] = deferred[i][l]
    <3>1. CASE l < k
      BY <1>2, <3>1
    <3>2. CASE l > k
      <4>1. l - 1 \in 1..Len(Without(i, k)) /\ ~(l - 1 < k) /\ (l - 1) + 1 = l
        BY <1>2, <3>2
      <4>2. Without(i, k)[l - 1] = deferred[i][(l - 1) + 1]
        BY <1>2, <4>1
      <4> QED BY <4>1, <4>2
    <3> QED BY <1>2, <2>2, <3>1, <3>2
  <2> QED BY <2>1, <2>2 DEF Parked
<1>4. Waiting' = [Waiting EXCEPT ![i] = Parked(i) \ {deferred[i][k]}]
  BY <1>1, <1>3, WaitingAfter
<1>5. UNCHANGED <<lock, Phase>>
  BY CallingOffMoves DEF runVars, Phase, RunPhase, IsActive
<1>6. Abstract!CallOff(i, {deferred[i][k]})
  BY <1>4, <1>5 DEF Abstract!CallOff, Waiting, Phase
<1> QED BY <1>2, <1>6

\* HeartbeatRuns implements the abstract lock: whatever its handlers, timers and
\* restarts do, an issue is held, waited for and passed on as IssueExecutionLock says.
THEOREM LockImplemented == Spec => ImplementsLock
<1>1. ASSUME QueueInvariant, [Next]_vars
      PROVE  [Abstract!Next]_(Abstract!vars)
  <2>1. ASSUME UNCHANGED <<lock, Waiting, Phase>> PROVE UNCHANGED Abstract!vars
    BY <2>1 DEF Abstract!vars, Waiting, Phase
  <2>2. CASE UNCHANGED <<lock, deferred>> /\ RunMoves
    BY <1>1, <2>1, <2>2, RunMovesImplement DEF Abstract!Next
  <2>3. CASE \E a \in Agents, i \in Issues, comment, force \in BOOLEAN :
                WakeTransaction(a, i, comment, force)
    BY <1>1, <2>3, WakeImplements DEF Abstract!Next
  <2>4. CASE \E r \in RunIds : runStatus[r] \in Terminal /\ ReleaseAndPromote(r)
    BY <1>1, <2>1, <2>4, ReleaseImplements DEF Abstract!Next
  <2>5. CASE \E i \in Issues : CancelParked(i)
    BY <1>1, <2>5, CancellationImplements DEF Abstract!Next
  <2> QED BY <1>1, <2>2, <2>3, <2>4, <2>5, StepsOfLock DEF LockMoves, QueueInvariant
<1> QED
  BY <1>1, LockInitImplements, QueueInvariantHolds, PTL DEF Spec, ImplementsLock, Abstract!Spec

================================================================================

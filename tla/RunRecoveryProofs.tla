--------------------------- MODULE RunRecoveryProofs ---------------------------
(***************************************************************************)
(* The chain of follow-ups is bounded, and no lane is dropped, for every   *)
(* plan and every limit.                                                   *)
(*                                                                         *)
(* Every follow-up counts itself in one of four counters of the context it *)
(* is made from, so hops is at most their sum; each counter is checked     *)
(* against its limit in the very copy it is counted on, so a stale copy    *)
(* may be sent twice but not beyond the limit.  The exception is the retry *)
(* of a degraded recovery, which is not checked: retries exceeds its limit *)
(* by as many as there were of these, one.  Merging takes each counter     *)
(* from the newer context that has one, and hops from the newer context.   *)
(***************************************************************************)
EXTENDS RunRecovery, TLAPS

Sound ==
    {c \in Context : /\ c.retries <= LongRetryLimit + c.degraded
                     /\ c.hops <= c.retries + c.progress + c.adapter}

\* The inductive invariant: the type invariant, with Sound for Context.
Said == SUBSET {"partial", "full", "other"}
Places == {"none", "begun", "adapter", "sending", "sent", "releasing"}
Keeping == [pc : {"idle", "wake", "cancel", "release"}, run : 0..MaxRuns, context : Sound]

RecoveryInv ==
    /\ plan \in Plans /\ stage \in Nat \ {0} /\ mail \subseteq Nat \ {0}
    /\ lock \in 0..MaxRuns /\ status \in [RunIds -> Active \cup {"over"}]
    /\ row \in [RunIds -> Sound] /\ mem \in [RunIds -> Sound] /\ parked \in Sound
    /\ executor \in [RunIds -> Places] /\ said \in [RunIds -> Said]
    /\ keeper \in [Keepers -> Keeping]
    /\ reminders \in Nat /\ chosen \in BOOLEAN /\ excused \in BOOLEAN

-----------------------------------------------------------------------------
(* Contexts.                                                               *)

LEMMA NoContextSound == NoContext \in Sound
  BY LimitAssumption DEF NoContext, Sound, Context, Reasons, DegradedLimit

LEMMA MessageSound ==
  ASSUME NEW l \in Nat
  PROVE  Message(l) \in Sound
<1>1. ASSUME NEW f \in BOOLEAN
      PROVE  [NoContext EXCEPT !.lane = l, !.forced = f] \in Sound
  <2>1. [NoContext EXCEPT !.lane = l, !.forced = f] \in Context
    BY NoContextSound DEF Sound, Context
  <2> QED
    BY <2>1, NoContextSound DEF Sound, Context
<1> DEFINE f == Kind(l) \in {"implementation", "review", "closing"}
<1>2. f \in BOOLEAN
  OBVIOUS
<1> HIDE DEF f
<1>3. [NoContext EXCEPT !.lane = l, !.forced = f] \in Sound
  BY <1>1, <1>2
<1> QED
  BY <1>3 DEF Message, f

\* A follow-up is a context, with the counters it was made from.
LEMMA AgainKeeps ==
  ASSUME NEW c \in Context, NEW why \in Reasons
  PROVE  /\ Again(c, why) \in Context
         /\ Again(c, why).retries = c.retries
         /\ Again(c, why).degraded = c.degraded
         /\ Again(c, why).progress = c.progress
         /\ Again(c, why).adapter = c.adapter
         /\ Again(c, why).hops = c.hops + 1
<1>1. ASSUME NEW h \in Nat
      PROVE  [c EXCEPT !.forced = TRUE, !.reason = why, !.hops = h] \in Context
  BY DEF Context
<1>2. c.hops + 1 \in Nat
  BY DEF Context
<1>3. Again(c, why) \in Context
  BY <1>1, <1>2 DEF Again
<1>4. /\ Again(c, why).retries = c.retries
      /\ Again(c, why).degraded = c.degraded
  BY DEF Again, Context
<1>5. /\ Again(c, why).progress = c.progress
      /\ Again(c, why).adapter = c.adapter
  BY DEF Again, Context
<1>6. Again(c, why).hops = c.hops + 1
  BY DEF Again, Context
<1> QED
  BY <1>3, <1>4, <1>5, <1>6

\* Setting one counter leaves the others alone.
LEMMA RetriesSet ==
  ASSUME NEW c \in Context, NEW n \in 0..(LongRetryLimit + DegradedLimit)
  PROVE  LET d == [c EXCEPT !.retries = n]
         IN  /\ d \in Context /\ d.retries = n /\ d.degraded = c.degraded
             /\ d.progress = c.progress /\ d.adapter = c.adapter /\ d.hops = c.hops
  BY DEF Context

LEMMA DegradedSet ==
  ASSUME NEW c \in Context, NEW n \in 0..DegradedLimit
  PROVE  LET d == [c EXCEPT !.degraded = n]
         IN  /\ d \in Context /\ d.retries = c.retries /\ d.degraded = n
             /\ d.progress = c.progress /\ d.adapter = c.adapter /\ d.hops = c.hops
  BY DEF Context

LEMMA ProgressSet ==
  ASSUME NEW c \in Context, NEW n \in 0..ProgressLimit
  PROVE  LET d == [c EXCEPT !.progress = n]
         IN  /\ d \in Context /\ d.retries = c.retries /\ d.degraded = c.degraded
             /\ d.progress = n /\ d.adapter = c.adapter /\ d.hops = c.hops
  BY DEF Context

LEMMA AdapterSet ==
  ASSUME NEW c \in Context, NEW n \in 0..AdapterLimit
  PROVE  LET d == [c EXCEPT !.adapter = n]
         IN  /\ d \in Context /\ d.retries = c.retries /\ d.degraded = c.degraded
             /\ d.progress = c.progress /\ d.adapter = n /\ d.hops = c.hops
  BY DEF Context

\* A retry counts itself; one within the limits of a degraded recovery too.
LEMMA RetryKeeps ==
  ASSUME NEW c \in Sound, c.retries < LongRetryLimit + DegradedLimit
  PROVE  /\ Retry(c) \in Context
         /\ Retry(c).retries = c.retries + 1 /\ Retry(c).degraded = c.degraded
         /\ Retry(c).progress = c.progress /\ Retry(c).adapter = c.adapter
         /\ Retry(c).hops = c.hops + 1
<1> DEFINE d == Again(c, "other")
<1>1. /\ d \in Context /\ d.retries = c.retries /\ d.degraded = c.degraded
      /\ d.progress = c.progress /\ d.adapter = c.adapter /\ d.hops = c.hops + 1
  BY AgainKeeps DEF Sound, Reasons
<1>2. d.retries + 1 \in 0..(LongRetryLimit + DegradedLimit)
  BY <1>1, LimitAssumption DEF Sound, Context, DegradedLimit
<1>3. Retry(c) = [d EXCEPT !.retries = d.retries + 1]
  BY DEF Retry
<1> HIDE DEF d
<1> QED
  BY <1>1, <1>2, <1>3, RetriesSet

LEMMA RetrySound ==
  ASSUME NEW c \in Sound, c.retries < LongRetryLimit
  PROVE  Retry(c) \in Sound
<1>1. c.retries < LongRetryLimit + DegradedLimit
  BY LimitAssumption DEF Sound, Context, DegradedLimit
<1> QED
  BY <1>1, RetryKeeps, LimitAssumption DEF Sound, Context, DegradedLimit

LEMMA DegradedRetrySound ==
  ASSUME NEW c \in Sound, c.degraded < DegradedLimit
  PROVE  DegradedRetry(c) \in Sound
<1> DEFINE d == Retry(c)
<1>1. c.degraded = 0 /\ c.retries < LongRetryLimit + DegradedLimit
  BY LimitAssumption DEF Sound, Context, DegradedLimit
<1>2. /\ d \in Context /\ d.retries = c.retries + 1 /\ d.degraded = 0
      /\ d.progress = c.progress /\ d.adapter = c.adapter /\ d.hops = c.hops + 1
  BY <1>1, RetryKeeps
<1>3. DegradedRetry(c) = [d EXCEPT !.degraded = 1]
  BY <1>2 DEF DegradedRetry
<1> HIDE DEF d
<1>4. LET e == [d EXCEPT !.degraded = 1]
      IN  /\ e \in Context /\ e.retries = d.retries /\ e.degraded = 1
          /\ e.progress = d.progress /\ e.adapter = d.adapter /\ e.hops = d.hops
  <2>1. 1 \in 0..DegradedLimit
    BY DEF DegradedLimit
  <2> QED
    BY <1>2, <2>1, DegradedSet
<1> QED
  BY <1>1, <1>2, <1>3, <1>4, LimitAssumption DEF Sound, Context, DegradedLimit

LEMMA FollowupSound ==
  ASSUME NEW c \in Sound, c.progress < ProgressLimit
  PROVE  Followup(c) \in Sound
<1> DEFINE d == Again(c, "other")
<1>1. /\ d \in Context /\ d.retries = c.retries /\ d.degraded = c.degraded
      /\ d.progress = c.progress /\ d.adapter = c.adapter /\ d.hops = c.hops + 1
  BY AgainKeeps DEF Sound, Reasons
<1>2. d.progress + 1 \in 0..ProgressLimit
  BY <1>1, LimitAssumption DEF Sound, Context
<1>3. Followup(c) = [d EXCEPT !.progress = d.progress + 1]
  BY DEF Followup
<1> HIDE DEF d
<1>4. LET e == [d EXCEPT !.progress = d.progress + 1]
      IN  /\ e \in Context /\ e.retries = d.retries /\ e.degraded = d.degraded
          /\ e.progress = d.progress + 1 /\ e.adapter = d.adapter /\ e.hops = d.hops
  BY <1>1, <1>2, ProgressSet
<1> QED
  BY <1>1, <1>3, <1>4, LimitAssumption DEF Sound, Context, DegradedLimit

LEMMA AdapterRetrySound ==
  ASSUME NEW c \in Sound, c.adapter < AdapterLimit
  PROVE  AdapterRetry(c) \in Sound
<1> DEFINE d == Again(c, "adapter_retry")
<1>1. /\ d \in Context /\ d.retries = c.retries /\ d.degraded = c.degraded
      /\ d.progress = c.progress /\ d.adapter = c.adapter /\ d.hops = c.hops + 1
  BY AgainKeeps DEF Sound, Reasons
<1>2. d.adapter + 1 \in 0..AdapterLimit
  BY <1>1, LimitAssumption DEF Sound, Context
<1>3. AdapterRetry(c) = [d EXCEPT !.adapter = d.adapter + 1]
  BY DEF AdapterRetry
<1> HIDE DEF d
<1>4. LET e == [d EXCEPT !.adapter = d.adapter + 1]
      IN  /\ e \in Context /\ e.retries = d.retries /\ e.degraded = d.degraded
          /\ e.progress = d.progress /\ e.adapter = d.adapter + 1 /\ e.hops = d.hops
  BY <1>1, <1>2, AdapterSet
<1> QED
  BY <1>1, <1>3, <1>4, LimitAssumption DEF Sound, Context, DegradedLimit

\* Merging: each counter is that of the newer context, or of the older.
LEMMA MergeSound ==
  ASSUME NEW old \in Sound, NEW new \in Sound
  PROVE  Merge(old, new) \in Sound
<1> DEFINE a == Later(old.retries, new.retries)
           b == Later(old.degraded, new.degraded)
           p == Later(old.progress, new.progress)
           q == Later(old.adapter, new.adapter)
           f == old.forced \/ new.forced
<1>1. /\ a \in 0..(LongRetryLimit + DegradedLimit) /\ a <= LongRetryLimit + b
      /\ b \in 0..DegradedLimit
  BY LimitAssumption DEF Later, Sound, Context, DegradedLimit
<1>2. p \in 0..ProgressLimit /\ q \in 0..AdapterLimit
  BY LimitAssumption DEF Later, Sound, Context
<1>3. new.hops <= a + p + q
  BY LimitAssumption DEF Later, Sound, Context, DegradedLimit
<1>4. f \in BOOLEAN
  BY DEF Sound, Context
<1>5. Merge(old, new) = [new EXCEPT !.retries = a, !.degraded = b, !.progress = p,
                                    !.adapter = q, !.forced = f]
  BY DEF Merge
<1> HIDE DEF a, b, p, q, f
<1> DEFINE m == [new EXCEPT !.retries = a, !.degraded = b, !.progress = p,
                            !.adapter = q, !.forced = f]
<1>6. m \in Context
  BY <1>1, <1>2, <1>4 DEF Sound, Context
<1>7. m.retries = a /\ m.degraded = b /\ m.progress = p /\ m.adapter = q
  BY <1>1, <1>2, <1>4 DEF Sound, Context
<1>8. m.hops = new.hops
  BY DEF Sound, Context
<1> HIDE DEF m
<1>9. m \in Sound
  BY <1>1, <1>3, <1>6, <1>7, <1>8 DEF Sound
<1> QED
  BY <1>5, <1>9 DEF m

\* Whatever the lane, the limit on its retries is at most the long one.
LEMMA MayRetryWithin ==
  ASSUME NEW c \in Sound, MayRetry(c)
  PROVE  c.retries < LongRetryLimit
  BY LimitAssumption DEF MayRetry, LimitOf, Sound, Context, DegradedLimit

-----------------------------------------------------------------------------
(* Wakeups.                                                                *)

LEMMA CreateSound ==
  ASSUME RecoveryInv, NEW c \in Sound, Create(c)
  PROVE  /\ status' \in [RunIds -> Active \cup {"over"}]
         /\ row' \in [RunIds -> Sound]
         /\ lock' \in 0..MaxRuns
<1> DEFINE r == CHOOSE i \in FreeRuns : TRUE
<1>1. r \in RunIds
  BY DEF Create, FreeRuns
<1>2. RunIds \subseteq 0..MaxRuns
  BY RecoveryBoundAssumption DEF RunIds
<1>3. /\ status' = [status EXCEPT ![r] = "queued"]
      /\ row' = [row EXCEPT ![r] = c]
      /\ lock' = r
  BY DEF Create
<1> QED
  BY <1>1, <1>2, <1>3 DEF RecoveryInv, Active

LEMMA EnqueueSound ==
  ASSUME RecoveryInv, NEW c \in Sound, Enqueue(c)
  PROVE  /\ status' \in [RunIds -> Active \cup {"over"}]
         /\ row' \in [RunIds -> Sound]
         /\ lock' \in 0..MaxRuns
         /\ parked' \in Sound
         /\ chosen' \in BOOLEAN /\ excused' \in BOOLEAN
<1>1. CASE ~Held /\ Create(c) /\ UNCHANGED <<parked, chosen, excused>>
  BY <1>1, CreateSound DEF RecoveryInv
<1>2. CASE Held /\ c.forced /\ Park(c)
  <2>1. parked' \in Sound
    BY <1>2, MergeSound DEF Park, RecoveryInv
  <2>2. excused' \in BOOLEAN
    BY <1>2 DEF Park, ExcusedIf
  <2> QED
    BY <1>2, <2>1, <2>2 DEF Park, RecoveryInv
<1>3. CASE Held /\ ~c.forced /\ Coalesce(c)
  <2>1. row' \in [RunIds -> Sound]
    <3>1. lock \in RunIds
      BY <1>3, RecoveryBoundAssumption DEF Held, NoRun, RunIds, RecoveryInv
    <3>2. Merge(row[lock], c) \in Sound
      BY <3>1, MergeSound DEF RecoveryInv
    <3> QED
      BY <1>3, <3>1, <3>2 DEF Coalesce, RecoveryInv
  <2>2. excused' \in BOOLEAN
    BY <1>3 DEF Coalesce, ExcusedIf
  <2> QED
    BY <1>3, <2>1, <2>2 DEF Coalesce, RecoveryInv
<1> QED
  BY <1>1, <1>2, <1>3 DEF Enqueue

LEMMA ReleaseSound ==
  ASSUME RecoveryInv, NEW r, Release(r)
  PROVE  /\ status' \in [RunIds -> Active \cup {"over"}]
         /\ row' \in [RunIds -> Sound]
         /\ lock' \in 0..MaxRuns
         /\ parked' \in Sound /\ chosen' \in BOOLEAN
<1>1. CASE lock # r
  BY <1>1 DEF Release, RecoveryInv
<1>2. CASE lock = r /\ parked = NoContext
  BY <1>2, RecoveryBoundAssumption DEF Release, NoRun, RecoveryInv
<1>3. CASE lock = r /\ parked # NoContext
  BY <1>3, CreateSound, NoContextSound DEF Release, RecoveryInv
<1> QED
  BY <1>1, <1>2, <1>3

LEMMA OverSound ==
  ASSUME RecoveryInv, NEW r \in RunIds, Over(r)
  PROVE  /\ status' \in [RunIds -> Active \cup {"over"}]
         /\ row' \in [RunIds -> Sound]
  BY NoContextSound DEF Over, RecoveryInv

LEMMA ForgetSound ==
  ASSUME RecoveryInv, NEW r \in RunIds, NEW c \in Sound, Forget(r, c)
  PROVE  /\ mem' \in [RunIds -> Sound]
         /\ said' \in [RunIds -> Said]
  BY DEF Forget, Said, RecoveryInv

LEMMA KeepSound ==
  ASSUME RecoveryInv, NEW k \in Keepers, NEW pc \in {"wake", "cancel", "release"},
         NEW r \in 0..MaxRuns, Keep(k, pc, r)
  PROVE  keeper' \in [Keepers -> Keeping]
<1>1. [NotKeeping EXCEPT !.pc = pc, !.run = r] \in Keeping
  BY NoContextSound DEF NotKeeping, Keeping
<1> QED
  BY <1>1 DEF Keep, RecoveryInv

LEMMA IdleSound == NotKeeping \in Keeping
  BY NoContextSound, RecoveryBoundAssumption DEF NotKeeping, Keeping, NoRun

LEMMA AdvanceSound ==
  ASSUME RecoveryInv, Advance
  PROVE  stage' \in Nat \ {0} /\ mail' \subseteq Nat \ {0} /\ excused' \in BOOLEAN
<1>1. stage \in Nat \ {0} /\ mail \subseteq Nat \ {0}
  BY DEF RecoveryInv
<1>2. stage + 1 \in Nat \ {0}
  BY <1>1
<1>3. stage' \in Nat \ {0}
  BY <1>2 DEF Advance
<1>4. mail' = mail \/ mail' = mail \cup {stage + 1}
  BY DEF Advance
<1>5. mail' \subseteq Nat \ {0}
  BY <1>1, <1>2, <1>4
<1>6. excused' \in BOOLEAN
  BY DEF Advance
<1> QED
  BY <1>3, <1>5, <1>6

LEMMA ListenSound ==
  ASSUME RecoveryInv, NEW what \in {"partial", "full"}, Listen(what)
  PROVE  said' \in [RunIds -> Said]
  BY DEF Listen, Said, RecoveryInv

LEMMA ExecutorSound ==
  ASSUME RecoveryInv, NEW r, NEW here, NEW there \in Places, ExecutorAt(r, here, there)
  PROVE  executor' \in [RunIds -> Places]
  BY DEF ExecutorAt, RecoveryInv

-----------------------------------------------------------------------------
(* The steps.                                                              *)

LEMMA DeliverSound ==
  ASSUME RecoveryInv, NEW l \in mail, Deliver(l)
  PROVE  RecoveryInv'
<1>1. Message(l) \in Sound
  BY MessageSound DEF RecoveryInv
<1> QED
  BY <1>1, EnqueueSound DEF Deliver, RecoveryInv

LEMMA RemindSound ==
  ASSUME RecoveryInv, Remind
  PROVE  RecoveryInv'
<1>1. Message(0) \in Sound
  BY MessageSound
<1> QED
  BY <1>1, EnqueueSound DEF Remind, RecoveryInv

LEMMA BeginSound ==
  ASSUME RecoveryInv, NEW r \in RunIds, Begin(r) \/ Enter(r)
  PROVE  RecoveryInv'
<1>1. CASE Begin(r)
  <2>1. executor' \in [RunIds -> Places]
    BY <1>1, ExecutorSound DEF Begin, Places
  <2> QED
    BY <1>1, <2>1 DEF Begin, RecoveryInv, Active
<1>2. CASE Enter(r)
  <2>1. executor' \in [RunIds -> Places]
    BY <1>2, ExecutorSound DEF Enter, Places
  <2> QED
    BY <1>2, <2>1 DEF Enter, RecoveryInv
<1> QED
  BY <1>1, <1>2

LEMMA SupersededSound ==
  ASSUME RecoveryInv, NEW r \in RunIds, Superseded(r)
  PROVE  RecoveryInv'
<1>1. executor' \in [RunIds -> Places]
  BY ExecutorSound DEF Superseded, Places
<1> QED
  BY <1>1, OverSound, ForgetSound, NoContextSound DEF Superseded, RecoveryInv

\* The follow-up is counted in the context the executor has read, and the
\* limit checked there.
LEMMA AdapterReturnsSound ==
  ASSUME RecoveryInv, NEW r \in RunIds, NEW result \in Results, AdapterReturns(r, result)
  PROVE  RecoveryInv'
<1>1. mem[r] \in Sound
  BY DEF RecoveryInv
<1>2. SUFFICES /\ executor' \in [RunIds -> Places]
               /\ mem' \in [RunIds -> Sound] /\ said' \in [RunIds -> Said]
               /\ excused' \in BOOLEAN
  BY DEF AdapterReturns, RecoveryInv
<1>3. ASSUME NEW c \in Sound, ExecutorAt(r, "adapter", "sending"), Forget(r, c),
             UNCHANGED excused
      PROVE  /\ executor' \in [RunIds -> Places]
             /\ mem' \in [RunIds -> Sound] /\ said' \in [RunIds -> Said]
             /\ excused' \in BOOLEAN
  <2>1. executor' \in [RunIds -> Places]
    BY <1>3, ExecutorSound DEF Places
  <2> QED
    BY <1>3, <2>1, ForgetSound DEF RecoveryInv
<1>4. CASE WantsRetry(r) /\ ExecutorAt(r, "adapter", "sending") /\ Forget(r, Retry(mem[r]))
           /\ UNCHANGED excused
  <2>1. Retry(mem[r]) \in Sound
    BY <1>1, <1>4, MayRetryWithin, RetrySound DEF WantsRetry
  <2> QED
    BY <1>3, <1>4, <2>1
<1>5. CASE WantsFollowup(r) /\ ExecutorAt(r, "adapter", "sending")
           /\ Forget(r, Followup(mem[r])) /\ UNCHANGED excused
  <2>1. Followup(mem[r]) \in Sound
    BY <1>1, <1>5, FollowupSound DEF WantsFollowup
  <2> QED
    BY <1>3, <1>5, <2>1
<1>6. CASE mem[r].adapter < AdapterLimit /\ ExecutorAt(r, "adapter", "sending")
           /\ Forget(r, AdapterRetry(mem[r])) /\ UNCHANGED excused
  BY <1>1, <1>3, <1>6, AdapterRetrySound
<1>7. CASE /\ ExecutorAt(r, "adapter", "sent") /\ ExcusedIf(GivesUp(r, result))
           /\ Forget(r, NoContext)
  <2>1. executor' \in [RunIds -> Places]
    BY <1>7, ExecutorSound DEF Places
  <2>2. excused' \in BOOLEAN
    BY <1>7 DEF ExcusedIf
  <2> QED
    BY <1>7, <2>1, <2>2, ForgetSound, NoContextSound
<1> QED
  BY <1>4, <1>5, <1>6, <1>7 DEF AdapterReturns

LEMMA FinishSound ==
  ASSUME RecoveryInv, NEW r \in RunIds, Send(r) \/ Persist(r) \/ EndRun(r)
  PROVE  RecoveryInv'
<1>1. CASE Send(r)
  <2>1. executor' \in [RunIds -> Places]
    BY <1>1, ExecutorSound DEF Send, Places
  <2>2. mem[r] \in Sound
    BY DEF RecoveryInv
  <2> QED
    BY <1>1, <2>1, <2>2, EnqueueSound, ForgetSound, NoContextSound DEF Send, RecoveryInv
<1>2. CASE Persist(r)
  <2>1. executor' \in [RunIds -> Places]
    BY <1>2, ExecutorSound DEF Persist, Places
  <2> QED
    BY <1>2, <2>1, OverSound DEF Persist, RecoveryInv
<1>3. CASE EndRun(r)
  <2>1. executor' \in [RunIds -> Places]
    BY <1>3, ExecutorSound DEF EndRun, Places
  <2> QED
    BY <1>3, <2>1, ReleaseSound DEF EndRun, RecoveryInv
<1> QED
  BY <1>1, <1>2, <1>3

LEMMA SpeakSound ==
  ASSUME RecoveryInv, NEW r \in RunIds, NEW what \in {"partial", "full"}, Speak(r, what)
  PROVE  RecoveryInv'
<1>1. said' \in [RunIds -> Said]
  BY ListenSound DEF Speak
<1>2. stage' \in Nat \ {0} /\ mail' \subseteq Nat \ {0} /\ excused' \in BOOLEAN
  BY AdvanceSound DEF Speak, RecoveryInv
<1> QED
  BY <1>1, <1>2 DEF Speak, RecoveryInv

\* The watchdog counts in the context of the row.
LEMMA LookSound ==
  ASSUME RecoveryInv, NEW r \in RunIds, Look(r)
  PROVE  RecoveryInv'
<1>1. row[r] \in Sound /\ r \in 0..MaxRuns
  BY RecoveryBoundAssumption DEF RecoveryInv, RunIds
<1>2. ASSUME NEW c \in Sound, WillWake(r, c)
      PROVE  keeper' \in [Keepers -> Keeping]
  <2>1. [pc |-> "wake", run |-> r, context |-> c] \in Keeping
    BY <1>1 DEF Keeping
  <2> QED
    BY <1>2, <2>1 DEF WillWake, Keepers, RecoveryInv
<1>3. CASE Stalls(r) /\ WillWake(r, Retry(row[r]))
  <2>1. Retry(row[r]) \in Sound
    BY <1>1, <1>3, MayRetryWithin, RetrySound DEF Stalls
  <2> QED
    BY <1>2, <1>3, <2>1 DEF Look, RecoveryInv
<1>4. CASE IsDegraded(r) /\ WillWake(r, DegradedRetry(row[r]))
  <2>1. DegradedRetry(row[r]) \in Sound
    BY <1>1, <1>4, DegradedRetrySound DEF IsDegraded
  <2> QED
    BY <1>2, <1>4, <2>1 DEF Look, RecoveryInv
<1> QED
  BY <1>3, <1>4 DEF Look

LEMMA AssistSound ==
  ASSUME RecoveryInv, NEW r \in RunIds,
         Assist(r) \/ CancelSuperseded(r) \/ CancelFollowup(r)
  PROVE  RecoveryInv'
<1>1. r \in 0..MaxRuns
  BY RecoveryBoundAssumption DEF RunIds
<1>2. CASE Assist(r)
  <2>1. keeper' \in [Keepers -> Keeping]
    BY <1>1, <1>2, KeepSound DEF Assist, Keepers
  <2> QED
    BY <1>2, <2>1, ListenSound, AdvanceSound DEF Assist, RecoveryInv
<1>3. CASE CancelSuperseded(r)
  <2>1. keeper' \in [Keepers -> Keeping]
    BY <1>1, <1>3, KeepSound DEF CancelSuperseded, Keepers
  <2> QED
    BY <1>3, <2>1 DEF CancelSuperseded, RecoveryInv
<1>4. CASE CancelFollowup(r)
  <2>1. keeper' \in [Keepers -> Keeping]
    BY <1>1, <1>4, KeepSound DEF CancelFollowup, Keepers
  <2> QED
    BY <1>4, <2>1 DEF CancelFollowup, RecoveryInv
<1> QED
  BY <1>2, <1>3, <1>4

LEMMA CancelParkedSound ==
  ASSUME RecoveryInv, ChooseParked \/ CancelParked
  PROVE  RecoveryInv'
<1>1. CASE ChooseParked
  BY <1>1 DEF ChooseParked, RecoveryInv
<1>2. CASE CancelParked
  <2>1. parked' \in Sound /\ chosen' \in BOOLEAN /\ excused' \in BOOLEAN
    BY <1>2, NoContextSound DEF CancelParked, ExcusedIf
  <2> QED
    BY <1>2, <2>1 DEF CancelParked, RecoveryInv
<1> QED
  BY <1>1, <1>2

LEMMA StopsSound ==
  ASSUME RecoveryInv, NEW k \in Keepers, Stops(k)
  PROVE  RecoveryInv'
<1> DEFINE r == keeper[k].run
<1>1. keeper[k].context \in Sound /\ r \in 0..MaxRuns
  BY DEF RecoveryInv, Keeping
<1>2. CASE Wake(k)
  <2>1. keeper' \in [Keepers -> Keeping]
    BY <1>1, <1>2, KeepSound DEF Wake
  <2> QED
    BY <1>1, <1>2, <2>1, EnqueueSound DEF Wake, RecoveryInv
<1>3. CASE CancelRun(k)
  <2> excused' \in BOOLEAN
    BY <1>3 DEF CancelRun, ExcusedIf
  <2>1. CASE status[r] \in Active
    <3>1. keeper' \in [Keepers -> Keeping]
      BY <1>1, <1>3, <2>1, KeepSound DEF CancelRun
    <3>2. /\ status' \in [RunIds -> Active \cup {"over"}]
          /\ row' \in [RunIds -> Sound]
      BY <1>3, <2>1, NoContextSound DEF CancelRun, Over, RecoveryInv
    <3> QED
      BY <1>3, <3>1, <3>2 DEF CancelRun, RecoveryInv
  <2>2. CASE status[r] \notin Active
    BY <1>3, <2>2, IdleSound DEF CancelRun, RecoveryInv
  <2> QED
    BY <2>1, <2>2
<1>4. CASE FinishCancel(k)
  <2>1. keeper' \in [Keepers -> Keeping]
    BY <1>4, IdleSound DEF FinishCancel, RecoveryInv
  <2> QED
    BY <1>4, <2>1, ReleaseSound DEF FinishCancel, RecoveryInv
<1> QED
  BY <1>2, <1>3, <1>4 DEF Stops

-----------------------------------------------------------------------------

LEMMA RecoveryInvInit == RecoveryInit => RecoveryInv
<1> SUFFICES ASSUME RecoveryInit PROVE RecoveryInv
  OBVIOUS
<1>1. NoContext \in Sound /\ NotKeeping \in Keeping
  BY NoContextSound, IdleSound
<1>2. plan \in Plans /\ stage \in Nat \ {0} /\ mail \subseteq Nat \ {0}
  BY DEF RecoveryInit
<1>3. lock \in 0..MaxRuns /\ status \in [RunIds -> Active \cup {"over"}]
  BY RecoveryBoundAssumption DEF RecoveryInit, NoRun
<1>4. row \in [RunIds -> Sound] /\ mem \in [RunIds -> Sound] /\ parked \in Sound
  BY <1>1 DEF RecoveryInit
<1>5. executor \in [RunIds -> Places]
  BY DEF RecoveryInit, Places
<1>6. said \in [RunIds -> Said]
  BY DEF RecoveryInit, Said
<1>7. keeper \in [Keepers -> Keeping]
  BY <1>1 DEF RecoveryInit
<1>8. reminders \in Nat /\ chosen \in BOOLEAN /\ excused \in BOOLEAN
  BY DEF RecoveryInit
<1> QED
  BY <1>2, <1>3, <1>4, <1>5, <1>6, <1>7, <1>8 DEF RecoveryInv

LEMMA RecoveryInvStep == RecoveryInv /\ [RecoveryNext]_vars => RecoveryInv'
<1> SUFFICES ASSUME RecoveryInv, [RecoveryNext]_vars PROVE RecoveryInv'
  OBVIOUS
<1>1. CASE UNCHANGED vars
  BY <1>1 DEF vars, RecoveryInv
<1>2. ASSUME NEW l \in mail, Deliver(l) PROVE RecoveryInv'
  BY <1>2, DeliverSound
<1>3. CASE Remind
  BY <1>3, RemindSound
<1>4. ASSUME NEW r \in RunIds, Executes(r) PROVE RecoveryInv'
  BY <1>4, BeginSound, SupersededSound, AdapterReturnsSound, FinishSound
  DEF Executes, Returns
<1>5. ASSUME NEW r \in RunIds, NEW what \in {"partial", "full"}, Speak(r, what)
      PROVE  RecoveryInv'
  BY <1>5, SpeakSound
<1>6. ASSUME NEW r \in RunIds,
             Look(r) \/ Assist(r) \/ CancelSuperseded(r) \/ CancelFollowup(r)
      PROVE  RecoveryInv'
  BY <1>6, LookSound, AssistSound
<1>7. ASSUME NEW k \in Keepers, Stops(k) PROVE RecoveryInv'
  BY <1>7, StopsSound
<1>8. CASE ChooseParked \/ CancelParked
  BY <1>8, CancelParkedSound
<1> QED
  BY <1>1, <1>2, <1>3, <1>4, <1>5, <1>6, <1>7, <1>8 DEF RecoveryNext

LEMMA RecoveryInvHolds == RecoverySpec => []RecoveryInv
  BY RecoveryInvInit, RecoveryInvStep, PTL DEF RecoverySpec

\* Every context is within the budgets of the code.
THEOREM RecoveryTypesCorrect == RecoverySpec => []RecoveryTypeOK
<1>1. RecoveryInv => RecoveryTypeOK
  <2> SUFFICES ASSUME RecoveryInv PROVE RecoveryTypeOK
    OBVIOUS
  <2>1. Sound \subseteq Context
    BY DEF Sound
  <2>2. keeper \in [Keepers -> [pc : {"idle", "wake", "cancel", "release"},
                              run : 0..MaxRuns, context : Context]]
    BY <2>1 DEF RecoveryInv, Keeping
  <2> QED
    BY <2>1, <2>2 DEF RecoveryInv, RecoveryTypeOK, Places, Said
<1> QED
  BY <1>1, RecoveryInvHolds, PTL

\* A chain of automatic follow-ups is no longer than the budgets together.
THEOREM ChainsAreBounded == RecoverySpec => []ChainIsBounded
<1>1. RecoveryInv => ChainIsBounded
  <2> SUFFICES ASSUME RecoveryInv PROVE ChainIsBounded
    OBVIOUS
  <2>1. ASSUME NEW c \in Sound PROVE c.hops <= ChainLimit
    BY LimitAssumption DEF Sound, Context, ChainLimit, DegradedLimit
  <2>2. \A k \in Keepers : keeper[k].context \in Sound
    BY DEF RecoveryInv, Keeping
  <2> QED
    BY <2>1, <2>2 DEF RecoveryInv, ChainIsBounded
<1> QED
  BY <1>1, RecoveryInvHolds, PTL
-----------------------------------------------------------------------------
(* No lane is dropped.                                                     *)
(*                                                                         *)
(* Each step hands the stage on: from the mail to a row, from a row to the *)
(* memory of its executor, from there to a row or to the parked wakeup,    *)
(* and from that to a row.  An executor that sends nothing for the stage   *)
(* gives it up: it has been answered in part at most, and where that       *)
(* satisfies the executor the follow-ups on it are used up.  The one step  *)
(* that takes a run from under its lane is a cancellation.  The lease      *)
(* heartbeat cancels runs of lanes the workflow has passed; a route that   *)
(* cancels a run of the stage loses it, and says so.  The watchdog may     *)
(* cancel a run of the stage, but has woken the agent for it before: from  *)
(* then on the stage is attended besides that run, and it stays so because *)
(* no row a keeper is at work on is used again.                            *)

AttendedBesides(q) ==
    \/ stage \in mail
    \/ parked # NoContext /\ parked.lane = stage
    \/ \E r \in RunIds \ {q} : Attends(r)

\* No lane is ahead of the workflow, and a wakeup for an implementation asks
\* for a run of its own.
Fits(c) == c.lane \in 0..stage /\ (Kind(c.lane) = "implementation" => c.forced)

ContextsFit ==
    /\ mail \subseteq 0..stage /\ Fits(parked)
    /\ \A r \in RunIds : Fits(row[r]) /\ Fits(mem[r])
    /\ \A k \in Keepers : Fits(keeper[k].context)

\* While the workflow is in the lane of a run it has been answered in part at
\* most, and that only where there is such an answer.
SaidFits ==
    \A r \in RunIds :
        IF Hears(r)
        THEN mem[r].lane = stage =>
                /\ said[r] \subseteq {"partial"}
                /\ "partial" \in said[r] => HasPartial(Kind(stage))
        ELSE said[r] = {}

\* An executor releases when its run is over.
ReleasingIsOver == \A r \in RunIds : executor[r] = "releasing" => status[r] = "over"

\* The watchdog and the lease heartbeat are at work on a run that has been begun,
\* and whose row stays its own; a route may have selected a queued one.
Recoverers == {"watchdog", "lease"}
Begun(r) == r \in RunIds /\ (status[r] = "over" \/ executor[r] # "none")
KeptRuns == \A k \in Recoverers : keeper[k].pc # "idle" => Begun(keeper[k].run)

\* The workflow has passed the lane of the run, or the run is over.
Passed(r) == status[r] = "over" \/ mem[r].lane < stage

LeaseCancelsPassed ==
    \A q \in RunIds : keeper["lease"].run = q =>
        /\ keeper["lease"].pc # "wake"
        /\ keeper["lease"].pc = "cancel" => Passed(q)

WatchdogWakesFirst ==
    \A q \in RunIds : keeper["watchdog"].run = q =>
        /\ keeper["watchdog"].pc = "wake" =>
              status[q] = "over" \/ mem[q].lane <= keeper["watchdog"].context.lane
        /\ keeper["watchdog"].pc = "cancel" /\ stage <= Len(plan) /\ ~excused =>
              Passed(q) \/ AttendedBesides(q)

StageInv ==
    /\ ContextsFit /\ SaidFits /\ ReleasingIsOver /\ KeptRuns
    /\ LeaseCancelsPassed /\ WatchdogWakesFirst /\ StageIsAttended

LEMMA LaneIsNat ==
  ASSUME NEW c \in Sound
  PROVE  c.lane \in Nat
  BY DEF Sound, Context

\* What the operators on contexts do to the lane.
LEMMA LaneOfMessage ==
  ASSUME NEW l \in Nat
  PROVE  Message(l).lane = l
  BY DEF Message, NoContext

LEMMA LaneOfNoContext == NoContext.lane = 0
  BY DEF NoContext

LEMMA LaneOfAgain ==
  ASSUME NEW c \in Sound
  PROVE  /\ Retry(c).lane = c.lane
         /\ DegradedRetry(c).lane = c.lane
         /\ Followup(c).lane = c.lane
         /\ AdapterRetry(c).lane = c.lane
<1>1. ASSUME NEW why PROVE Again(c, why).lane = c.lane
  BY DEF Again, Sound, Context
<1>2. Retry(c).lane = c.lane
  BY <1>1 DEF Retry, Again, Sound, Context
<1>3. DegradedRetry(c).lane = c.lane
  BY <1>2 DEF DegradedRetry, Retry, Again, Sound, Context
<1>4. Followup(c).lane = c.lane
  BY <1>1 DEF Followup, Again, Sound, Context
<1>5. AdapterRetry(c).lane = c.lane
  BY <1>1 DEF AdapterRetry, Again, Sound, Context
<1> QED
  BY <1>2, <1>3, <1>4, <1>5

LEMMA LaneOfMerge ==
  ASSUME NEW old \in Sound, NEW new \in Sound
  PROVE  Merge(old, new).lane = new.lane
  BY DEF Merge, Sound, Context

\* The stage is a lane with a message while the plan lasts.
LEMMA StageHasKind ==
  ASSUME RecoveryInv, stage <= Len(plan)
  PROVE  Kind(stage) # "none"
<1>1. plan \in Seq(LaneKinds) /\ stage \in 1..Len(plan)
  BY PlansAssumption DEF RecoveryInv
<1>2. plan[stage] \in LaneKinds /\ stage \in DOMAIN plan
  BY <1>1
<1> QED
  BY <1>2 DEF Kind, LaneKinds

-----------------------------------------------------------------------------
(* The three outcomes of a wakeup, and the two of a release.               *)

Starts(c, i) ==
    /\ i \in RunIds /\ status[i] = "over" /\ executor[i] = "none" /\ lock # i
    /\ \A k \in Keepers : keeper[k].run # i
    /\ status' = [status EXCEPT ![i] = "queued"]
    /\ row' = [row EXCEPT ![i] = c]

LEMMA CreateStarts ==
  ASSUME NEW c, Create(c)
  PROVE  \E i \in RunIds : Starts(c, i)
<1> DEFINE i == CHOOSE j \in FreeRuns : TRUE
<1>1. i \in FreeRuns
  BY DEF Create
<1>2. status' = [status EXCEPT ![i] = "queued"] /\ row' = [row EXCEPT ![i] = c]
  BY DEF Create
<1> HIDE DEF i
<1> QED
  BY <1>1, <1>2 DEF Starts, FreeRuns

LEMMA EnqueueOutcomes ==
  ASSUME RecoveryInv, NEW c \in Sound, Enqueue(c)
  PROVE  \/ /\ \E i \in RunIds : Starts(c, i)
            /\ parked' = parked /\ excused' = excused
         \/ /\ parked'.lane = c.lane /\ parked' \in {c, Merge(parked, c)}
            /\ excused' = (excused \/ (parked # NoContext /\ InLane(parked) /\ c.lane # stage))
            /\ status' = status /\ row' = row
         \/ /\ lock \in RunIds /\ status[lock] \in Active
            /\ row'[lock].lane = c.lane /\ row'[lock] = Merge(row[lock], c)
            /\ \A r \in RunIds : r # lock => row'[r] = row[r]
            /\ status' = status /\ parked' = parked
            /\ IF executor[lock] = "none"
               THEN excused' = (excused \/ (InLane(row[lock]) /\ c.lane # stage))
               ELSE excused' = (excused \/ InLane(c))
<1>1. CASE ~Held /\ Create(c) /\ UNCHANGED <<parked, chosen, excused>>
  BY <1>1, CreateStarts
<1>2. CASE Held /\ c.forced /\ Park(c)
  <2>1. parked'.lane = c.lane
    BY <1>2, LaneOfMerge DEF Park, RecoveryInv
  <2> QED
    BY <1>2, <2>1 DEF Park, ExcusedIf
<1>3. CASE Held /\ ~c.forced /\ Coalesce(c)
  <2>1. lock \in RunIds /\ status[lock] \in Active
    BY <1>3, RecoveryBoundAssumption DEF Held, NoRun, RunIds, RecoveryInv
  <2>2. row' = [row EXCEPT ![lock] = Merge(row[lock], c)]
    BY <1>3 DEF Coalesce
  <2>3. Merge(row[lock], c).lane = c.lane
    BY <2>1, LaneOfMerge DEF RecoveryInv
  <2>4. row'[lock].lane = c.lane /\ row'[lock] = Merge(row[lock], c)
    BY <2>1, <2>2, <2>3 DEF RecoveryInv
  <2>5. \A r \in RunIds : r # lock => row'[r] = row[r]
    BY <2>1, <2>2 DEF RecoveryInv
  <2> QED
    BY <1>3, <2>1, <2>4, <2>5 DEF Coalesce, ExcusedIf
<1> QED
  BY <1>1, <1>2, <1>3 DEF Enqueue

LEMMA ReleaseOutcomes ==
  ASSUME NEW r, Release(r)
  PROVE  \/ \E i \in RunIds : Starts(parked, i) /\ parked' = NoContext
         \/ status' = status /\ row' = row /\ parked' = parked
  BY CreateStarts DEF Release

-----------------------------------------------------------------------------
(* Contexts.                                                               *)

LEMMA FitsLane ==
  ASSUME NEW c, Fits(c)
  PROVE  c.lane \in 0..stage
  BY DEF Fits

LEMMA FitsNoContext ==
  ASSUME RecoveryInv
  PROVE  Fits(NoContext)
  BY DEF RecoveryInv, Fits, NoContext

LEMMA FitsMessage ==
  ASSUME RecoveryInv, NEW l \in 0..stage
  PROVE  Fits(Message(l))
  BY DEF RecoveryInv, Fits, Message, NoContext

LEMMA FitsAgain ==
  ASSUME NEW c \in Sound, Fits(c)
  PROVE  /\ Fits(Retry(c)) /\ Fits(DegradedRetry(c))
         /\ Fits(Followup(c)) /\ Fits(AdapterRetry(c))
<1>1. ASSUME NEW why PROVE Again(c, why).forced
  BY DEF Again, Sound, Context
<1>2. Retry(c).forced
  BY DEF Retry, Again, Sound, Context
<1>3. DegradedRetry(c).forced
  BY DEF DegradedRetry, Retry, Again, Sound, Context
<1>4. Followup(c).forced
  BY DEF Followup, Again, Sound, Context
<1>5. AdapterRetry(c).forced
  BY DEF AdapterRetry, Again, Sound, Context
<1> QED
  BY <1>2, <1>3, <1>4, <1>5, LaneOfAgain DEF Fits

LEMMA FitsMerge ==
  ASSUME NEW old \in Sound, NEW new \in Sound, Fits(new)
  PROVE  Fits(Merge(old, new))
<1>1. new.forced => Merge(old, new).forced
  BY DEF Merge, Sound, Context
<1> QED
  BY <1>1, LaneOfMerge DEF Fits

LEMMA ContextsStayFit ==
  ASSUME RecoveryInv, plan' = plan, stage' = stage \/ stage' = stage + 1,
         mail' \subseteq 0..stage', Fits(parked'),
         \A r \in RunIds : Fits(row'[r]) /\ Fits(mem'[r]),
         \A k \in Keepers : Fits(keeper'[k].context)
  PROVE  ContextsFit'
<1>1. 0..stage \subseteq 0..stage'
  BY DEF RecoveryInv
<1> QED
  BY <1>1 DEF ContextsFit, Fits, Kind

LEMMA EnqueueFits ==
  ASSUME RecoveryInv, ContextsFit, NEW c \in Sound, Fits(c), Enqueue(c)
  PROVE  Fits(parked') /\ \A r \in RunIds : Fits(row'[r])
<1>1. CASE /\ \E i \in RunIds : Starts(c, i)
           /\ parked' = parked
  BY <1>1 DEF Starts, RecoveryInv, ContextsFit
<1>2. CASE parked' \in {c, Merge(parked, c)} /\ row' = row
  BY <1>2, FitsMerge DEF ContextsFit, RecoveryInv
<1>3. CASE /\ lock \in RunIds /\ row'[lock] = Merge(row[lock], c)
           /\ \A r \in RunIds : r # lock => row'[r] = row[r]
           /\ parked' = parked
  <2>1. Fits(row'[lock])
    BY <1>3, FitsMerge DEF RecoveryInv
  <2> QED
    BY <1>3, <2>1 DEF ContextsFit
<1> QED
  BY <1>1, <1>2, <1>3, EnqueueOutcomes

LEMMA ReleaseFits ==
  ASSUME RecoveryInv, ContextsFit, NEW r, Release(r)
  PROVE  Fits(parked') /\ \A s \in RunIds : Fits(row'[s])
<1>1. CASE \E i \in RunIds : Starts(parked, i) /\ parked' = NoContext
  BY <1>1, FitsNoContext DEF Starts, RecoveryInv, ContextsFit
<1>2. CASE row' = row /\ parked' = parked
  BY <1>2 DEF ContextsFit
<1> QED
  BY <1>1, <1>2, ReleaseOutcomes

LEMMA OverFits ==
  ASSUME RecoveryInv, ContextsFit, NEW r \in RunIds, Over(r)
  PROVE  \A s \in RunIds : Fits(row'[s])
  BY FitsNoContext DEF Over, ContextsFit, RecoveryInv

LEMMA ForgetFits ==
  ASSUME RecoveryInv, ContextsFit, NEW r \in RunIds, NEW c, Fits(c), Forget(r, c)
  PROVE  \A s \in RunIds : Fits(mem'[s])
  BY DEF Forget, ContextsFit, RecoveryInv

LEMMA KeeperFits ==
  ASSUME RecoveryInv, ContextsFit, NEW k \in Keepers, NEW v, Fits(v.context),
         keeper' = [keeper EXCEPT ![k] = v]
  PROVE  \A j \in Keepers : Fits(keeper'[j].context)
  BY DEF ContextsFit, RecoveryInv

LEMMA KeepFits ==
  ASSUME RecoveryInv, ContextsFit, NEW k \in Keepers, NEW pc, NEW r, Keep(k, pc, r)
  PROVE  \A j \in Keepers : Fits(keeper'[j].context)
<1> DEFINE v == [NotKeeping EXCEPT !.pc = pc, !.run = r]
<1>1. v.context = NoContext
  BY DEF NotKeeping
<1>2. keeper' = [keeper EXCEPT ![k] = v]
  BY DEF Keep
<1> HIDE DEF v
<1> QED
  BY <1>1, <1>2, FitsNoContext, KeeperFits

LEMMA IdleFits ==
  ASSUME RecoveryInv, ContextsFit, NEW k \in Keepers,
         keeper' = [keeper EXCEPT ![k] = NotKeeping]
  PROVE  \A j \in Keepers : Fits(keeper'[j].context)
<1>1. NotKeeping.context = NoContext
  BY DEF NotKeeping
<1> QED
  BY <1>1, FitsNoContext, KeeperFits

LEMMA AdvanceFits ==
  ASSUME RecoveryInv, ContextsFit, Advance,
         UNCHANGED <<plan, parked, row, mem>>,
         \A k \in Keepers : Fits(keeper'[k].context)
  PROVE  ContextsFit'
<1>1. stage \in Nat /\ stage' = stage + 1 /\ mail' \subseteq mail \cup {stage'}
  BY DEF Advance, RecoveryInv
<1>2. mail' \subseteq 0..stage'
  BY <1>1 DEF ContextsFit
<1>3. /\ Fits(parked')
      /\ \A r \in RunIds : Fits(row'[r]) /\ Fits(mem'[r])
  BY DEF ContextsFit
<1> QED
  BY <1>1, <1>2, <1>3, ContextsStayFit

LEMMA WakeupFits ==
  ASSUME RecoveryInv, ContextsFit, (\E l \in mail : Deliver(l)) \/ Remind
  PROVE  ContextsFit'
<1>1. CASE Remind
  <2>1. Message(0) \in Sound /\ Fits(Message(0))
    BY MessageSound, FitsMessage DEF RecoveryInv
  <2> QED
    BY <1>1, <2>1, EnqueueFits, ContextsStayFit DEF Remind, ContextsFit
<1>2. ASSUME NEW l \in mail, Deliver(l) PROVE ContextsFit'
  <2>1. Message(l) \in Sound /\ Fits(Message(l))
    BY MessageSound, FitsMessage DEF RecoveryInv, ContextsFit
  <2> QED
    BY <1>2, <2>1, EnqueueFits, ContextsStayFit DEF Deliver, ContextsFit
<1> QED
  BY <1>1, <1>2

LEMMA ExecutorFits ==
  ASSUME RecoveryInv, ContextsFit, NEW r \in RunIds, Executes(r)
  PROVE  ContextsFit'
<1>1. mem[r] \in Sound /\ Fits(mem[r]) /\ Fits(NoContext)
  BY FitsNoContext DEF ContextsFit, RecoveryInv
<1>2. SUFFICES /\ Fits(parked')
               /\ \A s \in RunIds : Fits(row'[s])
               /\ \A s \in RunIds : Fits(mem'[s])
  <2>1. UNCHANGED <<plan, stage, mail, keeper>>
    BY DEF Executes, Begin, Enter, Superseded, Returns, AdapterReturns, Send, Persist, EndRun
  <2> QED
    BY <1>2, <2>1, ContextsStayFit DEF ContextsFit
<1>3. CASE Begin(r)
  BY <1>3 DEF Begin, ContextsFit, RecoveryInv
<1>4. CASE Enter(r)
  BY <1>4 DEF Enter, ContextsFit, RecoveryInv
<1>5. CASE Superseded(r)
  BY <1>1, <1>5, OverFits, ForgetFits DEF Superseded, ContextsFit
<1>6. CASE Returns(r)
  <2>1. PICK result \in Results : AdapterReturns(r, result)
    BY <1>6 DEF Returns
  <2>2. \E c : Fits(c) /\ Forget(r, c)
    BY <1>1, <2>1, FitsAgain DEF AdapterReturns
  <2>3. \A s \in RunIds : Fits(mem'[s])
    BY <2>2, ForgetFits
  <2> QED
    BY <2>1, <2>3 DEF AdapterReturns, ContextsFit
<1>7. CASE Send(r)
  BY <1>1, <1>7, EnqueueFits, ForgetFits DEF Send
<1>8. CASE Persist(r)
  BY <1>8, OverFits DEF Persist, ContextsFit
<1>9. CASE EndRun(r)
  BY <1>9, ReleaseFits DEF EndRun, ContextsFit
<1> QED
  BY <1>3, <1>4, <1>5, <1>6, <1>7, <1>8, <1>9 DEF Executes

LEMMA WatchFits ==
  ASSUME RecoveryInv, ContextsFit, NEW r \in RunIds,
         (\E what \in {"partial", "full"} : Speak(r, what))
            \/ Look(r) \/ Assist(r) \/ CancelSuperseded(r) \/ CancelFollowup(r)
  PROVE  ContextsFit'
<1>1. row[r] \in Sound /\ Fits(row[r])
  BY DEF RecoveryInv, ContextsFit
<1>2. ASSUME NEW what \in {"partial", "full"}, Speak(r, what) PROVE ContextsFit'
  <2>1. CASE Advance
    BY <1>2, <2>1, AdvanceFits DEF Speak, ContextsFit
  <2>2. CASE UNCHANGED <<stage, mail>>
    BY <1>2, <2>2, ContextsStayFit DEF Speak, ContextsFit
  <2> QED
    BY <1>2, <2>1, <2>2 DEF Speak
<1>3. CASE Look(r)
  <2>1. ASSUME NEW c, Fits(c), WillWake(r, c)
        PROVE  \A k \in Keepers : Fits(keeper'[k].context)
    <3> DEFINE v == [pc |-> "wake", run |-> r, context |-> c]
    <3>1. Fits(v.context) /\ keeper' = [keeper EXCEPT !["watchdog"] = v]
      BY <2>1 DEF WillWake
    <3> HIDE DEF v
    <3> QED
      BY <3>1, KeeperFits DEF Keepers
  <2>2. \A k \in Keepers : Fits(keeper'[k].context)
    BY <1>1, <1>3, <2>1, FitsAgain DEF Look
  <2> QED
    BY <1>3, <2>2, ContextsStayFit DEF Look, ContextsFit
<1>4. CASE Assist(r)
  <2>1. \A k \in Keepers : Fits(keeper'[k].context)
    BY <1>4, KeepFits DEF Assist, Keepers
  <2> QED
    BY <1>4, <2>1, AdvanceFits DEF Assist
<1>5. CASE CancelSuperseded(r) \/ CancelFollowup(r)
  <2>1. \A k \in Keepers : Fits(keeper'[k].context)
    BY <1>5, KeepFits DEF CancelSuperseded, CancelFollowup, Keepers
  <2> QED
    BY <1>5, <2>1, ContextsStayFit DEF CancelSuperseded, CancelFollowup, ContextsFit
<1> QED
  BY <1>2, <1>3, <1>4, <1>5

LEMMA CancelParkedFits ==
  ASSUME RecoveryInv, ContextsFit, ChooseParked \/ CancelParked
  PROVE  ContextsFit'
  BY FitsNoContext, ContextsStayFit DEF ChooseParked, CancelParked, ContextsFit

LEMMA KeeperStepFits ==
  ASSUME RecoveryInv, ContextsFit, NEW k \in Keepers, Stops(k)
  PROVE  ContextsFit'
<1>1. keeper[k].context \in Sound /\ Fits(keeper[k].context)
  BY DEF RecoveryInv, Keeping, ContextsFit
<1>2. CASE Wake(k)
  <2>1. \A j \in Keepers : Fits(keeper'[j].context)
    BY <1>2, KeepFits DEF Wake
  <2> QED
    BY <1>1, <1>2, <2>1, EnqueueFits, ContextsStayFit DEF Wake, ContextsFit
<1>3. CASE CancelRun(k)
  <2>1. \A j \in Keepers : Fits(keeper'[j].context)
    BY <1>3, KeepFits, IdleFits DEF CancelRun
  <2>2. \A s \in RunIds : Fits(row'[s])
    BY <1>3, FitsNoContext DEF CancelRun, Over, ContextsFit, RecoveryInv
  <2> QED
    BY <1>3, <2>1, <2>2, ContextsStayFit DEF CancelRun, ContextsFit
<1>4. CASE FinishCancel(k)
  <2>1. \A j \in Keepers : Fits(keeper'[j].context)
    BY <1>4, IdleFits DEF FinishCancel
  <2> QED
    BY <1>4, <2>1, ReleaseFits, ContextsStayFit DEF FinishCancel, ContextsFit
<1> QED
  BY <1>2, <1>3, <1>4 DEF Stops

LEMMA ContextsFitStep ==
  ASSUME RecoveryInv, ContextsFit, RecoveryNext
  PROVE  ContextsFit'
  BY WakeupFits, ExecutorFits, WatchFits, KeeperStepFits, CancelParkedFits DEF RecoveryNext

-----------------------------------------------------------------------------
(* A run a keeper is at work on: its executor never begins again, its row  *)
(* is not used again, and the lane it remembers never grows.               *)

MemoryFades(q) ==
    /\ status'[q] = "over" \/ executor'[q] # "none"
    /\ status[q] = "over" => status'[q] = "over"
    /\ status'[q] = "over" \/ mem'[q].lane = mem[q].lane \/ mem'[q].lane = 0

LEMMA EnqueueKeeps ==
  ASSUME RecoveryInv, NEW c \in Sound, Enqueue(c), NEW k \in Keepers,
         keeper[k].run \in RunIds
  PROVE  status'[keeper[k].run] = status[keeper[k].run]
<1>1. CASE \E i \in RunIds : Starts(c, i)
  BY <1>1 DEF Starts, RecoveryInv
<1>2. CASE status' = status
  BY <1>2
<1> QED
  BY <1>1, <1>2, EnqueueOutcomes

LEMMA ReleaseKeeps ==
  ASSUME RecoveryInv, NEW r, Release(r), NEW k \in Keepers, keeper[k].run \in RunIds
  PROVE  status'[keeper[k].run] = status[keeper[k].run]
<1>1. CASE \E i \in RunIds : Starts(parked, i)
  BY <1>1 DEF Starts, RecoveryInv
<1>2. CASE status' = status
  BY <1>2
<1> QED
  BY <1>1, <1>2, ReleaseOutcomes

LEMMA ExecutorFades ==
  ASSUME RecoveryInv, ReleasingIsOver, NEW k \in Keepers, NEW q \in RunIds,
         keeper[k].run = q, Begun(q), NEW r \in RunIds, Executes(r)
  PROVE  MemoryFades(q)
<1> USE DEF RecoveryInv
<1>1. mem[r] \in Sound /\ NoContext.lane = 0
  BY LaneOfNoContext
<1>2. CASE Begin(r)
  <2>1. r # q \/ status[q] = "over"
    BY <1>2 DEF Begin, ExecutorAt, Begun
  <2>2. r # q
    BY <1>2, <2>1 DEF Begin
  <2> QED
    BY <1>2, <2>2 DEF Begin, ExecutorAt, Begun, MemoryFades
<1>3. CASE Enter(r)
  BY <1>3 DEF Enter, ExecutorAt, Begun, MemoryFades
<1>4. CASE Superseded(r)
  BY <1>1, <1>4 DEF Superseded, ExecutorAt, Over, Forget, Begun, MemoryFades
<1>5. CASE Returns(r)
  <2>1. PICK result \in Results : AdapterReturns(r, result)
    BY <1>5 DEF Returns
  <2>2. \E c : (c.lane = mem[r].lane \/ c.lane = 0) /\ Forget(r, c)
    BY <1>1, <2>1, LaneOfAgain DEF AdapterReturns
  <2>3. \E there \in Places \ {"none"} : ExecutorAt(r, "adapter", there)
    BY <2>1 DEF AdapterReturns, Places
  <2>4. status' = status
    BY <2>1 DEF AdapterReturns
  <2>5. executor'[q] # "none" \/ status'[q] = "over"
    BY <2>3, <2>4 DEF ExecutorAt, Begun
  <2>6. mem'[q].lane = mem[q].lane \/ mem'[q].lane = 0
    BY <2>2 DEF Forget
  <2> QED
    BY <2>4, <2>5, <2>6 DEF MemoryFades
<1>6. CASE Send(r)
  <2>1. status'[q] = status[q]
    BY <1>1, <1>6, EnqueueKeeps DEF Send
  <2> QED
    BY <1>1, <1>6, <2>1 DEF Send, ExecutorAt, Forget, Begun, MemoryFades
<1>7. CASE Persist(r)
  BY <1>7 DEF Persist, ExecutorAt, Over, Begun, MemoryFades
<1>8. CASE EndRun(r)
  <2>1. status'[q] = status[q]
    BY <1>8, ReleaseKeeps DEF EndRun
  <2>2. status[r] = "over"
    BY <1>8 DEF EndRun, ExecutorAt, ReleasingIsOver
  <2> QED
    BY <1>8, <2>1, <2>2 DEF EndRun, ExecutorAt, Begun, MemoryFades
<1> QED
  BY <1>2, <1>3, <1>4, <1>5, <1>6, <1>7, <1>8 DEF Executes

LEMMA StopFades ==
  ASSUME RecoveryInv, NEW k \in Keepers, NEW q \in RunIds,
         keeper[k].run = q, Begun(q), NEW j \in Keepers, Stops(j)
  PROVE  MemoryFades(q)
<1> USE DEF RecoveryInv
<1>1. keeper[j].context \in Sound
  BY DEF Keeping
<1>2. CASE Wake(j)
  <2>1. status'[q] = status[q]
    BY <1>1, <1>2, EnqueueKeeps DEF Wake
  <2> QED
    BY <1>2, <2>1 DEF Wake, Begun, MemoryFades
<1>3. CASE CancelRun(j)
  <2>1. status'[q] = status[q] \/ status'[q] = "over"
    BY <1>3 DEF CancelRun, Over
  <2> QED
    BY <1>3, <2>1 DEF CancelRun, Begun, MemoryFades
<1>4. CASE FinishCancel(j)
  <2>1. status'[q] = status[q]
    BY <1>4, ReleaseKeeps DEF FinishCancel
  <2> QED
    BY <1>4, <2>1 DEF FinishCancel, Begun, MemoryFades
<1> QED
  BY <1>2, <1>3, <1>4 DEF Stops

LEMMA RunFades ==
  ASSUME RecoveryInv, ReleasingIsOver, NEW k \in Keepers, NEW q \in RunIds,
         keeper[k].run = q, Begun(q), RecoveryNext
  PROVE  MemoryFades(q)
<1>1. ASSUME NEW l \in mail, Deliver(l) PROVE MemoryFades(q)
  <2>1. Message(l) \in Sound
    BY MessageSound DEF RecoveryInv
  <2> QED
    BY <1>1, <2>1, EnqueueKeeps DEF Deliver, Begun, MemoryFades
<1>2. CASE Remind
  <2>1. Message(0) \in Sound
    BY MessageSound
  <2> QED
    BY <1>2, <2>1, EnqueueKeeps DEF Remind, Begun, MemoryFades
<1>3. ASSUME NEW r \in RunIds, Executes(r) PROVE MemoryFades(q)
  BY <1>3, ExecutorFades
<1>4. ASSUME NEW r \in RunIds, NEW what \in {"partial", "full"}, Speak(r, what)
      PROVE  MemoryFades(q)
  BY <1>4 DEF Speak, Begun, MemoryFades
<1>5. ASSUME NEW r \in RunIds,
             Look(r) \/ Assist(r) \/ CancelSuperseded(r) \/ CancelFollowup(r)
      PROVE  MemoryFades(q)
  BY <1>5 DEF Look, Assist, CancelSuperseded, CancelFollowup, Begun, MemoryFades
<1>6. ASSUME NEW j \in Keepers, Stops(j) PROVE MemoryFades(q)
  BY <1>6, StopFades
<1>7. CASE ChooseParked \/ CancelParked
  BY <1>7 DEF ChooseParked, CancelParked, Begun, MemoryFades
<1> QED
  BY <1>1, <1>2, <1>3, <1>4, <1>5, <1>6, <1>7 DEF RecoveryNext

\* An executor comes to release only as its run ends, and no run that is over
\* becomes active under its executor.
LEMMA ReleasingStep ==
  ASSUME RecoveryInv, ReleasingIsOver, RecoveryNext
  PROVE  ReleasingIsOver'
<1> USE DEF RecoveryInv
<1>1. ASSUME NEW c \in Sound, Enqueue(c), NEW s \in RunIds, executor[s] # "none"
      PROVE  status'[s] = status[s]
  <2>1. CASE \E i \in RunIds : Starts(c, i)
    BY <1>1, <2>1 DEF Starts
  <2> QED
    BY <1>1, <2>1, EnqueueOutcomes
<1>2. ASSUME NEW r, Release(r), NEW s \in RunIds, executor[s] # "none"
      PROVE  status'[s] = status[s]
  <2>1. CASE \E i \in RunIds : Starts(parked, i)
    BY <1>2, <2>1 DEF Starts
  <2> QED
    BY <1>2, <2>1, ReleaseOutcomes
<1>3. ASSUME NEW l \in mail, Deliver(l) PROVE ReleasingIsOver'
  BY <1>1, <1>3, MessageSound DEF Deliver, ReleasingIsOver
<1>4. CASE Remind
  <2>1. Message(0) \in Sound
    BY MessageSound
  <2> QED
    BY <1>1, <1>4, <2>1 DEF Remind, ReleasingIsOver
<1>5. ASSUME NEW r \in RunIds, Executes(r) PROVE ReleasingIsOver'
  <2>1. CASE Begin(r) \/ Enter(r)
    BY <2>1 DEF Begin, Enter, ExecutorAt, ReleasingIsOver
  <2>2. CASE Superseded(r) \/ Persist(r)
    BY <2>2 DEF Superseded, Persist, ExecutorAt, Over, ReleasingIsOver
  <2>3. CASE Returns(r)
    <3>1. PICK result \in Results : AdapterReturns(r, result)
      BY <2>3 DEF Returns
    <3>2. ExecutorAt(r, "adapter", "sending") \/ ExecutorAt(r, "adapter", "sent")
      BY <3>1 DEF AdapterReturns
    <3> QED
      BY <3>1, <3>2 DEF AdapterReturns, ExecutorAt, ReleasingIsOver
  <2>4. CASE Send(r)
    BY <1>1, <2>4 DEF Send, ExecutorAt, ReleasingIsOver
  <2>5. CASE EndRun(r)
    BY <1>2, <2>5 DEF EndRun, ExecutorAt, ReleasingIsOver
  <2> QED
    BY <1>5, <2>1, <2>2, <2>3, <2>4, <2>5 DEF Executes
<1>6. ASSUME NEW r \in RunIds, NEW what \in {"partial", "full"}, Speak(r, what)
      PROVE  ReleasingIsOver'
  BY <1>6 DEF Speak, ReleasingIsOver
<1>7. ASSUME NEW r \in RunIds,
             Look(r) \/ Assist(r) \/ CancelSuperseded(r) \/ CancelFollowup(r)
      PROVE  ReleasingIsOver'
  BY <1>7 DEF Look, Assist, CancelSuperseded, CancelFollowup, ReleasingIsOver
<1>8. ASSUME NEW k \in Keepers, Stops(k) PROVE ReleasingIsOver'
  <2>1. keeper[k].context \in Sound
    BY DEF Keeping
  <2>2. CASE Wake(k)
    BY <1>1, <2>1, <2>2 DEF Wake, ReleasingIsOver
  <2>3. CASE CancelRun(k)
    BY <2>3 DEF CancelRun, Over, ReleasingIsOver
  <2>4. CASE FinishCancel(k)
    BY <1>2, <2>4 DEF FinishCancel, ReleasingIsOver
  <2> QED
    BY <1>8, <2>2, <2>3, <2>4 DEF Stops
<1>9. CASE ChooseParked \/ CancelParked
  BY <1>9 DEF ChooseParked, CancelParked, ReleasingIsOver
<1> QED
  BY <1>3, <1>4, <1>5, <1>6, <1>7, <1>8, <1>9 DEF RecoveryNext

-----------------------------------------------------------------------------
(* What was said in the lane of a run is said while the workflow is in it. *)

LEMMA SaidStep ==
  ASSUME RecoveryInv, ContextsFit, SaidFits, RecoveryNext
  PROVE  SaidFits'
<1> USE DEF RecoveryInv
<1>1. ASSUME UNCHANGED <<plan, stage, said, mem>>,
             \A s \in RunIds : Hears(s)' <=> Hears(s)
      PROVE  SaidFits'
  BY <1>1 DEF SaidFits, Kind
<1>2. ASSUME UNCHANGED <<plan, stage, said, mem, executor>>
      PROVE  SaidFits'
  BY <1>1, <1>2 DEF Hears
<1>3. ASSUME NEW r \in RunIds, NEW c, Forget(r, c), UNCHANGED <<plan, stage>>,
             NEW here, NEW there, ExecutorAt(r, here, there),
             there \notin {"begun", "adapter"}
      PROVE  SaidFits'
  <2>1. said'[r] = {} /\ ~Hears(r)'
    BY <1>3 DEF Forget, ExecutorAt, Hears
  <2>2. ASSUME NEW s \in RunIds, s # r
        PROVE  said'[s] = said[s] /\ mem'[s] = mem[s] /\ (Hears(s)' <=> Hears(s))
    BY <1>3, <2>2 DEF Forget, ExecutorAt, Hears
  <2> QED
    BY <1>3, <2>1, <2>2 DEF SaidFits, Kind
<1>4. ASSUME NEW what, Listen(what), Advance, UNCHANGED <<plan, mem, executor>>
      PROVE  SaidFits'
  <2> SUFFICES ASSUME NEW s \in RunIds
               PROVE  IF Hears(s)' THEN mem'[s].lane # stage' ELSE said'[s] = {}
    BY DEF SaidFits
  <2>1. mem[s].lane \in 0..stage /\ stage' = stage + 1
    BY <1>4, FitsLane DEF ContextsFit, Advance
  <2>2. Hears(s)' <=> Hears(s)
    BY <1>4 DEF Hears
  <2>3. ~Hears(s) => said'[s] = {}
    BY <1>4 DEF Listen, SaidFits
  <2> QED
    BY <1>4, <2>1, <2>2, <2>3
<1>5. ASSUME (\E l \in mail : Deliver(l)) \/ Remind PROVE SaidFits'
  BY <1>2, <1>5 DEF Deliver, Remind
<1>6. ASSUME NEW r \in RunIds, Executes(r) PROVE SaidFits'
  <2>1. CASE Begin(r)
    <3>1. said[r] = {}
      BY <2>1 DEF Begin, ExecutorAt, SaidFits, Hears
    <3>2. ASSUME NEW s \in RunIds, s # r
          PROVE  mem'[s] = mem[s] /\ (Hears(s)' <=> Hears(s))
      BY <2>1, <3>2 DEF Begin, ExecutorAt, Hears
    <3>3. UNCHANGED <<plan, stage, said>>
      BY <2>1 DEF Begin
    <3> QED
      BY <3>1, <3>2, <3>3 DEF SaidFits, Kind
  <2>2. CASE Enter(r)
    BY <1>1, <2>2 DEF Enter, ExecutorAt, Hears
  <2>3. CASE Superseded(r)
    BY <1>3, <2>3 DEF Superseded
  <2>4. CASE Returns(r)
    <3>1. PICK result \in Results : AdapterReturns(r, result)
      BY <2>4 DEF Returns
    <3>2. UNCHANGED <<plan, stage>>
      BY <3>1 DEF AdapterReturns
    <3>3. \E c : /\ Forget(r, c)
                 /\ \/ ExecutorAt(r, "adapter", "sending")
                    \/ ExecutorAt(r, "adapter", "sent")
      BY <3>1 DEF AdapterReturns
    <3> QED
      BY <1>3, <3>2, <3>3
  <2>5. CASE Send(r)
    BY <1>3, <2>5 DEF Send
  <2>6. CASE Persist(r) \/ EndRun(r)
    BY <1>1, <2>6 DEF Persist, EndRun, ExecutorAt, Hears
  <2> QED
    BY <1>6, <2>1, <2>2, <2>3, <2>4, <2>5, <2>6 DEF Executes
<1>7. ASSUME NEW r \in RunIds, NEW what \in {"partial", "full"}, Speak(r, what)
      PROVE  SaidFits'
  <2>1. CASE Advance
    BY <1>4, <1>7, <2>1 DEF Speak
  <2>2. CASE /\ what = "partial" /\ HasPartial(Kind(stage))
             /\ UNCHANGED stage
    <3>1. UNCHANGED <<plan, stage, mem, executor>>
      BY <1>7, <2>2 DEF Speak
    <3>2. ASSUME NEW s \in RunIds
          PROVE  /\ ~Hears(s) => said'[s] = said[s]
                 /\ Hears(s) /\ mem[s].lane = stage => said'[s] = said[s] \cup {"partial"}
      BY <1>7, <2>2 DEF Speak, Listen
    <3>3. \A s \in RunIds : Hears(s)' <=> Hears(s)
      BY <3>1 DEF Hears
    <3>4. Kind(stage)' = Kind(stage)
      BY <3>1 DEF Kind
    <3> QED
      BY <2>2, <3>1, <3>2, <3>3, <3>4 DEF SaidFits
  <2> QED
    BY <1>7, <2>1, <2>2 DEF Speak
<1>8. ASSUME NEW r \in RunIds, Look(r) \/ CancelSuperseded(r) \/ CancelFollowup(r)
      PROVE  SaidFits'
  BY <1>2, <1>8 DEF Look, CancelSuperseded, CancelFollowup
<1>9. ASSUME NEW r \in RunIds, Assist(r) PROVE SaidFits'
  BY <1>4, <1>9 DEF Assist
<1>10. ASSUME NEW k \in Keepers, Stops(k) PROVE SaidFits'
  BY <1>2, <1>10 DEF Stops, Wake, CancelRun, FinishCancel
<1>11. CASE ChooseParked \/ CancelParked
  BY <1>2, <1>11 DEF ChooseParked, CancelParked
<1> QED
  BY <1>5, <1>6, <1>7, <1>8, <1>9, <1>10, <1>11 DEF RecoveryNext

\* An executor that sends nothing for the stage gives it up.
LEMMA SilenceGivesUp ==
  ASSUME RecoveryInv, ContextsFit, SaidFits, stage <= Len(plan),
         NEW r \in RunIds, executor[r] = "adapter", mem[r].lane = stage,
         NEW result \in Results,
         ~(result = "ok" /\ WantsRetry(r)), ~(result = "ok" /\ WantsFollowup(r)),
         ~(result = "incomplete" /\ mem[r].adapter < AdapterLimit /\ ~Closed)
  PROVE  GivesUp(r, result)
<1> DEFINE c == mem[r]
<1>1. c \in Context /\ Fits(c) /\ stage \in Nat /\ Len(plan) \in Nat
  BY PlansAssumption DEF RecoveryInv, Sound, ContextsFit
<1>2. InLane(c) /\ ~Closed
  BY <1>1, StageHasKind DEF InLane, Closed
<1>3. CASE result = "failed"
  BY <1>2, <1>3 DEF GivesUp
<1>4. CASE result = "incomplete"
  <2>1. c.adapter = AdapterLimit
    BY <1>1, <1>2, <1>4, LimitAssumption DEF Context
  <2> QED
    BY <1>2, <1>4, <2>1 DEF GivesUp
<1>5. CASE result = "ok"
  <2>1. CASE ~MayRetry(c)
    <3>1. c.retries >= LimitOf(Kind(stage))
      BY <1>1, <1>2, <2>1, LimitAssumption DEF MayRetry, LimitOf, Context, DegradedLimit
    <3> QED
      BY <1>2, <1>5, <3>1 DEF GivesUp
  <2>2. CASE Satisfied(r)
    <3>1. said[r] \subseteq {"partial"} /\ ("partial" \in said[r] => HasPartial(Kind(stage)))
      BY DEF SaidFits, Hears
    <3>2. said[r] = {"partial"}
      BY <2>2, <3>1 DEF Satisfied
    <3>3. Kind(stage) = "implementation"
      BY <1>2, <2>2, <3>1, <3>2 DEF Satisfied, Intermediate, HasPartial
    <3>4. c.forced
      BY <1>1, <3>3 DEF Fits
    <3>5. ~(c.progress < ProgressLimit)
      BY <1>2, <1>5, <3>2, <3>3, <3>4 DEF WantsFollowup
    <3>6. c.progress = ProgressLimit
      BY <1>1, <3>5, LimitAssumption DEF Context
    <3> QED
      BY <1>2, <1>5, <3>2, <3>3, <3>6 DEF GivesUp
  <2> QED
    BY <1>5, <2>1, <2>2 DEF WantsRetry
<1> QED
  BY <1>3, <1>4, <1>5 DEF Results

-----------------------------------------------------------------------------
(* What a step does to the stage and to a keeper.                          *)

LEMMA StageMoves ==
  ASSUME RecoveryInv, RecoveryNext
  PROVE  /\ plan' = plan
         /\ \/ stage' = stage /\ (excused => excused')
            \/ stage' = stage + 1 /\ (stage' <= Len(plan) => stage' \in mail')
<1>1. ASSUME NEW c \in Sound, Enqueue(c) PROVE excused => excused'
  BY <1>1, EnqueueOutcomes DEF RecoveryInv
<1>2. ASSUME NEW l \in mail, Deliver(l)
      PROVE  plan' = plan /\ stage' = stage /\ (excused => excused')
  BY <1>1, <1>2, MessageSound DEF Deliver, RecoveryInv
<1>3. CASE Remind
  <2>1. Message(0) \in Sound
    BY MessageSound
  <2> QED
    BY <1>1, <1>3, <2>1 DEF Remind
<1>4. ASSUME NEW r \in RunIds, Executes(r)
      PROVE  plan' = plan /\ stage' = stage /\ (excused => excused')
  <2>1. CASE Send(r)
    BY <1>1, <2>1 DEF Send, RecoveryInv
  <2>2. CASE Returns(r)
    <3>1. PICK result \in Results : AdapterReturns(r, result)
      BY <2>2 DEF Returns
    <3>2. plan' = plan /\ stage' = stage
      BY <3>1 DEF AdapterReturns
    <3>3. CASE UNCHANGED excused
      BY <3>2, <3>3
    <3>4. CASE ExcusedIf(GivesUp(r, result))
      BY <3>2, <3>4 DEF ExcusedIf
    <3> QED
      BY <3>1, <3>3, <3>4 DEF AdapterReturns
  <2>3. CASE Begin(r) \/ Enter(r) \/ Superseded(r)
    BY <2>3 DEF Begin, Enter, Superseded
  <2>4. CASE Persist(r) \/ EndRun(r)
    BY <2>4 DEF Persist, EndRun
  <2> QED
    BY <1>4, <2>1, <2>2, <2>3, <2>4 DEF Executes
<1>5. ASSUME Advance
      PROVE  stage' = stage + 1 /\ (stage' <= Len(plan) => stage' \in mail')
  <2>1. stage \in Nat /\ Len(plan) \in Nat
    BY PlansAssumption DEF RecoveryInv
  <2> QED
    BY <1>5, <2>1 DEF Advance
<1>6. ASSUME NEW r \in RunIds, NEW what \in {"partial", "full"}, Speak(r, what)
      PROVE  /\ plan' = plan
             /\ \/ stage' = stage /\ (excused => excused')
                \/ stage' = stage + 1 /\ (stage' <= Len(plan) => stage' \in mail')
  BY <1>5, <1>6 DEF Speak
<1>7. ASSUME NEW r \in RunIds, Look(r) \/ CancelSuperseded(r) \/ CancelFollowup(r)
      PROVE  plan' = plan /\ stage' = stage /\ (excused => excused')
  BY <1>7 DEF Look, CancelSuperseded, CancelFollowup
<1>8. ASSUME NEW r \in RunIds, Assist(r)
      PROVE  /\ plan' = plan
             /\ stage' = stage + 1 /\ (stage' <= Len(plan) => stage' \in mail')
  BY <1>5, <1>8 DEF Assist
<1>9. ASSUME NEW k \in Keepers, Stops(k)
      PROVE  plan' = plan /\ stage' = stage /\ (excused => excused')
  <2>1. keeper[k].context \in Sound
    BY DEF RecoveryInv, Keeping
  <2>2. CASE Wake(k)
    BY <1>1, <2>1, <2>2 DEF Wake
  <2>3. CASE CancelRun(k)
    <3>1. excused' = (excused \/ (k = "route" /\ Attends(keeper[k].run)))
      BY <2>3 DEF CancelRun, ExcusedIf
    <3>2. plan' = plan /\ stage' = stage
      BY <2>3 DEF CancelRun
    <3> QED
      BY <3>1, <3>2
  <2>4. CASE FinishCancel(k)
    BY <2>4 DEF FinishCancel
  <2> QED
    BY <1>9, <2>2, <2>3, <2>4 DEF Stops
<1>10. ASSUME ChooseParked \/ CancelParked
       PROVE  plan' = plan /\ stage' = stage /\ (excused => excused')
  <2>1. CASE ChooseParked
    BY <2>1 DEF ChooseParked
  <2>2. CASE CancelParked
    <3>1. excused' = (excused \/ InLane(parked))
      BY <2>2 DEF CancelParked, ExcusedIf
    <3>2. plan' = plan /\ stage' = stage
      BY <2>2 DEF CancelParked
    <3> QED
      BY <3>1, <3>2
  <2> QED
    BY <1>10, <2>1, <2>2
<1> QED
  BY <1>2, <1>3, <1>4, <1>6, <1>7, <1>8, <1>9, <1>10 DEF RecoveryNext

\* A keeper turns to a run that is in its adapter: to wake the agent for the
\* stage, to cancel a run that the server has just answered for, or to cancel
\* one of another lane.
TurnsTo(k, r) ==
    /\ executor[r] = "adapter" /\ executor' = executor /\ mem' = mem
    /\ keeper'[k].run = r
    /\ \/ /\ k = "watchdog" /\ keeper'[k].pc = "wake"
          /\ keeper'[k].context.lane = stage /\ stage' = stage
       \/ k = "watchdog" /\ keeper'[k].pc = "cancel" /\ stage' = stage + 1
       \/ /\ k = "lease" /\ keeper'[k].pc = "cancel"
          /\ mem[r].lane # stage /\ stage' = stage

LEMMA KeeperSet ==
  ASSUME RecoveryInv, NEW j \in Keepers, NEW v, keeper' = [keeper EXCEPT ![j] = v]
  PROVE  keeper'[j] = v /\ \A k \in Keepers \ {j} : keeper'[k] = keeper[k]
  BY DEF RecoveryInv

LEMMA KeepSet ==
  ASSUME RecoveryInv, NEW j \in Keepers, NEW pc, NEW r, Keep(j, pc, r)
  PROVE  /\ keeper'[j].pc = pc /\ keeper'[j].run = r
         /\ \A k \in Keepers \ {j} : keeper'[k] = keeper[k]
<1> DEFINE v == [NotKeeping EXCEPT !.pc = pc, !.run = r]
<1>1. v.pc = pc /\ v.run = r
  BY DEF NotKeeping
<1>2. keeper' = [keeper EXCEPT ![j] = v]
  BY DEF Keep
<1> HIDE DEF v
<1> QED
  BY <1>1, <1>2, KeeperSet

LEMMA KeeperMoves ==
  ASSUME RecoveryInv, RecoveryNext, NEW k \in Recoverers
  PROVE  \/ keeper'[k] = keeper[k]
         \/ keeper'[k].pc = "idle"
         \/ Wake(k) /\ keeper'[k].pc = "cancel" /\ keeper'[k].run = keeper[k].run
         \/ /\ keeper[k].pc = "cancel" /\ keeper'[k].pc = "release"
            /\ keeper'[k].run = keeper[k].run
         \/ \E r \in RunIds : TurnsTo(k, r)
<1> k \in Keepers /\ k # "route"
  BY DEF Recoverers, Keepers
<1>1. CASE (\E l \in mail : Deliver(l)) \/ Remind
  BY <1>1 DEF Deliver, Remind
<1>2. ASSUME NEW r \in RunIds, Executes(r) PROVE keeper' = keeper
  BY <1>2 DEF Executes, Begin, Enter, Superseded, Returns, AdapterReturns, Send, Persist,
              EndRun
<1>3. ASSUME NEW r \in RunIds, NEW what \in {"partial", "full"}, Speak(r, what)
      PROVE  keeper' = keeper
  BY <1>3 DEF Speak
<1>4. ASSUME NEW r \in RunIds, Look(r)
      PROVE  keeper'[k] = keeper[k] \/ TurnsTo(k, r)
  <2>1. row[r] \in Sound
    BY DEF RecoveryInv
  <2>2. row[r].lane = stage /\ executor[r] = "adapter"
    BY <1>4 DEF Look, Stalls, IsDegraded, MayRetry, InLane, Hangs
  <2>3. \E c : c.lane = stage /\ WillWake(r, c)
    BY <1>4, <2>1, <2>2, LaneOfAgain DEF Look
  <2>4. /\ keeper'["watchdog"].pc = "wake" /\ keeper'["watchdog"].run = r
        /\ keeper'["watchdog"].context.lane = stage
        /\ \A j \in Keepers \ {"watchdog"} : keeper'[j] = keeper[j]
    <3>1. PICK c : c.lane = stage /\ WillWake(r, c)
      BY <2>3
    <3> DEFINE v == [pc |-> "wake", run |-> r, context |-> c]
    <3>2. v.pc = "wake" /\ v.run = r /\ v.context.lane = stage
      BY <3>1
    <3>3. keeper' = [keeper EXCEPT !["watchdog"] = v] /\ "watchdog" \in Keepers
      BY <3>1 DEF WillWake, Keepers
    <3> HIDE DEF v
    <3> QED
      BY <3>2, <3>3, KeeperSet
  <2> QED
    BY <1>4, <2>2, <2>4 DEF TurnsTo, Look
<1>5. ASSUME NEW r \in RunIds, Assist(r)
      PROVE  keeper'[k] = keeper[k] \/ TurnsTo(k, r)
  <2>1. executor[r] = "adapter" /\ stage' = stage + 1
    BY <1>5 DEF Assist, IsDegraded, Hangs, Advance
  <2>2. /\ keeper'["watchdog"].pc = "cancel" /\ keeper'["watchdog"].run = r
        /\ \A j \in Keepers \ {"watchdog"} : keeper'[j] = keeper[j]
    BY <1>5, KeepSet DEF Assist, Keepers
  <2> QED
    BY <1>5, <2>1, <2>2 DEF TurnsTo, Assist
<1>6. ASSUME NEW r \in RunIds, CancelSuperseded(r)
      PROVE  keeper'[k] = keeper[k] \/ TurnsTo(k, r)
  <2>1. /\ keeper'["lease"].pc = "cancel" /\ keeper'["lease"].run = r
        /\ \A j \in Keepers \ {"lease"} : keeper'[j] = keeper[j]
    BY <1>6, KeepSet DEF CancelSuperseded, Keepers
  <2>2. mem[r].lane # stage
    BY <1>6 DEF CancelSuperseded, IsSuperseded, InLane
  <2> QED
    BY <1>6, <2>1, <2>2 DEF TurnsTo, CancelSuperseded
<1>7. ASSUME NEW j \in Keepers, Wake(j)
      PROVE  \/ keeper'[k] = keeper[k]
             \/ Wake(k) /\ keeper'[k].pc = "cancel" /\ keeper'[k].run = keeper[k].run
  <2>1. /\ keeper'[j].pc = "cancel" /\ keeper'[j].run = keeper[j].run
        /\ k # j => keeper'[k] = keeper[k]
    BY <1>7, KeepSet DEF Wake
  <2> QED
    BY <1>7, <2>1
<1>8. ASSUME NEW j \in Keepers, CancelRun(j)
      PROVE  \/ keeper'[k] = keeper[k]
             \/ keeper'[k].pc = "idle"
             \/ /\ keeper[k].pc = "cancel" /\ keeper'[k].pc = "release"
                /\ keeper'[k].run = keeper[k].run
  <2>1. CASE Keep(j, "release", keeper[j].run)
    BY <1>8, <2>1, KeepSet DEF CancelRun
  <2>2. CASE keeper' = [keeper EXCEPT ![j] = NotKeeping]
    BY <2>2, KeeperSet DEF NotKeeping
  <2> QED
    BY <1>8, <2>1, <2>2 DEF CancelRun
<1>9. ASSUME NEW j \in Keepers, FinishCancel(j)
      PROVE  keeper'[k] = keeper[k] \/ keeper'[k].pc = "idle"
  BY <1>9, KeeperSet DEF FinishCancel, NotKeeping
<1>10. ASSUME NEW r \in RunIds, CancelFollowup(r) PROVE keeper'[k] = keeper[k]
  BY <1>10, KeepSet DEF CancelFollowup, Keepers
<1>11. ASSUME ChooseParked \/ CancelParked PROVE keeper'[k] = keeper[k]
  BY <1>11 DEF ChooseParked, CancelParked
<1> QED
  BY <1>1, <1>2, <1>3, <1>4, <1>5, <1>6, <1>7, <1>8, <1>9, <1>10, <1>11
  DEF RecoveryNext, Stops

LEMMA KeptRunsStep ==
  ASSUME RecoveryInv, ReleasingIsOver, KeptRuns, RecoveryNext
  PROVE  KeptRuns'
<1> SUFFICES ASSUME NEW k \in Recoverers, keeper'[k].pc # "idle"
             PROVE  LET q == keeper'[k].run
                    IN  q \in RunIds /\ (status'[q] = "over" \/ executor'[q] # "none")
  BY DEF KeptRuns, Begun
<1> k \in Keepers
  BY DEF Recoverers, Keepers
<1>1. ASSUME keeper[k].pc # "idle"
      PROVE  LET q == keeper[k].run
             IN  q \in RunIds /\ (status'[q] = "over" \/ executor'[q] # "none")
  <2>1. Begun(keeper[k].run) /\ keeper[k].run \in RunIds
    BY <1>1 DEF KeptRuns, Begun
  <2> QED
    BY <2>1, RunFades DEF MemoryFades
<1>2. ASSUME NEW r \in RunIds, TurnsTo(k, r)
      PROVE  keeper'[k].run \in RunIds /\ executor'[keeper'[k].run] # "none"
  BY <1>2 DEF TurnsTo
<1> QED
  BY <1>1, <1>2, KeeperMoves DEF Wake

\* A run whose lane is passed stays so, and does not attend the stage.
LEMMA PassedStays ==
  ASSUME RecoveryInv, ReleasingIsOver, NEW k \in Keepers, NEW q \in RunIds,
         keeper[k].run = q, Begun(q), RecoveryNext, Passed(q)
  PROVE  Passed(q)'
<1>1. mem[q].lane \in Nat /\ stage \in Nat \ {0}
  BY LaneIsNat DEF RecoveryInv
<1>2. stage' = stage \/ stage' = stage + 1
  BY StageMoves
<1> QED
  BY <1>1, <1>2, RunFades DEF MemoryFades, Passed

LEMMA PassedIsAway ==
  ASSUME RecoveryInv, NEW q \in RunIds, Begun(q), Passed(q)
  PROVE  ~Attends(q)
<1>1. mem[q].lane \in Nat /\ stage \in Nat
  BY LaneIsNat DEF RecoveryInv
<1> QED
  BY <1>1 DEF Passed, Begun, Attends, Active

LEMMA LeaseStep ==
  ASSUME RecoveryInv, ContextsFit, ReleasingIsOver, KeptRuns, LeaseCancelsPassed,
         RecoveryNext
  PROVE  LeaseCancelsPassed'
<1> DEFINE k == "lease"
<1> SUFFICES ASSUME NEW q \in RunIds, keeper'[k].run = q
             PROVE  keeper'[k].pc # "wake" /\ (keeper'[k].pc = "cancel" => Passed(q)')
  BY DEF LeaseCancelsPassed
<1>1. k \in Keepers /\ k \in Recoverers
  BY DEF Keepers, Recoverers
<1>2. CASE keeper'[k] = keeper[k]
  <2>1. keeper[k].pc # "wake"
    BY <1>2 DEF LeaseCancelsPassed
  <2>2. ASSUME keeper[k].pc = "cancel" PROVE Passed(q)'
    <3>1. Begun(q) /\ Passed(q)
      BY <1>1, <1>2, <2>2 DEF KeptRuns, LeaseCancelsPassed
    <3> QED
      BY <1>1, <1>2, <3>1, PassedStays
  <2> QED
    BY <1>2, <2>1, <2>2
<1>3. ~Wake(k)
  BY <1>1 DEF Wake, KeptRuns, Begun, LeaseCancelsPassed
<1>4. ASSUME NEW r \in RunIds, TurnsTo(k, r)
      PROVE  keeper'[k].pc # "wake" /\ Passed(q)'
  <2>1. /\ r = q /\ mem'[q] = mem[q] /\ keeper'[k].pc = "cancel"
        /\ mem[q].lane # stage /\ stage' = stage
    BY <1>4 DEF TurnsTo
  <2>2. mem[q].lane \in 0..stage /\ stage \in Nat
    BY FitsLane DEF ContextsFit, RecoveryInv
  <2> QED
    BY <2>1, <2>2 DEF Passed
<1> QED
  BY <1>1, <1>2, <1>3, <1>4, KeeperMoves

-----------------------------------------------------------------------------
(* The stage is handed on, besides a run q that a keeper is at work on, or *)
(* besides none.                                                           *)

Fenced(q) == q \notin RunIds \/ (Begun(q) /\ \E k \in Keepers : keeper[k].run = q)

\* A wakeup may spend a message of the lane it asks for, and a follow-up an
\* executor was about to send.
SpendsOnly(l) ==
    /\ stage \in mail => stage \in mail' \/ l = stage
    /\ \A s \in RunIds :
          \/ executor'[s] = executor[s] /\ mem'[s] = mem[s]
          \/ executor[s] = "sending" /\ executor'[s] # "none" /\ mem[s].lane = l

LEMMA EnqueueHandsOn ==
  ASSUME RecoveryInv, stage <= Len(plan), NEW c \in Sound, Enqueue(c), SpendsOnly(c.lane),
         stage' = stage, ~excused', NEW q, Fenced(q), c.lane = stage \/ AttendedBesides(q)
  PROVE  AttendedBesides(q)'
<1>1. stage # NoContext.lane /\ stage = stage'
  BY LaneOfNoContext DEF RecoveryInv
<1>2. ASSUME NEW d, d.lane = stage PROVE InLane(d)
  BY <1>2, StageHasKind DEF InLane
<1>3. ASSUME c.lane # stage, NEW s \in RunIds, Attends(s)
      PROVE  executor'[s] = executor[s] /\ mem'[s] = mem[s]
  BY <1>3 DEF Attends, SpendsOnly
<1>4. c.lane # stage /\ stage \in mail => stage \in mail'
  BY DEF SpendsOnly
<1>5. CASE /\ \E i \in RunIds : Starts(c, i)
           /\ parked' = parked /\ excused' = excused
  <2>1. PICK i \in RunIds : Starts(c, i)
    BY <1>5
  <2>2. i # q /\ status[i] = "over" /\ executor[i] = "none"
    BY <2>1 DEF Starts, Fenced
  <2>3. /\ status'[i] = "queued" /\ row'[i] = c
        /\ \A s \in RunIds \ {i} : status'[s] = status[s] /\ row'[s] = row[s]
    BY <2>1 DEF Starts, RecoveryInv
  <2>4. CASE c.lane = stage
    <3>1. executor'[i] = "none"
      BY <2>2 DEF SpendsOnly
    <3>2. Attends(i)'
      BY <1>1, <2>3, <2>4, <3>1 DEF Attends, Active
    <3> QED
      BY <2>2, <3>2 DEF AttendedBesides
  <2>5. CASE c.lane # stage
    <3>1. ASSUME NEW s \in RunIds \ {q}, Attends(s) PROVE Attends(s)'
      <4>1. s # i
        BY <2>2, <3>1 DEF Attends, Active
      <4> QED
        BY <1>1, <1>3, <2>3, <2>5, <3>1, <4>1 DEF Attends
    <3> QED
      BY <1>1, <1>4, <1>5, <2>5, <3>1 DEF AttendedBesides
  <2> QED
    BY <2>4, <2>5
<1>6. CASE /\ parked'.lane = c.lane
           /\ excused' = (excused \/ (parked # NoContext /\ InLane(parked) /\ c.lane # stage))
           /\ status' = status /\ row' = row
  <2>1. CASE c.lane = stage
    BY <1>1, <1>6, <2>1 DEF AttendedBesides
  <2>2. CASE c.lane # stage
    <3>1. ~(parked # NoContext /\ parked.lane = stage)
      BY <1>2, <1>6, <2>2
    <3>2. ASSUME NEW s \in RunIds, Attends(s) PROVE Attends(s)'
      BY <1>1, <1>3, <1>6, <2>2, <3>2 DEF Attends
    <3> QED
      BY <1>1, <1>4, <2>2, <3>1, <3>2 DEF AttendedBesides
  <2> QED
    BY <2>1, <2>2
<1>7. CASE /\ lock \in RunIds /\ status[lock] \in Active
           /\ row'[lock].lane = c.lane
           /\ \A r \in RunIds : r # lock => row'[r] = row[r]
           /\ status' = status /\ parked' = parked
           /\ IF executor[lock] = "none"
              THEN excused' = (excused \/ (InLane(row[lock]) /\ c.lane # stage))
              ELSE excused' = (excused \/ InLane(c))
  <2>1. CASE c.lane = stage
    <3>1. PICK s \in RunIds : s = lock
      BY <1>7
    <3>2. executor[s] = "none"
      BY <1>2, <1>7, <2>1, <3>1
    <3>3. s # q
      BY <1>7, <3>1, <3>2 DEF Fenced, Begun, Active
    <3>4. executor'[s] = "none"
      BY <3>2 DEF SpendsOnly
    <3>5. Attends(s)'
      BY <1>1, <1>7, <2>1, <3>1, <3>4 DEF Attends
    <3> QED
      BY <3>3, <3>5 DEF AttendedBesides
  <2>2. CASE c.lane # stage
    <3>1. ASSUME NEW s \in RunIds, Attends(s) PROVE Attends(s)'
      <4>1. CASE s # lock
        BY <1>1, <1>3, <1>7, <2>2, <3>1, <4>1 DEF Attends
      <4>2. CASE s = lock
        <5>1. executor[s] # "none"
          BY <1>2, <1>7, <2>2, <3>1, <4>2 DEF Attends
        <5> QED
          BY <1>1, <1>3, <1>7, <2>2, <3>1, <5>1 DEF Attends
      <4> QED
        BY <4>1, <4>2
    <3> QED
      BY <1>1, <1>4, <1>7, <2>2, <3>1 DEF AttendedBesides
  <2> QED
    BY <2>1, <2>2
<1> QED
  BY <1>5, <1>6, <1>7, EnqueueOutcomes

LEMMA ReleaseHandsOn ==
  ASSUME RecoveryInv, NEW r, Release(r), UNCHANGED <<stage, mail, mem>>,
         \A s \in RunIds : executor'[s] = executor[s] \/ (status[s] = "over" /\ executor[s] # "none"),
         NEW q, Fenced(q), AttendedBesides(q)
  PROVE  AttendedBesides(q)'
<1>1. stage # NoContext.lane
  BY LaneOfNoContext DEF RecoveryInv
<1>2. ASSUME NEW s \in RunIds, Attends(s) PROVE executor'[s] = executor[s]
  BY <1>2 DEF Attends, Active
<1>3. CASE \E i \in RunIds : Starts(parked, i) /\ parked' = NoContext
  <2>1. PICK i \in RunIds : Starts(parked, i)
    BY <1>3
  <2>2. i # q /\ status[i] = "over" /\ executor'[i] = "none"
    BY <2>1 DEF Starts, Fenced
  <2>3. /\ status'[i] = "queued" /\ row'[i] = parked
        /\ \A s \in RunIds \ {i} : status'[s] = status[s] /\ row'[s] = row[s]
    BY <2>1 DEF Starts, RecoveryInv
  <2>4. CASE parked.lane = stage
    <3>1. Attends(i)'
      BY <2>2, <2>3, <2>4 DEF Attends, Active
    <3> QED
      BY <2>2, <3>1 DEF AttendedBesides
  <2>5. CASE parked.lane # stage
    <3>1. ASSUME NEW s \in RunIds \ {q}, Attends(s) PROVE Attends(s)'
      <4>1. s # i
        BY <2>2, <3>1 DEF Attends, Active
      <4> QED
        BY <1>2, <2>3, <3>1, <4>1 DEF Attends
    <3> QED
      BY <2>5, <3>1 DEF AttendedBesides
  <2> QED
    BY <2>4, <2>5
<1>4. CASE status' = status /\ row' = row /\ parked' = parked
  <2>1. ASSUME NEW s \in RunIds, Attends(s) PROVE Attends(s)'
    BY <1>2, <1>4, <2>1 DEF Attends
  <2> QED
    BY <1>4, <2>1 DEF AttendedBesides
<1> QED
  BY <1>3, <1>4, ReleaseOutcomes

\* A step that leaves the wakeups alone, and every run that attends at its work.
LEMMA WorkersHandOn ==
  ASSUME NEW q, AttendedBesides(q), UNCHANGED <<stage, parked>>,
         stage \in mail => stage \in mail',
         \A s \in RunIds \ {q} : Attends(s) => Attends(s)'
  PROVE  AttendedBesides(q)'
  BY DEF AttendedBesides

LEMMA ExecutorHandsOn ==
  ASSUME RecoveryInv, ContextsFit, SaidFits, ReleasingIsOver, stage <= Len(plan),
         NEW r \in RunIds, Executes(r), ~excused', NEW q, Fenced(q), AttendedBesides(q)
  PROVE  AttendedBesides(q)'
<1> USE DEF RecoveryInv
<1>1. mem[r] \in Sound /\ stage # NoContext.lane
  BY LaneOfNoContext
<1>2. ASSUME NEW d, d.lane = stage PROVE InLane(d)
  BY <1>2, StageHasKind DEF InLane
<1>3. CASE Begin(r)
  <2>1. \A s \in RunIds : Attends(s) => Attends(s)'
    BY <1>3 DEF Begin, ExecutorAt, Attends, Active
  <2> QED
    BY <1>3, <2>1, WorkersHandOn DEF Begin
<1>4. CASE Enter(r)
  <2>1. \A s \in RunIds : Attends(s) => Attends(s)'
    BY <1>4 DEF Enter, ExecutorAt, Attends
  <2> QED
    BY <1>4, <2>1, WorkersHandOn DEF Enter
<1>5. CASE Superseded(r)
  <2>1. ~Attends(r)
    BY <1>2, <1>5 DEF Superseded, IsSuperseded, ExecutorAt, Attends
  <2>2. \A s \in RunIds : Attends(s) => Attends(s)'
    BY <1>5, <2>1 DEF Superseded, ExecutorAt, Over, Forget, Attends
  <2> QED
    BY <1>5, <2>2, WorkersHandOn DEF Superseded
<1>6. CASE Returns(r)
  <2>1. PICK result \in Results : AdapterReturns(r, result)
    BY <1>6 DEF Returns
  <2>2. UNCHANGED <<plan, stage, mail, status, row, lock, parked, keeper, reminders>>
    BY <2>1 DEF AdapterReturns
  <2>3. ASSUME NEW c, c.lane = mem[r].lane, ExecutorAt(r, "adapter", "sending"), Forget(r, c)
        PROVE  \A s \in RunIds : Attends(s) => Attends(s)'
    BY <2>2, <2>3 DEF ExecutorAt, Forget, Attends
  <2>4. ASSUME ~(result = "ok" /\ WantsRetry(r)), ~(result = "ok" /\ WantsFollowup(r)),
               ~(result = "incomplete" /\ mem[r].adapter < AdapterLimit /\ ~Closed),
               ExecutorAt(r, "adapter", "sent"), ExcusedIf(GivesUp(r, result)),
               Forget(r, NoContext)
        PROVE  \A s \in RunIds : Attends(s) => Attends(s)'
    <3>1. executor[r] = "adapter" /\ ~GivesUp(r, result)
      BY <2>4 DEF ExecutorAt, ExcusedIf
    <3>2. ~Attends(r)
      BY <2>4, <3>1, SilenceGivesUp DEF Attends
    <3> QED
      BY <2>2, <2>4, <3>2 DEF ExecutorAt, Forget, Attends
  <2>5. \A s \in RunIds : Attends(s) => Attends(s)'
    BY <1>1, <2>1, <2>3, <2>4, LaneOfAgain DEF AdapterReturns
  <2> QED
    BY <2>2, <2>5, WorkersHandOn
<1>7. CASE Send(r)
  <2>1. SpendsOnly(mem[r].lane)
    BY <1>7 DEF Send, ExecutorAt, Forget, SpendsOnly
  <2> QED
    BY <1>1, <1>7, <2>1, EnqueueHandsOn DEF Send
<1>8. CASE Persist(r)
  <2>1. ~Attends(r)
    BY <1>8 DEF Persist, ExecutorAt, Attends
  <2>2. \A s \in RunIds : Attends(s) => Attends(s)'
    BY <1>8, <2>1 DEF Persist, ExecutorAt, Over, Attends
  <2> QED
    BY <1>8, <2>2, WorkersHandOn DEF Persist
<1>9. CASE EndRun(r)
  <2>1. \A s \in RunIds : executor'[s] = executor[s] \/ (status[s] = "over" /\ executor[s] # "none")
    BY <1>9 DEF EndRun, ExecutorAt, ReleasingIsOver
  <2> QED
    BY <1>9, <2>1, ReleaseHandsOn DEF EndRun
<1> QED
  BY <1>3, <1>4, <1>5, <1>6, <1>7, <1>8, <1>9 DEF Executes

\* The one exception is the cancellation of a run that attends.
LEMMA StageIsHandedOn ==
  ASSUME RecoveryInv, ContextsFit, SaidFits, ReleasingIsOver, stage <= Len(plan),
         RecoveryNext, stage' = stage, ~excused', NEW q, Fenced(q), AttendedBesides(q),
         \A k \in Keepers : CancelRun(k) => keeper[k].run = q \/ ~Attends(keeper[k].run)
  PROVE  AttendedBesides(q)'
<1> USE DEF RecoveryInv
<1>1. ASSUME NEW l \in mail, Deliver(l) PROVE AttendedBesides(q)'
  <2>1. Message(l) \in Sound /\ Message(l).lane = l
    BY MessageSound, LaneOfMessage
  <2>2. SpendsOnly(l)
    BY <1>1 DEF Deliver, SpendsOnly
  <2> QED
    BY <1>1, <2>1, <2>2, EnqueueHandsOn DEF Deliver
<1>2. CASE Remind
  <2>1. Message(0) \in Sound
    BY MessageSound
  <2>2. SpendsOnly(Message(0).lane)
    BY <1>2 DEF Remind, SpendsOnly
  <2> QED
    BY <1>2, <2>1, <2>2, EnqueueHandsOn DEF Remind
<1>3. ASSUME NEW r \in RunIds, Executes(r) PROVE AttendedBesides(q)'
  BY <1>3, ExecutorHandsOn
<1>4. ASSUME NEW r \in RunIds, NEW what \in {"partial", "full"}, Speak(r, what)
      PROVE  AttendedBesides(q)'
  <2>1. ~Advance
    BY DEF Advance
  <2>2. \A s \in RunIds : Attends(s) => Attends(s)'
    BY <1>4, <2>1 DEF Speak, Attends
  <2> QED
    BY <1>4, <2>1, <2>2, WorkersHandOn DEF Speak
<1>5. ASSUME NEW r \in RunIds, Look(r) \/ CancelSuperseded(r) \/ CancelFollowup(r)
      PROVE  AttendedBesides(q)'
  <2>1. \A s \in RunIds : Attends(s) => Attends(s)'
    BY <1>5 DEF Look, CancelSuperseded, CancelFollowup, Attends
  <2> QED
    BY <1>5, <2>1, WorkersHandOn DEF Look, CancelSuperseded, CancelFollowup
<1>6. ASSUME NEW r \in RunIds PROVE ~Assist(r)
  BY DEF Assist, Advance
<1>7. ASSUME NEW k \in Keepers, Stops(k) PROVE AttendedBesides(q)'
  <2>1. CASE Wake(k)
    <3>1. keeper[k].context \in Sound
      BY DEF Keeping
    <3>2. SpendsOnly(keeper[k].context.lane)
      BY <2>1 DEF Wake, SpendsOnly
    <3> QED
      BY <2>1, <3>1, <3>2, EnqueueHandsOn DEF Wake
  <2>2. CASE CancelRun(k)
    <3>1. \A s \in RunIds \ {q} : Attends(s) => Attends(s)'
      BY <2>2 DEF CancelRun, Over, Attends
    <3> QED
      BY <2>2, <3>1, WorkersHandOn DEF CancelRun
  <2>3. CASE FinishCancel(k)
    BY <2>3, ReleaseHandsOn DEF FinishCancel
  <2> QED
    BY <1>7, <2>1, <2>2, <2>3 DEF Stops
<1>8. CASE ChooseParked \/ CancelParked
  <2>1. \A s \in RunIds : Attends(s) => Attends(s)'
    BY <1>8 DEF ChooseParked, CancelParked, Attends
  <2>2. CASE ChooseParked
    BY <2>1, <2>2, WorkersHandOn DEF ChooseParked
  <2>3. CASE CancelParked
    <3>1. ~InLane(parked)
      BY <2>3 DEF CancelParked, ExcusedIf
    <3>2. parked.lane # stage
      BY <3>1, StageHasKind DEF InLane
    <3> QED
      BY <2>1, <2>3, <3>2 DEF CancelParked, AttendedBesides
  <2> QED
    BY <1>8, <2>2, <2>3
<1> QED
  BY <1>1, <1>2, <1>3, <1>4, <1>5, <1>6, <1>7, <1>8 DEF RecoveryNext

-----------------------------------------------------------------------------
(* The watchdog, and the invariant.                                        *)

LEMMA KeptIsFenced ==
  ASSUME KeptRuns, NEW k \in Recoverers, keeper[k].pc # "idle", NEW q, keeper[k].run = q
  PROVE  q \in RunIds /\ Begun(q) /\ Fenced(q)
  BY DEF KeptRuns, Begun, Fenced, Recoverers, Keepers

\* A route that takes an attending run away loses the stage.
LEMMA RouteTakesNone ==
  ASSUME CancelRun("route"), ~excused'
  PROVE  ~Attends(keeper["route"].run)
  BY DEF CancelRun, ExcusedIf

\* The lease heartbeat takes no attending run away.
LEMMA LeaseTakesNone ==
  ASSUME RecoveryInv, KeptRuns, LeaseCancelsPassed, CancelRun("lease")
  PROVE  ~Attends(keeper["lease"].run)
<1> DEFINE q == keeper["lease"].run
<1>1. keeper["lease"].pc = "cancel" /\ "lease" \in Recoverers
  BY DEF CancelRun, Recoverers
<1>2. q \in RunIds /\ Begun(q) /\ Passed(q)
  BY <1>1 DEF KeptRuns, Begun, LeaseCancelsPassed
<1> QED
  BY <1>2, PassedIsAway

\* The watchdog has woken the agent, for the stage or one before it.
LEMMA WatchdogHasWoken ==
  ASSUME RecoveryInv, StageInv, Wake("watchdog"), NEW q \in RunIds,
         keeper["watchdog"].run = q, stage' <= Len(plan'), ~excused'
  PROVE  Passed(q)' \/ AttendedBesides(q)'
<1> DEFINE c == keeper["watchdog"].context
<1> USE DEF RecoveryInv
<1>1. /\ "watchdog" \in Keepers /\ "watchdog" \in Recoverers
      /\ c \in Sound /\ Enqueue(c)
      /\ UNCHANGED <<plan, stage, mail, executor, mem>>
  BY DEF Keepers, Recoverers, Keeping, Wake
<1>2. CASE status[q] = "over" \/ mem[q].lane < stage
  <2>1. status'[q] = status[q]
    BY <1>1, EnqueueKeeps
  <2> QED
    BY <1>1, <1>2, <2>1 DEF Passed
<1>3. CASE status[q] # "over" /\ ~(mem[q].lane < stage)
  <2>1. mem[q].lane <= c.lane
    BY <1>3 DEF StageInv, WatchdogWakesFirst, Wake
  <2>2. c.lane = stage
    <3>1. mem[q].lane \in 0..stage /\ c.lane \in 0..stage /\ stage \in Nat
      BY <1>1, FitsLane DEF StageInv, ContextsFit
    <3> HIDE DEF c
    <3> QED
      BY <1>3, <2>1, <3>1
  <2>3. Fenced(q)
    BY <1>1, KeptIsFenced DEF StageInv, Wake
  <2>4. SpendsOnly(c.lane)
    BY <1>1 DEF SpendsOnly
  <2> HIDE DEF c
  <2> QED
    BY <1>1, <2>2, <2>3, <2>4, EnqueueHandsOn
<1> QED
  BY <1>2, <1>3

LEMMA WatchdogStep ==
  ASSUME RecoveryInv, StageInv, RecoveryNext
  PROVE  WatchdogWakesFirst'
<1> DEFINE k == "watchdog"
<1> USE DEF RecoveryInv
<1> SUFFICES ASSUME NEW q \in RunIds, keeper'[k].run = q
             PROVE  /\ keeper'[k].pc = "wake" =>
                          status'[q] = "over" \/ mem'[q].lane <= keeper'[k].context.lane
                    /\ keeper'[k].pc = "cancel" /\ stage' <= Len(plan') /\ ~excused' =>
                          Passed(q)' \/ AttendedBesides(q)'
  BY DEF WatchdogWakesFirst
<1>1. k \in Keepers /\ k \in Recoverers
  BY DEF Keepers, Recoverers
<1>2. mem[q].lane \in 0..stage /\ stage \in Nat \ {0}
  BY FitsLane DEF StageInv, ContextsFit
<1>3. CASE keeper'[k] = keeper[k] /\ keeper[k].pc = "wake"
  <2>1. status[q] = "over" \/ mem[q].lane <= keeper[k].context.lane
    BY <1>3 DEF StageInv, WatchdogWakesFirst
  <2>2. keeper[k].context.lane \in Nat
    BY <1>1, LaneIsNat DEF Keeping
  <2>3. MemoryFades(q)
    BY <1>1, <1>3, KeptIsFenced, RunFades DEF StageInv
  <2>4. status'[q] = "over" \/ mem'[q].lane <= keeper[k].context.lane
    BY <1>2, <2>1, <2>2, <2>3 DEF MemoryFades
  <2> QED
    BY <1>3, <2>4
<1>4. CASE keeper'[k] = keeper[k] /\ keeper[k].pc = "cancel"
  <2> SUFFICES ASSUME stage' <= Len(plan'), ~excused'
               PROVE  Passed(q)' \/ AttendedBesides(q)'
    BY <1>4
  <2>1. Begun(q) /\ Fenced(q)
    BY <1>1, <1>4, KeptIsFenced DEF StageInv
  <2>2. CASE Passed(q)
    BY <1>1, <1>4, <2>1, <2>2, PassedStays DEF StageInv
  <2>3. CASE stage' = stage /\ ~Passed(q)
    <3>1. plan' = plan /\ ~excused
      BY <1>2, <2>3, StageMoves
    <3>2. AttendedBesides(q)
      BY <1>4, <2>3, <3>1 DEF StageInv, WatchdogWakesFirst
    <3>3. ASSUME NEW j \in Keepers, CancelRun(j)
          PROVE  keeper[j].run = q \/ ~Attends(keeper[j].run)
      BY <1>4, <3>3, LeaseTakesNone, RouteTakesNone DEF StageInv, Keepers
    <3> QED
      BY <2>1, <2>3, <3>1, <3>2, <3>3, StageIsHandedOn DEF StageInv
  <2>4. CASE stage' = stage + 1
    <3>1. stage' \in mail'
      BY <1>2, <2>4, StageMoves
    <3> QED
      BY <3>1 DEF AttendedBesides
  <2> QED
    BY <2>2, <2>3, <2>4, StageMoves
<1>5. CASE Wake(k) /\ keeper'[k].pc = "cancel" /\ keeper[k].run = q
  BY <1>5, WatchdogHasWoken
<1>6. ASSUME NEW r \in RunIds, TurnsTo(k, r)
      PROVE  /\ keeper'[k].pc = "wake" => mem'[q].lane <= keeper'[k].context.lane
             /\ keeper'[k].pc = "cancel" => Passed(q)'
  <2>1. r = q /\ mem'[q] = mem[q]
    BY <1>6 DEF TurnsTo
  <2>2. keeper'[k].pc = "wake" => keeper'[k].context.lane = stage
    BY <1>6 DEF TurnsTo
  <2>3. keeper'[k].pc = "cancel" => stage' = stage + 1
    BY <1>6 DEF TurnsTo
  <2> QED
    BY <1>2, <2>1, <2>2, <2>3 DEF Passed
<1> QED
  BY <1>1, <1>3, <1>4, <1>5, <1>6, KeeperMoves

\* A cancellation by the watchdog leaves the stage to somebody else.
LEMMA AttendedStep ==
  ASSUME RecoveryInv, StageInv, RecoveryNext
  PROVE  StageIsAttended'
<1> USE DEF RecoveryInv
<1> SUFFICES ASSUME stage' <= Len(plan'), ~excused'
             PROVE  AttendedBesides(NoRun)'
  BY DEF StageIsAttended, Attended, AttendedBesides
<1>1. NoRun \notin RunIds
  BY DEF NoRun, RunIds
<1>2. CASE stage' = stage + 1
  <2>1. stage' # stage
    BY <1>2
  <2> QED
    BY <2>1, StageMoves DEF AttendedBesides
<1>3. CASE stage' = stage
  <2>1. plan' = plan /\ ~excused
    BY <1>3, StageMoves
  <2>2. AttendedBesides(NoRun)
    BY <1>1, <1>3, <2>1 DEF StageInv, StageIsAttended, Attended, AttendedBesides
  <2>3. ASSUME NEW q \in RunIds, keeper["watchdog"].run = q, CancelRun("watchdog"), Attends(q)
        PROVE  AttendedBesides(NoRun)'
    <3>1. keeper["watchdog"].pc = "cancel" /\ "watchdog" \in Recoverers
      BY <2>3 DEF CancelRun, Recoverers
    <3>2. Begun(q) /\ Fenced(q)
      BY <2>3, <3>1, KeptIsFenced DEF StageInv
    <3>3. AttendedBesides(q)
      BY <1>3, <2>1, <2>3, <3>1, <3>2, PassedIsAway DEF StageInv, WatchdogWakesFirst
    <3>4. ASSUME NEW j \in Keepers, CancelRun(j)
          PROVE  keeper[j].run = q \/ ~Attends(keeper[j].run)
      BY <2>3, <3>4, LeaseTakesNone, RouteTakesNone DEF StageInv, Keepers
    <3>5. AttendedBesides(q)'
      BY <1>3, <2>1, <3>2, <3>3, <3>4, StageIsHandedOn DEF StageInv
    <3> QED
      BY <1>1, <3>5 DEF AttendedBesides
  <2>4. CASE ~(CancelRun("watchdog") /\ Attends(keeper["watchdog"].run))
    <3>1. ASSUME NEW j \in Keepers, CancelRun(j)
          PROVE  keeper[j].run = NoRun \/ ~Attends(keeper[j].run)
      BY <2>4, <3>1, LeaseTakesNone, RouteTakesNone DEF StageInv, Keepers
    <3>2. Fenced(NoRun)
      BY <1>1 DEF Fenced
    <3> QED
      BY <1>3, <2>1, <2>2, <3>1, <3>2, StageIsHandedOn DEF StageInv
  <2>5. CancelRun("watchdog") => keeper["watchdog"].run \in RunIds
    BY DEF StageInv, KeptRuns, Begun, CancelRun, Recoverers
  <2> QED
    BY <2>3, <2>4, <2>5
<1> QED
  BY <1>2, <1>3, StageMoves

LEMMA StageInvInit == RecoveryInit => StageInv
<1> SUFFICES ASSUME RecoveryInit PROVE StageInv
  OBVIOUS
<1>1. NoContext.lane = 0 /\ NotKeeping.context = NoContext /\ NotKeeping.pc = "idle"
  BY LaneOfNoContext DEF NotKeeping
<1>2. stage = 1 /\ mail = {1} /\ parked = NoContext
  BY DEF RecoveryInit
<1>3. \A r \in RunIds : row[r] = NoContext /\ mem[r] = NoContext /\ executor[r] = "none"
  BY DEF RecoveryInit
<1>4. \A k \in Keepers : keeper[k] = NotKeeping
  BY DEF RecoveryInit
<1>5. ContextsFit
  <2>1. Fits(NoContext)
    BY RecoveryInvInit, FitsNoContext
  <2> QED
    BY <1>1, <1>2, <1>3, <1>4, <2>1 DEF ContextsFit
<1>6. ReleasingIsOver /\ KeptRuns
  BY <1>1, <1>3, <1>4 DEF ReleasingIsOver, KeptRuns, Recoverers, Keepers
<1>7. LeaseCancelsPassed /\ WatchdogWakesFirst
  BY <1>1, <1>4 DEF LeaseCancelsPassed, WatchdogWakesFirst, Keepers
<1>8. StageIsAttended
  BY <1>2 DEF StageIsAttended, Attended
<1>9. SaidFits
  BY <1>3 DEF RecoveryInit, SaidFits, Hears
<1> QED
  BY <1>5, <1>6, <1>7, <1>8, <1>9 DEF StageInv

LEMMA StageInvStep == RecoveryInv /\ StageInv /\ [RecoveryNext]_vars => StageInv'
<1> SUFFICES ASSUME RecoveryInv, StageInv, [RecoveryNext]_vars PROVE StageInv'
  OBVIOUS
<1>1. CASE UNCHANGED vars
  BY <1>1 DEF vars, StageInv, ContextsFit, Fits, Kind, SaidFits, Hears,
              ReleasingIsOver, KeptRuns, Begun,
              LeaseCancelsPassed, WatchdogWakesFirst, Passed, AttendedBesides, Attends,
              StageIsAttended, Attended
<1>2. CASE RecoveryNext
  <2>1. ContextsFit' /\ SaidFits'
    BY <1>2, ContextsFitStep, SaidStep DEF StageInv
  <2>2. ReleasingIsOver' /\ KeptRuns'
    BY <1>2, ReleasingStep, KeptRunsStep DEF StageInv
  <2>3. LeaseCancelsPassed'
    BY <1>2, LeaseStep DEF StageInv
  <2> QED
    BY <1>2, <2>1, <2>2, <2>3, WatchdogStep, AttendedStep DEF StageInv
<1> QED
  BY <1>1, <1>2

\* A lane the agent has not answered is posted, parked or worked on, unless the
\* code has given it up or lost it: see StageIsAttended for the cases.
THEOREM NoStageIsDropped == RecoverySpec => []StageIsAttended
<1>1. StageInv => StageIsAttended
  BY DEF StageInv
<1> QED
  BY <1>1, RecoveryInvHolds, StageInvInit, StageInvStep, PTL DEF RecoverySpec
================================================================================

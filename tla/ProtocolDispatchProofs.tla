------------------------- MODULE ProtocolDispatchProofs -------------------------
(***************************************************************************)
(* Proofs about ProtocolDispatch, for any messages, plans, sweeps and      *)
(* batches, and any number of errors and crashes.                          *)
(***************************************************************************)
EXTENDS ProtocolDispatch, SequenceTheorems, TLAPS

-----------------------------------------------------------------------------
(* Sequences without repetition.                                           *)

IsDistinct(s) == \A i, j \in 1..Len(s) : s[i] = s[j] => i = j

\* What Head and Tail leave of a sequence.
LEMMA TailRange ==
    ASSUME NEW S, NEW s \in Seq(S), s # <<>>
    PROVE  /\ Head(s) \in S /\ Tail(s) \in Seq(S)
           /\ Range(s) = {Head(s)} \cup Range(Tail(s))
           /\ IsDistinct(s) => IsDistinct(Tail(s)) /\ Head(s) \notin Range(Tail(s))
<1>1. /\ Head(s) = s[1] /\ Tail(s) \in Seq(S) /\ Len(Tail(s)) = Len(s) - 1 /\ Len(s) \in Nat \ {0}
      /\ \A i \in 1..Len(s) - 1 : Tail(s)[i] = s[i + 1]
      /\ DOMAIN s = 1..Len(s) /\ DOMAIN Tail(s) = 1..Len(s) - 1 /\ Head(s) \in S
  BY HeadTailProperties
<1>2. Range(s) = {Head(s)} \cup Range(Tail(s))
  <2>1. ASSUME NEW i \in 1..Len(s) PROVE s[i] \in {Head(s)} \cup Range(Tail(s))
    <3>1. CASE i = 1
      BY <1>1, <3>1
    <3>2. CASE i # 1
      <4>1. i - 1 \in 1..Len(s) - 1 /\ Tail(s)[i - 1] = s[i]
        BY <1>1, <3>2
      <4> QED
        BY <4>1, <1>1 DEF Range
    <3> QED
      BY <3>1, <3>2
  <2>2. ASSUME NEW i \in 1..Len(s) - 1 PROVE Tail(s)[i] \in Range(s)
    <3>1. i + 1 \in 1..Len(s)
      BY <1>1
    <3> QED
      BY <3>1, <1>1 DEF Range
  <2>3. Head(s) \in Range(s)
    BY <1>1 DEF Range
  <2> QED
    BY <2>1, <2>2, <2>3, <1>1 DEF Range
<1>3. ASSUME IsDistinct(s) PROVE IsDistinct(Tail(s)) /\ Head(s) \notin Range(Tail(s))
  <2>1. ASSUME NEW i \in 1..Len(Tail(s)), NEW j \in 1..Len(Tail(s)), Tail(s)[i] = Tail(s)[j]
        PROVE  i = j
    <3>1. i + 1 \in 1..Len(s) /\ j + 1 \in 1..Len(s) /\ s[i + 1] = s[j + 1] /\ i \in Nat /\ j \in Nat
      BY <1>1, <2>1
    <3>2. i + 1 = j + 1
      BY <1>3, <3>1 DEF IsDistinct
    <3> QED
      BY <3>1, <3>2
  <2>2. ASSUME NEW i \in 1..Len(s) - 1 PROVE Tail(s)[i] # Head(s)
    <3>1. i + 1 \in 1..Len(s) /\ 1 \in 1..Len(s) /\ i + 1 # 1
      BY <1>1
    <3>2. s[i + 1] # s[1]
      BY <3>1, <1>3 DEF IsDistinct
    <3> QED
      BY <3>2, <1>1
  <2> QED
    BY <2>1, <2>2, <1>1 DEF IsDistinct, Range
<1> QED
  BY <1>1, <1>2, <1>3

\* Without takes the element out of a sequence without repetition.
LEMMA WithoutRange ==
    ASSUME NEW S, NEW s \in Seq(S), NEW m
    PROVE  /\ Without(s, m) \in Seq(S)
           /\ IsDistinct(s) => IsDistinct(Without(s, m)) /\ Range(Without(s, m)) = Range(s) \ {m}
<1>1. CASE m \notin Range(s)
  BY <1>1 DEF Without
<1>2. CASE m \in Range(s)
  <2> DEFINE i == CHOOSE i \in DOMAIN s : s[i] = m
             n == Len(s)
             w == Without(s, m)
  <2>1. i \in 1..n /\ s[i] = m /\ n \in Nat /\ DOMAIN s = 1..n /\ s \in [1..n -> S]
    BY <1>2, LenProperties DEF Range
  <2>2. w = SubSeq(s, 1, i - 1) \o SubSeq(s, i + 1, n)
    BY <1>2 DEF Without, RemoveAt
  <2> HIDE DEF i
  <2> DEFINE a == SubSeq(s, 1, i - 1)
             b == SubSeq(s, i + 1, n)
  <2>3. /\ a \in Seq(S) /\ Len(a) = i - 1 /\ (\A k \in 1..i - 1 : a[k] = s[k])
        /\ b \in Seq(S) /\ Len(b) = n - i /\ \A k \in 1..n - i : b[k] = s[k + i]
    <3>1. /\ \A k \in 1..i - 1 : s[k] \in S
          /\ \A k \in i + 1..n : s[k] \in S
          /\ i \in Int /\ n \in Int /\ i - 1 \in Int /\ i + 1 \in Int /\ 1 \in Int
      BY <2>1
    <3>2. /\ a \in Seq(S) /\ Len(a) = IF 1 <= i - 1 THEN (i - 1) - 1 + 1 ELSE 0
          /\ \A k \in 1..(i - 1) - 1 + 1 : a[k] = s[1 + k - 1]
      BY <3>1, SubSeqProperties
    <3>3. /\ b \in Seq(S) /\ Len(b) = IF i + 1 <= n THEN n - (i + 1) + 1 ELSE 0
          /\ \A k \in 1..n - (i + 1) + 1 : b[k] = s[(i + 1) + k - 1]
      BY <3>1, SubSeqProperties
    <3>4. ASSUME NEW k \in 1..i - 1 PROVE a[k] = s[k]
      <4>1. k \in 1..(i - 1) - 1 + 1 /\ 1 + k - 1 = k
        BY <2>1
      <4> QED
        BY <3>2, <4>1
    <3>5. ASSUME NEW k \in 1..n - i PROVE b[k] = s[k + i]
      <4>1. k \in 1..n - (i + 1) + 1 /\ (i + 1) + k - 1 = k + i
        BY <2>1
      <4> QED
        BY <3>3, <4>1
    <3> HIDE DEF a, b
    <3>6. Len(a) = i - 1 /\ Len(b) = n - i
      <4>0. i \in Nat /\ n \in Nat /\ 1 <= i /\ i <= n
        BY <2>1
      <4> HIDE DEF n
      <4>1. (IF 1 <= i - 1 THEN (i - 1) - 1 + 1 ELSE 0) = i - 1
        BY <4>0
      <4>2. (IF i + 1 <= n THEN n - (i + 1) + 1 ELSE 0) = n - i
        BY <4>0
      <4> QED
        BY <3>2, <3>3, <4>1, <4>2
    <3> QED
      BY <3>2, <3>3, <3>4, <3>5, <3>6
  <2> HIDE DEF a, b
  <2>4. /\ w \in Seq(S) /\ Len(w) = n - 1 /\ DOMAIN w = 1..n - 1
        /\ \A k \in 1..n - 1 : w[k] = IF k < i THEN s[k] ELSE s[k + 1]
    <3>1. w = a \o b
      BY <2>2 DEF a, b
    <3> HIDE DEF w
    <3>2. /\ w \in Seq(S) /\ Len(w) = Len(a) + Len(b)
          /\ \A k \in 1..Len(a) + Len(b) : w[k] = IF k <= Len(a) THEN a[k] ELSE b[k - Len(a)]
      BY <3>1, <2>3, ConcatProperties
    <3>3. Len(w) = n - 1 /\ DOMAIN w = 1..n - 1
      BY <3>2, <2>1, <2>3, LenProperties
    <3>4. ASSUME NEW k \in 1..n - 1 PROVE w[k] = IF k < i THEN s[k] ELSE s[k + 1]
      <4>1. CASE k < i
        <5>1. k \in 1..i - 1 /\ k \in 1..Len(a) + Len(b) /\ k <= Len(a)
          BY <4>1, <2>1, <2>3
        <5>2. w[k] = a[k] /\ a[k] = s[k]
          BY <5>1, <3>2, <2>3
        <5> QED
          BY <4>1, <5>2
      <4>2. CASE ~(k < i)
        <5>1. w[k] = b[k - (i - 1)] /\ k - (i - 1) \in 1..n - i
          BY <4>2, <3>2, <2>1, <2>3
        <5>2. b[k - (i - 1)] = s[(k - (i - 1)) + i] /\ (k - (i - 1)) + i = k + 1
          BY <5>1, <2>1, <2>3
        <5> QED
          BY <4>2, <5>1, <5>2
      <4> QED
        BY <4>1, <4>2
    <3> QED
      BY <3>2, <3>3, <3>4
  <2> HIDE DEF w
  <2>5. ASSUME IsDistinct(s) PROVE IsDistinct(w) /\ Range(w) = Range(s) \ {m}
    <3>1. ASSUME NEW k \in 1..n - 1, NEW l \in 1..n - 1, w[k] = w[l] PROVE k = l
      <4> DEFINE K == IF k < i THEN k ELSE k + 1
                 L == IF l < i THEN l ELSE l + 1
      <4>1. K \in 1..n /\ L \in 1..n /\ w[k] = s[K] /\ w[l] = s[L]
        BY <2>1, <2>4
      <4>2. K = L
        BY <4>1, <3>1, <2>5 DEF IsDistinct
      <4> QED
        BY <4>2, <2>1
    <3>2. ASSUME NEW k \in 1..n - 1 PROVE w[k] \in Range(s) \ {m}
      <4> DEFINE K == IF k < i THEN k ELSE k + 1
      <4>1. K \in 1..n /\ K # i /\ w[k] = s[K]
        BY <2>1, <2>4
      <4>2. s[K] # s[i]
        BY <4>1, <2>1, <2>5 DEF IsDistinct
      <4> QED
        BY <4>1, <4>2, <2>1 DEF Range
    <3>3. ASSUME NEW k \in 1..n, s[k] # m PROVE s[k] \in Range(w)
      <4> DEFINE l == IF k < i THEN k ELSE k - 1
      <4>1. k # i
        BY <3>3, <2>1
      <4>2. l \in 1..n - 1 /\ w[l] = s[k]
        BY <4>1, <2>1, <2>4
      <4> QED
        BY <4>2, <2>4 DEF Range
    <3> QED
      BY <3>1, <3>2, <3>3, <2>1, <2>4 DEF IsDistinct, Range
  <2> QED
    BY <2>4, <2>5 DEF w
<1> QED
  BY <1>1, <1>2

\* Append adds an element, which does not repeat one.
LEMMA AppendRange ==
    ASSUME NEW S, NEW s \in Seq(S), NEW e \in S
    PROVE  /\ Append(s, e) \in Seq(S) /\ Range(Append(s, e)) = Range(s) \cup {e}
           /\ IsDistinct(s) /\ e \notin Range(s) => IsDistinct(Append(s, e))
<1> DEFINE n == Len(s)
           w == Append(s, e)
<1>1. /\ w \in Seq(S) /\ Len(w) = n + 1 /\ n \in Nat /\ DOMAIN s = 1..n /\ DOMAIN w = 1..n + 1
      /\ (\A i \in 1..n : w[i] = s[i]) /\ w[n + 1] = e
  BY AppendProperties, LenProperties
<1> HIDE DEF w, n
<1>2. \A i \in 1..n + 1 : i \in 1..n \/ i = n + 1
  BY <1>1
<1>3. n + 1 \in 1..n + 1 /\ \A i \in 1..n : i \in 1..n + 1
  BY <1>1
<1>4. Range(w) = Range(s) \cup {e}
  BY <1>1, <1>2, <1>3 DEF Range
<1>5. ASSUME IsDistinct(s), e \notin Range(s) PROVE IsDistinct(w)
  <2>1. ASSUME NEW i \in 1..n + 1, NEW j \in 1..n + 1, w[i] = w[j] PROVE i = j
    BY <2>1, <1>1, <1>2, <1>5 DEF IsDistinct, Range, n
  <2> QED
    BY <2>1, <1>1 DEF IsDistinct
<1> QED
  BY <1>1, <1>4, <1>5 DEF w

\* A batch is the beginning of the queue.
LEMMA BatchRange ==
    ASSUME NEW S, NEW s \in Seq(S), NEW k \in Nat, k <= Len(s)
    PROVE  /\ SubSeq(s, 1, k) \in Seq(S) /\ Range(SubSeq(s, 1, k)) \subseteq Range(s)
           /\ IsDistinct(s) => IsDistinct(SubSeq(s, 1, k))
<1> DEFINE w == SubSeq(s, 1, k)
<1>1. s \in [1..Len(s) -> S] /\ DOMAIN s = 1..Len(s) /\ Len(s) \in Nat
  BY LenProperties
<1>2. \A i \in 1..k : i \in 1..Len(s) /\ s[i] \in S
  BY <1>1
<1>3. /\ w \in Seq(S) /\ Len(w) = (IF 1 <= k THEN k - 1 + 1 ELSE 0)
      /\ \A i \in 1..k - 1 + 1 : w[i] = s[1 + i - 1]
  BY <1>2, SubSeqProperties
<1> HIDE DEF w
<1>4. Len(w) = k /\ DOMAIN w = 1..k
  BY <1>3, LenProperties
<1>5. \A i \in 1..k : w[i] = s[i]
  <2> TAKE i \in 1..k
  <2>1. i \in 1..k - 1 + 1 /\ 1 + i - 1 = i
    OBVIOUS
  <2> QED
    BY <2>1, <1>3
<1>6. Range(w) \subseteq Range(s)
  BY <1>1, <1>2, <1>4, <1>5 DEF Range
<1>7. IsDistinct(s) => IsDistinct(w)
  BY <1>2, <1>4, <1>5 DEF IsDistinct
<1> QED
  BY <1>3, <1>6, <1>7 DEF w

-----------------------------------------------------------------------------
(* Types.                                                                  *)

\* What is started of a message is typed.
LEMMA JobTypes ==
    /\ Idle \in Jobs /\ Idle.pc = "idle" /\ Idle.message = NoMessage /\ Idle.first = NoMessage
    /\ \A m \in Messages :
          /\ Start(m) \in Jobs /\ Start(m).message = m /\ Start(m).first = NoMessage
          /\ Start(m).pc \in {"sending", "deciding"}
          /\ Start(m).pc = "sending" => Start(m).left = Plan[m]
    /\ \A m \in Messages, first \in Messages \cup {NoMessage} :
          /\ Sending(m, first) \in Jobs /\ Sending(m, first).message = m
          /\ Sending(m, first).first = first /\ Sending(m, first).pc = "sending"
          /\ Sending(m, first).left = Plan[m]
          /\ \A pc \in {"rerouted", "marked"} :
                /\ Job(pc, m, first, <<>>) \in Jobs /\ Job(pc, m, first, <<>>).message = m
                /\ Job(pc, m, first, <<>>).first = first /\ Job(pc, m, first, <<>>).pc = pc
BY PlanAssumption DEF Idle, Start, Sending, Job, Jobs

\* The types hold at first.
LEMMA TypesInit == DispatchInit => DispatchTypeOK
<1> SUFFICES ASSUME DispatchInit PROVE DispatchTypeOK
  OBVIOUS
<1>1. job \in [Dispatchers -> Jobs] /\ \A d \in Dispatchers : job[d].pc = "idle"
  BY JobTypes DEF DispatchInit
<1>2. /\ row \in [Messages -> {"none"} \cup Unsettled \cup Settled]
      /\ live \in [Messages -> SUBSET Agents] /\ wakeups \in [Messages -> [Agents -> 0..2]]
      /\ due \in Seq(Messages) /\ todo \in [Sweeps -> Seq(Messages)]
  BY DEF DispatchInit
<1>6. skipped \in [Messages -> SUBSET Agents]
  BY DEF DispatchInit
<1>3. held \subseteq Messages /\ closed \in BOOLEAN /\ blockedBy \in Messages \cup {NoMessage}
  BY DEF DispatchInit
<1>4. depends \in BOOLEAN /\ timely \in BOOLEAN
  BY BoundsAssumption, Zenon DEF DispatchInit
<1>5. faults \in 0..MaxFaults
  BY BoundsAssumption DEF DispatchInit
<1> QED
  BY <1>1, <1>2, <1>3, <1>4, <1>5, <1>6 DEF DispatchTypeOK

\* An update of one dispatcher's job keeps the types of all.
LEMMA DoesTypes ==
    ASSUME DispatchTypeOK, NEW d \in Dispatchers, NEW j \in Jobs, Does(d, j),
           j.pc # "idle" => j.message \in Messages,
           j.pc = "rerouted" => j.first \in Messages
    PROVE  /\ job' \in [Dispatchers -> Jobs]
           /\ \A e \in Dispatchers : /\ job'[e].pc # "idle" => job'[e].message \in Messages
                                     /\ job'[e].pc = "rerouted" => job'[e].first \in Messages
           /\ job'[d] = j /\ \A e \in Dispatchers \ {d} : job'[e] = job[e]
BY DEF DispatchTypeOK, Does

\* The outbox stays typed.
LEMMA RowTypes ==
    ASSUME DispatchTypeOK, NEW m \in Messages
    PROVE  LET Typed == /\ row' \in [Messages -> {"none"} \cup Unsettled \cup Settled]
                        /\ due' \in Seq(Messages)
           IN  /\ Enqueue(m) \/ RetryNow(m) \/ RetryLater(m) => Typed
               /\ \A status \in Settled : Settle(m, status) => Typed
<1>1. Without(due, m) \in Seq(Messages) /\ Append(Without(due, m), m) \in Seq(Messages)
  BY WithoutRange, AppendRange DEF DispatchTypeOK
<1> QED
  BY <1>1 DEF DispatchTypeOK, Enqueue, RetryNow, RetryLater, Settle, Unsettled

\* Who goes on with a dispatch has a message, and the rest of its plan.
LEMMA OldJob ==
    ASSUME DispatchTypeOK, NEW d \in Dispatchers, ~At(d, "idle")
    PROVE  /\ job[d].message \in Messages /\ job[d].first \in Messages \cup {NoMessage}
           /\ job[d].left \in Seq(Agents) /\ job[d].queued \in BOOLEAN
           /\ At(d, "rerouted") => job[d].first \in Messages
           /\ job[d] \in Jobs
BY DEF DispatchTypeOK, At, Jobs

\* A dispatcher that goes on with the rest of a plan.
LEMMA GoesOn ==
    ASSUME DispatchTypeOK, NEW d \in Dispatchers, At(d, "sending"),
           NEW left \in Seq(Agents), NEW queued \in BOOLEAN,
           job' = [job EXCEPT ![d].left = left, ![d].queued = queued]
    PROVE  LET j == [job[d] EXCEPT !.left = left, !.queued = queued]
           IN  /\ Does(d, j) /\ j \in Jobs /\ j.pc = "sending" /\ j.message = job[d].message
               /\ j.first = job[d].first /\ j.left = left /\ j.queued = queued
BY DEF DispatchTypeOK, At, Jobs, Does

\* A dispatcher that passes over the rest of a plan, or the next agent of it.
LEMMA PassesOver ==
    ASSUME DispatchTypeOK, NEW d \in Dispatchers, At(d, "sending"),
           NEW left \in Seq(Agents), job' = [job EXCEPT ![d].left = left]
    PROVE  LET j == [job[d] EXCEPT !.left = left]
           IN  /\ Does(d, j) /\ j \in Jobs /\ j.pc = "sending" /\ j.message = job[d].message
               /\ j.first = job[d].first /\ j.left = left /\ j.queued = job[d].queued
BY DEF DispatchTypeOK, At, Jobs, Does

\* A dispatcher that skips an agent goes on with the rest of the plan.
LEMMA SkipGoesOn ==
    ASSUME DispatchTypeOK, NEW d \in Dispatchers, Skip(d)
    PROVE  /\ At(d, "sending") /\ At(d, "sending")' /\ ~At(d, "idle") /\ job[d].left # <<>>
           /\ job'[d].message = job[d].message /\ job'[d].first = job[d].first
           /\ job'[d].left = Tail(job[d].left) /\ (job[d].queued => job'[d].queued)
           /\ \A e \in Dispatchers \ {d} : job'[e] = job[e]
<1>1. At(d, "sending") /\ job[d] \in Jobs /\ job \in [Dispatchers -> Jobs] /\ job[d].left # <<>>
  BY DEF Skip, DispatchTypeOK
<1>2. CASE job' = [job EXCEPT ![d].left = Tail(@)]
  BY <1>1, <1>2 DEF At, Jobs
<1>3. CASE job' = [job EXCEPT ![d].left = Tail(@), ![d].queued = TRUE]
  BY <1>1, <1>3 DEF At, Jobs
<1> QED
  BY <1>2, <1>3 DEF Skip

\* The parts of the type invariant.
RowsTyped == row \in [Messages -> {"none"} \cup Unsettled \cup Settled] /\ due \in Seq(Messages)
TodoTyped == todo \in [Sweeps -> Seq(Messages)]
JobsTyped ==
    /\ job \in [Dispatchers -> Jobs]
    /\ \A d \in Dispatchers : /\ job[d].pc # "idle" => job[d].message \in Messages
                              /\ job[d].pc = "rerouted" => job[d].first \in Messages
WorkTyped ==
    /\ live \in [Messages -> SUBSET Agents] /\ wakeups \in [Messages -> [Agents -> 0..2]]
    /\ skipped \in [Messages -> SUBSET Agents] /\ held \subseteq Messages
IssueTyped ==
    closed \in BOOLEAN /\ blockedBy \in Messages \cup {NoMessage} /\ depends \in BOOLEAN
BoundsTyped == faults \in 0..MaxFaults /\ timely \in BOOLEAN

\* The types, one variable at a time.
LEMMA TypeParts ==
    DispatchTypeOK <=> RowsTyped /\ TodoTyped /\ JobsTyped /\ WorkTyped /\ IssueTyped /\ BoundsTyped
BY DEF DispatchTypeOK, RowsTyped, TodoTyped, JobsTyped, WorkTyped, IssueTyped, BoundsTyped

\* What a step has to show for the types to hold after it.
LEMMA TypesAfter ==
    RowsTyped' /\ TodoTyped' /\ JobsTyped' /\ WorkTyped' /\ IssueTyped' /\ BoundsTyped'
        => DispatchTypeOK'
BY DEF DispatchTypeOK, RowsTyped, TodoTyped, JobsTyped, WorkTyped, IssueTyped, BoundsTyped

\* What is left alone stays typed.
LEMMA SameTypes ==
    ASSUME DispatchTypeOK
    PROVE  /\ UNCHANGED rowVars => RowsTyped'
           /\ UNCHANGED todo => TodoTyped'
           /\ UNCHANGED job => JobsTyped'
           /\ UNCHANGED workVars => WorkTyped'
           /\ UNCHANGED issueVars => IssueTyped'
           /\ UNCHANGED boundVars => BoundsTyped'
           /\ Fault => BoundsTyped'
<1>1. /\ UNCHANGED rowVars => RowsTyped'
      /\ UNCHANGED todo => TodoTyped'
      /\ UNCHANGED job => JobsTyped'
      /\ UNCHANGED workVars => WorkTyped'
  BY TypeParts DEF RowsTyped, TodoTyped, JobsTyped, WorkTyped, rowVars, workVars
<1>2. UNCHANGED issueVars => IssueTyped'
  BY TypeParts, Zenon DEF IssueTyped, issueVars
<1>3. UNCHANGED boundVars => BoundsTyped'
  BY TypeParts, Zenon DEF BoundsTyped, boundVars
<1>4. Fault => BoundsTyped'
  <2> SUFFICES ASSUME Fault PROVE BoundsTyped'
    OBVIOUS
  <2>1. faults' \in 0..MaxFaults
    BY TypeParts, BoundsAssumption DEF BoundsTyped, Fault
  <2>2. timely' \in BOOLEAN
    BY TypeParts, Zenon DEF BoundsTyped, Fault
  <2> QED
    BY <2>1, <2>2 DEF BoundsTyped
<1> QED
  BY <1>1, <1>2, <1>3, <1>4

\* A job that a dispatcher takes up, or ends.
LEMMA TakesUp ==
    ASSUME DispatchTypeOK, NEW d \in Dispatchers, NEW j \in Jobs, Does(d, j),
           j.pc # "idle" => j.message \in Messages, j.pc = "rerouted" => j.first \in Messages
    PROVE  JobsTyped'
BY DoesTypes DEF JobsTyped

-----------------------------------------------------------------------------

\* Posting and abandoning a message keep the types, ...
LEMMA TypesPost ==
    ASSUME DispatchTypeOK, NEW m \in Messages, Post(m)
    PROVE  DispatchTypeOK'
<1>1. RowsTyped'
  BY RowTypes DEF Post, RowsTyped
<1>2. JobsTyped'
  BY TakesUp, JobTypes DEF Post, Dispatchers
<1>3. IssueTyped'
  <2>1. closed' \in BOOLEAN /\ depends' \in BOOLEAN
    BY TypeParts, Zenon DEF Post, IssueTyped
  <2>2. blockedBy' \in Messages \cup {NoMessage}
    BY DEF Post
  <2> QED
    BY <2>1, <2>2 DEF IssueTyped
<1> QED
  BY <1>1, <1>2, <1>3, SameTypes, TypesAfter DEF Post

\* ... as do a reroute and its settling, ...
LEMMA TypesReroute ==
    ASSUME DispatchTypeOK, NEW d \in Dispatchers, Reroute(d)
    PROVE  DispatchTypeOK'
<1>1. job[d].message \in Messages
  BY OldJob DEF Reroute, At
<1>2. PICK r \in Reroutes[job[d].message] :
          Enqueue(r) /\ Does(d, Job("rerouted", r, job[d].message, <<>>))
  BY DEF Reroute
<1>3. r \in Messages
  BY <1>1, <1>2, ReroutesAssumption
<1>4. RowsTyped' /\ JobsTyped'
  BY <1>1, <1>2, <1>3, RowTypes, TakesUp, JobTypes DEF RowsTyped
<1> QED
  BY <1>4, SameTypes, TypesAfter DEF Reroute

\* ... what a dispatch does for one agent, ...
LEMMA TypesSend ==
    ASSUME DispatchTypeOK, NEW d \in Dispatchers,
           \/ KeepMessage(d) \/ SettleRerouted(d) \/ BlockOnDependencies(d)
           \/ Wake(d) \/ Skip(d)
    PROVE  DispatchTypeOK'
<1>1. CASE SettleRerouted(d)
  <2>1. job[d].message \in Messages /\ job[d].first \in Messages
    BY <1>1, OldJob DEF SettleRerouted, At
  <2>2. RowsTyped'
    BY <1>1, <2>1, RowTypes DEF SettleRerouted, RowsTyped, Settled, NoAction
  <2>3. JobsTyped'
    BY <1>1, <2>1, TakesUp, JobTypes DEF SettleRerouted
  <2> QED
    BY <1>1, <2>2, <2>3, SameTypes, TypesAfter DEF SettleRerouted
<1>2. CASE BlockOnDependencies(d)
  <2> USE <1>2 DEF BlockOnDependencies
  <2>1. At(d, "sending") /\ ~At(d, "idle") /\ job[d].message \in Messages
    BY OldJob DEF IsNew, At
  <2>3. JobsTyped'
    <3>1. <<>> \in Seq(Agents) /\ job' = [job EXCEPT ![d].left = <<>>]
      OBVIOUS
    <3> QED
      BY <2>1, <3>1, PassesOver, TakesUp
  <2>4. WorkTyped'
    BY <2>1, TypeParts DEF WorkTyped
  <2>5. IssueTyped'
    BY <2>1, TypeParts, Zenon DEF IssueTyped
  <2> QED
    BY <2>3, <2>4, <2>5, SameTypes, TypesAfter
<1>3. CASE Wake(d)
  <2> USE <1>3 DEF Wake
  <2>1. At(d, "sending") /\ ~At(d, "idle") /\ job[d].message \in Messages
        /\ job[d].left \in Seq(Agents) /\ job[d].left # <<>>
    BY OldJob DEF At
  <2>2. Tail(job[d].left) \in Seq(Agents) /\ Head(job[d].left) \in Agents
    BY <2>1, HeadTailProperties
  <2>3. JobsTyped'
    BY <2>1, <2>2, GoesOn, TakesUp
  <2>4. WorkTyped'
    BY <2>1, <2>2, TypeParts DEF WorkTyped
  <2> QED
    BY <2>3, <2>4, SameTypes, TypesAfter
<1>4. CASE Skip(d)
  <2>1. At(d, "sending") /\ ~At(d, "idle") /\ job[d].message \in Messages
        /\ job[d].left \in Seq(Agents) /\ job[d].left # <<>>
    BY <1>4, OldJob DEF At, Skip
  <2>2. Tail(job[d].left) \in Seq(Agents) /\ Head(job[d].left) \in Agents
    BY <2>1, HeadTailProperties
  <2>3. JobsTyped'
    <3>1. CASE job' = [job EXCEPT ![d].left = Tail(@)]
      BY <2>1, <2>2, <3>1, PassesOver, TakesUp
    <3>2. CASE job' = [job EXCEPT ![d].left = Tail(@), ![d].queued = TRUE]
      BY <2>1, <2>2, <3>2, GoesOn, TakesUp
    <3> QED
      BY <1>4, <3>1, <3>2 DEF Skip
  <2>4. WorkTyped'
    BY <1>4, <2>1, <2>2, TypeParts DEF Skip, WorkTyped
  <2> QED
    BY <1>4, <2>3, <2>4, SameTypes, TypesAfter DEF Skip
<1>5. CASE KeepMessage(d)
  <2>1. job[d].message \in Messages
    BY <1>5, OldJob DEF KeepMessage, At
  <2>2. JobsTyped'
    BY <1>5, <2>1, TakesUp, JobTypes DEF KeepMessage
  <2> QED
    BY <1>5, <2>2, SameTypes, TypesAfter DEF KeepMessage
<1> QED
  BY <1>1, <1>2, <1>3, <1>4, <1>5

\* ... how a dispatch ends, ...
LEMMA TypesEnd ==
    ASSUME DispatchTypeOK, NEW d \in Dispatchers, Throw(d) \/ Mark(d)
    PROVE  DispatchTypeOK'
<1>1. CASE Throw(d)
  <2> DEFINE m == IF At(d, "rerouted") THEN job[d].first ELSE job[d].message
  <2>1. m \in Messages
    BY <1>1, OldJob DEF Throw, At
  <2>2. RowsTyped'
    <3>1. CASE RetryLater(m) \/ RetryNow(m)
      BY <2>1, <3>1, RowTypes DEF RowsTyped
    <3>2. CASE UNCHANGED rowVars
      BY <3>2, SameTypes
    <3> QED
      BY <1>1, <3>1, <3>2 DEF Throw, Fail
  <2>3. JobsTyped'
    BY <1>1, TakesUp, JobTypes DEF Throw
  <2>4. BoundsTyped'
    BY <1>1, SameTypes DEF Throw
  <2> QED
    BY <1>1, <2>2, <2>3, <2>4, SameTypes, TypesAfter DEF Throw
<1>2. CASE Mark(d)
  <2> DEFINE m == job[d].message
  <2>1. m \in Messages
    BY <1>2, OldJob DEF Mark, At
  <2>2. RowsTyped'
    <3>1. CASE Settle(m, "dispatched") \/ Settle(m, "queued_zero")
      BY <2>1, <3>1, RowTypes DEF RowsTyped, Settled, NoAction
    <3>2. CASE UNCHANGED rowVars
      BY <3>2, SameTypes
    <3> QED
      BY <1>2, <3>1, <3>2 DEF Mark
  <2>3. JobsTyped'
    <3>1. CASE Does(d, Idle)
      BY <3>1, TakesUp, JobTypes
    <3>2. CASE Does(d, Job("marked", m, NoMessage, <<>>))
      BY <3>2, <2>1, TakesUp, JobTypes
    <3> QED
      BY <1>2, <3>1, <3>2 DEF Mark
  <2> QED
    BY <1>2, <2>2, <2>3, SameTypes, TypesAfter DEF Mark
<1> QED
  BY <1>1, <1>2

\* ... what a sweep does, ...
LEMMA TypesSweep ==
    ASSUME DispatchTypeOK, NEW s \in Sweeps, Load(s) \/ Take(s) \/ LogReconciled(s)
    PROVE  DispatchTypeOK'
<1> s \in Dispatchers
  BY DEF Dispatchers
<1>1. CASE Load(s)
  <2> DEFINE k == IF BatchSize < Len(due) THEN BatchSize ELSE Len(due)
  <2>1. due \in Seq(Messages) /\ Len(due) \in Nat /\ k \in Nat /\ k <= Len(due)
    BY BoundsAssumption, LenProperties DEF DispatchTypeOK
  <2> HIDE DEF k
  <2>2. SubSeq(due, 1, k) \in Seq(Messages)
    BY <2>1, BatchRange
  <2>3. TodoTyped'
    BY <1>1, <2>2, TypeParts DEF Load, TodoTyped, k
  <2> QED
    BY <1>1, <2>3, SameTypes, TypesAfter DEF Load
<1>2. CASE Take(s)
  <2> DEFINE m == Head(todo[s])
  <2>1. m \in Messages /\ Tail(todo[s]) \in Seq(Messages)
    BY <1>2, HeadTailProperties DEF Take, DispatchTypeOK
  <2>2. TodoTyped'
    BY <1>2, <2>1, TypeParts DEF Take, TodoTyped
  <2>3. RowsTyped'
    <3>1. CASE Settle(m, "dispatched")
      BY <2>1, <3>1, RowTypes DEF RowsTyped, Settled
    <3>2. CASE Needless(m) # "needed" /\ Settle(m, Needless(m))
      <4>1. Needless(m) \in Settled
        BY <3>2 DEF Needless, Settled, NoAction
      <4> QED
        BY <2>1, <3>2, <4>1, RowTypes DEF RowsTyped
    <3>3. CASE UNCHANGED rowVars
      BY <3>3, SameTypes
    <3> QED
      BY <1>2, <3>1, <3>2, <3>3 DEF Take
  <2>4. JobsTyped'
    <3>1. CASE Does(s, Start(m))
      BY <2>1, <3>1, TakesUp, JobTypes
    <3>2. CASE UNCHANGED job
      BY <3>2, SameTypes
    <3> QED
      BY <1>2, <3>1, <3>2 DEF Take
  <2> QED
    BY <1>2, <2>2, <2>3, <2>4, SameTypes, TypesAfter DEF Take
<1>3. CASE LogReconciled(s)
  <2>1. JobsTyped'
    BY <1>3, TakesUp, JobTypes DEF LogReconciled
  <2> QED
    BY <1>3, <2>1, SameTypes, TypesAfter DEF LogReconciled
<1> QED
  BY <1>1, <1>2, <1>3

\* ... and what happens elsewhere.
LEMMA TypesWorld ==
    ASSUME DispatchTypeOK,
           \/ \E m \in Messages : Abandon(m) \/ FallsDue(m) \/ \E a \in Agents : WorkEnds(m, a)
           \/ Cancel \/ Reopen \/ DependenciesFinish \/ Crash
    PROVE  DispatchTypeOK'
<1>1. ASSUME NEW m \in Messages, Abandon(m) PROVE DispatchTypeOK'
  <2>1. JobsTyped'
    BY <1>1, TakesUp, JobTypes DEF Abandon, Dispatchers
  <2> QED
    BY <1>1, <2>1, SameTypes, TypesAfter DEF Abandon
<1>2. ASSUME NEW m \in Messages, FallsDue(m) PROVE DispatchTypeOK'
  <2>1. RowsTyped'
    BY <1>2, AppendRange, TypeParts DEF FallsDue, RowsTyped
  <2> QED
    BY <1>2, <2>1, SameTypes, TypesAfter DEF FallsDue
<1>3. ASSUME NEW m \in Messages, NEW a \in Agents, WorkEnds(m, a) PROVE DispatchTypeOK'
  <2>1. WorkTyped'
    BY <1>3, TypeParts DEF WorkEnds, WorkTyped
  <2> QED
    BY <1>3, <2>1, SameTypes, TypesAfter DEF WorkEnds
<1>4. CASE Cancel \/ Reopen \/ DependenciesFinish
  <2>1. IssueTyped'
    BY <1>4, TypeParts, Zenon DEF Cancel, Reopen, DependenciesFinish, IssueTyped
  <2> QED
    BY <1>4, <2>1, SameTypes, TypesAfter DEF Cancel, Reopen, DependenciesFinish
<1>5. CASE Crash
  <2>1. JobsTyped'
    BY <1>5, JobTypes DEF Crash, JobsTyped
  <2>2. TodoTyped'
    BY <1>5 DEF Crash, TodoTyped
  <2> QED
    BY <1>5, <2>1, <2>2, SameTypes, TypesAfter DEF Crash
<1> QED
  BY <1>1, <1>2, <1>3, <1>4, <1>5

\* The actions of a step, by kind.
LEMMA StepKinds ==
    ASSUME DispatchNext
    PROVE  \/ \E m \in Messages : Post(m)
           \/ \E d \in Dispatchers : Reroute(d)
           \/ \E d \in Dispatchers : \/ KeepMessage(d) \/ SettleRerouted(d)
                                     \/ BlockOnDependencies(d) \/ Wake(d) \/ Skip(d)
           \/ \E d \in Dispatchers : Throw(d) \/ Mark(d)
           \/ \E s \in Sweeps : Load(s) \/ Take(s) \/ LogReconciled(s)
           \/ \E m \in Messages : Abandon(m) \/ FallsDue(m) \/ \E a \in Agents : WorkEnds(m, a)
           \/ Cancel \/ Reopen \/ DependenciesFinish \/ Crash
BY DEF DispatchNext, Dispatch, Sweep, Dispatchers

\* Every step keeps the types.
LEMMA TypesNext == DispatchTypeOK /\ [DispatchNext]_vars => DispatchTypeOK'
<1>1. ASSUME DispatchTypeOK, UNCHANGED vars PROVE DispatchTypeOK'
  BY <1>1, SameTypes, TypesAfter DEF vars
<1>2. ASSUME DispatchTypeOK, DispatchNext PROVE DispatchTypeOK'
  BY <1>2, StepKinds, TypesPost, TypesReroute, TypesSend, TypesEnd, TypesSweep, TypesWorld
<1> QED
  BY <1>1, <1>2

\* The rows of the outbox, the jobs and the issue stay in their types.
THEOREM DispatchTypesCorrect == DispatchSpec => []DispatchTypeOK
<1> QED
  BY TypesInit, TypesNext, PTL DEF DispatchSpec

-----------------------------------------------------------------------------
(* Nothing is dropped.                                                     *)

\* A wakeup on record has been counted.
Recorded == \A m \in Messages : live[m] \subseteq Woken(m)

\* Whom a dispatcher passed over on its way through a plan it has woken or counted, or could
\* not wake.
Walked ==
    \A d \in Dispatchers, m \in Messages :
        At(d, "sending") /\ job[d].message = m =>
            \/ m \in held
            \/ Range(Plan[m]) \subseteq
                  Range(job[d].left) \cup Woken(m) \cup skipped[m] \cup Unsupported

\* Something has come of a message, or nothing can.
Reached(m) == m \in held \/ Woken(m) # {} \/ Supported(m) \subseteq skipped[m]

\* A wakeup is for somebody of the plan only if it is made; it is counted.
LEMMA WakeCounts ==
    ASSUME DispatchTypeOK, NEW d \in Dispatchers, Wake(d)
    PROVE  LET m == job[d].message
               a == Head(job[d].left)
           IN  /\ m \in Messages /\ a \in Agents
               /\ \A n \in Messages :
                     /\ Woken(n)' = Woken(n) \cup (IF n = m THEN {a} ELSE {})
                     /\ live'[n] = live[n] \cup (IF n = m THEN {a} ELSE {})
               /\ held' = held /\ rowVars' = rowVars
<1> DEFINE m == job[d].message
           a == Head(job[d].left)
<1>1. At(d, "sending") /\ ~At(d, "idle") /\ job[d].left # <<>>
  BY DEF Wake, At
<1>2. m \in Messages /\ job[d].left \in Seq(Agents)
  BY <1>1, OldJob
<1>3. a \in Agents
  BY <1>1, <1>2, HeadTailProperties
<1>4. /\ wakeups' = [wakeups EXCEPT ![m][a] = IF @ < 2 THEN @ + 1 ELSE @]
      /\ live' = [live EXCEPT ![m] = @ \cup {a}] /\ held' = held /\ rowVars' = rowVars
  BY DEF Wake
<1>0. job[d].message = m /\ Head(job[d].left) = a
  OBVIOUS
<1> HIDE DEF m, a
<1>5. /\ wakeups \in [Messages -> [Agents -> 0..2]] /\ live \in [Messages -> SUBSET Agents]
  BY DEF DispatchTypeOK
<1>6. \A n \in Messages \ {m} : wakeups'[n] = wakeups[n] /\ live'[n] = live[n]
  BY <1>4, <1>5
<1>7. live'[m] = live[m] \cup {a}
  BY <1>2, <1>4, <1>5
<1>8. wakeups'[m] = [wakeups[m] EXCEPT ![a] = IF @ < 2 THEN @ + 1 ELSE @]
  BY <1>2, <1>4, <1>5
<1>9. \A b \in Agents : wakeups'[m][b] > 0 <=> wakeups[m][b] > 0 \/ b = a
  <2> TAKE b \in Agents
  <2>1. wakeups[m] \in [Agents -> 0..2] /\ wakeups[m][b] \in 0..2 /\ wakeups[m][a] \in 0..2
    BY <1>2, <1>3, <1>5
  <2>2. CASE b = a
    <3>1. wakeups'[m][a] = IF wakeups[m][a] < 2 THEN wakeups[m][a] + 1 ELSE wakeups[m][a]
      BY <1>3, <1>8, <2>1
    <3> QED
      BY <2>1, <2>2, <3>1
  <2>3. CASE b # a
    BY <1>8, <2>1, <2>3
  <2> QED
    BY <2>2, <2>3
<1>10. ASSUME NEW n \in Messages, n = m PROVE Woken(n)' = Woken(n) \cup {a}
  <2>1. \A b \in Agents : wakeups'[n][b] > 0 <=> wakeups[n][b] > 0 \/ b = a
    BY <1>9, <1>10
  <2> HIDE <1>10
  <2>2. Woken(n)' = {b \in Agents : wakeups'[n][b] > 0} /\ Woken(n) = {b \in Agents : wakeups[n][b] > 0}
    BY DEF Woken
  <2> QED
    BY <1>3, <2>1, <2>2
<1>11. \A n \in Messages \ {m} : Woken(n)' = Woken(n)
  BY <1>6 DEF Woken
<1> QED
  BY <1>0, <1>2, <1>3, <1>4, <1>6, <1>7, <1>10, <1>11

\* Who has been woken stays so, and only a wakeup adds to it.
LEMMA WorkSteps ==
    ASSUME DispatchTypeOK, DispatchNext
    PROVE  /\ held \subseteq held' /\ \A m \in Messages : skipped[m] \subseteq skipped'[m]
           /\ \/ \E d \in Dispatchers : Wake(d)
              \/ wakeups' = wakeups /\ \A m \in Messages : live'[m] \subseteq live[m]
<1>1. CASE \E m \in Messages : Post(m) \/ Abandon(m) \/ FallsDue(m)
  BY <1>1 DEF Post, Abandon, FallsDue, workVars
<1>2. ASSUME NEW m \in Messages, NEW a \in Agents, WorkEnds(m, a)
      PROVE  held' = held /\ skipped' = skipped /\ wakeups' = wakeups
             /\ \A n \in Messages : live'[n] \subseteq live[n]
  BY <1>2 DEF WorkEnds, DispatchTypeOK
<1>3. CASE \E d \in Dispatchers : \/ Reroute(d) \/ KeepMessage(d) \/ SettleRerouted(d)
                                  \/ Throw(d) \/ Mark(d)
  BY <1>3 DEF Reroute, KeepMessage, SettleRerouted, Throw, Mark, workVars
<1>8. ASSUME NEW d \in Dispatchers, Skip(d)
      PROVE  held' = held /\ wakeups' = wakeups /\ live' = live
             /\ \A m \in Messages : skipped[m] \subseteq skipped'[m]
  BY <1>8 DEF Skip, DispatchTypeOK
<1>4. CASE \E d \in Dispatchers : BlockOnDependencies(d)
  BY <1>4 DEF BlockOnDependencies
<1>5. CASE \E d \in Dispatchers : Wake(d)
  BY <1>5 DEF Wake
<1>6. CASE \E s \in Sweeps : Load(s) \/ Take(s) \/ LogReconciled(s)
  BY <1>6 DEF Load, Take, LogReconciled, workVars
<1>7. CASE Cancel \/ Reopen \/ DependenciesFinish \/ Crash
  BY <1>7 DEF Cancel, Reopen, DependenciesFinish, Crash, workVars
<1> QED
  BY <1>1, <1>2, <1>3, <1>4, <1>5, <1>6, <1>7, <1>8, StepKinds

\* What a dispatch has reached stays reached.
LEMMA ReachedStays ==
    ASSUME DispatchTypeOK, DispatchNext, NEW m \in Messages
    PROVE  Woken(m) \subseteq Woken(m)' /\ (Reached(m) => Reached(m)')
<1>1. Woken(m) \subseteq Woken(m)'
  <2>1. CASE \E d \in Dispatchers : Wake(d)
    BY <2>1, WakeCounts
  <2>2. CASE wakeups' = wakeups
    BY <2>2 DEF Woken
  <2> QED
    BY <2>1, <2>2, WorkSteps
<1> QED
  BY <1>1, WorkSteps DEF Reached, Supported

\* Every step keeps Recorded.
LEMMA RecordedNext ==
    ASSUME DispatchTypeOK, Recorded, DispatchNext
    PROVE  Recorded'
<1>1. ASSUME NEW d \in Dispatchers, Wake(d) PROVE Recorded'
  <2> SUFFICES ASSUME NEW m \in Messages PROVE live'[m] \subseteq Woken(m)'
    BY DEF Recorded
  <2> QED
    BY <1>1, WakeCounts DEF Recorded
<1>2. CASE wakeups' = wakeups /\ \A m \in Messages : live'[m] \subseteq live[m]
  BY <1>2 DEF Recorded, Woken
<1> QED
  BY <1>1, <1>2, WorkSteps

\* Whatever a step does to a job, it is over, new, or goes on, unless it is a reroute.
LEMMA JobSteps ==
    ASSUME DispatchTypeOK, DispatchNext,
           NEW d \in Dispatchers, At(d, "sending")' \/ At(d, "deciding")'
    PROVE  \/ job'[d] = job[d]
           \/ \E m \in Messages :
                 /\ job'[d].message = m /\ live' = live
                 /\ At(d, "sending")' => job'[d].left = Plan[m]
                 /\ \/ row[m] = "none" \/ live[m] = {}
                    \/ (At(d, "rerouted") \/ At(d, "deciding")) /\ job[d].message = m
           \/ /\ At(d, "sending") /\ At(d, "sending")' /\ job'[d].message = job[d].message
              /\ \/ BlockOnDependencies(d) /\ job'[d].left = <<>>
                 \/ Wake(d) /\ job'[d].left = Tail(job[d].left)
                 \/ Skip(d) /\ job'[d].left = Tail(job[d].left)
<1>0. job'[d].pc \in {"sending", "deciding"} /\ Idle.pc \notin {"sending", "deciding"}
  BY JobTypes DEF At
<1>1. ASSUME NEW e \in Dispatchers, NEW j \in Jobs, Does(e, j), job'[d] # job[d] PROVE e = d /\ job'[d] = j
  BY <1>1 DEF Does, DispatchTypeOK
<1>2. ASSUME NEW m \in Messages, Post(m)
      PROVE  job'[d] = job[d] \/ (job'[d] = Start(m) /\ live' = live /\ row[m] = "none")
  BY <1>1, <1>2, JobTypes DEF Post, Dispatchers, workVars
<1>3. ASSUME NEW e \in Dispatchers, Reroute(e) PROVE job'[d] = job[d]
  <2>1. job[e].message \in Messages
    BY <1>3, OldJob DEF Reroute, At
  <2>2. PICK r \in Reroutes[job[e].message] : Does(e, Job("rerouted", r, job[e].message, <<>>))
    BY <1>3 DEF Reroute
  <2>3. r \in Messages
    BY <2>1, <2>2, ReroutesAssumption
  <2>4. Job("rerouted", r, job[e].message, <<>>) \in Jobs
        /\ Job("rerouted", r, job[e].message, <<>>).pc = "rerouted"
    BY <2>1, <2>3, JobTypes
  <2> QED
    BY <1>0, <1>1, <2>2, <2>4
<1>4. ASSUME NEW e \in Dispatchers, SettleRerouted(e)
      PROVE  job'[d] = job[d]
                \/ \E m \in Messages : /\ job'[d].message = m /\ job'[d].left = Plan[m] /\ live' = live
                                       /\ At(d, "rerouted") /\ job[d].message = m
  <2>1. job[e].message \in Messages /\ job[e].first \in Messages
    BY <1>4, OldJob DEF SettleRerouted, At
  <2>2. job'[d] = job[d] \/ (e = d /\ job'[d] = Sending(job[e].message, job[e].first))
    BY <1>1, <1>4, <2>1, JobTypes DEF SettleRerouted
  <2> QED
    BY <1>4, <2>1, <2>2, JobTypes DEF SettleRerouted, workVars
<1>5. ASSUME NEW e \in Dispatchers, BlockOnDependencies(e)
      PROVE  job'[d] = job[d] \/ (e = d /\ At(d, "sending") /\ At(d, "sending")'
                                  /\ job'[d].message = job[d].message /\ job'[d].left = <<>>)
  BY <1>5, OldJob DEF BlockOnDependencies, IsNew, DispatchTypeOK, At, Jobs
<1>6. ASSUME NEW e \in Dispatchers, Wake(e)
      PROVE  job'[d] = job[d] \/ (e = d /\ At(d, "sending") /\ At(d, "sending")'
                                  /\ job'[d].message = job[d].message /\ job'[d].left = Tail(job[d].left))
  BY <1>6, OldJob DEF Wake, DispatchTypeOK, At, Jobs
<1>7. ASSUME NEW e \in Dispatchers, Skip(e)
      PROVE  job'[d] = job[d] \/ (e = d /\ At(d, "sending") /\ At(d, "sending")'
                                  /\ job'[d].message = job[d].message /\ job'[d].left = Tail(job[d].left))
  BY <1>7, SkipGoesOn
<1>8. ASSUME NEW e \in Dispatchers, Does(e, Idle) PROVE job'[d] = job[d]
  BY <1>0, <1>1, <1>8, JobTypes
<1>9. ASSUME NEW e \in Dispatchers, Throw(e) \/ Mark(e) PROVE job'[d] = job[d]
  <2>1. CASE Does(e, Idle)
    BY <1>8, <2>1
  <2>2. CASE ~At(e, "idle") /\ Does(e, Job("marked", job[e].message, NoMessage, <<>>))
    <3>1. /\ Job("marked", job[e].message, NoMessage, <<>>) \in Jobs
          /\ Job("marked", job[e].message, NoMessage, <<>>).pc = "marked"
      BY <2>2, OldJob, JobTypes
    <3> QED
      BY <1>0, <1>1, <2>2, <3>1
  <2> QED
    BY <1>9, <2>1, <2>2 DEF Throw, Mark, At
<1>10. ASSUME NEW s \in Sweeps, Load(s) \/ Take(s) \/ LogReconciled(s)
       PROVE  job'[d] = job[d] \/ \E m \in Messages : job'[d] = Start(m) /\ live' = live /\ live[m] = {}
  <2>1. CASE Load(s)
    BY <2>1 DEF Load
  <2>2. CASE Take(s)
    <3>1. Head(todo[s]) \in Messages
      BY <2>2, HeadTailProperties DEF Take, DispatchTypeOK
    <3> QED
      BY <1>1, <2>2, <3>1, JobTypes DEF Take, Dispatchers, HasEvidence, workVars
  <2>3. CASE LogReconciled(s)
    BY <1>8, <2>3 DEF LogReconciled, Dispatchers
  <2> QED
    BY <1>10, <2>1, <2>2, <2>3
<1>11. ASSUME NEW m \in Messages, Abandon(m) \/ FallsDue(m) \/ \E a \in Agents : WorkEnds(m, a)
       PROVE  job'[d] = job[d]
  BY <1>8, <1>11 DEF Abandon, FallsDue, WorkEnds, Dispatchers
<1>12. CASE Cancel \/ Reopen \/ DependenciesFinish
  BY <1>12 DEF Cancel, Reopen, DependenciesFinish
<1>13. ~Crash
  BY <1>0 DEF Crash
<1>14. ASSUME NEW m \in Messages, job'[d] = Start(m)
       PROVE  job'[d].message = m /\ (At(d, "sending")' => job'[d].left = Plan[m])
  BY <1>14, JobTypes DEF At
<1>15. ASSUME NEW e \in Dispatchers, KeepMessage(e)
       PROVE  job'[d] = job[d]
                 \/ \E m \in Messages : /\ job'[d].message = m /\ job'[d].left = Plan[m] /\ live' = live
                                        /\ At(d, "deciding") /\ job[d].message = m
  <2>1. job[e].message \in Messages
    BY <1>15, OldJob DEF KeepMessage, At
  <2>2. job'[d] = job[d] \/ (e = d /\ job'[d] = Sending(job[e].message, NoMessage))
    BY <1>1, <1>15, <2>1, JobTypes DEF KeepMessage
  <2> QED
    BY <1>15, <2>1, <2>2, JobTypes DEF KeepMessage, workVars
<1> QED
  BY <1>15, <1>2, <1>3, <1>4, <1>5, <1>6, <1>7, <1>9, <1>10, <1>11, <1>12, <1>13, <1>14, StepKinds

\* Every step keeps Walked.
LEMMA WalkedNext ==
    ASSUME DispatchTypeOK, Walked, DispatchNext
    PROVE  Walked'
<1> SUFFICES ASSUME NEW d \in Dispatchers, NEW m \in Messages, At(d, "sending")', job'[d].message = m,
                    m \notin held'
             PROVE  Range(Plan[m]) \subseteq
                        Range(job'[d].left) \cup Woken(m)' \cup skipped'[m] \cup Unsupported
  BY DEF Walked
<1>0. m \notin held /\ Woken(m) \subseteq Woken(m)' /\ skipped[m] \subseteq skipped'[m]
  BY ReachedStays, WorkSteps
<1>1. CASE job'[d] = job[d]
  <2>1. At(d, "sending") /\ job[d].message = m
    BY <1>1 DEF At
  <2> QED
    BY <1>0, <1>1, <2>1 DEF Walked
<1>2. CASE \E n \in Messages : job'[d].message = n /\ job'[d].left = Plan[n]
  BY <1>2
<1>3. CASE BlockOnDependencies(d) /\ job'[d].message = job[d].message
  BY <1>3 DEF BlockOnDependencies
<1>4. CASE /\ At(d, "sending") /\ job'[d].message = job[d].message
           /\ Wake(d) \/ Skip(d)
           /\ job'[d].left = Tail(job[d].left)
  <2> DEFINE left == job[d].left
  <2>1. ~At(d, "idle") /\ left # <<>> /\ job[d].message = m
    BY <1>4 DEF Wake, Skip, At
  <2>2. left \in Seq(Agents)
    BY <2>1, OldJob
  <2>3. Head(left) \in Woken(m)' \cup skipped'[m] \cup Unsupported
    <3>1. CASE Wake(d)
      BY <2>1, <3>1, WakeCounts
    <3>2. CASE Skip(d)
      <4>1. /\ skipped \in [Messages -> SUBSET Agents]
            /\ \/ Head(left) \in Unsupported
               \/ skipped' = [skipped EXCEPT ![m] = @ \cup {Head(left)}]
        BY <2>1, <3>2 DEF Skip, DispatchTypeOK
      <4> QED
        BY <4>1
    <3> QED
      BY <1>4, <3>1, <3>2
  <2>4. Range(Plan[m]) \subseteq Range(left) \cup Woken(m) \cup skipped[m] \cup Unsupported
    BY <1>0, <1>4, <2>1 DEF Walked
  <2>5. job'[d].left = Tail(left)
    BY <1>4
  <2> HIDE DEF left
  <2>6. Range(left) = {Head(left)} \cup Range(Tail(left))
    BY <2>1, <2>2, TailRange
  <2> QED
    BY <1>0, <2>3, <2>4, <2>5, <2>6
<1> QED
  BY <1>1, <1>2, <1>3, <1>4, JobSteps

-----------------------------------------------------------------------------

\* Why rows are settled.
Excused == {"terminal_issue", "blocked_by_same_message", "rerouted_before_retrieval"}

\* What the operations of the outbox do to a row.
LEMMA RowOf ==
    ASSUME DispatchTypeOK, NEW m \in Messages, NEW n \in Messages
    PROVE  /\ Enqueue(m) \/ RetryNow(m) \/ RetryLater(m) => row'[n] = row[n] \/ row'[n] \in Unsettled
           /\ \A status : Settle(m, status) => row'[n] = row[n] \/ (n = m /\ row'[n] = status)
BY DEF DispatchTypeOK, Enqueue, RetryNow, RetryLater, Settle, Unsettled

\* A row is settled for a reason.
LEMMA RowSteps ==
    ASSUME DispatchTypeOK, Recorded, Walked, DispatchNext, NEW n \in Messages
    PROVE  row'[n] = row[n] \/ row'[n] \in Unsettled \cup Excused \/ Reached(n)
<1>1. CASE \E m \in Messages : Post(m)
  BY <1>1, RowOf DEF Post
<1>2. ASSUME NEW d \in Dispatchers, Reroute(d) PROVE row'[n] = row[n] \/ row'[n] \in Unsettled
  <2>1. job[d].message \in Messages
    BY <1>2, OldJob DEF Reroute, At
  <2> QED
    BY <1>2, <2>1, RowOf, ReroutesAssumption DEF Reroute
<1>3. ASSUME NEW d \in Dispatchers, SettleRerouted(d)
      PROVE  row'[n] = row[n] \/ row'[n] \in Excused
  <2>1. job[d].first \in Messages
    BY <1>3, OldJob DEF SettleRerouted, At
  <2> QED
    BY <1>3, <2>1, RowOf DEF SettleRerouted, Excused
<1>4. CASE \E d \in Dispatchers : KeepMessage(d) \/ BlockOnDependencies(d) \/ Wake(d) \/ Skip(d)
  BY <1>4 DEF KeepMessage, BlockOnDependencies, Wake, Skip, rowVars
<1>5. ASSUME NEW d \in Dispatchers, Throw(d)
      PROVE  row'[n] = row[n] \/ row'[n] \in Unsettled
  <2> DEFINE m == IF At(d, "rerouted") THEN job[d].first ELSE job[d].message
  <2>1. m \in Messages
    BY <1>5, OldJob DEF Throw, At
  <2> QED
    BY <1>5, <2>1, RowOf DEF Throw, Fail, rowVars
<1>6. ASSUME NEW d \in Dispatchers, Mark(d)
      PROVE  row'[n] = row[n] \/ Reached(n)
  <2> DEFINE m == job[d].message
  <2>1. At(d, "sending") /\ ~At(d, "idle") /\ job[d].left = <<>>
    BY <1>6 DEF Mark, At
  <2>2. m \in Messages /\ Range(<<>>) = {}
    BY <2>1, OldJob DEF Range
  <2>3. m \in held \/ Range(Plan[m]) \subseteq Woken(m) \cup skipped[m] \cup Unsupported
    BY <2>1, <2>2 DEF Walked
  <2>4. Reached(m)
    BY <2>3 DEF Reached, Supported
  <2>5. row'[n] = row[n] \/ n = m
    BY <1>6, <2>2, RowOf DEF Mark, rowVars
  <2> QED
    BY <2>4, <2>5
<1>7. ASSUME NEW s \in Sweeps, Take(s)
      PROVE  row'[n] = row[n] \/ row'[n] \in Excused \/ Reached(n)
  <2> DEFINE m == Head(todo[s])
  <2>1. m \in Messages
    BY <1>7, HeadTailProperties DEF Take, DispatchTypeOK
  <2>2. CASE HasEvidence(m) /\ Settle(m, "dispatched")
    BY <2>1, <2>2, RowOf DEF HasEvidence, Recorded, Reached
  <2>3. CASE Needless(m) # "needed" /\ Settle(m, Needless(m))
    <3>1. Needless(m) \in Excused \/ Plan[m] = <<>>
      BY <2>3 DEF Needless, Excused
    <3>2. Plan[m] = <<>> => Reached(m)
      BY DEF Reached, Supported, Range
    <3> QED
      BY <2>1, <2>3, <3>1, <3>2, RowOf
  <2> QED
    BY <1>7, <2>2, <2>3 DEF Take, rowVars
<1>8. CASE \E s \in Sweeps : Load(s) \/ LogReconciled(s)
  BY <1>8 DEF Load, LogReconciled, rowVars
<1>9. CASE \E m \in Messages : Abandon(m) \/ FallsDue(m) \/ \E a \in Agents : WorkEnds(m, a)
  BY <1>9 DEF Abandon, FallsDue, WorkEnds, rowVars
<1>10. CASE Cancel \/ Reopen \/ DependenciesFinish \/ Crash
  BY <1>10 DEF Cancel, Reopen, DependenciesFinish, Crash, rowVars
<1> QED
  BY <1>1, <1>2, <1>3, <1>4, <1>5, <1>6, <1>7, <1>8, <1>9, <1>10, StepKinds

\* No step settles a row that wakes nobody without a reason.
LEMMA NothingIsDroppedNext ==
    ASSUME DispatchTypeOK, Recorded, Walked, NothingIsDropped, DispatchNext
    PROVE  NothingIsDropped'
<1> SUFFICES ASSUME NEW m \in Messages, row'[m] \in Settled, row'[m] \notin Excused
             PROVE  Reached(m)'
  BY DEF NothingIsDropped, Reached, Excused
<1>1. CASE row'[m] = row[m]
  <2>1. Reached(m)
    BY <1>1 DEF NothingIsDropped, Reached, Excused
  <2> QED
    BY <2>1, ReachedStays
<1>2. CASE row'[m] # row[m]
  <2>1. row'[m] \notin Unsettled
    BY DEF Settled, NoAction, Unsettled
  <2>2. Reached(m)
    BY <1>2, <2>1, RowSteps
  <2> QED
    BY <2>2, ReachedStays
<1> QED
  BY <1>1, <1>2

\* The inductive invariant.
DispatchInvariant == DispatchTypeOK /\ Recorded /\ Walked /\ NothingIsDropped

\* The invariant holds at first...
LEMMA DispatchInvariantInit == DispatchInit => DispatchInvariant
<1> SUFFICES ASSUME DispatchInit PROVE DispatchInvariant
  OBVIOUS
<1>1. Recorded
  BY DEF DispatchInit, Recorded
<1>2. Walked
  BY JobTypes DEF DispatchInit, Walked, At
<1>3. NothingIsDropped
  BY DEF DispatchInit, NothingIsDropped, Settled, NoAction
<1> QED
  BY <1>1, <1>2, <1>3, TypesInit DEF DispatchInvariant

\* ... and every step keeps it.
LEMMA DispatchInvariantNext == DispatchInvariant /\ [DispatchNext]_vars => DispatchInvariant'
<1>1. ASSUME DispatchInvariant, DispatchNext PROVE DispatchInvariant'
  BY <1>1, TypesNext, RecordedNext, WalkedNext, NothingIsDroppedNext DEF DispatchInvariant
<1>2. ASSUME DispatchInvariant, UNCHANGED vars PROVE DispatchInvariant'
  <2>1. DispatchTypeOK'
    BY <1>2, TypesNext DEF DispatchInvariant
  <2>2. Recorded' /\ Walked' /\ NothingIsDropped'
    BY <1>2 DEF DispatchInvariant, vars, rowVars, workVars, Recorded, Walked, NothingIsDropped,
                Woken, Supported, At
  <2> QED
    BY <2>1, <2>2 DEF DispatchInvariant
<1> QED
  BY <1>1, <1>2

\* No row is settled without a wakeup, but for the reasons that the property names.
THEOREM NothingIsEverDropped == DispatchSpec => []NothingIsDropped
<1>1. DispatchInvariant => NothingIsDropped
  BY DEF DispatchInvariant
<1> QED
  BY <1>1, DispatchInvariantInit, DispatchInvariantNext, PTL DEF DispatchSpec

-----------------------------------------------------------------------------
(* In time, nobody is woken twice at once.                                 *)

IsAbout(d, m) == job[d].message = m \/ job[d].first = m

IdleIsFree == \A d \in Dispatchers, m \in Messages : At(d, "idle") => ~IsAbout(d, m)

\* A message is one dispatcher's business at a time.
OneEach == \A d, e \in Dispatchers, m \in Messages : IsAbout(d, m) /\ IsAbout(e, m) => d = e

\* Nothing is known of a message before it is posted.
NoneBefore ==
    \A m \in Messages :
        row[m] = "none" => /\ live[m] = {} /\ m \notin Range(due)
                           /\ \A s \in Sweeps : m \notin Range(todo[s])
                           /\ \A d \in Dispatchers : ~IsAbout(d, m)

DueOnce == IsDistinct(due) /\ \A s \in Sweeps : IsDistinct(todo[s])

InTurn == \A s, z \in Sweeps : IsSweeping(s) /\ IsSweeping(z) => s = z

\* Sweeps come to a message only when who posted it is done with it.
Loaded ==
    \A m \in Messages, s \in Sweeps :
        /\ m \in Range(due) \cup Range(todo[s]) => \A d \in Messages : ~IsAbout(d, m)
        /\ m \in Range(todo[s]) => ~IsAbout(s, m)

\* Whom a dispatcher has yet to wake has no work on record for the message.
Fresh ==
    \A d \in Dispatchers, m \in Messages :
        job[d].message = m =>
            /\ At(d, "sending") => IsDistinct(job[d].left) /\ Range(job[d].left) \cap live[m] = {}
            /\ At(d, "deciding") \/ At(d, "rerouted") => live[m] = {}

InTime == IdleIsFree /\ OneEach /\ NoneBefore /\ DueOnce /\ InTurn /\ Loaded /\ Fresh

\* A dispatcher becomes about a message when it is posted, or from a sweep's list.
Claim(d, m) ==
    \/ /\ row[m] = "none" /\ row'[m] # "none" /\ due' = due /\ todo' = todo
       /\ d \in Messages \/ ~At(d, "idle")
    \/ /\ d \in Sweeps /\ At(d, "idle") /\ todo[d] # <<>> /\ m = Head(todo[d])
       /\ todo' = [todo EXCEPT ![d] = Tail(@)]

\* Which dispatcher is about what, before and after a step.
LEMMA ClaimSteps ==
    ASSUME DispatchTypeOK, DispatchNext
    PROVE  \/ \A d \in Dispatchers, m \in Messages : IsAbout(d, m)' => IsAbout(d, m)
           \/ \E d \in Dispatchers, m \in Messages :
                 /\ Claim(d, m)
                 /\ \A e \in Dispatchers, n \in Messages :
                       IsAbout(e, n)' => IsAbout(e, n) \/ (e = d /\ n = m)
<1> DEFINE Kept == \A d \in Dispatchers, m \in Messages : IsAbout(d, m)' => IsAbout(d, m)
           Claims(d, m) == /\ Claim(d, m)
                           /\ \A e \in Dispatchers, n \in Messages :
                                 IsAbout(e, n)' => IsAbout(e, n) \/ (e = d /\ n = m)
<1>0. ASSUME NEW d \in Dispatchers, NEW j \in Jobs, Does(d, j) PROVE
          \A e \in Dispatchers : job'[e] = IF e = d THEN j ELSE job[e]
  BY <1>0 DEF Does, DispatchTypeOK
<1>1. ASSUME NEW d \in Dispatchers, Does(d, Idle) PROVE Kept
  BY <1>0, <1>1, JobTypes, MessagesAssumption DEF IsAbout
<1>2. ASSUME job' = job PROVE Kept
  BY <1>2 DEF IsAbout
<1>3. ASSUME NEW m \in Messages, Post(m) PROVE Claims(m, m)
  <2>1. Claim(m, m)
    BY <1>3 DEF Post, Claim, Enqueue, DispatchTypeOK
  <2>2. m \in Dispatchers /\ Start(m) \in Jobs /\ Start(m).message = m /\ Start(m).first = NoMessage
    BY JobTypes DEF Dispatchers
  <2>3. \A e \in Dispatchers : job'[e] = IF e = m THEN Start(m) ELSE job[e]
    BY <1>0, <1>3, <2>2 DEF Post
  <2> QED
    BY <2>1, <2>2, <2>3, MessagesAssumption DEF IsAbout
<1>4. ASSUME NEW d \in Dispatchers, Reroute(d) PROVE \E r \in Messages : Claims(d, r)
  <2> DEFINE m == job[d].message
  <2>1. m \in Messages
    BY <1>4, OldJob DEF Reroute, At
  <2>2. PICK r \in Reroutes[m] : row[r] = "none" /\ Enqueue(r) /\ Does(d, Job("rerouted", r, m, <<>>))
    BY <1>4 DEF Reroute
  <2>3. r \in Messages
    BY <2>1, <2>2, ReroutesAssumption
  <2>4. Claim(d, r)
    BY <1>4, <2>2, <2>3 DEF Reroute, Claim, Enqueue, At, DispatchTypeOK
  <2> DEFINE j == Job("rerouted", r, m, <<>>)
  <2>5. j \in Jobs /\ j.message = r /\ j.first = m
    BY <2>1, <2>3, JobTypes
  <2>6. \A e \in Dispatchers : job'[e] = IF e = d THEN j ELSE job[e]
    BY <1>0, <2>2, <2>5
  <2> HIDE DEF j
  <2>7. ASSUME NEW e \in Dispatchers, NEW n \in Messages, IsAbout(e, n)'
        PROVE  IsAbout(e, n) \/ (e = d /\ n = r)
    BY <2>5, <2>6, <2>7 DEF IsAbout
  <2> QED
    BY <2>3, <2>4, <2>7
<1>5. ASSUME NEW d \in Dispatchers, SettleRerouted(d) PROVE Kept
  <2>1. job[d].message \in Messages /\ job[d].first \in Messages
    BY <1>5, OldJob DEF SettleRerouted, At
  <2> DEFINE j == Sending(job[d].message, job[d].first)
  <2>2. j \in Jobs /\ j.message = job[d].message /\ j.first = job[d].first
    BY <2>1, JobTypes
  <2>3. \A e \in Dispatchers : job'[e] = IF e = d THEN j ELSE job[e]
    BY <1>0, <1>5, <2>2 DEF SettleRerouted
  <2> HIDE DEF j
  <2> QED
    BY <2>2, <2>3 DEF IsAbout
<1>18. ASSUME NEW d \in Dispatchers, KeepMessage(d) PROVE Kept
  <2>1. job[d].message \in Messages
    BY <1>18, OldJob DEF KeepMessage, At
  <2> DEFINE j == Sending(job[d].message, NoMessage)
  <2>2. j \in Jobs /\ j.message = job[d].message /\ j.first = NoMessage
    BY <2>1, JobTypes
  <2>3. \A e \in Dispatchers : job'[e] = IF e = d THEN j ELSE job[e]
    BY <1>0, <1>18, <2>2 DEF KeepMessage
  <2> HIDE DEF j
  <2> QED
    BY <2>2, <2>3, MessagesAssumption DEF IsAbout
<1>6. ASSUME NEW d \in Dispatchers, BlockOnDependencies(d) \/ Wake(d) \/ Skip(d) PROVE Kept
  <2>1. \A e \in Dispatchers : job'[e].message = job[e].message /\ job'[e].first = job[e].first
    <3>1. CASE BlockOnDependencies(d)
      BY <3>1 DEF BlockOnDependencies, DispatchTypeOK, Jobs
    <3>2. CASE Wake(d)
      BY <3>2 DEF Wake, DispatchTypeOK, Jobs
    <3>3. CASE Skip(d)
      BY <3>3, SkipGoesOn
    <3> QED
      BY <1>6, <3>1, <3>2, <3>3
  <2> QED
    BY <2>1 DEF IsAbout
<1>7. ASSUME NEW d \in Dispatchers, Throw(d) \/ Mark(d) PROVE Kept
  <2>1. CASE ~At(d, "idle") /\ Does(d, Job("marked", job[d].message, NoMessage, <<>>))
    <3> DEFINE j == Job("marked", job[d].message, NoMessage, <<>>)
    <3>1. j \in Jobs /\ j.message = job[d].message /\ j.first = NoMessage
      BY <2>1, OldJob, JobTypes
    <3>2. \A e \in Dispatchers : job'[e] = IF e = d THEN j ELSE job[e]
      BY <1>0, <2>1, <3>1
    <3> HIDE DEF j
    <3> QED
      BY <3>1, <3>2, MessagesAssumption DEF IsAbout
  <2> QED
    BY <1>1, <1>7, <2>1 DEF Throw, Mark, At
<1>8. ASSUME NEW s \in Sweeps, Take(s) PROVE Kept \/ \E m \in Messages : Claims(s, m)
  <2> DEFINE m == Head(todo[s])
  <2>1. m \in Messages
    BY <1>8, HeadTailProperties DEF Take, DispatchTypeOK
  <2>2. CASE job' = job
    BY <1>2, <2>2
  <2>3. CASE Does(s, Start(m))
    <3>1. Claim(s, m)
      BY <1>8 DEF Take, Claim
    <3>2. s \in Dispatchers /\ Start(m) \in Jobs /\ Start(m).message = m /\ Start(m).first = NoMessage
      BY <2>1, JobTypes DEF Dispatchers
    <3>3. \A e \in Dispatchers : job'[e] = IF e = s THEN Start(m) ELSE job[e]
      BY <1>0, <2>3, <3>2
    <3> HIDE DEF m
    <3>4. ASSUME NEW e \in Dispatchers, NEW n \in Messages, IsAbout(e, n)'
          PROVE  IsAbout(e, n) \/ (e = s /\ n = m)
      BY <3>2, <3>3, <3>4, MessagesAssumption DEF IsAbout
    <3> QED
      BY <2>1, <3>1, <3>4
  <2> QED
    BY <1>8, <2>2, <2>3 DEF Take
<1>9. ASSUME NEW s \in Sweeps, Load(s) \/ LogReconciled(s) PROVE Kept
  BY <1>1, <1>2, <1>9 DEF Load, LogReconciled, Dispatchers
<1>10. ASSUME NEW m \in Messages, Abandon(m) \/ FallsDue(m) \/ \E a \in Agents : WorkEnds(m, a) PROVE Kept
  BY <1>1, <1>2, <1>10 DEF Abandon, FallsDue, WorkEnds, Dispatchers
<1>11. ASSUME Cancel \/ Reopen \/ DependenciesFinish PROVE Kept
  BY <1>2, <1>11 DEF Cancel, Reopen, DependenciesFinish
<1>12. ASSUME Crash PROVE Kept
  BY <1>12, JobTypes, MessagesAssumption DEF Crash, IsAbout
<1> DEFINE Goal == Kept \/ \E d \in Dispatchers, m \in Messages : Claims(d, m)
<1> HIDE DEF Kept, Claims
<1>13. ASSUME \E m \in Messages : Post(m) PROVE Goal
  BY <1>3, <1>13 DEF Dispatchers
<1>14. ASSUME \E d \in Dispatchers : Reroute(d) PROVE Goal
  BY <1>4, <1>14
<1>15. ASSUME \E s \in Sweeps : Take(s) PROVE Goal
  BY <1>8, <1>15 DEF Dispatchers
<1>16. Kept => Goal
  OBVIOUS
<1>17. Goal
  <2> HIDE DEF Goal
  <2>1. CASE \E d \in Dispatchers : \/ KeepMessage(d) \/ SettleRerouted(d)
                                    \/ BlockOnDependencies(d) \/ Wake(d) \/ Skip(d)
    BY <1>5, <1>6, <1>16, <1>18, <2>1
  <2>2. CASE \E d \in Dispatchers : Throw(d) \/ Mark(d)
    BY <1>7, <1>16, <2>2
  <2>3. CASE \E s \in Sweeps : Load(s) \/ Take(s) \/ LogReconciled(s)
    BY <1>9, <1>15, <1>16, <2>3
  <2>4. CASE \E m \in Messages : Abandon(m) \/ FallsDue(m) \/ \E a \in Agents : WorkEnds(m, a)
    BY <1>10, <1>16, <2>4
  <2>5. CASE Cancel \/ Reopen \/ DependenciesFinish \/ Crash
    BY <1>11, <1>12, <1>16, <2>5
  <2> QED
    BY <1>13, <1>14, <2>1, <2>2, <2>3, <2>4, <2>5, StepKinds
<1> QED
  BY <1>17 DEF Kept, Claims

\* What falls due: nothing, a row of somebody who is done with it, or one to try again.
LEMMA DueSteps ==
    ASSUME DispatchTypeOK, IsDistinct(due), DispatchNext
    PROVE  /\ IsDistinct(due')
           /\ \/ Range(due') \subseteq Range(due)
              \/ \E m \in Messages :
                    /\ Range(due') = Range(due) \cup {m} /\ todo' = todo
                    /\ \/ /\ row[m] # "none" /\ job' = job
                          /\ timely => \A d \in Dispatchers : ~IsAbout(d, m)
                       \/ \E d \in Messages : IsAbout(d, m) /\ job'[d] = Idle
<1>0. due \in Seq(Messages)
  BY DEF DispatchTypeOK
<1>1. CASE due' = due
  BY <1>1
<1>2. ASSUME NEW m, due' = Without(due, m) PROVE IsDistinct(due') /\ Range(due') \subseteq Range(due)
  BY <1>0, <1>2, WithoutRange
<1>3. ASSUME NEW m \in Messages, due' = Append(Without(due, m), m)
      PROVE  IsDistinct(due') /\ Range(due') = Range(due) \cup {m}
  <2> DEFINE w == Without(due, m)
  <2>1. w \in Seq(Messages) /\ IsDistinct(w) /\ Range(w) = Range(due) \ {m}
    BY <1>0, WithoutRange
  <2>2. due' = Append(w, m)
    BY <1>3
  <2> HIDE DEF w
  <2> QED
    BY <2>1, <2>2, AppendRange
<1>4. ASSUME NEW m \in Messages, FallsDue(m)
      PROVE  /\ IsDistinct(due') /\ Range(due') = Range(due) \cup {m} /\ todo' = todo
             /\ row[m] # "none" /\ job' = job /\ (timely => \A d \in Dispatchers : ~IsAbout(d, m))
  <2>1. IsDistinct(due') /\ Range(due') = Range(due) \cup {m}
    BY <1>0, <1>4, AppendRange DEF FallsDue
  <2>2. timely => \A d \in Dispatchers : ~IsAbout(d, m)
    BY <1>4 DEF FallsDue, IsBusyWith, IsAbout
  <2> QED
    BY <1>4, <2>1, <2>2 DEF FallsDue, Unsettled
<1>5. ASSUME NEW d \in Dispatchers, Throw(d)
      PROVE  \/ due' = due
             \/ \E m : due' = Without(due, m)
             \/ \E m \in Messages : /\ due' = Append(Without(due, m), m) /\ todo' = todo
                                    /\ d \in Messages /\ IsAbout(d, m) /\ job'[d] = Idle
  <2> DEFINE m == IF At(d, "rerouted") THEN job[d].first ELSE job[d].message
  <2>1. m \in Messages
    BY <1>5, OldJob DEF Throw, At
  <2>2. IsAbout(d, m) /\ job'[d] = Idle /\ todo' = todo
    BY <1>5 DEF IsAbout, Throw, Does, DispatchTypeOK
  <2>3. (d \in Sweeps /\ RetryLater(m)) \/ (d \in Messages /\ RetryNow(m)) \/ UNCHANGED rowVars
    BY <1>5 DEF Throw, Fail
  <2> HIDE DEF m
  <2> QED
    BY <2>1, <2>2, <2>3 DEF RetryNow, RetryLater, rowVars
<1>6. ASSUME NEW d \in Dispatchers, Reroute(d) \/ SettleRerouted(d) \/ Mark(d)
      PROVE  due' = due \/ \E m : due' = Without(due, m)
  BY <1>6 DEF Reroute, SettleRerouted, Mark, Settle, Enqueue, rowVars
<1>7. ASSUME NEW s \in Sweeps, Take(s)
      PROVE  due' = due \/ \E m : due' = Without(due, m)
  BY <1>7 DEF Take, Settle, rowVars
<1>8. CASE \E m \in Messages : Post(m) \/ Abandon(m) \/ \E a \in Agents : WorkEnds(m, a)
  BY <1>8 DEF Post, Abandon, WorkEnds, Enqueue, rowVars
<1>9. CASE \E d \in Dispatchers : KeepMessage(d) \/ BlockOnDependencies(d) \/ Wake(d) \/ Skip(d)
  BY <1>9 DEF KeepMessage, BlockOnDependencies, Wake, Skip, rowVars
<1>10. CASE \E s \in Sweeps : Load(s) \/ LogReconciled(s)
  BY <1>10 DEF Load, LogReconciled, rowVars
<1>11. CASE Cancel \/ Reopen \/ DependenciesFinish \/ Crash
  BY <1>11 DEF Cancel, Reopen, DependenciesFinish, Crash, rowVars
<1>12. ASSUME NEW m \in Messages, FallsDue(m)
       PROVE  /\ IsDistinct(due')
              /\ \E n \in Messages :
                    /\ Range(due') = Range(due) \cup {n} /\ todo' = todo
                    /\ row[n] # "none" /\ job' = job
                    /\ timely => \A d \in Dispatchers : ~IsAbout(d, n)
  BY <1>4, <1>12
<1>13. ASSUME NEW d \in Dispatchers, Throw(d)
       PROVE  /\ IsDistinct(due')
              /\ \/ Range(due') \subseteq Range(due)
                 \/ \E m \in Messages : /\ Range(due') = Range(due) \cup {m} /\ todo' = todo
                                        /\ d \in Messages /\ IsAbout(d, m) /\ job'[d] = Idle
  BY <1>2, <1>3, <1>5, <1>13
<1> QED
  BY <1>1, <1>2, <1>6, <1>7, <1>8, <1>9, <1>10, <1>11, <1>12, <1>13, StepKinds

\* What a sweep has before it: it goes on, or begins a new list.
LEMMA TodoSteps ==
    ASSUME DispatchTypeOK, DueOnce, DispatchNext, NEW s \in Sweeps
    PROVE  /\ IsDistinct(todo'[s])
           /\ \/ Range(todo'[s]) \subseteq Range(todo[s])
              \/ /\ ~IsSweeping(s) /\ Range(todo'[s]) \subseteq Range(due)
                 /\ due' = due /\ job' = job /\ row' = row
                 /\ timely => \A z \in Sweeps : ~IsSweeping(z)
                 /\ \A z \in Sweeps \ {s} : todo'[z] = todo[z]
<1>1. CASE todo' = todo
  BY <1>1 DEF DueOnce
<1>2. ASSUME NEW z \in Sweeps, Load(z)
      PROVE  /\ IsDistinct(todo'[s])
             /\ \/ Range(todo'[s]) \subseteq Range(todo[s])
                \/ /\ ~IsSweeping(s) /\ Range(todo'[s]) \subseteq Range(due)
                   /\ due' = due /\ job' = job /\ row' = row
                   /\ timely => \A y \in Sweeps : ~IsSweeping(y)
                   /\ \A y \in Sweeps \ {s} : todo'[y] = todo[y]
  <2> DEFINE k == IF BatchSize < Len(due) THEN BatchSize ELSE Len(due)
  <2>1. due \in Seq(Messages) /\ Len(due) \in Nat /\ k \in Nat /\ k <= Len(due)
    BY BoundsAssumption, LenProperties DEF DispatchTypeOK
  <2>2. todo' = [todo EXCEPT ![z] = SubSeq(due, 1, k)] /\ todo \in [Sweeps -> Seq(Messages)]
    BY <1>2 DEF Load, DispatchTypeOK
  <2> HIDE DEF k
  <2>3. Range(SubSeq(due, 1, k)) \subseteq Range(due) /\ IsDistinct(SubSeq(due, 1, k))
    BY <2>1, BatchRange DEF DueOnce
  <2>4. CASE s = z
    <3>1. todo'[s] = SubSeq(due, 1, k) /\ \A y \in Sweeps \ {s} : todo'[y] = todo[y]
      BY <2>2, <2>4
    <3>2. due' = due /\ job' = job /\ row' = row /\ ~IsSweeping(s)
          /\ (timely => \A y \in Sweeps : ~IsSweeping(y))
      BY <1>2, <2>4 DEF Load, rowVars
    <3> QED
      BY <2>3, <3>1, <3>2
  <2>5. CASE s # z
    <3>1. todo'[s] = todo[s]
      BY <2>2, <2>5
    <3> QED
      BY <3>1 DEF DueOnce
  <2> QED
    BY <2>4, <2>5
<1>3. ASSUME NEW z \in Sweeps, Take(z)
      PROVE  IsDistinct(todo'[s]) /\ Range(todo'[s]) \subseteq Range(todo[s])
  <2>1. todo' = [todo EXCEPT ![z] = Tail(@)] /\ todo \in [Sweeps -> Seq(Messages)] /\ todo[z] # <<>>
    BY <1>3 DEF Take, DispatchTypeOK
  <2>2. CASE s = z
    <3> DEFINE l == todo[s]
    <3>1. l \in Seq(Messages) /\ l # <<>> /\ IsDistinct(l) /\ todo'[s] = Tail(l)
      BY <2>1, <2>2 DEF DueOnce
    <3> HIDE DEF l
    <3>2. IsDistinct(Tail(l)) /\ Range(Tail(l)) \subseteq Range(l)
      BY <3>1, TailRange
    <3> QED
      BY <3>1, <3>2 DEF l
  <2>3. CASE s # z
    <3>1. todo'[s] = todo[s]
      BY <2>1, <2>3
    <3> QED
      BY <3>1 DEF DueOnce
  <2> QED
    BY <2>2, <2>3
<1>4. ASSUME Crash PROVE IsDistinct(todo'[s]) /\ Range(todo'[s]) \subseteq Range(todo[s])
  <2>1. todo'[s] = <<>>
    BY <1>4 DEF Crash
  <2> QED
    BY <2>1 DEF IsDistinct, Range
<1>5. CASE \/ \E m \in Messages : Post(m) \/ Abandon(m) \/ FallsDue(m) \/ \E a \in Agents : WorkEnds(m, a)
           \/ \E z \in Sweeps : LogReconciled(z)
           \/ Cancel \/ Reopen \/ DependenciesFinish
  BY <1>1, <1>5 DEF Post, Abandon, FallsDue, WorkEnds, LogReconciled, Cancel, Reopen, DependenciesFinish
<1>6. CASE \E d \in Dispatchers :
              \/ Reroute(d) \/ KeepMessage(d) \/ SettleRerouted(d) \/ BlockOnDependencies(d)
              \/ Wake(d) \/ Skip(d) \/ Throw(d) \/ Mark(d)
  BY <1>1, <1>6 DEF Reroute, KeepMessage, SettleRerouted, BlockOnDependencies, Wake, Skip, Throw, Mark
<1> QED
  BY <1>2, <1>3, <1>4, <1>5, <1>6, StepKinds

\* A message that has been posted stays so.
LEMMA PostedStays ==
    ASSUME DispatchTypeOK, DispatchNext, NEW m \in Messages, row'[m] = "none"
    PROVE  row[m] = "none"
<1>1. ASSUME NEW n, NEW status, status # "none", row' = [row EXCEPT ![n] = status] PROVE row[m] = "none"
  BY <1>1 DEF DispatchTypeOK
<1>2. CASE row' = row
  BY <1>2
<1>3. CASE \E n : Enqueue(n) \/ RetryNow(n) \/ RetryLater(n)
  BY <1>1, <1>3 DEF Enqueue, RetryNow, RetryLater
<1>4. ASSUME NEW n, NEW status, status # "none", Settle(n, status) PROVE row[m] = "none"
  BY <1>1, <1>4 DEF Settle
<1>5. CASE \E n \in Messages : Post(n)
  BY <1>3, <1>5 DEF Post
<1>6. CASE \E d \in Dispatchers : Reroute(d)
  BY <1>3, <1>6 DEF Reroute
<1>7. CASE \E d \in Dispatchers : \/ KeepMessage(d) \/ SettleRerouted(d)
                                  \/ BlockOnDependencies(d) \/ Wake(d) \/ Skip(d)
  BY <1>2, <1>4, <1>7 DEF KeepMessage, SettleRerouted, BlockOnDependencies, Wake, Skip, rowVars
<1>8. CASE \E d \in Dispatchers : Throw(d)
  BY <1>2, <1>3, <1>8 DEF Throw, Fail, rowVars
<1>9. CASE \E d \in Dispatchers : Mark(d)
  BY <1>2, <1>4, <1>9 DEF Mark, rowVars
<1>10. ASSUME NEW s \in Sweeps, Take(s) PROVE row[m] = "none"
  <2>1. Needless(Head(todo[s])) # "none"
    BY DEF Needless
  <2> QED
    BY <1>2, <1>4, <1>10, <2>1 DEF Take, rowVars
<1>11. CASE \E s \in Sweeps : Load(s) \/ LogReconciled(s)
  BY <1>2, <1>11 DEF Load, LogReconciled, rowVars
<1>12. CASE \E n \in Messages : Abandon(n) \/ FallsDue(n) \/ \E a \in Agents : WorkEnds(n, a)
  BY <1>2, <1>12 DEF Abandon, FallsDue, WorkEnds, rowVars
<1>13. CASE Cancel \/ Reopen \/ DependenciesFinish \/ Crash
  BY <1>2, <1>13 DEF Cancel, Reopen, DependenciesFinish, Crash, rowVars
<1> QED
  BY <1>5, <1>6, <1>7, <1>8, <1>9, <1>10, <1>11, <1>12, <1>13, StepKinds

\* A job is over, or goes on somehow; a reroute begins with a new message.
LEMMA PcSteps ==
    ASSUME DispatchTypeOK, DispatchNext, NEW d \in Dispatchers
    PROVE  \/ job'[d] = job[d] \/ job'[d] = Idle
           \/ job'[d].pc \in {"sending", "deciding", "marked"}
           \/ /\ job'[d].pc = "rerouted" /\ live' = live
              /\ \E r \in Messages : job'[d].message = r /\ row[r] = "none"
<1>0. ASSUME NEW e \in Dispatchers, NEW j \in Jobs, Does(e, j) PROVE job'[d] = j \/ job'[d] = job[d]
  BY <1>0 DEF Does, DispatchTypeOK
<1>1. CASE \E e \in Dispatchers : Does(e, Idle)
  BY <1>0, <1>1, JobTypes
<1>2. CASE job' = job
  BY <1>2
<1>3. ASSUME NEW e \in Dispatchers, NEW m \in Messages, Does(e, Start(m))
      PROVE  job'[d] = job[d] \/ job'[d].pc \in {"sending", "deciding"}
  <2>1. Start(m) \in Jobs /\ Start(m).pc \in {"sending", "deciding"}
    BY JobTypes
  <2>2. job'[d] = Start(m) \/ job'[d] = job[d]
    BY <1>0, <1>3, <2>1
  <2> QED
    BY <2>1, <2>2
<1>4. CASE \E m \in Messages : Post(m)
  BY <1>3, <1>4 DEF Post, Dispatchers
<1>5. ASSUME NEW e \in Dispatchers, Reroute(e)
      PROVE  job'[d] = job[d] \/ /\ job'[d].pc = "rerouted" /\ live' = live
                                 /\ \E r \in Messages : job'[d].message = r /\ row[r] = "none"
  <2> DEFINE m == job[e].message
  <2>1. m \in Messages
    BY <1>5, OldJob DEF Reroute, At
  <2>2. PICK r \in Reroutes[m] : row[r] = "none" /\ Does(e, Job("rerouted", r, m, <<>>))
    BY <1>5 DEF Reroute
  <2> DEFINE j == Job("rerouted", r, m, <<>>)
  <2>3. r \in Messages /\ live' = live
    BY <1>5, <2>1, <2>2, ReroutesAssumption DEF Reroute, workVars
  <2>4. j \in Jobs /\ j.pc = "rerouted" /\ j.message = r
    BY <2>1, <2>3, JobTypes
  <2>5. job'[d] = j \/ job'[d] = job[d]
    BY <1>0, <2>2, <2>4
  <2> HIDE DEF j
  <2> QED
    BY <2>2, <2>3, <2>4, <2>5
<1>6. ASSUME NEW e \in Dispatchers, SettleRerouted(e)
      PROVE  job'[d] = job[d] \/ job'[d].pc = "sending"
  <2> DEFINE j == Sending(job[e].message, job[e].first)
  <2>1. job[e].message \in Messages /\ job[e].first \in Messages
    BY <1>6, OldJob DEF SettleRerouted, At
  <2>2. j \in Jobs /\ j.pc = "sending"
    BY <2>1, JobTypes
  <2>3. job'[d] = j \/ job'[d] = job[d]
    BY <1>0, <1>6, <2>2 DEF SettleRerouted
  <2> HIDE DEF j
  <2> QED
    BY <2>2, <2>3
<1>14. ASSUME NEW e \in Dispatchers, KeepMessage(e)
       PROVE  job'[d] = job[d] \/ job'[d].pc = "sending"
  <2> DEFINE j == Sending(job[e].message, NoMessage)
  <2>1. job[e].message \in Messages
    BY <1>14, OldJob DEF KeepMessage, At
  <2>2. j \in Jobs /\ j.pc = "sending"
    BY <2>1, JobTypes
  <2>3. job'[d] = j \/ job'[d] = job[d]
    BY <1>0, <1>14, <2>2 DEF KeepMessage
  <2> HIDE DEF j
  <2> QED
    BY <2>2, <2>3
<1>7. ASSUME NEW e \in Dispatchers, BlockOnDependencies(e) \/ Wake(e) \/ Skip(e)
      PROVE  job'[d] = job[d] \/ job'[d].pc = "sending"
  <2>1. CASE BlockOnDependencies(e)
    BY <2>1 DEF BlockOnDependencies, IsNew, At, DispatchTypeOK, Jobs
  <2>2. CASE Wake(e)
    BY <2>2 DEF Wake, At, DispatchTypeOK, Jobs
  <2>3. CASE Skip(e)
    BY <2>3, SkipGoesOn DEF At
  <2> QED
    BY <1>7, <2>1, <2>2, <2>3
<1>8. ASSUME NEW e \in Dispatchers, Throw(e) \/ Mark(e)
      PROVE  job'[d] = job[d] \/ job'[d] = Idle \/ job'[d].pc = "marked"
  <2> DEFINE j == Job("marked", job[e].message, NoMessage, <<>>)
  <2>1. CASE ~At(e, "idle") /\ Does(e, j)
    <3>1. j \in Jobs /\ j.pc = "marked"
      BY <2>1, OldJob, JobTypes
    <3>2. job'[d] = j \/ job'[d] = job[d]
      BY <1>0, <2>1, <3>1
    <3> HIDE DEF j
    <3> QED
      BY <3>1, <3>2
  <2>2. CASE Does(e, Idle)
    BY <1>0, <2>2, JobTypes
  <2> QED
    BY <1>8, <2>1, <2>2 DEF Throw, Mark, At
<1>9. ASSUME NEW s \in Sweeps, Take(s)
      PROVE  job'[d] = job[d] \/ job'[d].pc \in {"sending", "deciding"}
  <2>1. Head(todo[s]) \in Messages
    BY <1>9, HeadTailProperties DEF Take, DispatchTypeOK
  <2> QED
    BY <1>3, <1>9, <2>1 DEF Take, Dispatchers
<1>10. CASE \E s \in Sweeps : Load(s) \/ LogReconciled(s)
  BY <1>1, <1>2, <1>10 DEF Load, LogReconciled, Dispatchers
<1>11. CASE \E m \in Messages : Abandon(m) \/ FallsDue(m) \/ \E a \in Agents : WorkEnds(m, a)
  BY <1>1, <1>2, <1>11 DEF Abandon, FallsDue, WorkEnds, Dispatchers
<1>12. CASE Cancel \/ Reopen \/ DependenciesFinish
  BY <1>2, <1>12 DEF Cancel, Reopen, DependenciesFinish
<1>13. CASE Crash
  BY <1>13 DEF Crash
<1> QED
  BY <1>4, <1>5, <1>6, <1>7, <1>8, <1>9, <1>10, <1>11, <1>12, <1>13, <1>14, StepKinds

\* In time, every step keeps IdleIsFree.
LEMMA IdleIsFreeNext ==
    ASSUME DispatchTypeOK, IdleIsFree, DispatchNext
    PROVE  IdleIsFree'
<1> SUFFICES ASSUME NEW d \in Dispatchers, NEW m \in Messages, At(d, "idle")' PROVE ~IsAbout(d, m)'
  BY DEF IdleIsFree
<1>1. CASE job'[d] = job[d]
  BY <1>1 DEF IdleIsFree, IsAbout, At
<1>2. CASE job'[d] = Idle
  BY <1>2, JobTypes, MessagesAssumption DEF IsAbout
<1> QED
  BY <1>1, <1>2, PcSteps DEF At

\* Who is about a message that others know of is no newcomer.
LEMMA NoneBeforeNext ==
    ASSUME DispatchTypeOK, timely, InTime, DispatchNext
    PROVE  NoneBefore'
<1> SUFFICES ASSUME NEW m \in Messages, row'[m] = "none"
             PROVE  /\ live'[m] = {} /\ m \notin Range(due')
                    /\ \A s \in Sweeps : m \notin Range(todo'[s])
                    /\ \A d \in Dispatchers : ~IsAbout(d, m)'
  BY DEF NoneBefore
<1>1. row[m] = "none"
  BY PostedStays
<1>2. /\ live[m] = {} /\ m \notin Range(due)
      /\ \A s \in Sweeps : m \notin Range(todo[s])
      /\ \A d \in Dispatchers : ~IsAbout(d, m)
  BY <1>1 DEF InTime, NoneBefore
<1>3. live'[m] = {}
  <2>1. ASSUME NEW d \in Dispatchers, Wake(d) PROVE live'[m] = {}
    <3>1. job[d].message # m
      BY <1>2 DEF IsAbout
    <3> QED
      BY <1>2, <2>1, <3>1, WakeCounts
  <2> QED
    BY <1>2, <2>1, WorkSteps
<1>4. m \notin Range(due')
  BY <1>1, <1>2, DueSteps, MessagesAssumption DEF InTime, DueOnce, Dispatchers
<1>5. ASSUME NEW s \in Sweeps PROVE m \notin Range(todo'[s])
  BY <1>2, TodoSteps DEF InTime
<1>6. ASSUME NEW d \in Dispatchers PROVE ~IsAbout(d, m)'
  <2> SUFFICES ASSUME IsAbout(d, m)' PROVE FALSE
    OBVIOUS
  <2>1. Claim(d, m)
    BY <1>2, ClaimSteps
  <2>2. d \in Sweeps /\ todo[d] # <<>> /\ m = Head(todo[d])
    BY <2>1 DEF Claim
  <2> DEFINE l == todo[d]
  <2>3. l \in Seq(Messages) /\ l # <<>> /\ m = Head(l) /\ m \notin Range(l)
    BY <1>2, <2>2 DEF DispatchTypeOK
  <2> HIDE DEF l
  <2> QED
    BY <2>3, TailRange
<1> QED
  BY <1>3, <1>4, <1>5, <1>6

\* A sweep that takes a message up has it on its list, and only there.
LEMMA Takes ==
    ASSUME DispatchTypeOK, DueOnce, NEW s \in Sweeps, todo[s] # <<>>, NEW m \in Messages, m = Head(todo[s])
    PROVE  m \in Range(todo[s]) /\ m \notin Range(Tail(todo[s]))
<1> DEFINE l == todo[s]
<1>1. l \in Seq(Messages) /\ l # <<>> /\ m = Head(l) /\ IsDistinct(l)
  BY DEF DispatchTypeOK, DueOnce
<1> HIDE DEF l
<1>2. m \in Range(l) /\ m \notin Range(Tail(l))
  BY <1>1, TailRange
<1> QED
  BY <1>2 DEF l

\* In time, every step keeps OneEach.
LEMMA OneEachNext ==
    ASSUME DispatchTypeOK, timely, InTime, DispatchNext
    PROVE  OneEach'
<1> SUFFICES ASSUME NEW d \in Dispatchers, NEW e \in Dispatchers, NEW m \in Messages,
                    IsAbout(d, m)', IsAbout(e, m)', d # e
             PROVE  FALSE
  BY DEF OneEach
<1> USE DEF InTime
<1>1. ASSUME NEW c \in Dispatchers, NEW o \in Dispatchers, Claim(c, m), IsAbout(o, m), o # c
      PROVE  FALSE
  <2>1. CASE row[m] = "none"
    BY <1>1, <2>1 DEF NoneBefore
  <2>2. CASE c \in Sweeps /\ todo[c] # <<>> /\ m = Head(todo[c])
    <3>1. m \in Range(todo[c]) /\ IsSweeping(c)
      BY <2>2, Takes DEF IsSweeping
    <3>2. CASE o \in Messages
      BY <1>1, <2>2, <3>1, <3>2 DEF Loaded
    <3>3. CASE o \in Sweeps
      <4>1. ~IsSweeping(o)
        BY <1>1, <2>2, <3>1, <3>3 DEF InTurn
      <4> QED
        BY <1>1, <4>1 DEF IsSweeping, IdleIsFree
    <3> QED
      BY <3>2, <3>3 DEF Dispatchers
  <2> QED
    BY <1>1, <2>1, <2>2 DEF Claim
<1>2. CASE IsAbout(d, m) /\ IsAbout(e, m)
  BY <1>2 DEF OneEach
<1>3. CASE ~(IsAbout(d, m) /\ IsAbout(e, m))
  <2>1. PICK c \in Dispatchers, n \in Messages :
           /\ Claim(c, n)
           /\ \A o \in Dispatchers, k \in Messages : IsAbout(o, k)' => IsAbout(o, k) \/ (o = c /\ k = n)
    BY <1>3, ClaimSteps
  <2>2. n = m /\ (c = d \/ c = e)
    BY <1>3, <2>1
  <2> QED
    BY <1>1, <2>1, <2>2
<1> QED
  BY <1>2, <1>3

\* In time, every step keeps DueOnce.
LEMMA DueOnceNext ==
    ASSUME DispatchTypeOK, DueOnce, DispatchNext
    PROVE  DueOnce'
BY DueSteps, TodoSteps DEF DueOnce

\* A sweep begins by loading rows, and in time only when no other is at work.
LEMMA SweepBegins ==
    ASSUME DispatchTypeOK, InTime, DispatchNext, NEW s \in Sweeps, ~IsSweeping(s), IsSweeping(s)'
    PROVE  /\ job' = job /\ (timely => \A z \in Sweeps : ~IsSweeping(z))
           /\ \A z \in Sweeps \ {s} : todo'[z] = todo[z]
<1>1. todo[s] = <<>> /\ At(s, "idle") /\ s \in Dispatchers
  BY DEF IsSweeping, Dispatchers
<1>2. At(s, "idle")'
  <2> SUFFICES ASSUME ~At(s, "idle")' PROVE FALSE
    OBVIOUS
  <2>1. DispatchTypeOK'
    BY TypesNext
  <2>2. PICK m \in Messages : IsAbout(s, m)'
    BY <1>1, <2>1 DEF DispatchTypeOK, At, IsAbout
  <2>3. ~IsAbout(s, m)
    BY <1>1 DEF InTime, IdleIsFree
  <2>4. Claim(s, m)
    BY <1>1, <2>2, <2>3, ClaimSteps
  <2> QED
    BY <1>1, <2>4, MessagesAssumption DEF Claim
<1>3. CASE Range(todo'[s]) \subseteq Range(todo[s])
  <2> DEFINE l == todo'[s]
  <2>1. l \in Seq(Messages) /\ Range(l) = {}
    <3>1. Range(<<>>) = {}
      BY DEF Range
    <3> QED
      BY <1>1, <1>3, <3>1, TypesNext DEF DispatchTypeOK
  <2>2. l # <<>>
    BY <1>2 DEF IsSweeping
  <2> HIDE DEF l
  <2> QED
    BY <2>1, <2>2, TailRange
<1> QED
  BY <1>3, TodoSteps DEF InTime

\* In time, every step keeps InTurn.
LEMMA InTurnNext ==
    ASSUME DispatchTypeOK, timely, InTime, DispatchNext
    PROVE  InTurn'
<1> SUFFICES ASSUME NEW s \in Sweeps, NEW z \in Sweeps, IsSweeping(s)', IsSweeping(z)', s # z
             PROVE  FALSE
  BY DEF InTurn
<1>1. ASSUME NEW x \in Sweeps, NEW y \in Sweeps, x # y, ~IsSweeping(x), IsSweeping(x)', IsSweeping(y)'
      PROVE  FALSE
  <2>1. job' = job /\ ~IsSweeping(y) /\ todo'[y] = todo[y]
    BY <1>1, SweepBegins
  <2> QED
    BY <1>1, <2>1 DEF IsSweeping, At
<1>2. IsSweeping(s) /\ IsSweeping(z)
  BY <1>1
<1> QED
  BY <1>2 DEF InTime, InTurn

\* In time, every step keeps Loaded.
LEMMA LoadedNext ==
    ASSUME DispatchTypeOK, timely, InTime, DispatchNext
    PROVE  Loaded'
<1> USE DEF InTime
<1>1. ASSUME NEW m \in Messages, NEW s \in Sweeps, NEW d \in Messages, IsAbout(d, m)'
      PROVE  m \notin Range(due') \cup Range(todo'[s])
  <2>0. d \in Dispatchers /\ d \notin Sweeps
    BY MessagesAssumption DEF Dispatchers
  <2>1. CASE IsAbout(d, m)
    <3>1. m \notin Range(due) \cup Range(todo[s])
      BY <2>1 DEF Loaded
    <3>2. m \notin Range(todo'[s])
      BY <3>1, TodoSteps
    <3>3. ASSUME m \in Range(due') PROVE FALSE
      <4>1. \/ \A e \in Dispatchers : ~IsAbout(e, m)
            \/ \E e \in Messages : IsAbout(e, m) /\ job'[e] = Idle
        BY <3>1, <3>3, DueSteps DEF DueOnce
      <4>2. PICK e \in Messages : IsAbout(e, m) /\ job'[e] = Idle
        BY <2>0, <2>1, <4>1
      <4>3. e = d
        BY <2>0, <2>1, <4>2 DEF OneEach, Dispatchers
      <4> QED
        BY <1>1, <4>2, <4>3, JobTypes, MessagesAssumption DEF IsAbout
    <3> QED
      BY <3>2, <3>3
  <2>2. CASE ~IsAbout(d, m)
    <3>1. Claim(d, m)
      BY <1>1, <2>0, <2>2, ClaimSteps
    <3>2. row[m] = "none" /\ due' = due /\ todo' = todo
      BY <2>0, <3>1 DEF Claim
    <3> QED
      BY <3>2 DEF NoneBefore
  <2> QED
    BY <2>1, <2>2
<1>2. ASSUME NEW m \in Messages, NEW s \in Sweeps, m \in Range(todo'[s]), IsAbout(s, m)'
      PROVE  FALSE
  <2>0. s \in Dispatchers
    BY DEF Dispatchers
  <2>1. CASE IsAbout(s, m)
    <3>1. m \in Range(todo[s]) \/ ~IsSweeping(s)
      BY <1>2, TodoSteps
    <3> QED
      BY <2>0, <2>1, <3>1 DEF Loaded, IsSweeping, IdleIsFree
  <2>2. CASE ~IsAbout(s, m)
    <3>1. Claim(s, m)
      BY <1>2, <2>0, <2>2, ClaimSteps
    <3>2. CASE row[m] = "none" /\ todo' = todo
      BY <1>2, <3>2 DEF NoneBefore
    <3>3. CASE todo[s] # <<>> /\ m = Head(todo[s]) /\ todo' = [todo EXCEPT ![s] = Tail(@)]
      <4>1. todo'[s] = Tail(todo[s])
        BY <3>3 DEF DispatchTypeOK
      <4> QED
        BY <1>2, <3>3, <4>1, Takes
    <3> QED
      BY <3>1, <3>2, <3>3 DEF Claim
  <2> QED
    BY <2>1, <2>2
<1> QED
  BY <1>1, <1>2 DEF Loaded

\* Work for a message is put on record by the one dispatcher that is about it.
LEMMA LiveSteps ==
    ASSUME DispatchTypeOK, InTime, DispatchNext,
           NEW d \in Dispatchers, NEW m \in Messages, job[d].message = m, ~Wake(d)
    PROVE  live'[m] \subseteq live[m]
<1>1. ASSUME NEW e \in Dispatchers, Wake(e) PROVE live'[m] \subseteq live[m]
  <2>1. job[e].message # m
    BY <1>1 DEF InTime, OneEach, IsAbout
  <2> QED
    BY <1>1, <2>1, WakeCounts
<1> QED
  BY <1>1, WorkSteps

\* In time, every step keeps Fresh.
LEMMA FreshNext ==
    ASSUME DispatchTypeOK, InTime, DispatchNext
    PROVE  Fresh'
<1> SUFFICES ASSUME NEW d \in Dispatchers, NEW m \in Messages, job'[d].message = m
             PROVE  /\ At(d, "sending")' =>
                          IsDistinct(job'[d].left) /\ Range(job'[d].left) \cap live'[m] = {}
                    /\ At(d, "deciding")' \/ At(d, "rerouted")' => live'[m] = {}
  BY DEF Fresh
<1> USE DEF InTime
<1>1. ASSUME At(d, "sending")'
      PROVE  IsDistinct(job'[d].left) /\ Range(job'[d].left) \cap live'[m] = {}
  <2> USE <1>1
  <2>1. CASE \E n \in Messages :
               /\ job'[d].message = n /\ job'[d].left = Plan[n] /\ live' = live
               /\ \/ row[n] = "none" \/ live[n] = {}
                  \/ (At(d, "rerouted") \/ At(d, "deciding")) /\ job[d].message = n
    <3>1. live'[m] = {}
      BY <2>1 DEF NoneBefore, Fresh
    <3>2. IsDistinct(Plan[m])
      BY PlanAssumption DEF IsDistinct
    <3> QED
      BY <2>1, <3>1, <3>2
  <2>2. CASE BlockOnDependencies(d) /\ job'[d].left = <<>>
    BY <2>2 DEF IsDistinct, Range
  <2>3. CASE /\ At(d, "sending") /\ job'[d].message = job[d].message
             /\ Wake(d) \/ Skip(d)
             /\ job'[d].left = Tail(job[d].left)
    <3> DEFINE left == job[d].left
               rest == job'[d].left
    <3>1. job[d].message = m /\ ~At(d, "idle") /\ left # <<>> /\ rest = Tail(left)
      BY <2>3 DEF Wake, Skip, At
    <3>2. left \in Seq(Agents) /\ IsDistinct(left) /\ Range(left) \cap live[m] = {}
      BY <2>3, <3>1, OldJob DEF Fresh
    <3>3. live'[m] \subseteq live[m] \cup {Head(left)}
      BY <3>1, LiveSteps, WakeCounts
    <3> HIDE DEF left, rest
    <3>4. IsDistinct(rest) /\ Range(rest) \subseteq Range(left) /\ Head(left) \notin Range(rest)
      BY <3>1, <3>2, TailRange
    <3>5. IsDistinct(rest) /\ Range(rest) \cap live'[m] = {}
      BY <3>2, <3>3, <3>4
    <3> QED
      BY <3>5 DEF rest
  <2>4. CASE job'[d] = job[d]
    <3> DEFINE left == job[d].left
    <3>1. At(d, "sending") /\ ~At(d, "idle") /\ job[d].message = m /\ job'[d].left = left
      BY <2>4 DEF At
    <3>2. left \in Seq(Agents) /\ IsDistinct(left) /\ Range(left) \cap live[m] = {}
      BY <3>1, OldJob DEF Fresh
    <3>3. ASSUME Wake(d) PROVE FALSE
      <4>1. left # <<>> /\ job'[d].left = Tail(left)
        BY <3>3 DEF Wake, DispatchTypeOK, Jobs
      <4>2. left = Tail(left)
        BY <3>1, <4>1
      <4> HIDE DEF left
      <4>3. Len(Tail(left)) = Len(left) - 1 /\ Len(left) \in Nat
        BY <3>2, <4>1, HeadTailProperties
      <4> QED
        BY <4>2, <4>3
    <3>4. live'[m] \subseteq live[m]
      BY <3>1, <3>3, LiveSteps
    <3> QED
      BY <3>1, <3>2, <3>4
  <2> QED
    BY <2>1, <2>2, <2>3, <2>4, JobSteps
<1>2. ASSUME At(d, "rerouted")' PROVE live'[m] = {}
  <2>1. CASE job'[d] = job[d]
    <3>1. At(d, "rerouted") /\ job[d].message = m
      BY <1>2, <2>1 DEF At
    <3>2. ~Wake(d)
      BY <3>1 DEF Wake, At
    <3>3. live'[m] \subseteq live[m] /\ live[m] = {}
      BY <3>1, <3>2, LiveSteps DEF Fresh
    <3> QED
      BY <3>3
  <2>2. CASE live' = live /\ \E r \in Messages : job'[d].message = r /\ row[r] = "none"
    BY <2>2 DEF NoneBefore
  <2>3. job'[d].pc = "rerouted" /\ Idle.pc # "rerouted"
    BY <1>2, JobTypes DEF At
  <2> QED
    BY <2>1, <2>2, <2>3, PcSteps
<1>3. ASSUME At(d, "deciding")' PROVE live'[m] = {}
  <2>1. CASE job'[d] = job[d]
    <3>1. At(d, "deciding") /\ job[d].message = m
      BY <1>3, <2>1 DEF At
    <3>2. ~Wake(d)
      BY <3>1 DEF Wake, At
    <3>3. live'[m] \subseteq live[m] /\ live[m] = {}
      BY <3>1, <3>2, LiveSteps DEF Fresh
    <3> QED
      BY <3>3
  <2>2. CASE \E n \in Messages :
               /\ job'[d].message = n /\ live' = live
               /\ \/ row[n] = "none" \/ live[n] = {}
                  \/ (At(d, "rerouted") \/ At(d, "deciding")) /\ job[d].message = n
    BY <2>2 DEF NoneBefore, Fresh
  <2>3. ~At(d, "sending")'
    BY <1>3 DEF At
  <2> QED
    BY <1>3, <2>1, <2>2, <2>3, JobSteps
<1> QED
  BY <1>1, <1>2, <1>3

-----------------------------------------------------------------------------

\* The invariant of the dispatch in time.
TimelyInvariant == DispatchTypeOK /\ (timely => InTime)

\* The invariant of timely dispatches holds at first...
LEMMA TimelyInvariantInit == DispatchInit => TimelyInvariant
<1> SUFFICES ASSUME DispatchInit PROVE DispatchTypeOK /\ InTime
  BY DEF TimelyInvariant
<1>1. \A d \in Dispatchers : /\ job[d] = Idle /\ At(d, "idle")
                             /\ \A m \in Messages : ~IsAbout(d, m)
  BY JobTypes, MessagesAssumption DEF DispatchInit, At, IsAbout
<1>2. IdleIsFree /\ OneEach
  BY <1>1 DEF IdleIsFree, OneEach
<1>3. NoneBefore /\ DueOnce /\ Loaded
  BY <1>1 DEF DispatchInit, NoneBefore, DueOnce, Loaded, IsDistinct, Range, Dispatchers
<1>4. InTurn
  BY <1>1 DEF DispatchInit, InTurn, IsSweeping, Dispatchers
<1>5. Fresh
  BY <1>1, JobTypes DEF Fresh, At
<1> QED
  BY <1>2, <1>3, <1>4, <1>5, TypesInit DEF InTime

\* The instance is in time from the start, or not.
LEMMA TimelyStays == DispatchNext => timely' = timely
<1> SUFFICES ASSUME DispatchNext PROVE timely' = timely
  OBVIOUS
<1>1. CASE UNCHANGED boundVars \/ Fault
  BY <1>1 DEF boundVars, Fault
<1>2. CASE \/ \E m \in Messages : Post(m) \/ Abandon(m) \/ FallsDue(m) \/ \E a \in Agents : WorkEnds(m, a)
           \/ \E s \in Sweeps : Load(s) \/ Take(s) \/ LogReconciled(s)
           \/ Cancel \/ Reopen \/ DependenciesFinish \/ Crash
  BY <1>1, <1>2 DEF Post, Abandon, FallsDue, WorkEnds, Load, Take, LogReconciled, Cancel, Reopen,
                    DependenciesFinish, Crash
<1>3. CASE \E d \in Dispatchers :
              \/ Reroute(d) \/ KeepMessage(d) \/ SettleRerouted(d) \/ BlockOnDependencies(d)
              \/ Wake(d) \/ Skip(d) \/ Throw(d) \/ Mark(d)
  BY <1>1, <1>3 DEF Reroute, KeepMessage, SettleRerouted, BlockOnDependencies, Wake, Skip, Throw, Mark
<1> QED
  BY <1>2, <1>3, StepKinds

\* ... and every step keeps it.
LEMMA TimelyInvariantNext == TimelyInvariant /\ [DispatchNext]_vars => TimelyInvariant'
<1>1. ASSUME TimelyInvariant, DispatchNext PROVE TimelyInvariant'
  <2>1. DispatchTypeOK'
    BY <1>1, TypesNext DEF TimelyInvariant
  <2>2. ASSUME timely PROVE InTime'
    <3>1. DispatchTypeOK /\ InTime
      BY <1>1, <2>2 DEF TimelyInvariant
    <3>2. IdleIsFree' /\ DueOnce'
      BY <1>1, <3>1, IdleIsFreeNext, DueOnceNext DEF InTime
    <3>3. OneEach' /\ NoneBefore' /\ InTurn' /\ Loaded' /\ Fresh'
      BY <1>1, <2>2, <3>1, OneEachNext, NoneBeforeNext, InTurnNext, LoadedNext, FreshNext
    <3> QED
      BY <3>2, <3>3 DEF InTime
  <2> QED
    BY <1>1, <2>1, <2>2, TimelyStays DEF TimelyInvariant
<1>2. ASSUME TimelyInvariant, UNCHANGED vars PROVE TimelyInvariant'
  <2>1. DispatchTypeOK'
    BY <1>2, TypesNext DEF TimelyInvariant
  <2>2. timely' = timely /\ (InTime => InTime')
    BY <1>2 DEF vars, rowVars, workVars, boundVars, InTime, IdleIsFree, OneEach, NoneBefore, DueOnce,
                InTurn, Loaded, Fresh, At, IsAbout, IsSweeping
  <2> QED
    BY <1>2, <2>1, <2>2 DEF TimelyInvariant
<1> QED
  BY <1>1, <1>2

\* In time, no agent is woken for a message while its work for it is on record.
THEOREM NobodyIsWokenTwice == DispatchSpec => NoDoubleWakeup
<1> DEFINE Once == timely => \A m \in Messages : \A a \in live[m] : wakeups'[m][a] = wakeups[m][a]
<1>1. TimelyInvariant /\ [DispatchNext]_vars => [Once]_vars
  <2> SUFFICES ASSUME TimelyInvariant, DispatchNext, timely, NEW m \in Messages, NEW a \in live[m]
               PROVE  wakeups'[m][a] = wakeups[m][a]
    OBVIOUS
  <2>1. DispatchTypeOK /\ InTime
    BY DEF TimelyInvariant
  <2>2. ASSUME NEW d \in Dispatchers, Wake(d) PROVE wakeups'[m][a] = wakeups[m][a]
    <3> DEFINE left == job[d].left
               n == job[d].message
    <3>1. At(d, "sending") /\ ~At(d, "idle") /\ left # <<>>
      BY <2>2 DEF Wake, At
    <3>2. left \in Seq(Agents) /\ n \in Messages
      BY <2>1, <3>1, OldJob
    <3>3. n = m => Range(left) \cap live[m] = {}
      BY <2>1, <3>1 DEF InTime, Fresh
    <3>4. /\ wakeups' = [wakeups EXCEPT ![n][Head(left)] = IF @ < 2 THEN @ + 1 ELSE @]
          /\ wakeups \in [Messages -> [Agents -> 0..2]]
      BY <2>1, <2>2 DEF Wake, DispatchTypeOK
    <3> HIDE DEF left, n
    <3>5. Head(left) \in Range(left)
      BY <3>1, <3>2, TailRange
    <3>6. n = m => a # Head(left)
      BY <3>3, <3>5
    <3> QED
      BY <3>4, <3>6
  <2>3. \/ \E d \in Dispatchers : Wake(d)
        \/ wakeups' = wakeups
    BY <2>1, WorkSteps
  <2> QED
    BY <2>2, <2>3
<1>2. DispatchSpec => []TimelyInvariant
  BY TimelyInvariantInit, TimelyInvariantNext, PTL DEF DispatchSpec
<1> QED
  BY <1>1, <1>2, PTL DEF DispatchSpec, NoDoubleWakeup

-----------------------------------------------------------------------------
(* Without faults and in time, everybody is woken once.                    *)

\* Messages that a route posts, or a dispatch in place of another, all of whose agents
\* can be woken.
Routed == {m \in Messages \ SystemMessages : IsInvokable(m)}

\* What is due, or on a sweep's list, is not settled.
ListedIsUnsettled ==
    \A m \in Messages :
        m \in Range(due) \/ (\E s \in Sweeps : m \in Range(todo[s])) => row[m] \in Unsettled

\* Nor is a message that is under way, and it is not the one it was put in place of.
UnderWayIsUnsettled ==
    \A d \in Dispatchers, m \in Messages :
        job[d].message = m /\ ~At(d, "marked") => row[m] \in Unsettled /\ job[d].first # m

\* Who is to post a message has done nothing yet.
PosterIsIdle == \A m \in Messages : row[m] = "none" => At(m, "idle")

\* Who posts a message of the system is about no other.
SystemIsAlone ==
    \A d \in SystemMessages :
        job[d].pc \in {"idle", "sending"} /\ job[d].message \in SystemMessages \cup {NoMessage}

\* A message that another was posted in place of is unsettled until it is marked.
ReplacedIsUnsettled ==
    \A d \in Dispatchers, m \in Messages :
        At(d, "rerouted") /\ job[d].first = m => row[m] \in Unsettled

\* Only sweeps log what they have settled.
MarkedBySweep == \A d \in Dispatchers : At(d, "marked") => d \in Sweeps

InOrder ==
    /\ ListedIsUnsettled /\ UnderWayIsUnsettled /\ ReplacedIsUnsettled
    /\ PosterIsIdle /\ SystemIsAlone /\ MarkedBySweep

\* A dispatcher that has woken somebody of a plan, and is not at its end.
IsWaking(d, m) == At(d, "sending") /\ job[d].message = m /\ job[d].queued

\* Who was woken was woken by one dispatch, which goes on or has settled the row.
WokenByOne ==
    \A m \in Routed : Woken(m) # {} => row[m] \in Settled \/ \E d \in Dispatchers : IsWaking(d, m)

\* Whom a dispatcher has yet to wake is of the plan, and has not been woken.
LeftIsUnwoken ==
    \A d \in Dispatchers, m \in Routed :
        At(d, "sending") /\ job[d].message = m => Range(job[d].left) \subseteq Range(Plan[m]) \ Woken(m)

\* Nobody is woken twice, and only who is of the plan.
WokenOnce ==
    \A m \in Routed : Woken(m) \subseteq Supported(m) /\ \A a \in Agents : wakeups[m][a] < 2

\* What is settled as dispatched has woken all, or counted whom it skipped.
DispatchedIsWoken ==
    \A m \in Routed :
        row[m] = "dispatched" => Supported(m) \subseteq Woken(m) \cup skipped[m] \/ m \in held

Once == WokenByOne /\ LeftIsUnwoken /\ WokenOnce /\ DispatchedIsWoken

-----------------------------------------------------------------------------

\* The message that a dispatcher tries again when it fails.
Retried(d) == IF At(d, "rerouted") THEN job[d].first ELSE job[d].message

\* What an operation of the outbox leaves in the queue is unsettled, or was there before.
LEMMA OutboxQueue ==
    ASSUME DispatchTypeOK, IsDistinct(due), NEW n \in Messages, NEW m \in Messages, m \in Range(due'),
           Enqueue(n) \/ RetryNow(n) \/ RetryLater(n) \/ \E status : Settle(n, status)
    PROVE  row'[m] \in Unsettled \/ (m \in Range(due) /\ row'[m] = row[m])
<1> DEFINE w == Without(due, n)
<1>0. due \in Seq(Messages)
  BY DEF DispatchTypeOK
<1>1. w \in Seq(Messages) /\ Range(w) = Range(due) \ {n}
  BY <1>0, WithoutRange
<1>2. CASE Enqueue(n)
  BY <1>2 DEF Enqueue, DispatchTypeOK, Unsettled
<1>3. CASE RetryNow(n)
  <2>1. due' = Append(w, n)
    BY <1>3 DEF RetryNow
  <2> HIDE DEF w
  <2>2. Range(due') = Range(w) \cup {n}
    BY <1>1, <2>1, AppendRange
  <2>3. row'[n] \in Unsettled /\ \A k \in Messages \ {n} : row'[k] = row[k]
    BY <1>3 DEF RetryNow, DispatchTypeOK, Unsettled
  <2> QED
    BY <1>1, <2>2, <2>3
<1>4. CASE RetryLater(n) \/ \E status : Settle(n, status)
  <2>1. due' = w /\ \A k \in Messages \ {n} : row'[k] = row[k]
    BY <1>4 DEF RetryLater, Settle, DispatchTypeOK
  <2> HIDE DEF w
  <2> QED
    BY <1>1, <2>1
<1> QED
  BY <1>2, <1>3, <1>4

\* Every change of a row: its message is posted, settled or to be tried again.
LEMMA RowTurns ==
    ASSUME DispatchTypeOK, DispatchNext, NEW m \in Messages, row'[m] # row[m]
    PROVE  \/ row[m] = "none" /\ row'[m] = "pending"
           \/ /\ row'[m] \in Settled /\ row'[m] # "dispatched"
              /\ \E d \in Dispatchers : SettleRerouted(d) /\ job[d].first = m
           \/ row'[m] \in Settled /\ \E d \in Dispatchers : Mark(d) /\ job[d].message = m
           \/ /\ row'[m] \in Settled
              /\ \E s \in Sweeps : /\ Take(s) /\ m = Head(todo[s]) /\ job' = job
                                   /\ row'[m] = "dispatched" => HasEvidence(m)
           \/ row'[m] \in Unsettled /\ \E d \in Dispatchers : Throw(d) /\ m = Retried(d)
<1>1. ASSUME NEW n \in Messages, NEW status, Settle(n, status) PROVE n = m /\ row'[m] = status
  BY <1>1, RowOf
<1>2. ASSUME NEW n, row[n] = "none", Enqueue(n) PROVE row[m] = "none" /\ row'[m] = "pending"
  BY <1>2 DEF Enqueue, DispatchTypeOK
<1>3. ASSUME NEW n, RetryNow(n) \/ RetryLater(n) PROVE n = m /\ row'[m] \in Unsettled
  BY <1>3 DEF RetryNow, RetryLater, DispatchTypeOK, Unsettled
<1>4. ASSUME NEW n \in Messages, Post(n) PROVE row[m] = "none" /\ row'[m] = "pending"
  BY <1>2, <1>4 DEF Post
<1>5. ASSUME NEW d \in Dispatchers, Reroute(d) PROVE row[m] = "none" /\ row'[m] = "pending"
  BY <1>2, <1>5 DEF Reroute
<1>6. ASSUME NEW d \in Dispatchers, SettleRerouted(d)
      PROVE  row'[m] \in Settled /\ row'[m] # "dispatched" /\ job[d].first = m
  <2>1. job[d].first \in Messages
    BY <1>6, OldJob DEF SettleRerouted, At
  <2> QED
    BY <1>1, <1>6, <2>1 DEF SettleRerouted, Settled, NoAction
<1>7. ASSUME NEW d \in Dispatchers, Mark(d) PROVE row'[m] \in Settled /\ job[d].message = m
  <2>1. job[d].message \in Messages
    BY <1>7, OldJob DEF Mark, At
  <2> QED
    BY <1>1, <1>7, <2>1 DEF Mark, rowVars, Settled, NoAction
<1>8. ASSUME NEW s \in Sweeps, Take(s)
      PROVE  /\ row'[m] \in Settled /\ m = Head(todo[s]) /\ job' = job
             /\ row'[m] = "dispatched" => HasEvidence(m)
  <2> DEFINE n == Head(todo[s])
  <2>1. n \in Messages
    BY <1>8, HeadTailProperties DEF Take, DispatchTypeOK
  <2>2. CASE HasEvidence(n) /\ Settle(n, "dispatched") /\ UNCHANGED job
    BY <1>1, <2>1, <2>2 DEF Settled
  <2>3. CASE Needless(n) # "needed" /\ Settle(n, Needless(n)) /\ UNCHANGED job
    <3>1. Needless(n) \in Settled \ {"dispatched"}
      BY <2>3 DEF Needless, Settled, NoAction
    <3> QED
      BY <1>1, <2>1, <2>3, <3>1
  <2> QED
    BY <1>8, <2>2, <2>3 DEF Take, rowVars
<1>9. ASSUME NEW d \in Dispatchers, Throw(d) PROVE row'[m] \in Unsettled /\ m = Retried(d)
  BY <1>3, <1>9 DEF Throw, Fail, rowVars, Retried
<1>10. CASE \E d \in Dispatchers : KeepMessage(d) \/ BlockOnDependencies(d) \/ Wake(d) \/ Skip(d)
  BY <1>10 DEF KeepMessage, BlockOnDependencies, Wake, Skip, rowVars
<1>11. CASE \E s \in Sweeps : Load(s) \/ LogReconciled(s)
  BY <1>11 DEF Load, LogReconciled, rowVars
<1>12. CASE \E n \in Messages : Abandon(n) \/ FallsDue(n) \/ \E a \in Agents : WorkEnds(n, a)
  BY <1>12 DEF Abandon, FallsDue, WorkEnds, rowVars
<1>13. CASE Cancel \/ Reopen \/ DependenciesFinish \/ Crash
  BY <1>13 DEF Cancel, Reopen, DependenciesFinish, Crash, rowVars
<1> QED
  BY <1>4, <1>5, <1>6, <1>7, <1>8, <1>9, <1>10, <1>11, <1>12, <1>13, StepKinds

\* What is due is unsettled, or was due and has not changed.
LEMMA DueTurns ==
    ASSUME DispatchTypeOK, IsDistinct(due), DispatchNext, NEW m \in Messages, m \in Range(due')
    PROVE  row'[m] \in Unsettled \/ (m \in Range(due) /\ row'[m] = row[m])
<1>1. CASE UNCHANGED rowVars
  BY <1>1 DEF rowVars
<1>2. ASSUME NEW n \in Messages,
             Enqueue(n) \/ RetryNow(n) \/ RetryLater(n) \/ \E status : Settle(n, status)
      PROVE  row'[m] \in Unsettled \/ (m \in Range(due) /\ row'[m] = row[m])
  BY <1>2, OutboxQueue
<1>3. CASE \E n \in Messages : Post(n)
  BY <1>2, <1>3 DEF Post
<1>4. ASSUME NEW d \in Dispatchers, Reroute(d)
      PROVE  \E n \in Messages : Enqueue(n)
  BY <1>4, OldJob, ReroutesAssumption DEF Reroute, At
<1>5. ASSUME NEW d \in Dispatchers, SettleRerouted(d)
      PROVE  \E n \in Messages : \E status : Settle(n, status)
  BY <1>5, OldJob DEF SettleRerouted, At
<1>6. ASSUME NEW d \in Dispatchers, Throw(d)
      PROVE  UNCHANGED rowVars \/ \E n \in Messages : RetryNow(n) \/ RetryLater(n)
  <2>1. Retried(d) \in Messages
    BY <1>6, OldJob DEF Throw, At, Retried
  <2> QED
    BY <1>6, <2>1 DEF Throw, Fail, Retried
<1>7. ASSUME NEW d \in Dispatchers, Mark(d)
      PROVE  UNCHANGED rowVars \/ \E n \in Messages : \E status : Settle(n, status)
  <2>1. job[d].message \in Messages
    BY <1>7, OldJob DEF Mark, At
  <2> QED
    BY <1>7, <2>1 DEF Mark
<1>8. ASSUME NEW s \in Sweeps, Take(s)
      PROVE  UNCHANGED rowVars \/ \E n \in Messages : \E status : Settle(n, status)
  <2>1. Head(todo[s]) \in Messages
    BY <1>8, HeadTailProperties DEF Take, DispatchTypeOK
  <2> QED
    BY <1>8, <2>1 DEF Take
<1>9. CASE \E n \in Messages : FallsDue(n)
  <2>1. PICK n \in Messages : FallsDue(n)
    BY <1>9
  <2>2. due \in Seq(Messages) /\ due' = Append(due, n) /\ row' = row /\ row[n] \in Unsettled
    BY <2>1 DEF FallsDue, DispatchTypeOK
  <2>3. Range(due') = Range(due) \cup {n}
    BY <2>2, AppendRange
  <2> QED
    BY <2>2, <2>3
<1>10. CASE \E d \in Dispatchers : KeepMessage(d) \/ BlockOnDependencies(d) \/ Wake(d) \/ Skip(d)
  BY <1>1, <1>10 DEF KeepMessage, BlockOnDependencies, Wake, Skip
<1>11. CASE \E s \in Sweeps : Load(s) \/ LogReconciled(s)
  BY <1>1, <1>11 DEF Load, LogReconciled
<1>12. CASE \E n \in Messages : Abandon(n) \/ \E a \in Agents : WorkEnds(n, a)
  BY <1>1, <1>12 DEF Abandon, WorkEnds
<1>13. CASE Cancel \/ Reopen \/ DependenciesFinish \/ Crash
  BY <1>1, <1>13 DEF Cancel, Reopen, DependenciesFinish, Crash
<1> QED
  BY <1>1, <1>2, <1>3, <1>4, <1>5, <1>6, <1>7, <1>8, <1>9, <1>10, <1>11, <1>12, <1>13, StepKinds

\* In time, nobody is about a message on a sweep's list.
LEMMA ListedIsFree ==
    ASSUME DispatchTypeOK, InTime, NEW s \in Sweeps, NEW m \in Messages, m \in Range(todo[s]),
           NEW d \in Dispatchers
    PROVE  ~IsAbout(d, m)
<1> USE DEF InTime
<1>1. IsSweeping(s)
  <2>1. Range(<<>>) = {}
    BY DEF Range
  <2> QED
    BY <2>1 DEF IsSweeping
<1>2. CASE d \in Messages
  BY <1>2 DEF Loaded
<1>3. CASE d \in Sweeps /\ IsSweeping(d)
  <2>1. d = s
    BY <1>1, <1>3 DEF InTurn
  <2> QED
    BY <2>1 DEF Loaded
<1>4. CASE d \in Sweeps /\ ~IsSweeping(d)
  BY <1>4 DEF IsSweeping, IdleIsFree
<1> QED
  BY <1>2, <1>3, <1>4 DEF Dispatchers

\* What becomes of a job: who is about a message afterwards has taken it up, or goes on.
LEMMA NextJob ==
    ASSUME DispatchTypeOK, DispatchNext,
           NEW d \in Dispatchers, NEW m \in Messages, job'[d].message = m
    PROVE  \/ job'[d] = job[d]
           \/ d \in Sweeps /\ ~At(d, "idle") /\ At(d, "marked")'
           \/ /\ d = m /\ row[m] = "none" /\ row'[m] = "pending" /\ wakeups' = wakeups
              /\ job'[d] = Start(m)
           \/ /\ d \in Sweeps /\ todo[d] # <<>> /\ m = Head(todo[d]) /\ row' = row
              /\ wakeups' = wakeups /\ job'[d] = Start(m)
           \/ /\ At(d, "deciding") /\ At(d, "rerouted")' /\ row[m] = "none" /\ row'[m] = "pending"
              /\ job'[d].first = job[d].message
           \/ /\ At(d, "rerouted") /\ At(d, "sending")' /\ job[d].message = m
              /\ job'[d].first = job[d].first /\ job'[d].left = Plan[m] /\ wakeups' = wakeups
           \/ /\ At(d, "deciding") /\ At(d, "sending")' /\ job[d].message = m
              /\ job'[d].first = NoMessage /\ job'[d].left = Plan[m] /\ wakeups' = wakeups
           \/ /\ At(d, "sending") /\ At(d, "sending")' /\ job[d].message = m
              /\ job'[d].first = job[d].first
              /\ \/ BlockOnDependencies(d) /\ job'[d].left = <<>>
                 \/ (Wake(d) \/ Skip(d)) /\ job'[d].left = Tail(job[d].left)
<1>0. /\ Idle \in Jobs /\ Idle.message # m
      /\ \A e \in Dispatchers, j \in Jobs : Does(e, j) => job'[e] = j /\ (e # d => job'[d] = job[d])
  BY JobTypes, MessagesAssumption DEF Does, DispatchTypeOK
<1>1. CASE \E e \in Dispatchers : Does(e, Idle)
  BY <1>0, <1>1
<1>2. CASE job' = job
  BY <1>2
<1>3. ASSUME NEW n \in Messages, Post(n)
      PROVE  \/ job'[d] = job[d]
             \/ /\ d = m /\ row[m] = "none" /\ row'[m] = "pending" /\ wakeups' = wakeups
                /\ job'[d] = Start(m)
  <2>1. n \in Dispatchers /\ Start(n) \in Jobs /\ Start(n).message = n
    BY JobTypes DEF Dispatchers
  <2>2. row[n] = "none" /\ row'[n] = "pending" /\ wakeups' = wakeups /\ Does(n, Start(n))
    BY <1>3 DEF Post, Enqueue, workVars, DispatchTypeOK
  <2>3. CASE d = n
    <3>1. job'[d] = Start(n)
      BY <1>0, <2>1, <2>2, <2>3
    <3>2. n = m
      BY <2>1, <3>1
    <3> QED
      BY <2>2, <2>3, <3>1, <3>2
  <2>4. CASE d # n
    BY <1>0, <2>1, <2>2, <2>4
  <2> QED
    BY <2>3, <2>4
<1>4. ASSUME NEW e \in Dispatchers, Reroute(e)
      PROVE  \/ job'[d] = job[d]
             \/ /\ At(d, "deciding") /\ At(d, "rerouted")' /\ row[m] = "none" /\ row'[m] = "pending"
                /\ job'[d].first = job[d].message
  <2> DEFINE n == job[e].message
  <2>1. n \in Messages /\ At(e, "deciding")
    BY <1>4, OldJob DEF Reroute, At
  <2>2. PICK r \in Reroutes[n] : row[r] = "none" /\ Enqueue(r) /\ Does(e, Job("rerouted", r, n, <<>>))
    BY <1>4 DEF Reroute
  <2> DEFINE j == Job("rerouted", r, n, <<>>)
  <2>3. r \in Messages /\ row'[r] = "pending"
    BY <2>1, <2>2, ReroutesAssumption DEF Enqueue, DispatchTypeOK
  <2>4. j \in Jobs /\ j.pc = "rerouted" /\ j.message = r /\ j.first = n
    BY <2>1, <2>3, JobTypes
  <2>5. job'[e] = j /\ (e # d => job'[d] = job[d])
    BY <1>0, <2>2, <2>4
  <2> HIDE DEF j
  <2>6. CASE e = d
    BY <2>1, <2>2, <2>3, <2>4, <2>5, <2>6 DEF At
  <2> QED
    BY <2>5, <2>6
<1>5. ASSUME NEW e \in Dispatchers, SettleRerouted(e)
      PROVE  \/ job'[d] = job[d]
             \/ /\ At(d, "rerouted") /\ At(d, "sending")' /\ job[d].message = m
                /\ job'[d].first = job[d].first /\ job'[d].left = Plan[m] /\ wakeups' = wakeups
  <2>1. job[e].message \in Messages /\ job[e].first \in Messages /\ At(e, "rerouted")
        /\ wakeups' = wakeups
    BY <1>5, OldJob DEF SettleRerouted, At, workVars
  <2> DEFINE j == Sending(job[e].message, job[e].first)
  <2>2. /\ j \in Jobs /\ j.pc = "sending" /\ j.message = job[e].message /\ j.first = job[e].first
        /\ j.left = Plan[job[e].message]
    BY <2>1, JobTypes
  <2>3. job'[e] = j /\ (e # d => job'[d] = job[d])
    BY <1>0, <1>5, <2>2 DEF SettleRerouted
  <2> HIDE DEF j
  <2>4. CASE e = d
    BY <2>1, <2>2, <2>3, <2>4 DEF At
  <2> QED
    BY <2>3, <2>4
<1>13. ASSUME NEW e \in Dispatchers, KeepMessage(e)
       PROVE  \/ job'[d] = job[d]
              \/ /\ At(d, "deciding") /\ At(d, "sending")' /\ job[d].message = m
                 /\ job'[d].first = NoMessage /\ job'[d].left = Plan[m] /\ wakeups' = wakeups
  <2>1. job[e].message \in Messages /\ At(e, "deciding") /\ wakeups' = wakeups
    BY <1>13, OldJob DEF KeepMessage, At, workVars
  <2> DEFINE j == Sending(job[e].message, NoMessage)
  <2>2. /\ j \in Jobs /\ j.pc = "sending" /\ j.message = job[e].message /\ j.first = NoMessage
        /\ j.left = Plan[job[e].message]
    BY <2>1, JobTypes
  <2>3. job'[e] = j /\ (e # d => job'[d] = job[d])
    BY <1>0, <1>13, <2>2 DEF KeepMessage
  <2> HIDE DEF j
  <2>4. CASE e = d
    BY <2>1, <2>2, <2>3, <2>4 DEF At
  <2> QED
    BY <2>3, <2>4
<1>6. ASSUME NEW e \in Dispatchers, BlockOnDependencies(e) \/ Wake(e) \/ Skip(e)
      PROVE  \/ job'[d] = job[d]
             \/ /\ At(d, "sending") /\ At(d, "sending")' /\ job[d].message = m
                /\ job'[d].first = job[d].first
                /\ \/ BlockOnDependencies(d) /\ job'[d].left = <<>>
                   \/ (Wake(d) \/ Skip(d)) /\ job'[d].left = Tail(job[d].left)
  <2>1. CASE e # d
    BY <1>6, <2>1 DEF BlockOnDependencies, Wake, Skip, DispatchTypeOK
  <2>2. CASE e = d
    <3>1. CASE BlockOnDependencies(d)
      BY <3>1 DEF BlockOnDependencies, IsNew, At, DispatchTypeOK, Jobs
    <3>2. CASE Wake(d)
      BY <3>2 DEF Wake, At, DispatchTypeOK, Jobs
    <3>3. CASE Skip(d)
      BY <2>2, <3>3, SkipGoesOn
    <3> QED
      BY <1>6, <2>2, <3>1, <3>2, <3>3
  <2> QED
    BY <2>1, <2>2
<1>7. ASSUME NEW e \in Dispatchers, Throw(e) \/ Mark(e)
      PROVE  job'[d] = job[d] \/ (d \in Sweeps /\ ~At(d, "idle") /\ At(d, "marked")')
  <2> DEFINE j == Job("marked", job[e].message, NoMessage, <<>>)
  <2>1. CASE e \in Sweeps /\ ~At(e, "idle") /\ Does(e, j)
    <3>1. j \in Jobs /\ j.pc = "marked"
      BY <2>1, OldJob, JobTypes
    <3>2. job'[e] = j /\ (e # d => job'[d] = job[d])
      BY <1>0, <2>1, <3>1
    <3> HIDE DEF j
    <3> QED
      BY <2>1, <3>1, <3>2 DEF At
  <2>2. CASE Does(e, Idle)
    BY <1>1, <1>0, <2>2
  <2> QED
    BY <1>7, <2>1, <2>2 DEF Throw, Mark, At
<1>8. ASSUME NEW s \in Sweeps, Take(s)
      PROVE  \/ job'[d] = job[d]
             \/ /\ d \in Sweeps /\ todo[d] # <<>> /\ m = Head(todo[d]) /\ row' = row
                /\ wakeups' = wakeups /\ job'[d] = Start(m)
  <2> DEFINE n == Head(todo[s])
  <2>1. n \in Messages /\ s \in Dispatchers /\ wakeups' = wakeups
    BY <1>8, HeadTailProperties DEF Take, DispatchTypeOK, Dispatchers, workVars
  <2>2. CASE Does(s, Start(n)) /\ UNCHANGED rowVars
    <3>1. Start(n) \in Jobs /\ Start(n).message = n
      BY <2>1, JobTypes
    <3>2. job'[s] = Start(n) /\ (s # d => job'[d] = job[d])
      BY <1>0, <2>1, <2>2, <3>1
    <3>3. CASE s = d
      <4>1. n = m
        BY <3>1, <3>2, <3>3
      <4> QED
        BY <1>8, <2>1, <2>2, <3>2, <3>3, <4>1 DEF Take, rowVars
    <3> QED
      BY <3>2, <3>3
  <2> QED
    BY <1>2, <1>8, <2>2 DEF Take
<1>9. CASE \E s \in Sweeps : Load(s) \/ LogReconciled(s)
  BY <1>1, <1>2, <1>9 DEF Load, LogReconciled, Dispatchers
<1>10. CASE \E n \in Messages : Abandon(n) \/ FallsDue(n) \/ \E a \in Agents : WorkEnds(n, a)
  BY <1>1, <1>2, <1>10 DEF Abandon, FallsDue, WorkEnds, Dispatchers
<1>11. CASE Cancel \/ Reopen \/ DependenciesFinish
  BY <1>2, <1>11 DEF Cancel, Reopen, DependenciesFinish
<1>12. ~Crash
  BY <1>0 DEF Crash
<1> QED
  BY <1>3, <1>4, <1>5, <1>6, <1>7, <1>8, <1>9, <1>10, <1>11, <1>12, <1>13, StepKinds

\* A dispatch that goes on keeps whom it has woken, unless it ends or the server fails.
LEMMA WakingSteps ==
    ASSUME DispatchTypeOK, PosterIsIdle, DispatchNext,
           NEW d \in Dispatchers, NEW m \in Messages, IsWaking(d, m)
    PROVE  IsWaking(d, m)' \/ Mark(d) \/ Throw(d) \/ Fault
<1>0. /\ job[d].pc = "sending" /\ Idle \in Jobs /\ Idle.pc = "idle"
      /\ \A e \in Dispatchers, j \in Jobs : Does(e, j) /\ e # d => job'[d] = job[d]
  BY JobTypes DEF Does, DispatchTypeOK, IsWaking, At
<1>1. job'[d] = job[d] => IsWaking(d, m)'
  BY DEF IsWaking, At
<1>2. job' = job => IsWaking(d, m)'
  BY <1>1
<1>3. ASSUME NEW n \in Messages, Post(n) PROVE IsWaking(d, m)'
  <2>1. n \in Dispatchers /\ Start(n) \in Jobs /\ Does(n, Start(n)) /\ At(n, "idle")
    BY <1>3, JobTypes DEF Post, Dispatchers, PosterIsIdle
  <2>2. n # d
    BY <1>0, <2>1 DEF At
  <2> QED
    BY <1>0, <1>1, <2>1, <2>2
<1>4. ASSUME NEW e \in Dispatchers, Reroute(e) PROVE IsWaking(d, m)'
  <2> DEFINE n == job[e].message
  <2>1. n \in Messages /\ At(e, "deciding")
    BY <1>4, OldJob DEF Reroute, At
  <2>2. PICK r \in Reroutes[n] : Does(e, Job("rerouted", r, n, <<>>))
    BY <1>4 DEF Reroute
  <2>3. r \in Messages /\ Job("rerouted", r, n, <<>>) \in Jobs /\ e # d
    BY <1>0, <2>1, <2>2, JobTypes, ReroutesAssumption DEF At
  <2> QED
    BY <1>0, <1>1, <2>2, <2>3
<1>5. ASSUME NEW e \in Dispatchers, SettleRerouted(e) PROVE IsWaking(d, m)'
  <2>1. job[e].message \in Messages /\ job[e].first \in Messages /\ e # d
    BY <1>0, <1>5, OldJob DEF SettleRerouted, At
  <2>2. Sending(job[e].message, job[e].first) \in Jobs
    BY <2>1, JobTypes
  <2> QED
    BY <1>0, <1>1, <1>5, <2>1, <2>2 DEF SettleRerouted
<1>11. ASSUME NEW e \in Dispatchers, KeepMessage(e) PROVE IsWaking(d, m)'
  <2>1. job[e].message \in Messages /\ e # d
    BY <1>0, <1>11, OldJob DEF KeepMessage, At
  <2>2. Sending(job[e].message, NoMessage) \in Jobs
    BY <2>1, JobTypes
  <2> QED
    BY <1>0, <1>1, <1>11, <2>1, <2>2 DEF KeepMessage
<1>6. ASSUME NEW e \in Dispatchers, BlockOnDependencies(e) \/ Wake(e) \/ Skip(e)
      PROVE  IsWaking(d, m)'
  <2>1. CASE BlockOnDependencies(e)
    BY <2>1 DEF BlockOnDependencies, IsNew, IsWaking, At, DispatchTypeOK, Jobs
  <2>2. CASE Wake(e)
    BY <2>2 DEF Wake, IsWaking, At, DispatchTypeOK, Jobs
  <2>3. CASE Skip(e)
    BY <2>3, SkipGoesOn DEF IsWaking, At
  <2> QED
    BY <1>6, <2>1, <2>2, <2>3
<1>7. ASSUME NEW e \in Dispatchers, e # d, Throw(e) \/ Mark(e) PROVE IsWaking(d, m)'
  <2>1. CASE Does(e, Idle)
    BY <1>0, <1>1, <1>7, <2>1
  <2>2. CASE ~At(e, "idle") /\ Does(e, Job("marked", job[e].message, NoMessage, <<>>))
    <3>1. Job("marked", job[e].message, NoMessage, <<>>) \in Jobs
      BY <2>2, OldJob, JobTypes
    <3> QED
      BY <1>0, <1>1, <1>7, <2>2, <3>1
  <2> QED
    BY <1>7, <2>1, <2>2 DEF Throw, Mark, At
<1>8. ASSUME NEW s \in Sweeps, Load(s) \/ Take(s) \/ LogReconciled(s) PROVE IsWaking(d, m)'
  <2>1. CASE Load(s)
    BY <1>2, <2>1 DEF Load
  <2>2. CASE Take(s)
    <3>1. Head(todo[s]) \in Messages
      BY <2>2, HeadTailProperties DEF Take, DispatchTypeOK
    <3>2. Start(Head(todo[s])) \in Jobs /\ s \in Dispatchers /\ s # d
      BY <1>0, <2>2, <3>1, JobTypes DEF Take, At, Dispatchers
    <3> QED
      BY <1>0, <1>1, <1>2, <2>2, <3>2 DEF Take
  <2>3. CASE LogReconciled(s)
    <3>1. s \in Dispatchers /\ s # d /\ Does(s, Idle)
      BY <1>0, <2>3 DEF LogReconciled, At, Dispatchers
    <3> QED
      BY <1>0, <1>1, <3>1
  <2> QED
    BY <1>8, <2>1, <2>2, <2>3
<1>9. CASE \E n \in Messages : Abandon(n) \/ FallsDue(n) \/ \E a \in Agents : WorkEnds(n, a)
  BY <1>2, <1>9 DEF Abandon, FallsDue, WorkEnds
<1>10. CASE Cancel \/ Reopen \/ DependenciesFinish \/ Crash
  BY <1>2, <1>10 DEF Cancel, Reopen, DependenciesFinish, Crash
<1> QED
  BY <1>3, <1>4, <1>5, <1>6, <1>7, <1>8, <1>9, <1>10, <1>11, StepKinds

-----------------------------------------------------------------------------

\* In time, every step keeps ListedIsUnsettled.
LEMMA ListedIsUnsettledNext ==
    ASSUME DispatchTypeOK, timely, InTime, InOrder, DispatchNext
    PROVE  ListedIsUnsettled'
<1> SUFFICES ASSUME NEW m \in Messages, m \in Range(due') \/ \E s \in Sweeps : m \in Range(todo'[s])
             PROVE  row'[m] \in Unsettled
  BY DEF ListedIsUnsettled
<1>0. IsDistinct(due) /\ DueOnce
  BY DEF InTime, DueOnce
<1>1. CASE m \in Range(due')
  BY <1>0, <1>1, DueTurns DEF InOrder, ListedIsUnsettled
<1>2. ASSUME NEW s \in Sweeps, m \in Range(todo'[s]), m \in Range(todo[s]) PROVE row'[m] \in Unsettled
  <2>1. row[m] \in Unsettled
    BY <1>2 DEF InOrder, ListedIsUnsettled
  <2>2. \A d \in Dispatchers : ~IsAbout(d, m)
    BY <1>2, ListedIsFree
  <2>3. ASSUME NEW z \in Sweeps, Take(z), m = Head(todo[z]) PROVE FALSE
    <3>1. IsSweeping(z) /\ IsSweeping(s)
      <4>1. Range(<<>>) = {}
        BY DEF Range
      <4> QED
        BY <1>2, <2>3, <4>1 DEF Take, IsSweeping
    <3>2. z = s
      BY <3>1 DEF InTime, InTurn
    <3>3. todo'[s] = Tail(todo[s]) /\ todo[s] # <<>>
      BY <2>3, <3>2 DEF Take, DispatchTypeOK
    <3> QED
      BY <1>0, <1>2, <2>3, <3>2, <3>3, Takes
  <2>4. row[m] # "none"
    BY <2>1 DEF Unsettled
  <2> QED
    BY <2>1, <2>2, <2>3, <2>4, RowTurns DEF IsAbout
<1>3. ASSUME NEW s \in Sweeps, m \in Range(todo'[s]), m \notin Range(todo[s]) PROVE row'[m] \in Unsettled
  <2>1. m \in Range(due) /\ row' = row
    BY <1>0, <1>3, TodoSteps
  <2> QED
    BY <2>1 DEF InOrder, ListedIsUnsettled
<1> QED
  BY <1>1, <1>2, <1>3

\* Every step keeps PosterIsIdle.
LEMMA PosterIsIdleNext ==
    ASSUME DispatchTypeOK, PosterIsIdle, DispatchNext
    PROVE  PosterIsIdle'
<1> SUFFICES ASSUME NEW d \in Messages, row'[d] = "none", ~At(d, "idle")' PROVE FALSE
  BY DEF PosterIsIdle
<1>1. d \in Dispatchers /\ d \notin Sweeps /\ At(d, "idle")
  BY PostedStays, MessagesAssumption DEF Dispatchers, PosterIsIdle
<1>2. job'[d].message \in Messages
  BY <1>1, TypesNext DEF DispatchTypeOK, At
<1> DEFINE m == job'[d].message
<1>3. m \in Messages /\ job'[d].message = m
  BY <1>2
<1> HIDE DEF m
<1>4. job'[d] # job[d] /\ ~At(d, "deciding") /\ ~At(d, "rerouted") /\ ~At(d, "sending")
  BY <1>1 DEF At
<1> QED
  BY <1>1, <1>3, <1>4, NextJob

\* Every step keeps SystemIsAlone.
LEMMA SystemIsAloneNext ==
    ASSUME DispatchTypeOK, SystemIsAlone, DispatchNext
    PROVE  SystemIsAlone'
<1> SUFFICES ASSUME NEW d \in SystemMessages
             PROVE  job'[d].pc \in {"idle", "sending"} /\ job'[d].message \in SystemMessages \cup {NoMessage}
  BY DEF SystemIsAlone
<1>1. d \in Messages /\ d \in Dispatchers /\ d \notin Sweeps
  BY ReroutesAssumption, MessagesAssumption DEF Dispatchers
<1>2. job[d].pc \in {"idle", "sending"} /\ job[d].message \in SystemMessages \cup {NoMessage}
  BY DEF SystemIsAlone
<1>3. job'[d].message \in Messages \cup {NoMessage} /\ (job'[d].message = NoMessage => job'[d].pc = "idle")
  BY <1>1, TypesNext, MessagesAssumption DEF DispatchTypeOK, Jobs
<1>4. CASE job'[d].message = NoMessage
  BY <1>3, <1>4
<1>5. ASSUME NEW m \in Messages, job'[d].message = m
      PROVE  job'[d].pc \in {"idle", "sending"} /\ job'[d].message \in SystemMessages
  <2>1. CASE job'[d] = job[d]
    BY <1>2, <1>5, <2>1, MessagesAssumption
  <2>2. CASE d = m /\ job'[d] = Start(m)
    <3>1. Reroutes[m] = {}
      BY <2>2, ReroutesAssumption
    <3>2. Start(m) = Sending(m, NoMessage) /\ Sending(m, NoMessage).pc = "sending"
      BY <3>1, JobTypes DEF Start
    <3> QED
      BY <1>5, <2>2, <3>2
  <2>3. CASE At(d, "sending") /\ At(d, "sending")' /\ job[d].message = m
    BY <1>2, <1>5, <2>3, MessagesAssumption DEF At
  <2>4. ~At(d, "deciding") /\ ~At(d, "rerouted")
    BY <1>2 DEF At
  <2> QED
    BY <1>1, <1>5, <2>1, <2>2, <2>3, <2>4, NextJob
<1> QED
  BY <1>3, <1>4, <1>5

\* In time, a row stays unsettled until who is about its message settles it.
LEMMA AboutKeepsUnsettled ==
    ASSUME DispatchTypeOK, InTime, DispatchNext, NEW d \in Dispatchers, NEW m \in Messages,
           IsAbout(d, m), row[m] \in Unsettled,
           ~(SettleRerouted(d) /\ job[d].first = m), ~(Mark(d) /\ job[d].message = m)
    PROVE  row'[m] \in Unsettled
<1>1. \A e \in Dispatchers : IsAbout(e, m) => e = d
  BY DEF InTime, OneEach
<1>2. ASSUME NEW e \in Dispatchers, SettleRerouted(e), job[e].first = m PROVE FALSE
  BY <1>1, <1>2 DEF IsAbout
<1>3. ASSUME NEW e \in Dispatchers, Mark(e), job[e].message = m PROVE FALSE
  BY <1>1, <1>3 DEF IsAbout
<1>4. ASSUME NEW s \in Sweeps, Take(s), m = Head(todo[s]) PROVE FALSE
  <2>1. m \in Range(todo[s])
    BY <1>4, Takes DEF Take, InTime
  <2> QED
    BY <2>1, ListedIsFree
<1>5. row[m] # "none"
  BY DEF Unsettled
<1> QED
  BY <1>2, <1>3, <1>4, <1>5, RowTurns

\* In time, every step keeps UnderWayIsUnsettled.
LEMMA UnderWayIsUnsettledNext ==
    ASSUME DispatchTypeOK, timely, InTime, InOrder, DispatchNext
    PROVE  UnderWayIsUnsettled'
<1> SUFFICES ASSUME NEW d \in Dispatchers, NEW m \in Messages, job'[d].message = m, ~At(d, "marked")'
             PROVE  row'[m] \in Unsettled /\ job'[d].first # m
  BY DEF UnderWayIsUnsettled
<1>0. "pending" \in Unsettled /\ \A st \in Settled : st \notin Unsettled
  BY DEF Unsettled, Settled, NoAction
<1>1. ASSUME NEW n \in Messages, job'[d] = Start(n) PROVE job'[d].first # m
  BY <1>1, JobTypes, MessagesAssumption
<1>2. CASE d = m /\ row'[m] = "pending" /\ job'[d] = Start(m)
  BY <1>0, <1>1, <1>2
<1>3. CASE d \in Sweeps /\ todo[d] # <<>> /\ m = Head(todo[d]) /\ row' = row /\ job'[d] = Start(m)
  <2>1. m \in Range(todo[d])
    BY <1>3, Takes DEF InTime
  <2> QED
    BY <1>1, <1>3, <2>1 DEF InOrder, ListedIsUnsettled
<1>4. CASE /\ At(d, "deciding") /\ row[m] = "none" /\ row'[m] = "pending"
           /\ job'[d].first = job[d].message
  <2>1. ~IsAbout(d, m)
    BY <1>4 DEF InTime, NoneBefore
  <2> QED
    BY <1>0, <1>4, <2>1 DEF IsAbout
<1>5. ASSUME job[d].message = m, ~At(d, "marked"), job'[d].first \in {job[d].first, NoMessage}
      PROVE  row'[m] \in Unsettled /\ job'[d].first # m
  <2>1. row[m] \in Unsettled /\ job[d].first # m
    BY <1>5 DEF InOrder, UnderWayIsUnsettled
  <2>2. ASSUME Mark(d) PROVE FALSE
    <3>1. Does(d, Idle) \/ Does(d, Job("marked", m, NoMessage, <<>>))
      BY <1>5, <2>2 DEF Mark
    <3>2. job'[d] = Idle \/ job'[d] = Job("marked", m, NoMessage, <<>>)
      BY <3>1 DEF Does, DispatchTypeOK
    <3> QED
      BY <3>2, JobTypes, MessagesAssumption DEF At
  <2>3. row'[m] \in Unsettled
    BY <1>5, <2>1, <2>2, AboutKeepsUnsettled DEF IsAbout
  <2> QED
    BY <1>5, <2>1, <2>3, MessagesAssumption
<1>6. CASE job'[d] = job[d]
  <2>1. job[d].message = m /\ ~At(d, "marked") /\ job'[d].first = job[d].first
    BY <1>6 DEF At
  <2> QED
    BY <1>5, <2>1
<1>7. CASE /\ At(d, "rerouted") \/ At(d, "deciding") \/ At(d, "sending")
           /\ job[d].message = m /\ job'[d].first \in {job[d].first, NoMessage}
  <2>1. ~At(d, "marked")
    BY <1>7 DEF At
  <2> QED
    BY <1>5, <1>7, <2>1
<1> QED
  BY <1>2, <1>3, <1>4, <1>6, <1>7, NextJob

\* In time, every step keeps ReplacedIsUnsettled.
LEMMA ReplacedIsUnsettledNext ==
    ASSUME DispatchTypeOK, InTime, InOrder, DispatchNext
    PROVE  ReplacedIsUnsettled'
<1> SUFFICES ASSUME NEW d \in Dispatchers, NEW m \in Messages, At(d, "rerouted")', job'[d].first = m
             PROVE  row'[m] \in Unsettled
  BY DEF ReplacedIsUnsettled
<1>1. PICK n \in Messages : job'[d].message = n
  BY TypesNext DEF DispatchTypeOK, At
<1>2. CASE job'[d] = job[d]
  <2>1. At(d, "rerouted") /\ job[d].first = m
    BY <1>2 DEF At
  <2>2. row[m] \in Unsettled /\ ~Mark(d)
    BY <2>1 DEF InOrder, ReplacedIsUnsettled, Mark, At
  <2>3. ~SettleRerouted(d)
    <3> SUFFICES ASSUME SettleRerouted(d) PROVE FALSE
      OBVIOUS
    <3>1. job[d].message \in Messages
      BY <2>1, OldJob DEF At
    <3> DEFINE j == Sending(job[d].message, m)
    <3>2. j.pc = "sending" /\ Does(d, j)
      BY <2>1, <3>1, JobTypes DEF SettleRerouted
    <3> HIDE DEF j
    <3>3. job'[d] = j
      BY <3>2 DEF Does, DispatchTypeOK
    <3> QED
      BY <3>2, <3>3 DEF At
  <2> QED
    BY <2>1, <2>2, <2>3, AboutKeepsUnsettled DEF IsAbout
<1>3. CASE At(d, "deciding") /\ job'[d].first = job[d].message
  <2>1. row[m] \in Unsettled /\ ~Mark(d) /\ ~SettleRerouted(d)
    BY <1>3 DEF InOrder, UnderWayIsUnsettled, Mark, SettleRerouted, At
  <2> QED
    BY <1>3, <2>1, AboutKeepsUnsettled DEF IsAbout
<1>4. \A k \in Messages : job'[d] # Start(k)
  BY JobTypes DEF At
<1>5. ~At(d, "sending")' /\ ~At(d, "marked")'
  BY DEF At
<1> QED
  BY <1>1, <1>2, <1>3, <1>4, <1>5, NextJob

\* Every step keeps MarkedBySweep.
LEMMA MarkedBySweepNext ==
    ASSUME DispatchTypeOK, MarkedBySweep, DispatchNext
    PROVE  MarkedBySweep'
<1> SUFFICES ASSUME NEW d \in Dispatchers, At(d, "marked")' PROVE d \in Sweeps
  BY DEF MarkedBySweep
<1>1. PICK n \in Messages : job'[d].message = n
  BY TypesNext DEF DispatchTypeOK, At
<1>2. \A k \in Messages : job'[d] # Start(k)
  BY JobTypes DEF At
<1>3. ~At(d, "sending")' /\ ~At(d, "rerouted")'
  BY DEF At
<1>4. job'[d] = job[d] => d \in Sweeps
  BY DEF MarkedBySweep, At
<1> QED
  BY <1>1, <1>2, <1>3, <1>4, NextJob

-----------------------------------------------------------------------------

\* A fault is counted.
LEMMA FaultCounts ==
    ASSUME DispatchTypeOK, faults' = faults
    PROVE  ~Fault
<1>1. faults \in Nat
  BY BoundsAssumption DEF DispatchTypeOK
<1>2. Fault => faults' = faults + 1
  BY Zenon DEF Fault
<1>3. \A k \in Nat : k # k + 1
  OBVIOUS
<1> QED
  BY <1>1, <1>2, <1>3

\* Without a fault, a dispatch throws only for what it decides, or for who is paused.
LEMMA FaultlessThrow ==
    ASSUME DispatchTypeOK, LeftIsUnwoken, faults' = faults, NEW d \in Dispatchers, Throw(d)
    PROVE  ~Fault /\ Retried(d) = job[d].message
           /\ \A m \in Routed : job[d].message = m => At(d, "deciding")
<1>1. ~Fault
  BY FaultCounts
<1>2. Retried(d) = job[d].message
  BY <1>1 DEF Throw, Retried, At
<1>3. ASSUME NEW m \in Routed, job[d].message = m, At(d, "sending"), job[d].left # <<>>,
             Head(job[d].left) \in NotInvokable
      PROVE  FALSE
  <2> DEFINE left == job[d].left
  <2>1. left \in Seq(Agents) /\ left # <<>> /\ Head(left) \in NotInvokable
    BY <1>3, OldJob DEF At
  <2>2. Range(left) \subseteq Range(Plan[m]) /\ Range(Plan[m]) \cap NotInvokable = {}
    BY <1>3 DEF LeftIsUnwoken, Routed, IsInvokable
  <2> HIDE DEF left
  <2>3. Head(left) \in Range(left)
    BY <2>1, TailRange
  <2> QED
    BY <2>1, <2>2, <2>3
<1> QED
  BY <1>1, <1>2, <1>3 DEF Throw

\* Nobody has been woken for a message that nobody is sending, and that is not settled.
LEMMA UntouchedBefore ==
    ASSUME DispatchTypeOK, WokenByOne, NEW m \in Routed, row[m] \notin Settled,
           \A d \in Dispatchers : ~IsWaking(d, m)
    PROVE  Woken(m) = {}
BY DEF WokenByOne

\* Only a wakeup for a message that is under way changes whom it has woken.
LEMMA WokenSteps ==
    ASSUME DispatchTypeOK, DispatchNext, NEW m \in Messages
    PROVE  \/ Woken(m)' = Woken(m) /\ wakeups'[m] = wakeups[m]
           \/ \E d \in Dispatchers : Wake(d) /\ job[d].message = m /\ At(d, "sending")
<1>1. CASE wakeups' = wakeups
  BY <1>1 DEF Woken
<1>2. ASSUME NEW d \in Dispatchers, Wake(d), job[d].message # m
      PROVE  Woken(m)' = Woken(m) /\ wakeups'[m] = wakeups[m]
  <2>1. wakeups'[m] = wakeups[m]
    BY <1>2 DEF Wake, DispatchTypeOK
  <2> QED
    BY <2>1 DEF Woken
<1>3. ASSUME NEW d \in Dispatchers, Wake(d) PROVE At(d, "sending")
  BY <1>3 DEF Wake
<1> QED
  BY <1>1, <1>2, <1>3, WorkSteps

\* Without faults, every step keeps WokenByOne.
LEMMA WokenByOneNext ==
    ASSUME DispatchTypeOK, timely, InTime, InOrder, Once, faults' = faults, DispatchNext
    PROVE  WokenByOne'
<1> USE DEF Once
<1> SUFFICES ASSUME NEW m \in Routed, Woken(m)' # {}
             PROVE  row'[m] \in Settled \/ \E d \in Dispatchers : IsWaking(d, m)'
  BY DEF WokenByOne, Routed, IsInvokable
<1>0. m \in Messages /\ m \notin SystemMessages
  BY DEF Routed
<1>1. ASSUME NEW d \in Dispatchers, Wake(d), job[d].message = m PROVE IsWaking(d, m)'
  BY <1>1 DEF Wake, IsWaking, At, DispatchTypeOK, Jobs
<1>2. CASE Woken(m) # {} /\ row[m] \in Settled
  <2>1. CASE row'[m] = row[m]
    BY <1>2, <2>1
  <2>2. ASSUME NEW d \in Dispatchers, Throw(d), m = Retried(d) PROVE FALSE
    <3>1. job[d].message = m /\ At(d, "deciding")
      BY <2>2, FaultlessThrow
    <3>2. row[m] \in Unsettled
      BY <1>0, <3>1 DEF InOrder, UnderWayIsUnsettled, At
    <3> QED
      BY <1>2, <3>2 DEF Unsettled, Settled, NoAction
  <2>3. row[m] # "none"
    BY <1>2 DEF Settled, NoAction
  <2> QED
    BY <1>0, <2>1, <2>2, <2>3, RowTurns
<1>3. ASSUME NEW d \in Dispatchers, IsWaking(d, m)
      PROVE  row'[m] \in Settled \/ IsWaking(d, m)'
  <2>1. At(d, "sending") /\ job[d].message = m /\ job[d].queued
    BY <1>3 DEF IsWaking
  <2>2. CASE Mark(d)
    <3>1. d \notin SystemMessages
      BY <1>0, <2>1, MessagesAssumption DEF InOrder, SystemIsAlone
    <3>2. Settle(m, "dispatched")
      BY <2>1, <2>2, <3>1 DEF Mark
    <3> QED
      BY <1>0, <3>2 DEF Settle, DispatchTypeOK, Settled
  <2>3. ~Throw(d)
    BY <2>1, FaultlessThrow DEF At
  <2>4. ~Fault
    BY FaultCounts
  <2> QED
    BY <1>0, <1>3, <2>2, <2>3, <2>4, WakingSteps DEF InOrder
<1> QED
  BY <1>0, <1>1, <1>2, <1>3, WokenSteps DEF WokenByOne

\* In time, every step keeps LeftIsUnwoken.
LEMMA LeftIsUnwokenNext ==
    ASSUME DispatchTypeOK, timely, InTime, InOrder, Once, DispatchNext
    PROVE  LeftIsUnwoken'
<1> USE DEF Once
<1> SUFFICES ASSUME NEW d \in Dispatchers, NEW m \in Routed, At(d, "sending")', job'[d].message = m
             PROVE  Range(job'[d].left) \subseteq Range(Plan[m]) \ Woken(m)'
  BY DEF LeftIsUnwoken, Routed, IsInvokable
<1>0. m \in Messages /\ m \notin SystemMessages
  BY DEF Routed
<1>1. ASSUME wakeups' = wakeups, Woken(m) = {}, job'[d].left = Plan[m]
      PROVE  Range(job'[d].left) \subseteq Range(Plan[m]) \ Woken(m)'
  BY <1>1 DEF Woken
<1>2. ASSUME row[m] \notin Settled, \A e \in Dispatchers : ~IsAbout(e, m) PROVE Woken(m) = {}
  BY <1>2, UntouchedBefore DEF IsWaking, IsAbout
<1>3. CASE d = m /\ row[m] = "none" /\ wakeups' = wakeups /\ job'[d] = Start(m)
  <2>1. Woken(m) = {}
    BY <1>0, <1>2, <1>3 DEF InTime, NoneBefore, Settled, NoAction
  <2>2. job'[d].left = Plan[m]
    BY <1>0, <1>3, JobTypes DEF At
  <2> QED
    BY <1>1, <1>3, <2>1, <2>2
<1>4. CASE d \in Sweeps /\ todo[d] # <<>> /\ m = Head(todo[d]) /\ wakeups' = wakeups /\ job'[d] = Start(m)
  <2>1. m \in Range(todo[d])
    BY <1>0, <1>4, Takes DEF InTime
  <2>2. row[m] \in Unsettled
    BY <1>0, <1>4, <2>1 DEF InOrder, ListedIsUnsettled
  <2>3. Woken(m) = {}
    BY <1>0, <1>2, <1>4, <2>1, <2>2, ListedIsFree DEF Unsettled, Settled, NoAction
  <2>4. job'[d].left = Plan[m]
    BY <1>0, <1>4, JobTypes DEF At
  <2> QED
    BY <1>1, <1>4, <2>3, <2>4
<1>5. CASE /\ At(d, "rerouted") \/ At(d, "deciding")
           /\ job[d].message = m /\ job'[d].left = Plan[m] /\ wakeups' = wakeups
  <2>1. row[m] \in Unsettled
    BY <1>0, <1>5 DEF InOrder, UnderWayIsUnsettled, At
  <2>2. \A e \in Dispatchers : ~IsWaking(e, m)
    BY <1>0, <1>5 DEF InTime, OneEach, IsAbout, IsWaking, At
  <2>3. Woken(m) = {}
    BY <2>1, <2>2, UntouchedBefore DEF Unsettled, Settled, NoAction
  <2> QED
    BY <1>1, <1>5, <2>3
<1>6. CASE /\ At(d, "sending") /\ job[d].message = m
           /\ \/ job'[d] = job[d]
              \/ BlockOnDependencies(d) /\ job'[d].left = <<>>
              \/ (Wake(d) \/ Skip(d)) /\ job'[d].left = Tail(job[d].left)
  <2> DEFINE left == job[d].left
             rest == job'[d].left
  <2>1. left \in Seq(Agents) /\ IsDistinct(left) /\ Range(left) \subseteq Range(Plan[m]) \ Woken(m)
    BY <1>0, <1>6, OldJob DEF At, InTime, Fresh, LeftIsUnwoken
  <2>2. \A e \in Dispatchers : Wake(e) /\ job[e].message = m => e = d
    BY <1>0, <1>6 DEF InTime, OneEach, IsAbout
  <2>3. Wake(d) => left # <<>> /\ rest = Tail(left)
    BY DEF Wake, DispatchTypeOK, Jobs
  <2>4. CASE Wake(d)
    <3>1. Woken(m)' = Woken(m) \cup {Head(left)} /\ rest = Tail(left) /\ left # <<>>
      BY <1>0, <1>6, <2>3, <2>4, WakeCounts
    <3> HIDE DEF left, rest
    <3>2. Range(rest) \subseteq Range(left) /\ Head(left) \notin Range(rest)
      BY <2>1, <3>1, TailRange
    <3>3. Range(rest) \subseteq Range(Plan[m]) \ Woken(m)'
      BY <2>1, <3>1, <3>2
    <3> QED
      BY <3>3 DEF rest
  <2>5. CASE ~Wake(d)
    <3>1. Woken(m)' = Woken(m)
      BY <1>0, <2>2, <2>5, WokenSteps
    <3>2. rest = left \/ rest = <<>> \/ (left # <<>> /\ rest = Tail(left))
      BY <1>6, <2>5 DEF Skip
    <3> HIDE DEF left, rest
    <3>3. Range(rest) \subseteq Range(left)
      <4>1. CASE left # <<>> /\ rest = Tail(left)
        BY <2>1, <4>1, TailRange
      <4>2. CASE rest = <<>>
        BY <4>2 DEF Range
      <4> QED
        BY <3>2, <4>1, <4>2
    <3>4. Range(rest) \subseteq Range(Plan[m]) \ Woken(m)'
      BY <2>1, <3>1, <3>3
    <3> QED
      BY <3>4 DEF rest
  <2> QED
    BY <2>4, <2>5
<1>7. CASE job'[d] = job[d]
  <2>1. At(d, "sending") /\ job[d].message = m
    BY <1>7 DEF At
  <2> QED
    BY <1>6, <1>7, <2>1
<1>8. ~At(d, "marked")' /\ ~At(d, "rerouted")'
  BY DEF At
<1> QED
  BY <1>0, <1>3, <1>4, <1>5, <1>6, <1>7, <1>8, NextJob

\* In time, every step keeps WokenOnce.
LEMMA WokenOnceNext ==
    ASSUME DispatchTypeOK, timely, InTime, InOrder, Once, DispatchNext
    PROVE  WokenOnce'
<1> USE DEF Once
<1> SUFFICES ASSUME NEW m \in Routed
             PROVE  Woken(m)' \subseteq Supported(m) /\ \A a \in Agents : wakeups'[m][a] < 2
  BY DEF WokenOnce, Routed, IsInvokable, Supported
<1>0. m \in Messages
  BY DEF Routed
<1>1. Woken(m) \subseteq Supported(m) /\ \A a \in Agents : wakeups[m][a] < 2
  BY DEF WokenOnce
<1>2. CASE Woken(m)' = Woken(m) /\ wakeups'[m] = wakeups[m]
  BY <1>1, <1>2
<1>3. ASSUME NEW d \in Dispatchers, Wake(d), job[d].message = m, At(d, "sending")
      PROVE  Woken(m)' \subseteq Supported(m) /\ \A a \in Agents : wakeups'[m][a] < 2
  <2> DEFINE left == job[d].left
             b == Head(left)
  <2>1. left \in Seq(Agents) /\ left # <<>> /\ b \notin Unsupported
    BY <1>3, OldJob DEF Wake, At
  <2>2. Range(left) \subseteq Range(Plan[m]) \ Woken(m)
    BY <1>3 DEF LeftIsUnwoken
  <2>3. /\ Woken(m)' = Woken(m) \cup {b} /\ b \in Agents
        /\ wakeups' = [wakeups EXCEPT ![m][b] = IF @ < 2 THEN @ + 1 ELSE @]
    <3>1. b \in Agents /\ Woken(m)' = Woken(m) \cup {b}
      BY <1>0, <1>3, WakeCounts
    <3> QED
      BY <1>3, <3>1 DEF Wake
  <2>4. b \in Range(left)
    <3> HIDE DEF left
    <3> QED
      BY <2>1, TailRange
  <2> HIDE DEF left, b
  <2>5. b \in Supported(m) /\ b \notin Woken(m)
    BY <2>1, <2>2, <2>4 DEF Supported
  <2>6. wakeups[m] \in [Agents -> 0..2] /\ wakeups[m][b] = 0
    BY <1>0, <2>3, <2>5 DEF Woken, DispatchTypeOK
  <2>7. wakeups'[m] = [wakeups[m] EXCEPT ![b] = 1]
    BY <1>0, <2>3, <2>6 DEF DispatchTypeOK
  <2>8. \A a \in Agents : wakeups'[m][a] < 2
    BY <1>1, <2>6, <2>7
  <2> QED
    BY <1>1, <2>3, <2>5, <2>8
<1> QED
  BY <1>0, <1>2, <1>3, WokenSteps

\* In time, every step keeps DispatchedIsWoken.
LEMMA DispatchedIsWokenNext ==
    ASSUME DispatchInvariant, timely, InTime, InOrder, Once, DispatchNext
    PROVE  DispatchedIsWoken'
<1> USE DEF Once, DispatchInvariant
<1> SUFFICES ASSUME NEW m \in Routed, row'[m] = "dispatched"
             PROVE  Supported(m) \subseteq Woken(m)' \cup skipped'[m] \/ m \in held'
  BY DEF DispatchedIsWoken, Routed, IsInvokable, Supported
<1>0. m \in Messages /\ held \subseteq held' /\ skipped[m] \subseteq skipped'[m]
      /\ Woken(m) \subseteq Woken(m)'
  BY WorkSteps, ReachedStays DEF Routed
<1>1. CASE row[m] = "dispatched"
  BY <1>0, <1>1 DEF DispatchedIsWoken
<1>2. ASSUME NEW d \in Dispatchers, Mark(d), job[d].message = m
      PROVE  Supported(m) \subseteq Woken(m)' \cup skipped'[m] \/ m \in held'
  <2>1. At(d, "sending") /\ job[d].left = <<>> /\ wakeups' = wakeups
    BY <1>2 DEF Mark, workVars
  <2>2. \/ m \in held
        \/ Range(Plan[m]) \subseteq Range(job[d].left) \cup Woken(m) \cup skipped[m] \cup Unsupported
    BY <1>0, <1>2, <2>1 DEF Walked
  <2>3. Range(job[d].left) = {}
    BY <2>1 DEF Range
  <2>4. m \in held \/ Supported(m) \subseteq Woken(m) \cup skipped[m]
    BY <2>2, <2>3 DEF Supported
  <2> QED
    BY <1>0, <2>4
<1>3. ASSUME NEW s \in Sweeps, Take(s), m = Head(todo[s]), HasEvidence(m) PROVE FALSE
  <2>1. m \in Range(todo[s])
    BY <1>0, <1>3, Takes DEF Take, InTime
  <2>2. row[m] \in Unsettled
    BY <1>0, <2>1 DEF InOrder, ListedIsUnsettled
  <2>3. Woken(m) = {}
    BY <1>0, <2>1, <2>2, ListedIsFree, UntouchedBefore
       DEF IsAbout, IsWaking, Unsettled, Settled, NoAction
  <2> QED
    BY <1>0, <1>3, <2>3 DEF HasEvidence, Recorded
<1>4. "dispatched" # "pending" /\ "dispatched" \notin Unsettled
  BY DEF Unsettled
<1> QED
  BY <1>0, <1>1, <1>2, <1>3, <1>4, RowTurns

-----------------------------------------------------------------------------

\* The invariant of dispatches without faults.
OnceInvariant ==
    DispatchInvariant /\ TimelyInvariant /\ (timely => InOrder) /\ (timely /\ faults = 0 => Once)

\* The invariant holds at first...
LEMMA OnceInvariantInit == DispatchInit => OnceInvariant
<1> SUFFICES ASSUME DispatchInit PROVE InOrder /\ Once
  BY DispatchInvariantInit, TimelyInvariantInit DEF OnceInvariant
<1>1. \A d \in Dispatchers : job[d].pc = "idle" /\ job[d].message = NoMessage
  BY JobTypes DEF DispatchInit
<1>2. \A m \in Messages : row[m] = "none" /\ Woken(m) = {} /\ \A a \in Agents : wakeups[m][a] = 0
  BY DEF DispatchInit, Woken
<1>3. Range(due) = {} /\ \A s \in Sweeps : Range(todo[s]) = {}
  BY DEF DispatchInit, Range
<1>4. ListedIsUnsettled /\ UnderWayIsUnsettled
  BY <1>1, <1>3, MessagesAssumption DEF ListedIsUnsettled, UnderWayIsUnsettled
<1>5. PosterIsIdle /\ SystemIsAlone /\ ReplacedIsUnsettled /\ MarkedBySweep
  BY <1>1, ReroutesAssumption
     DEF PosterIsIdle, SystemIsAlone, ReplacedIsUnsettled, MarkedBySweep, At, Dispatchers
<1>6. WokenByOne /\ LeftIsUnwoken /\ WokenOnce /\ DispatchedIsWoken
  BY <1>1, <1>2 DEF WokenByOne, LeftIsUnwoken, WokenOnce, DispatchedIsWoken, Routed, At
<1> QED
  BY <1>4, <1>5, <1>6 DEF InOrder, Once

\* Faults do not undo themselves.
LEMMA FaultsStay ==
    ASSUME DispatchTypeOK, DispatchNext, faults' = 0
    PROVE  faults = 0
<1>1. faults \in Nat
  BY BoundsAssumption DEF DispatchTypeOK
<1>2. Fault => faults' = faults + 1
  BY Zenon DEF Fault
<1>3. ~Fault
  BY <1>1, <1>2
<1>4. CASE UNCHANGED boundVars
  BY <1>4 DEF boundVars
<1>5. CASE \/ \E m \in Messages : Post(m) \/ Abandon(m) \/ FallsDue(m) \/ \E a \in Agents : WorkEnds(m, a)
           \/ \E s \in Sweeps : Load(s) \/ Take(s) \/ LogReconciled(s)
           \/ Cancel \/ Reopen \/ DependenciesFinish \/ Crash
  BY <1>3, <1>4, <1>5 DEF Post, Abandon, FallsDue, WorkEnds, Load, Take, LogReconciled, Cancel, Reopen,
                          DependenciesFinish, Crash
<1>6. CASE \E d \in Dispatchers :
              \/ Reroute(d) \/ KeepMessage(d) \/ SettleRerouted(d) \/ BlockOnDependencies(d)
              \/ Wake(d) \/ Skip(d) \/ Throw(d) \/ Mark(d)
  BY <1>3, <1>4, <1>6 DEF Reroute, KeepMessage, SettleRerouted, BlockOnDependencies, Wake, Skip, Throw, Mark
<1> QED
  BY <1>5, <1>6, StepKinds

\* ... and every step keeps it.
LEMMA OnceInvariantNext == OnceInvariant /\ [DispatchNext]_vars => OnceInvariant'
<1>1. ASSUME OnceInvariant, DispatchNext PROVE OnceInvariant'
  <2>1. DispatchTypeOK /\ DispatchInvariant' /\ TimelyInvariant' /\ timely' = timely
    BY <1>1, DispatchInvariantNext, TimelyInvariantNext, TimelyStays DEF OnceInvariant, DispatchInvariant
  <2>2. ASSUME timely PROVE InOrder'
    <3>1. InTime /\ InOrder
      BY <1>1, <2>2 DEF OnceInvariant, TimelyInvariant
    <3>2. ListedIsUnsettled' /\ UnderWayIsUnsettled'
      BY <1>1, <2>1, <2>2, <3>1, ListedIsUnsettledNext, UnderWayIsUnsettledNext
    <3>3. ReplacedIsUnsettled' /\ PosterIsIdle' /\ SystemIsAlone' /\ MarkedBySweep'
      BY <1>1, <2>1, <3>1, ReplacedIsUnsettledNext, PosterIsIdleNext, SystemIsAloneNext,
         MarkedBySweepNext DEF InOrder
    <3> QED
      BY <3>2, <3>3 DEF InOrder
  <2>3. ASSUME timely, faults' = 0 PROVE Once'
    <3>1. InTime /\ InOrder /\ Once /\ faults' = faults
      BY <1>1, <2>1, <2>3, FaultsStay DEF OnceInvariant, TimelyInvariant
    <3>2. WokenByOne' /\ LeftIsUnwoken' /\ WokenOnce'
      BY <1>1, <2>1, <2>3, <3>1, WokenByOneNext, LeftIsUnwokenNext, WokenOnceNext
    <3>3. DispatchedIsWoken'
      BY <1>1, <2>3, <3>1, DispatchedIsWokenNext DEF OnceInvariant
    <3> QED
      BY <3>2, <3>3 DEF Once
  <2> QED
    BY <2>1, <2>2, <2>3 DEF OnceInvariant
<1>2. ASSUME OnceInvariant, UNCHANGED vars PROVE OnceInvariant'
  <2>1. DispatchInvariant' /\ TimelyInvariant'
    BY <1>2, DispatchInvariantNext, TimelyInvariantNext DEF OnceInvariant
  <2>2. timely' = timely /\ faults' = faults /\ (InOrder => InOrder')
    BY <1>2 DEF vars, rowVars, boundVars, InOrder, ListedIsUnsettled, UnderWayIsUnsettled, PosterIsIdle,
                ReplacedIsUnsettled, SystemIsAlone, MarkedBySweep, At
  <2>3. Once => Once'
    BY <1>2 DEF vars, rowVars, workVars, Once, WokenByOne, LeftIsUnwoken, WokenOnce, DispatchedIsWoken,
                IsWaking, Woken, Supported, Routed, IsInvokable, At
  <2> QED
    BY <1>2, <2>1, <2>2, <2>3 DEF OnceInvariant
<1> QED
  BY <1>1, <1>2

\* Without errors and crashes, and in time, each agent of a message that is dispatched has
\* been woken once, or skipped although it was counted, and none is woken twice.
THEOREM EverybodyIsWokenOnce == DispatchSpec => []OnceWithoutFaults
<1>1. OnceInvariant => OnceWithoutFaults
  <2> SUFFICES ASSUME OnceInvariant, timely, faults = 0, NEW m \in Messages \ SystemMessages, IsInvokable(m)
               PROVE  /\ \A a \in Agents : wakeups[m][a] < 2
                      /\ row[m] = "dispatched" => Supported(m) \subseteq Woken(m) \cup skipped[m]
                                                   \/ m \in held
    BY DEF OnceWithoutFaults
  <2>1. WokenOnce /\ DispatchedIsWoken /\ m \in Routed
    BY DEF OnceInvariant, Once, Routed
  <2> QED
    BY <2>1 DEF WokenOnce, DispatchedIsWoken
<1> QED
  BY <1>1, OnceInvariantInit, OnceInvariantNext, PTL DEF DispatchSpec

\* In time, a settled row is taken up again only by the sweep that fails to log it.
THEOREM RowsStaySettled == DispatchSpec => SettledStaysSettled
<1> DEFINE Stays ==
      timely => \A m \in Messages :
          row[m] \in Settled /\ row'[m] \notin Settled
              => \E s \in Sweeps : At(s, "marked") /\ job[s].message = m
<1>1. OnceInvariant /\ [DispatchNext]_vars => [Stays]_vars
  <2> SUFFICES ASSUME OnceInvariant, DispatchNext, timely,
                      NEW m \in Messages, row[m] \in Settled, row'[m] \notin Settled
               PROVE  \E s \in Sweeps : At(s, "marked") /\ job[s].message = m
    OBVIOUS
  <2>1. DispatchTypeOK /\ InOrder
    BY DEF OnceInvariant, DispatchInvariant
  <2>2. row[m] \notin Unsettled \cup {"none"} /\ row'[m] # row[m]
    BY DEF Settled, NoAction, Unsettled
  <2>3. PICK d \in Dispatchers : Throw(d) /\ m = Retried(d)
    BY <2>1, <2>2, RowTurns
  <2>4. ~At(d, "rerouted")
    BY <2>1, <2>2, <2>3 DEF InOrder, ReplacedIsUnsettled, Retried
  <2>5. job[d].message = m
    BY <2>3, <2>4 DEF Retried
  <2>6. At(d, "marked")
    BY <2>1, <2>2, <2>5 DEF InOrder, UnderWayIsUnsettled
  <2> QED
    BY <2>1, <2>5, <2>6 DEF InOrder, MarkedBySweep
<1>2. DispatchSpec => []OnceInvariant
  BY OnceInvariantInit, OnceInvariantNext, PTL DEF DispatchSpec
<1> QED
  BY <1>1, <1>2, PTL DEF DispatchSpec, SettledStaysSettled
================================================================================

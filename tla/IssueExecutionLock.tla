--------------------------- MODULE IssueExecutionLock ---------------------------
(***************************************************************************)
(* What the execution lock of an issue promises, whoever wakes, stops or   *)
(* loses runs: a live run that holds an issue keeps it until it is over,   *)
(* work for the issue meanwhile waits behind it, and when the holder is    *)
(* over the issue passes to a fresh run or becomes free.                   *)
(*                                                                         *)
(* HeartbeatRuns is shown to implement this module: its wakeups, promotions*)
(* and stops are these steps, and all the rest of it is stuttering.        *)
(***************************************************************************)
CONSTANTS Agents, Issues, Runs, NoRun

VARIABLES
    holder,    \* the run an issue is held by, or NoRun
    waiting,   \* agents with work waiting for an issue
    phase      \* of a run: "new", "live", "over"

vars == <<holder, waiting, phase>>

Init ==
    /\ holder = [i \in Issues |-> NoRun]
    /\ waiting = [i \in Issues |-> {}]
    /\ phase = [r \in Runs |-> "new"]

Live(r) == r \in Runs /\ phase[r] = "live"

\* A fresh run takes an issue no live run holds.
Begin(i, r) ==
    /\ ~Live(holder[i]) /\ phase[r] = "new"
    /\ holder' = [holder EXCEPT ![i] = r]
    /\ phase' = [phase EXCEPT ![r] = "live"]
    /\ UNCHANGED waiting

\* A run may live beside the lock of its issue, and be given the lock later.
BeginBeside(r) ==
    /\ phase[r] = "new"
    /\ phase' = [phase EXCEPT ![r] = "live"]
    /\ UNCHANGED <<holder, waiting>>

\* Work for an issue that a live run holds, or is given now, waits or is merged.
Wait(i, r, W) ==
    /\ r = holder[i] \/ ~Live(holder[i])
    /\ Live(r)
    /\ holder' = [holder EXCEPT ![i] = r]
    /\ waiting' = [waiting EXCEPT ![i] = @ \cup W]
    /\ UNCHANGED phase

\* The issue passes to a run for an agent that waited; agents waiting before it
\* are refused.
HandOver(i, r, W) ==
    /\ ~Live(holder[i]) /\ phase[r] = "new"
    /\ W \subseteq waiting[i] /\ W # waiting[i]
    /\ holder' = [holder EXCEPT ![i] = r]
    /\ waiting' = [waiting EXCEPT ![i] = W]
    /\ phase' = [phase EXCEPT ![r] = "live"]

\* Nobody can be served: the issue becomes free and nobody waits for it.
Free(i) ==
    /\ ~Live(holder[i])
    /\ holder' = [holder EXCEPT ![i] = NoRun]
    /\ waiting' = [waiting EXCEPT ![i] = {}]
    /\ UNCHANGED phase

\* Some of the work waiting for an issue is called off.
CallOff(i, W) ==
    /\ waiting' = [waiting EXCEPT ![i] = @ \ W]
    /\ UNCHANGED <<holder, phase>>

End(r) ==
    /\ phase[r] = "live"
    /\ phase' = [phase EXCEPT ![r] = "over"]
    /\ UNCHANGED <<holder, waiting>>

Next ==
    \/ \E i \in Issues, r \in Runs :
          \/ Begin(i, r)
          \/ \E W \in SUBSET Agents : Wait(i, r, W) \/ HandOver(i, r, W)
    \/ \E i \in Issues : Free(i) \/ \E W \in SUBSET Agents : CallOff(i, W)
    \/ \E r \in Runs : BeginBeside(r) \/ End(r)

Spec == Init /\ [][Next]_vars
================================================================================

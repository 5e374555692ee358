---------------------------- MODULE MCHeartbeatRuns ----------------------------
(* Small instances of HeartbeatRuns for TLC.                               *)
EXTENDS HeartbeatRuns, TLC

CONSTANTS a1, a2, i1

\* Runs are numbered and issues are single: only the agents are interchangeable.
AgentSymmetry == Permutations({a1, a2})

\* Bound: once a run was created outside the lock, two runs are all there are.
OutsideWithinTwo == (\E r \in 1..nextRun - 1 : ~onLockPath[r]) => nextRun <= 3

\* Bound: three executors and stops at work at a time.
ThreeAtWork ==
    Cardinality({r \in RunIds : exec[r] # ExecIdle}) +
    Cardinality({r \in RunIds : stopper[r] # StopIdle}) <= 3
================================================================================

---------------------------- MODULE ReviewLifecycle ----------------------------
(***************************************************************************)
(* What the workflow protocol of an issue promises: work is approved only  *)
(* by a decision that ends a review which was opened on a submission, and  *)
(* only approved work is closed.  A recovery may reopen the issue, and two *)
(* things move it out of turn: an answer to a question that was asked, and *)
(* unfinished dependencies.                                                *)
(*                                                                         *)
(* IssueProtocol is shown to implement this module.                        *)
(***************************************************************************)
CONSTANT Dependent   \* whether the issue depends on others

VARIABLES
    stage,    \* how far the issue is
    review,   \* whether a review is open
    asked     \* whether a question waits for its answer

vars == <<stage, review, asked>>

Stages == {"unassigned", "working", "submitted", "reviewing", "deciding", "blocked", "approved",
           "done", "cancelled"}

Init == stage = "unassigned" /\ review = FALSE /\ asked = FALSE

\* Nothing is asked, and a question may be withdrawn.
AsksNothing == asked' => asked

Goes(From, to) == stage \in From /\ stage' = to /\ UNCHANGED review /\ AsksNothing

Staff == Goes({"unassigned", "working", "blocked"}, "working")
Submit == Goes({"working"}, "submitted")
Block == Goes({"working", "reviewing"}, "blocked")
Escalate == Goes({"reviewing", "blocked"}, "deciding")
Close == Goes({"approved"}, "done")
Cancel == Goes(Stages, "cancelled")
Reopen == Goes({"done", "cancelled"}, "working")
AwaitDependencies == Dependent /\ Goes(Stages, "blocked")

OpenReview ==
    /\ stage = "submitted" /\ ~review
    /\ stage' = "reviewing" /\ review' = TRUE
    /\ AsksNothing

\* The work is approved, goes on to a second review, or back to the engineer.
Decide ==
    /\ stage \in {"reviewing", "deciding"} /\ review
    /\ stage' \in {"approved", "submitted", "working"} /\ review' = FALSE
    /\ AsksNothing

Ask == asked' = TRUE /\ UNCHANGED <<stage, review>>

Withdraw == AsksNothing /\ UNCHANGED <<stage, review>>

Answer == asked /\ stage' \in Stages /\ AsksNothing /\ UNCHANGED review

Next ==
    \/ Staff \/ Submit \/ Block \/ Escalate \/ Close \/ Cancel \/ Reopen
    \/ AwaitDependencies \/ OpenReview \/ Decide \/ Ask \/ Withdraw \/ Answer

Spec == Init /\ [][Next]_vars
================================================================================

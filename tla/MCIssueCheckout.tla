---------------------------- MODULE MCIssueCheckout ----------------------------
(* Small instances of IssueCheckout for TLC.                               *)
EXTENDS IssueCheckout, TLC

CONSTANTS a1, a2, i1

AgentSymmetry == Permutations({a1, a2})
================================================================================

---------------------------- MODULE MCIssueProtocol ----------------------------
(* A small instance of IssueProtocol for TLC.                              *)
EXTENDS IssueProtocol

CONSTANTS a1, a2
================================================================================

---------------------------- MODULE MCRunRecovery ----------------------------
EXTENDS RunRecovery
MCPlans == {<<"review">>, <<"implementation">>, <<"routing", "closing">>}
================================================================================

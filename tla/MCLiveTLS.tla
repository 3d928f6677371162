------------------------------ MODULE MCLiveTLS ------------------------------
EXTENDS LiveTLS

\* Deadlines that cut an attempt, a delay or neither; few and many attempts.
MCPolicies ==
    [timeout : {1, 5, 8}, attempt_timeout : {1, 2, 6}, retry_delay : 0..2,
     max_attempts : {1, 2, 4, 20}]
=============================================================================

---------------------------- MODULE LiveTLSProofs ----------------------------
(***************************************************************************)
(* The bounds of the live verification, for every valid policy.            *)
(***************************************************************************)
EXTENDS LiveTLS, TLAPS

\* The full delays slept before the present attempt.
Slept == attempt * readiness.retry_delay

\* At the head of the loop.
AtHead ==
    pc = "attempt" =>
        /\ now >= readiness.timeout \/ Slept <= now
        /\ peer = "expected" =>
               now <= since + readiness.attempt_timeout + readiness.retry_delay

\* During an attempt.  Only a stuck one can miss a controller that is ready, and
\* it began no later than the controller was.
InAttempt ==
    Connecting =>
        /\ now <= until /\ until <= now + readiness.attempt_timeout
        /\ Slept <= now
        /\ link = "ok" => now < until /\ peer # "silent"
        /\ link = "stuck" /\ peer = "expected" =>
               until <= since + readiness.attempt_timeout /\ Slept <= since

\* During the delay.
InDelay ==
    pc = "sleep" =>
        /\ now <= until /\ until <= now + readiness.retry_delay
        /\ until >= readiness.timeout \/ Slept <= until
        /\ peer = "expected" =>
               until <= since + readiness.attempt_timeout + readiness.retry_delay

\* What the loop knows at each of its control points.
Bounds ==
    /\ TypeOK /\ WithinDeadline /\ ReadyIsVerified
    /\ result # "none" => pc = "done"
    /\ AtHead /\ InAttempt /\ InDelay

\* The fields of a valid policy.
LEMMA PolicyFields ==
    ASSUME TypeOK
    PROVE  /\ readiness.timeout \in Nat /\ readiness.timeout > 0
           /\ readiness.attempt_timeout \in Nat /\ readiness.attempt_timeout > 0
           /\ readiness.retry_delay \in Nat
           /\ readiness.max_attempts \in Nat /\ readiness.max_attempts > 0
  BY PoliciesAssumption DEF TypeOK, validate_live_tls_configuration, ReadinessPolicy,
     MAX_ATTEMPTS

\* Counting one more delay.
LEMMA OneMoreDelay ==
    ASSUME NEW a \in Nat, NEW d \in Nat
    PROVE  a * d \in Nat /\ (a + 1) * d = a * d + d
  BY SMT

\* The loop begins with nothing slept and no verdict.
LEMMA BoundsInit == Init => Bounds
  <1> SUFFICES ASSUME Init PROVE Bounds
    OBVIOUS
  <1>1. /\ readiness.timeout \in Nat /\ readiness.timeout > 0
        /\ readiness.attempt_timeout \in Nat /\ readiness.retry_delay \in Nat
        /\ readiness.max_attempts \in Nat /\ readiness.max_attempts > 0
    BY PoliciesAssumption DEF Init, validate_live_tls_configuration, ReadinessPolicy,
       MAX_ATTEMPTS
  <1>2. TypeOK
    BY <1>1 DEF Init, TypeOK, Peers
  <1>3. Slept = 0
    BY <1>1 DEF Init, Slept
  <1> QED  BY <1>1, <1>2, <1>3 DEF Init, Bounds, WithinDeadline, ReadyIsVerified, AtHead,
               InAttempt, InDelay, Connecting

\* An attempt starts, or the loop finds the deadline past.
LEMMA AttemptKeeps ==
    ASSUME Bounds, Attempt
    PROVE  Bounds'
  <1> USE DEF Bounds
  <1>1. /\ readiness.timeout \in Nat /\ readiness.attempt_timeout \in Nat
        /\ readiness.attempt_timeout > 0 /\ readiness.retry_delay \in Nat
    BY PolicyFields
  <1>2. Slept \in Nat /\ Slept' = Slept /\ pc = "attempt"
    BY <1>1, OneMoreDelay DEF Slept, TypeOK, Attempt, End
  <1>3. CASE now >= readiness.timeout
    <2>1. pc' = "done" /\ result' = "EndpointNotReadyError"
          /\ UNCHANGED <<readiness, now, attempt, until, link, peer, since>>
      BY <1>1, <1>3 DEF Attempt, End, TypeOK
    <2>2. TypeOK' /\ WithinDeadline'
      BY <2>1 DEF TypeOK, WithinDeadline, Results
    <2>3. ReadyIsVerified'
      BY <1>1, <1>2, <1>3, <2>1 DEF ReadyIsVerified, AtHead, TypeOK
    <2> QED  BY <2>1, <2>2, <2>3 DEF AtHead, InAttempt, InDelay, Connecting
  <1>4. CASE now < readiness.timeout
    <2>1. /\ pc' = "connect" /\ until' = attempt_deadline
          /\ link' = IF peer = "silent" THEN "stuck" ELSE "ok"
          /\ UNCHANGED <<readiness, now, attempt, peer, since, result>>
      BY <1>1, <1>4 DEF Attempt, TypeOK
    <2>2. /\ until' \in Nat /\ now < until' /\ until' <= readiness.timeout
          /\ until' <= now + readiness.attempt_timeout
      BY <1>1, <1>4, <2>1 DEF attempt_deadline, Lesser, TypeOK
    <2>3. TypeOK' /\ WithinDeadline'
      BY <1>1, <2>1, <2>2 DEF TypeOK, WithinDeadline
    <2>4. ReadyIsVerified' /\ result' = "none"
      BY <1>2, <2>1 DEF ReadyIsVerified
    <2>5. InAttempt'
      BY <1>1, <1>2, <1>4, <2>1, <2>2 DEF InAttempt, Connecting, AtHead, TypeOK
    <2> QED  BY <2>1, <2>3, <2>4, <2>5 DEF AtHead, InDelay
  <1> QED  BY <1>1, <1>3, <1>4 DEF TypeOK

\* An attempt fails, and a delay begins or the loop gives up.
LEMMA FailsKeeps ==
    ASSUME Bounds, Fails
    PROVE  Bounds'
  <1> USE DEF Bounds
  <1>1. /\ readiness.timeout \in Nat /\ readiness.attempt_timeout \in Nat
        /\ readiness.retry_delay \in Nat /\ readiness.max_attempts \in Nat
        /\ now \in Nat /\ until \in Nat /\ since \in Nat /\ since <= now
        /\ attempt \in Nat /\ attempt <= readiness.max_attempts - 1
    BY PolicyFields DEF TypeOK
  <1>2. /\ Slept \in Nat
        /\ (attempt + 1) * readiness.retry_delay = Slept + readiness.retry_delay
    BY <1>1, OneMoreDelay DEF Slept
  <1>3. /\ UNCHANGED <<readiness, now, peer, since, link>> /\ Connecting
        /\ peer = "refusing" \/ (link = "stuck" /\ now >= until)
    BY <1>1 DEF Fails, Retry, End, InAttempt, TypeOK
  <1>4. CASE attempt + 1 >= readiness.max_attempts
    <2>1. pc' = "done" /\ result' = "EndpointNotReadyError" /\ UNCHANGED <<attempt, until>>
      BY <1>4 DEF Fails, Retry, End
    <2>2. TypeOK' /\ WithinDeadline'
      BY <1>3, <2>1 DEF TypeOK, WithinDeadline, Results
    <2>3. attempt = readiness.max_attempts - 1
      BY <1>1, <1>4
    <2>4. ReadyIsVerified'
      BY <1>1, <1>2, <1>3, <2>1, <2>3 DEF ReadyIsVerified, InAttempt, Slept
    <2> QED  BY <2>1, <2>2, <2>4 DEF AtHead, InAttempt, InDelay, Connecting
  <1>5. CASE attempt + 1 < readiness.max_attempts
    <2>1. /\ pc' = "sleep" /\ attempt' = attempt + 1 /\ until' = now + delay
          /\ result' = result
      BY <1>1, <1>5 DEF Fails, Retry
    <2>2. /\ delay \in Nat /\ delay <= readiness.retry_delay
          /\ now + delay <= readiness.timeout
          /\ delay = readiness.retry_delay \/ now + delay >= readiness.timeout
      BY <1>1 DEF delay, Lesser, WithinDeadline
    <2>3. TypeOK' /\ WithinDeadline'
      BY <1>1, <1>3, <1>5, <2>1, <2>2 DEF TypeOK, WithinDeadline
    <2>4. Slept' = Slept + readiness.retry_delay
      BY <1>2, <1>3, <2>1 DEF Slept
    <2>5. InDelay'
      BY <1>1, <1>2, <1>3, <2>1, <2>2, <2>4 DEF InDelay, InAttempt
    <2>6. ReadyIsVerified' /\ result' = "none"
      BY <1>3, <2>1 DEF ReadyIsVerified, Connecting
    <2> QED  BY <2>1, <2>3, <2>5, <2>6 DEF AtHead, InAttempt, Connecting
  <1> QED  BY <1>1, <1>4, <1>5

\* The steps that leave the counters alone.
LEMMA OthersKeep ==
    ASSUME Bounds, Connects \/ Handshakes \/ Wakes \/ Tick \/ PeerChanges \/ UNCHANGED vars
    PROVE  Bounds'
  <1> USE DEF Bounds
  <1>1. /\ readiness.timeout \in Nat /\ readiness.attempt_timeout \in Nat
        /\ readiness.retry_delay \in Nat
        /\ now \in Nat /\ until \in Nat /\ since \in Nat /\ since <= now
    BY PolicyFields DEF TypeOK
  <1>2. Slept \in Nat /\ Slept' = Slept
    BY <1>1, OneMoreDelay
       DEF Slept, TypeOK, Connects, Handshakes, End, Wakes, Tick, PeerChanges, vars
  <1>3. CASE Connects
    BY <1>1, <1>2, <1>3 DEF Connects, TypeOK, WithinDeadline, ReadyIsVerified, AtHead,
       InAttempt, InDelay, Connecting
  <1>4. CASE Handshakes
    <2>1. result' \in Results \ {"EndpointNotReadyError"}
      BY <1>4 DEF Handshakes, End, Verdict, Results, Answering, Peers
    <2> QED  BY <1>1, <1>2, <1>4, <2>1 DEF Handshakes, End, TypeOK, WithinDeadline,
                 ReadyIsVerified, AtHead, InAttempt, InDelay, Connecting
  <1>5. CASE Wakes
    BY <1>1, <1>2, <1>5 DEF Wakes, TypeOK, WithinDeadline, ReadyIsVerified, AtHead,
       InAttempt, InDelay, Connecting
  <1>6. CASE Tick
    <2>1. Connecting => link = "stuck"
      BY <1>6 DEF Tick, InAttempt, Connecting, TypeOK
    <2>2. TypeOK' /\ WithinDeadline'
      BY <1>1, <1>6 DEF Tick, TypeOK, WithinDeadline
    <2> QED  BY <1>1, <1>2, <1>6, <2>1, <2>2 DEF Tick, ReadyIsVerified, AtHead,
                 InAttempt, InDelay, Connecting
  <1>7. CASE PeerChanges
    <2>1. TypeOK' /\ WithinDeadline'
      BY <1>1, <1>7 DEF PeerChanges, TypeOK, WithinDeadline
    <2>2. AtHead' /\ InAttempt' /\ InDelay'
      BY <1>1, <1>2, <1>7 DEF PeerChanges, AtHead, InAttempt, InDelay, Connecting, TypeOK
    <2> QED  BY <1>7, <2>1, <2>2 DEF PeerChanges, ReadyIsVerified
  <1>8. CASE UNCHANGED vars
    BY <1>2, <1>8 DEF vars, TypeOK, WithinDeadline, ReadyIsVerified, AtHead, InAttempt,
       InDelay, Connecting
  <1> QED  BY <1>3, <1>4, <1>5, <1>6, <1>7, <1>8

\* The bounds hold throughout the verification.
THEOREM BoundsHold == Spec => []Bounds
  <1>1. Bounds /\ [Next]_vars => Bounds'
    BY AttemptKeeps, FailsKeeps, OthersKeep DEF Next, Call
  <1> QED  BY <1>1, BoundsInit, PTL DEF Spec

\* For every valid readiness policy, no blocking call of
\* verify_prepared_live_tls_certificate reaches past the deadline.
THEOREM AlwaysWithinDeadline == Spec => []WithinDeadline
  BY BoundsHold, PTL DEF Bounds

\* For every valid readiness policy, a controller that presents the issued leaf
\* in time is not reported as EndpointNotReadyError.
THEOREM ReadyAlwaysVerified == Spec => []ReadyIsVerified
  BY BoundsHold, PTL DEF Bounds
=============================================================================

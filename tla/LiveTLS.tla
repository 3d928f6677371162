------------------------------- MODULE LiveTLS -------------------------------
(***************************************************************************)
(* The live verification of unifi_tls.py: connect to the controller until  *)
(* it presents a certificate, within a deadline and a number of attempts.  *)
(* Time is counted in ticks and passes only where the code blocks: in      *)
(* connect, in the handshake and in sleep.  The controller changes at any  *)
(* moment between the conditions in Peers.                                 *)
(***************************************************************************)
EXTENDS Integers

CONSTANT Policies   \* the ReadinessPolicy values that a call may be given

Lesser(a, b) == IF a <= b THEN a ELSE b

MAX_ATTEMPTS == 1000

ReadinessPolicy ==
    [timeout : Int, attempt_timeout : Int, retry_delay : Int, max_attempts : Int]

\* What prepare_live_tls_verification accepts.
validate_live_tls_configuration(p) ==
    /\ p \in ReadinessPolicy
    /\ p.timeout > 0 /\ p.attempt_timeout > 0 /\ p.retry_delay >= 0
    /\ p.max_attempts \in 1..MAX_ATTEMPTS

ASSUME PoliciesAssumption == \A p \in Policies : validate_live_tls_configuration(p)

VARIABLES
    readiness,  \* the policy of this call
    now,        \* ticks since the call began
    pc,
    attempt,    \* attempts that failed
    until,      \* when the present blocking call times out
    link,       \* "stuck" once the attempt met silence: it may not notice an answer
    peer,       \* the controller's condition
    since,      \* when it came into that condition
    result

vars == <<readiness, now, pc, attempt, until, link, peer, since, result>>

\* The controller refuses or resets connections, does not answer, presents a
\* chain that does not verify, breaks the handshake, or presents another or the
\* expected leaf.
Peers == {"refusing", "silent", "untrusted", "broken", "other", "expected"}

Answering == Peers \ {"refusing", "silent"}

Results == {"TLSAuthenticationError", "TLSHandshakeError",
            "ServedCertificateMismatchError", "EndpointNotReadyError", "verified"}

Connecting == pc \in {"connect", "handshake"}

Init ==
    /\ readiness \in Policies
    /\ now = 0 /\ attempt = 0 /\ until = 0 /\ link = "ok"
    /\ pc = "attempt" /\ result = "none"
    /\ peer \in Peers /\ since = 0

End(r) ==
    /\ pc' = "done" /\ result' = r
    /\ UNCHANGED <<attempt, until, link>>

\* Mutant of attempt_deadline: an attempt may use up all the time.
attempt_deadline_whole == readiness.timeout

attempt_deadline == Lesser(readiness.timeout, now + readiness.attempt_timeout)

\* The head of the loop, and the start of an attempt.
Attempt ==
    /\ pc = "attempt"
    /\ \/ /\ now >= readiness.timeout
          /\ End("EndpointNotReadyError")
       \/ /\ now < readiness.timeout
          /\ pc' = "connect"
          /\ until' = attempt_deadline
          /\ link' = IF peer = "silent" THEN "stuck" ELSE "ok"
          /\ UNCHANGED <<attempt, result>>
    /\ UNCHANGED <<readiness, now, peer, since>>

\* Mutant of delay: the whole delay, whatever is left.
delay_uncut == readiness.retry_delay

\* The delay is cut at the deadline.
delay ==
    LET left == readiness.timeout - now
    IN  Lesser(readiness.retry_delay, IF left > 0 THEN left ELSE 0)

\* Mutant of Retry: attempts are not counted.
RetryForever ==
    /\ pc' = "sleep" /\ until' = now + delay
    /\ UNCHANGED <<attempt, link, result>>

\* The handler of ConnectionError, TimeoutError and OSError.
Retry ==
    IF attempt + 1 >= readiness.max_attempts
    THEN End("EndpointNotReadyError")
    ELSE /\ pc' = "sleep" /\ attempt' = attempt + 1 /\ until' = now + delay
         /\ UNCHANGED <<link, result>>

\* An attempt fails: the controller refuses or resets it, or time is up.
Fails ==
    /\ Connecting
    /\ peer = "refusing" \/ now >= until
    /\ Retry
    /\ UNCHANGED <<readiness, now, peer, since>>

\* The controller accepts, and time is left for the handshake.
Connects ==
    /\ pc = "connect"
    /\ peer \in Answering /\ now < until
    /\ pc' = "handshake"
    /\ UNCHANGED <<readiness, now, attempt, until, link, peer, since, result>>

\* What a finished handshake comes to; none of it is retried.
Verdict ==
    CASE peer = "untrusted" -> "TLSAuthenticationError"
      [] peer = "broken"    -> "TLSHandshakeError"
      [] peer = "other"     -> "ServedCertificateMismatchError"
      [] peer = "expected"  -> "verified"

Handshakes ==
    /\ pc = "handshake"
    /\ peer \in Answering
    /\ End(Verdict)
    /\ UNCHANGED <<readiness, now, peer, since>>

Wakes ==
    /\ pc = "sleep" /\ now >= until
    /\ pc' = "attempt"
    /\ UNCHANGED <<readiness, now, attempt, until, link, peer, since, result>>

\* Time passes while a call blocks, at most until it times out.  A controller
\* that answers does so within the tick, unless its link is stuck.
Tick ==
    /\ pc = "sleep" \/ (Connecting /\ (link = "stuck" \/ peer = "silent"))
    /\ now < until
    /\ now' = now + 1
    /\ UNCHANGED <<readiness, pc, attempt, until, link, peer, since, result>>

PeerChanges ==
    /\ pc # "done"
    /\ peer' \in Peers \ {peer} /\ since' = now
    /\ link' = IF peer' = "silent" THEN "stuck" ELSE link
    /\ UNCHANGED <<readiness, now, pc, attempt, until, result>>

Call == Attempt \/ Fails \/ Connects \/ Handshakes \/ Wakes \/ Tick

Next == Call \/ PeerChanges

Spec == Init /\ [][Next]_vars

\* Every blocking call of the loop has a timeout; the controller owes nothing.
FairSpec == Spec /\ WF_vars(Call)

-----------------------------------------------------------------------------
\* The types.
TypeOK ==
    /\ readiness \in Policies
    /\ now \in Nat /\ until \in Nat /\ since \in 0..now
    /\ pc \in {"attempt", "connect", "handshake", "sleep", "done"}
    /\ attempt \in 0..readiness.max_attempts - 1
    /\ link \in {"stuck", "ok"} /\ peer \in Peers
    /\ result \in Results \cup {"none"}

\* verify_prepared_live_tls_certificate never waits past its deadline: neither
\* connect, nor the handshake, nor the delay before the next attempt.
WithinDeadline == now <= readiness.timeout /\ until <= readiness.timeout

\* The bounds on attempts and time do not give up on a controller that is
\* ready: if the loop reports EndpointNotReadyError although the controller has
\* presented the expected leaf all along since some moment, that moment was less
\* than one attempt and one delay before the deadline, or as late as all the
\* delays together.
ReadyIsVerified ==
    result = "EndpointNotReadyError" /\ peer = "expected" =>
        \/ since + readiness.attempt_timeout + readiness.retry_delay
               >= readiness.timeout
        \/ since >= (readiness.max_attempts - 1) * readiness.retry_delay

\* The verification ends, whatever the controller does.
VerificationEnds == <>(pc = "done")
=============================================================================

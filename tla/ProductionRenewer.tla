-------------------------- MODULE ProductionRenewer --------------------------
(***************************************************************************)
(* The unprivileged renewer: main and run_one_shot of                      *)
(* src/production_renewer.py, run_to_installation of                       *)
(* src/unifi_cert_renewer.py, UnifiClient and the client end of the        *)
(* executor's socket, and the OPNsense authority that signs.               *)
(*                                                                         *)
(* Each run is a process that may be killed at any step.  Runs that sign   *)
(* or install exclude one another with the lifecycle lock; inspections,    *)
(* CSRs and an operator's recover do not take it.  What a run has sent, to *)
(* OPNsense or to the executor, may take effect after the run has ended.   *)
(***************************************************************************)
EXTENDS ExecutorService, RunEvidence

CONSTANT MaxFaults  \* deaths of the helper and kills of runs, together

ASSUME RenewerAssumption == MaxFaults \in Nat

VARIABLES
    pc,         \* pc[r]: where run r is
    mode,       \* mode[r]: what it was started for
    ev,         \* ev[r]: its RunEvidence
    before,     \* before[r]: the public state it inspected
    lock,       \* the run that holds the lifecycle lock
    posts,      \* runs whose signing request OPNsense has not decided
    issued,     \* runs whose certificate OPNsense has saved
    lasting,    \* certificates that are not due for renewal
    faults      \* how many faults are still to come, at most

vars == <<serviceVars, pc, mode, ev, before, lock, posts, issued, lasting, faults>>

authorityVars == <<posts, issued, lasting>>

LockedModes == {"prepare", "install", "renew"}

\* The renewer's modes, and the operator who calls recover through the client.
MODES == LockedModes \cup {"inspect", "csr", "recover"}

\* The stage that a run records on its way to each of its control points.
StageOf ==
    [locking |-> "lock", config |-> "configuration", inspect |-> "inspection",
     client |-> "configuration", inspect_before |-> "inspection",
     csr |-> "csr_generation", preflight |-> "preflight", sign |-> "signing",
     posted |-> "signing", retrieve |-> "issued_validation",
     install_inspect |-> "installation", install |-> "installation",
     verify |-> "live_verification", recover |-> "startup"]

Ended == {"exit_0", "exit_1", "exit_75", "killed"}

Active(r) == pc[r] \in DOMAIN StageOf

\* The control points that call the executor, and the operation they call.
CallOf ==
    [inspect |-> "inspect", inspect_before |-> "inspect", csr |-> "generate_csr",
     install_inspect |-> "inspect", install |-> "install",
     verify |-> "verify_pending", recover |-> "recover"]

-----------------------------------------------------------------------------

Init ==
    /\ ServiceInit
    /\ pc = [r \in Runs |-> "ready"]
    /\ mode = [r \in Runs |-> "inspect"]
    /\ ev = [r \in Runs |-> NewEvidence]
    /\ before = [r \in Runs |-> None]
    /\ lock = None
    /\ posts = {} /\ issued = {}
    /\ lasting \in SUBSET {Old}
    /\ faults = MaxFaults

\* Run r goes on to a control point with evidence e.
Goto(r, label, e) ==
    /\ pc' = [pc EXCEPT ![r] = label]
    /\ ev' = [ev EXCEPT ![r] = [e EXCEPT !.stage = StageOf[label]]]

\* The process ends: the kernel closes its lock and its connection.
Exit(r, label, e) ==
    /\ pc' = [pc EXCEPT ![r] = label]
    /\ ev' = [ev EXCEPT ![r] = e]
    /\ lock' = IF lock = r THEN None ELSE lock

Keep == UNCHANGED <<mode, authorityVars, faults>>

\* An exception on its way to main, which reports the failure.
Raise(r, e) ==
    /\ Exit(r, "exit_1", failure(e, {}))
    /\ Hangup(r)
    /\ UNCHANGED <<serving, queue, current, executorVars, before>>
    /\ Keep

-----------------------------------------------------------------------------
(* The steps of a run.                                                     *)

\* main: arguments, evidence; run_one_shot chooses the locked modes.
Start(r) ==
    /\ pc[r] = "ready"
    /\ \E m \in MODES :
        /\ mode' = [mode EXCEPT ![r] = m]
        /\ Goto(r, CASE m \in LockedModes -> "locking"
                     [] m = "recover" -> "recover"
                     [] OTHER -> "config", NewEvidence)
    /\ UNCHANGED <<serviceVars, before, lock, authorityVars, faults>>

\* _lifecycle_lock without blocking: a busy lock ends the run with 75.
Lock(r) ==
    /\ pc[r] = "locking"
    /\ \/ lock = None /\ Goto(r, "config", ev[r]) /\ lock' = r
       \/ lock # None /\ Exit(r, "exit_75", failure(ev[r], {"lock_busy"}))
    /\ UNCHANGED <<serviceVars, before>> /\ Keep

\* load_production_config and build_production_unifi_client.
Configure(r) ==
    /\ pc[r] = "config"
    /\ Goto(r, CASE mode[r] \in {"inspect", "renew"} -> "inspect"
                 [] mode[r] = "csr" -> "csr"
                 [] OTHER -> "client", ev[r])
    /\ UNCHANGED <<serviceVars, before, lock>> /\ Keep

\* OPNsenseClient, and the parameters of run_to_installation.
BuildClient(r) ==
    /\ pc[r] = "client"
    /\ Goto(r, "inspect_before", ev[r])
    /\ UNCHANGED <<serviceVars, before, lock>> /\ Keep

Request(r) == [run |-> r, operation |-> CallOf[pc[r]], before |-> before[r]]

\* The attempt is on record: only install and verify_pending leave a mark.
Dispatched(r) == executor_dispatch(ev[r], CallOf[pc[r]]) = ev[r]

\* _call, when the connection stands: before_send puts the attempt on record.
on_dispatch(r) ==
    /\ pc[r] \in DOMAIN CallOf /\ conn[r] = None /\ serving /\ Len(queue) < Backlog
    /\ ~Dispatched(r)
    /\ ev' = [ev EXCEPT ![r] = executor_dispatch(@, CallOf[pc[r]])]
    /\ UNCHANGED <<serviceVars, pc, before, lock>> /\ Keep

\* Mutant of Call: the request leaves before the attempt is on record.
CallUnrecorded(r) ==
    /\ pc[r] \in DOMAIN CallOf
    /\ Connect(Request(r))
    /\ UNCHANGED <<pc, ev, before, lock>> /\ Keep

\* _call: the request leaves after before_send.
Call(r) ==
    /\ pc[r] \in DOMAIN CallOf
    /\ Dispatched(r)
    /\ Connect(Request(r))
    /\ UNCHANGED <<pc, ev, before, lock>> /\ Keep

Answered(r, label) == pc[r] = label /\ conn[r] # None /\ conn[r].status = "ok"

\* A successful answer at label: the connection is closed behind it.
Received(r, label) ==
    /\ Answered(r, label)
    /\ Hangup(r)
    /\ UNCHANGED <<serving, queue, current, executorVars>> /\ Keep

\* _renewal_is_due
due(c) == c \notin lasting

\* inspect_current, for inspect and for renew: the decision.
Inspected(r) ==
    /\ Received(r, "inspect")
    /\ LET c == conn[r].state
           e == [ev[r] EXCEPT !.certificate = {c}, !.stage = "decision"]
       IN  \/ /\ mode[r] = "inspect"
              /\ Exit(r, "exit_0", success(e, IF due(c) THEN "attention_due"
                                              ELSE "success_no_change", {due(c)}))
           \/ /\ mode[r] = "renew" /\ ~due(c)
              /\ Exit(r, "exit_0", success(e, "success_no_change", {FALSE}))
           \/ /\ mode[r] = "renew" /\ due(c)
              /\ Goto(r, "client", [e EXCEPT !.certificate = {}, !.renewal_due = {TRUE}])
              /\ UNCHANGED lock
    /\ UNCHANGED before

\* run_to_installation inspects again; this state goes into the request.
InspectedBefore(r) ==
    /\ Received(r, "inspect_before")
    /\ before' = [before EXCEPT ![r] = conn[r].state]
    /\ Goto(r, "csr", ev[r])
    /\ UNCHANGED lock

\* request_csr and validate_requested_csr.
GotCsr(r) ==
    /\ Received(r, "csr")
    /\ \/ /\ mode[r] = "csr"
          /\ Exit(r, "exit_0", success(confirm(ev[r], "csr"), "success_prepared", {}))
       \/ /\ mode[r] # "csr"
          /\ Goto(r, "preflight", confirm(ev[r], "csr")) /\ UNCHANGED lock
    /\ UNCHANGED before

\* resolve_ca
Preflight(r) ==
    /\ pc[r] = "preflight"
    /\ Goto(r, "sign", ev[r])
    /\ UNCHANGED <<serviceVars, before, lock>> /\ Keep

\* sign_csr: its local checks are behind it when before_transport runs.
sign_csr(r) ==
    /\ pc[r] = "sign"
    /\ Goto(r, "posted", signing_dispatch(ev[r]))
    /\ posts' = posts \cup {r}
    /\ UNCHANGED <<serviceVars, mode, before, lock, issued, lasting, faults>>

\* The saved response reaches the run.
Signed(r) ==
    /\ pc[r] = "posted" /\ r \in issued
    /\ Goto(r, "retrieve", confirm(ev[r], "issuance"))
    /\ UNCHANGED <<serviceVars, before, lock>> /\ Keep

\* Mutant of Retrieved: a renewal accepts a certificate that is due already.
RetrievedAny(r) ==
    /\ pc[r] = "retrieve"
    /\ LET e == [ev[r] EXCEPT !.certificate = {r}]
       IN  \/ /\ mode[r] = "prepare"
              /\ Exit(r, "exit_0", success(e, "success_prepared", {}))
           \/ /\ mode[r] # "prepare"
              /\ Goto(r, "install_inspect", e) /\ UNCHANGED lock
    /\ UNCHANGED <<serviceVars, before>> /\ Keep

\* get_certificate, prepare_certificate_import, and for renew the check that
\* the new certificate is not due already.
Retrieved(r) ==
    /\ pc[r] = "retrieve"
    /\ mode[r] = "renew" => ~due(r)
    /\ LET e == [ev[r] EXCEPT !.certificate = {r}]
       IN  \/ /\ mode[r] = "prepare"
              /\ Exit(r, "exit_0", success(e, "success_prepared", {}))
           \/ /\ mode[r] # "prepare"
              /\ Goto(r, "install_inspect", e) /\ UNCHANGED lock
    /\ UNCHANGED <<serviceVars, before>> /\ Keep

\* install_certificate compares a fresh inspection with the request ...
StillAsBefore(r) ==
    /\ Received(r, "install_inspect")
    /\ conn[r].state = before[r]
    /\ Goto(r, "install", ev[r])
    /\ UNCHANGED <<before, lock>>

\* ... and the installed state with the issued certificate.
Installed(r) ==
    /\ Received(r, "install")
    /\ conn[r].state = r
    /\ Goto(r, "verify", confirm(ev[r], "installation"))
    /\ UNCHANGED <<before, lock>>

\* Mutant of Verified: any answer will do.
VerifiedUnread(r) ==
    /\ pc[r] = "verify" /\ conn[r] # None /\ conn[r].status # "waiting"
    /\ Hangup(r)
    /\ Exit(r, "exit_0",
            success(confirm(confirm(ev[r], "activation"), "live_tls"), "success_changed", {}))
    /\ UNCHANGED <<serving, queue, current, executorVars, before>> /\ Keep

\* verify_pending answered renewal_finalized.
Verified(r) ==
    /\ Received(r, "verify")
    /\ Exit(r, "exit_0",
            success(confirm(confirm(ev[r], "activation"), "live_tls"), "success_changed",
                    IF mode[r] = "renew" THEN {TRUE} ELSE {}))
    /\ UNCHANGED before

\* The operator's recover has its answer.
Recovered(r) ==
    /\ Received(r, "recover")
    /\ Exit(r, "exit_0", ev[r])
    /\ UNCHANGED before

\* The executor's error, a broken connection, or an answer that does not fit.
Refused(r) ==
    /\ conn[r] # None
    /\ \/ conn[r].status \in {"error", "closed"}
       \/ Answered(r, "install_inspect") /\ conn[r].state # before[r]
       \/ Answered(r, "install") /\ conn[r].state # r
    /\ Raise(r, ev[r])

\* Mutant of GivesUp: only OPNsense is given a deadline.
GivesUpPost(r) == pc[r] = "posted" /\ Raise(r, ev[r])

\* SOCKET_TIMEOUT_SECONDS, the timeout of the OPNsense client, and a connect or
\* a send that fails: no listener, no room, a broken connection.  OPNsense's
\* timeout is one of each socket operation; that its answer comes in finitely
\* many pieces is what bounds the whole.
GivesUp(r) ==
    /\ \/ pc[r] = "posted"
       \/ pc[r] \in DOMAIN CallOf /\ conn[r] = None
       \/ conn[r] # None /\ conn[r].status = "waiting"
    /\ Raise(r, ev[r])

\* A new certificate that is due already.
StillDue(r) == pc[r] = "retrieve" /\ mode[r] = "renew" /\ due(r) /\ Raise(r, ev[r])

\* Any other exception: lock file, configuration, credentials, malformed
\* responses, validation.
Fails(r) == Active(r) /\ Raise(r, ev[r])

\* The run is killed and reports nothing.
Killed(r) ==
    /\ Active(r) /\ faults > 0 /\ faults' = faults - 1
    /\ Exit(r, "killed", ev[r])
    /\ Hangup(r)
    /\ UNCHANGED <<serving, queue, current, executorVars, mode, before, authorityVars>>

-----------------------------------------------------------------------------
(* OPNsense saves a certificate, or does not, when it pleases; the executor *)
(* works on its own.                                                       *)

Save(r) ==
    /\ r \in posts
    /\ posts' = posts \ {r}
    /\ issued' = issued \cup {r}
    /\ \/ lasting' = lasting \cup {r}
       \/ UNCHANGED lasting
    /\ UNCHANGED <<serviceVars, pc, mode, ev, before, lock, faults>>

Reject(r) ==
    /\ r \in posts
    /\ posts' = posts \ {r}
    /\ UNCHANGED <<serviceVars, pc, mode, ev, before, lock, issued, lasting, faults>>

runVars == <<pc, mode, ev, before, lock, posts, issued, lasting>>

Serve == (Accept \/ HandleOk \/ HandleError \/ Listen) /\ UNCHANGED <<runVars, faults>>

Crash == HelperDies /\ faults > 0 /\ faults' = faults - 1 /\ UNCHANGED runVars

Steps(r) ==
    \/ Lock(r) \/ Configure(r) \/ BuildClient(r) \/ on_dispatch(r) \/ Call(r)
    \/ Inspected(r) \/ InspectedBefore(r) \/ GotCsr(r) \/ Preflight(r) \/ sign_csr(r)
    \/ Signed(r) \/ Retrieved(r) \/ StillAsBefore(r) \/ Installed(r) \/ Verified(r)
    \/ Recovered(r) \/ Refused(r) \/ StillDue(r)

Run(r) == Steps(r) \/ GivesUp(r)

Next ==
    \/ \E r \in Runs :
        \/ Start(r) \/ Run(r) \/ Fails(r) \/ Killed(r)
        \/ Save(r) \/ Reject(r)
    \/ Serve
    \/ Crash

Spec == Init /\ [][Next]_vars

\* A run is a process of its own and its calls have deadlines.
FairSpec == Spec /\ \A r \in Runs : WF_vars(Run(r))

-----------------------------------------------------------------------------
(* Correctness.                                                            *)

Waiting == (IF current = None THEN {} ELSE {current}) \cup {queue[i] : i \in 1..Len(queue)}

\* A request of run r for the operation waits at the executor, or is served.
InFlight(r, operation) ==
    \E q \in Waiting : q.run = r /\ q.operation = operation

\* The evidence never understates: what it calls not attempted has not happened
\* and cannot happen any more on what the run has sent, not even after the run
\* timed out or was killed (signing_dispatch, executor_dispatch).
NothingUnderstated ==
    \A r \in Runs : LET m == ev[r].milestones IN
        /\ m["issuance"] = "not_attempted" => r \notin posts \cup issued
        /\ m["installation"] = "not_attempted" =>
               r \notin installed /\ ~InFlight(r, "install")
        /\ m["live_tls"] = "not_attempted" =>
               r \notin finalized /\ ~InFlight(r, "verify_pending")

\* The evidence never overstates: a confirmed milestone has happened at
\* OPNsense or in the executor, whatever was lost and restarted in between.
NothingOverstated ==
    \A r \in Runs : LET m == ev[r].milestones IN
        /\ m["issuance"] = "confirmed" => r \in issued
        /\ m["installation"] = "confirmed" => r \in installed
        /\ "confirmed" \in {m["activation"], m["live_tls"]} => r \in finalized

Reported(r) == pc[r] \in {"exit_0", "exit_1", "exit_75"} /\ mode[r] # "recover"

\* The printed result, for as long as it is on record: failure_pre_attempt means
\* that nothing changed or ever will, failure_partial that a certificate exists
\* and nothing is in the air, success_changed that the renewal is finalised.
ResultHolds ==
    \A r \in Runs : Reported(r) =>
        LET result == finish(ev[r]) IN
        /\ result.outcome = "failure_pre_attempt" => r \notin posts \cup issued \cup installed
        /\ result.outcome = "failure_partial" =>
               /\ r \in issued
               /\ ~\E q \in Waiting : q.run = r /\ q.operation \in {"install", "verify_pending"}
        /\ result.outcome = "success_changed" =>
               r \in finalized /\ result.certificate = {r} /\ (tx # None => tx.issued # r)

\* Unless the result asks for manual recovery, the run has left nothing that
\* another run could meet: no signing request, no transaction, no certificate
\* that it did not report.
RetrySafe ==
    \A r \in Runs : Reported(r) /\ ~finish(ev[r]).manual_recovery_required =>
        /\ r \notin posts
        /\ ~\E q \in Waiting : q.run = r /\ q.operation \in {"install", "verify_pending"}
        /\ tx # None => tx.issued # r
        /\ r \in issued => finish(ev[r]).outcome \in {"success_prepared", "success_changed"}

\* A run that is about to sign does so for the keystore it inspected, on which
\* no transaction is open and no request of an earlier run is still to come,
\* although those may outlive the lock: inspect and generate_csr refuse a
\* transaction, and the executor serves in order.
SignsForSettledKeystore ==
    \A r \in Runs : pc[r] = "sign" =>
        /\ tx = None /\ keystore = before[r]
        /\ ~\E q \in Waiting : q.operation \in {"install", "verify_pending"}

\* A renewal signs only while the installed certificate is due, and ends with
\* one that is not: the next scheduled renewal has nothing to do.
RenewalSettles ==
    \A r \in Runs : mode[r] = "renew" =>
        /\ pc[r] = "sign" => due(keystore)
        /\ pc[r] = "exit_0" /\ ev[r].outcome = "success_changed" => ~due(r)

\* Every run ends, and so frees the lifecycle lock, whatever the executor and
\* OPNsense do: every call has a deadline.
RunsEnd == \A r \in Runs : pc[r] # "ready" ~> pc[r] \in Ended
=============================================================================

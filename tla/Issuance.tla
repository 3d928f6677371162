------------------------------ MODULE Issuance ------------------------------
(***************************************************************************)
(* From the policy file to the keystore: a run of the renewer that asks    *)
(* for a CSR, has it signed, checks the certificate and sends it to the    *)
(* executor, and the executor that checks everything again by its own      *)
(* policy and its own clock before it imports.  The steps are those of     *)
(* _run_one_shot (src/production_renewer.py), run_to_installation          *)
(* (src/unifi_cert_renewer.py), UnifiClient (src/unifi_client.py) and      *)
(* _ProtocolHandler.dispatch (src/unifi_executor_service.py).              *)
(*                                                                         *)
(* Time passes between any two steps.  The administrator edits the policy  *)
(* and gives UniFi another key, the executor's service restarts, and the   *)
(* renewer stops waiting after SOCKET_TIMEOUT while its request may still  *)
(* be queued.  How the executor makes an import atomic is the subject of   *)
(* UnifiExecutor; here it is one step.                                     *)
(***************************************************************************)
EXTENDS PolicyFile

CONSTANTS
    SOCKET_TIMEOUT,   \* ticks a client waits for an answer
    NameLists,        \* the lists of DNS names OPNsense may put in a certificate
    MaxBackdate,      \* how far from its clock OPNsense may date a certificate
    RenewBefore,      \* the values of renew_before_days
    Start,            \* the first tick
    MaxTicks,         \* bound on the ticks
    MaxRuns           \* bound on the runs

\* SOCKET_TIMEOUT_SECONDS is 300 and DEFAULT_CLOCK_SKEW five minutes.
ASSUME TimeoutAssumption ==
    /\ SOCKET_TIMEOUT \in Nat /\ DEFAULT_CLOCK_SKEW <= SOCKET_TIMEOUT
    /\ Start \in Nat /\ MaxTicks \in Nat /\ MaxRuns \in Nat
    /\ MaxBackdate \in 0..Start
    /\ RenewBefore \subseteq Nat

ASSUME LoadersAssumption == {"renewer", "executor"} \subseteq Loaders

VARIABLES
    clock,
    keystore,    \* [key |-> its private key, cert |-> its certificate]
    run,         \* the renewer's run
    runs,        \* runs started
    queue,       \* install requests sent and not read by the executor
    work,        \* the install request the executor works on, or None
    installed    \* the last import: the certificate and the renewer's policy

issuanceVars == <<clock, keystore, run, runs, queue, work, installed>>
vars == <<policyVars, issuanceVars>>

Keys == {1, 2}

\* The certificate UniFi makes for itself with a new key.
SelfSigned(key) == [key |-> key, not_after |-> Start + DAY]

Idle ==
    [pc |-> "idle", mode |-> None, spki |-> None, renew_before |-> None, before |-> None,
     csr |-> None, cert |-> None, reference |-> None, sent |-> None]

Init ==
    /\ PolicyInit
    /\ clock = Start
    /\ keystore = [key |-> 1, cert |-> SelfSigned(1)]
    /\ run = Idle /\ runs = 0
    /\ queue = <<>> /\ work = None /\ installed = None

-----------------------------------------------------------------------------
(* The environment.                                                        *)

Tick ==
    /\ clock < Start + MaxTicks
    /\ clock' = clock + 1
    /\ UNCHANGED <<policyVars, keystore, run, runs, queue, work, installed>>

Edit == Administer /\ UNCHANGED issuanceVars

\* UniFi gets another key, which it cannot while the executor holds it stopped.
Rekey ==
    /\ keystore.key = 1
    /\ work # None => work.pc = "accepted"
    /\ keystore' = [key |-> 2, cert |-> SelfSigned(2)]
    /\ UNCHANGED <<policyVars, clock, run, runs, queue, work, installed>>

\* What keytool makes of the command of build_keytool_certreq_command: the
\* names in the policy's order, addresses in canonical form.
Csr(key, policy) ==
    [whole |-> TRUE, signature_valid |-> TRUE, key |-> key, alg |-> "RSA", size |-> 2048,
     subject |-> policy.subject, dns |-> policy.dns,
     ip |-> [i \in 1..Len(policy.ip) |-> [id |-> policy.ip[i].id, form |-> "plain"]],
     other_names |-> FALSE, hash |-> "sha384", oid |-> CSR_OID]

Perfect(csr, policy, from) ==
    [whole |-> TRUE, key |-> csr.key, alg |-> csr.alg, size |-> csr.size,
     subject |-> csr.subject, dns |-> csr.dns, ip |-> csr.ip, other_names |-> FALSE,
     basic_constraints |-> "leaf", eku |-> <<"serverAuth">>,
     key_usage |-> SERVER_KEY_USAGE,
     not_before |-> from, not_after |-> from + policy.days * DAY,
     hash |-> policy.hash, oid |-> policy.oid, issuer |-> policy.ca[1].subject]

\* What OPNsense may return: the certificate asked for, dated by its clock, or
\* one that differs from it in a field.
OPNsense(csr, policy) ==
    LET perfect == Perfect(csr, policy, clock)
    IN  {Perfect(csr, policy, d) : d \in (clock - MaxBackdate)..(clock + 1)}
        \cup {[perfect EXCEPT !.dns = s] : s \in NameLists}
        \cup {[perfect EXCEPT !.key = k] : k \in Keys}
        \cup {[perfect EXCEPT !.ip = <<>>],
              [perfect EXCEPT !.not_after = @ + 1],
              [perfect EXCEPT !.eku = <<"serverAuth", "clientAuth">>],
              [perfect EXCEPT !.hash = "sha512"],
              [perfect EXCEPT !.issuer = "another"]}

-----------------------------------------------------------------------------
(* The renewer.                                                            *)

RenewerPolicy == LoadedPolicy("renewer")
ExecutorPolicy == LoadedPolicy("executor")

executorUnchanged == UNCHANGED <<clock, keystore, queue, work, installed>>

\* A run ends and its process is gone.
EndRun ==
    /\ run' = Idle
    /\ loader' = [loader EXCEPT !["renewer"] = NotLoaded]
    /\ UNCHANGED <<named, text, mtime, writing, edits, runs>>

Continue(next) ==
    /\ run' = next
    /\ UNCHANGED <<policyVars, runs>>

\* A mode, the configured fingerprint and the configured threshold.
StartRun(mode, spki, days) ==
    /\ run.pc = "idle" /\ runs < MaxRuns
    /\ run' = [Idle EXCEPT !.pc = "load", !.mode = mode, !.spki = spki, !.renew_before = days]
    /\ runs' = runs + 1
    /\ executorUnchanged
    /\ UNCHANGED policyVars

LoadConfig ==
    /\ run.pc = "load"
    /\ \/ Load("renewer", clock) /\ UNCHANGED <<run, runs>>
       \/ /\ Loaded("renewer")
          /\ run.mode = "renew" => NotLonger(run.renew_before, RenewerPolicy)
          /\ Continue([run EXCEPT !.pc = IF run.mode = "renew" THEN "decide" ELSE "inspect"])
       \/ /\ \/ loader["renewer"].pc = "refused"
             \/ /\ Loaded("renewer") /\ run.mode = "renew"
                /\ ~NotLonger(run.renew_before, RenewerPolicy)
          /\ EndRun
    /\ executorUnchanged

\* inspect_current: the leaf of the keystore has the configured public key.
inspect_current == Loaded("executor") /\ keystore.cert.key = run.spki

Decide ==
    /\ run.pc = "decide"
    /\ IF inspect_current /\ _renewal_is_due(keystore.cert, run.renew_before, clock)
       THEN Continue([run EXCEPT !.pc = "inspect"])
       ELSE EndRun
    /\ executorUnchanged

InspectBefore ==
    /\ run.pc = "inspect"
    /\ IF /\ validate_issued_signature_policy(
                RenewerPolicy.ca, RenewerPolicy.hash, RenewerPolicy.oid, clock)
          /\ inspect_current
       THEN Continue([run EXCEPT !.pc = "csr", !.before = keystore.cert])
       ELSE EndRun
    /\ executorUnchanged

\* generate_csr at the executor, under its policy, and request_csr here.
generate_csr(csr) ==
    /\ Loaded("executor") /\ RenewerPolicy = ExecutorPolicy
    /\ keystore.cert.key = run.spki
    /\ validate_requested_csr(csr, ExecutorPolicy, run.spki)
    /\ csr.hash = "sha384" /\ csr.oid = CSR_OID

RequestCsr ==
    LET csr == Csr(keystore.key, RenewerPolicy)
    IN  /\ run.pc = "csr"
        /\ IF generate_csr(csr) /\ validate_requested_csr(csr, RenewerPolicy, run.spki)
           THEN Continue([run EXCEPT !.pc = "sign", !.csr = csr])
           ELSE EndRun
        /\ executorUnchanged

\* resolve_ca, sign_csr and get_certificate, which may also fail.
SignCsr ==
    /\ run.pc = "sign"
    /\ \/ /\ sign_csr_checks(run.csr, RenewerPolicy, run.spki)
          /\ \E c \in OPNsense(run.csr, RenewerPolicy) :
                Continue([run EXCEPT !.pc = "retrieve", !.cert = c])
       \/ EndRun
    /\ executorUnchanged

\* The certificate arrives, and its freshness is judged from now on by now.
Retrieved == prepare_certificate_import(run, RenewerPolicy, run.spki, clock, clock)

InWindow == run.mode = "renew" /\ _renewal_is_due(run.cert, run.renew_before, clock)

Retrieve ==
    /\ run.pc = "retrieve"
    /\ IF Retrieved /\ ~InWindow /\ run.mode # "prepare"
       THEN Continue([run EXCEPT !.pc = "install", !.reference = clock])
       ELSE EndRun
    /\ executorUnchanged

\* Mutant of SamePublic: any state will do.
AnyPublic(s, t) == TRUE

\* _same_public, and the comparison of install_certificate.
SamePublic(s, t) == s = t

\* UnifiClient.install_certificate up to the send.
SendInstall ==
    /\ run.pc = "install"
    /\ IF /\ prepare_certificate_import(
                run, RenewerPolicy, run.spki, run.reference, clock)
          /\ Loaded("executor") /\ SamePublic(keystore.cert, run.before)
       THEN /\ queue' = Append(queue,
                  [policy |-> RenewerPolicy, before |-> run.before, csr |-> run.csr,
                   cert |-> run.cert, renewer_reference |-> run.reference,
                   sent |-> clock, run |-> runs])
            /\ Continue([Idle EXCEPT !.pc = "wait", !.sent = clock])
       ELSE EndRun /\ UNCHANGED queue
    /\ UNCHANGED <<clock, keystore, work, installed>>

\* The deadline of _read_message passes.
GiveUp ==
    /\ run.pc = "wait"
    /\ clock >= run.sent + SOCKET_TIMEOUT
    /\ EndRun
    /\ executorUnchanged

-----------------------------------------------------------------------------
(* The executor.                                                           *)

LoadAuthority ==
    /\ Load("executor", clock)
    /\ UNCHANGED issuanceVars

\* The service stops, and starts again with the policy of that moment; a client
\* that waits for it loses its connection.
RestartService ==
    /\ loader["executor"].pc \in {"loaded", "refused"}
    /\ queue' = <<>> /\ work' = None
    /\ LET ends == run.pc = "wait"
       IN  /\ run' = IF ends THEN Idle ELSE run
           /\ loader' = [l \in Loaders |->
                 IF l = "executor" \/ ends THEN NotLoaded ELSE loader[l]]
    /\ UNCHANGED <<named, text, mtime, writing, edits, clock, keystore, runs, installed>>

\* The answer to a request, read by the run that waits for it if one still does.
Answer(q) ==
    /\ work' = None
    /\ IF run.pc = "wait" /\ runs = q.run
       THEN EndRun
       ELSE UNCHANGED <<policyVars, run, runs>>

\* Mutant of FreshnessReference: the renewer's own reference.
RenewerReference(q) == q.renewer_reference

\* _decode_import_request stamps the executor's clock.
FreshnessReference(q) == clock

\* Digest and _decode_import_request: everything but the keystore, the CSR and
\* the certificate comes from the executor's own policy.
Acceptable(q) ==
    /\ q.policy = ExecutorPolicy
    /\ prepare_certificate_import(
          q, ExecutorPolicy, q.before.key, FreshnessReference(q), clock)
    /\ q.csr.hash = "sha384" /\ q.csr.oid = CSR_OID

\* Whether the request, prepared again with its fixed reference, still stands.
StillPrepared ==
    prepare_certificate_import(
        work.request, ExecutorPolicy, work.request.before.key, work.reference, clock)

Accept ==
    /\ Loaded("executor") /\ work = None /\ queue # <<>>
    /\ queue' = Tail(queue)
    /\ IF Acceptable(Head(queue))
       THEN /\ work' = [pc |-> "accepted", request |-> Head(queue),
                        reference |-> FreshnessReference(Head(queue)), at |-> clock]
            /\ UNCHANGED <<policyVars, run, runs>>
       ELSE Answer(Head(queue))
    /\ UNCHANGED <<clock, keystore, installed>>

\* exclusive, and install_certificate up to the import.
Exclusive ==
    /\ work # None /\ work.pc = "accepted"
    /\ IF SamePublic(keystore.cert, work.request.before) /\ StillPrepared
       THEN /\ work' = [work EXCEPT !.pc = "exclusive"]
            /\ UNCHANGED <<policyVars, run, runs>>
       ELSE Answer(work.request)
    /\ UNCHANGED <<clock, keystore, queue, installed>>

\* import_certificate_reply, which verifies the stage before it commits it.
Import ==
    /\ work # None /\ work.pc = "exclusive"
    /\ IF StillPrepared /\ SamePublic(keystore.cert, work.request.before)
       THEN /\ keystore' = [keystore EXCEPT !.cert = work.request.cert]
            /\ installed' = [cert |-> work.request.cert, policy |-> work.request.policy]
            /\ work' = [work EXCEPT !.pc = "imported"]
            /\ UNCHANGED <<policyVars, run, runs>>
       ELSE Answer(work.request) /\ UNCHANGED <<keystore, installed>>
    /\ UNCHANGED <<clock, queue>>

\* verify_certificate_import, the end of exclusive, and the answer: state or
\* error, the keystore has changed.
Respond ==
    /\ work # None /\ work.pc = "imported"
    /\ Answer(work.request)
    /\ UNCHANGED <<clock, keystore, queue, installed>>

-----------------------------------------------------------------------------
Renewer ==
    \/ \E mode \in {"prepare", "install"}, k \in Keys : StartRun(mode, k, None)
    \/ \E k \in Keys, d \in RenewBefore : StartRun("renew", k, d)
    \/ LoadConfig \/ Decide \/ InspectBefore \/ RequestCsr \/ SignCsr
    \/ Retrieve \/ SendInstall \/ GiveUp

Executor == LoadAuthority \/ RestartService \/ Accept \/ Exclusive \/ Import \/ Respond

Next == Tick \/ Edit \/ Rekey \/ Renewer \/ Executor

Spec == Init /\ [][Next]_vars

-----------------------------------------------------------------------------
\* The certificate in the keystore is one for the keystore's private key,
\* whatever was queued when UniFi got another key: the executor compares the
\* keystore with the state the request was made for before it imports.
KeyMatches == keystore.cert.key = keystore.key

Count(s, id) == Cardinality({i \in 1..Len(s) : canonical(s[i]) = id})

SameBag(s, t) ==
    \A id \in Identities(s) \cup Identities(t) : Count(s, id) = Count(t, id)

Fits(c, p) ==
    /\ SameBag(c.dns, p.dns) /\ SameBag(c.ip, p.ip)
    /\ c.subject = p.subject /\ c.hash = p.hash
    /\ c.issuer = p.ca[1].subject
    /\ c.not_after - c.not_before = p.days * DAY

\* What is imported is what the renewer's policy asks for: each name exactly as
\* often as the policy lists it, although validate_requested_csr and
\* _validate_exact_sans only compare numbers and sets of names.
InstalledAsRequested ==
    installed # None => Fits(installed.cert, installed.policy)

\* The executor never begins with a request whose client has stopped waiting
\* for it: its own freshness reference refuses a certificate older than five
\* minutes, and the client waits that long from the moment it sends.
NoInstallAfterGiveUp ==
    work # None => work.at <= work.request.sent + SOCKET_TIMEOUT

\* A renewal never has a certificate issued, finds it valid and then throws it
\* away because it would be due again: the threshold is below the lifetime, and
\* backdating costs less than a day.
RenewNeverWastes == run.pc = "retrieve" /\ Retrieved => ~InWindow
=============================================================================

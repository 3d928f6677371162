------------------------ MODULE ProductionRenewerProofs ------------------------
(***************************************************************************)
(* Proofs about ProductionRenewer, for every set of runs, every backlog    *)
(* and every number of faults: what a run records and reports agrees with  *)
(* what OPNsense and the executor have done and may still do on its        *)
(* requests, and a run signs for the keystore that it inspected.           *)
(***************************************************************************)
EXTENDS ProductionRenewer, TLAPS

\* Most leaves are first-order; those that are not name their prover.
USE ZenonT(30)

-----------------------------------------------------------------------------
(* The inductive invariant: of the executor and its queue, of OPNsense, and *)
(* of every run.                                                           *)

Points == DOMAIN StageOf \cup Ended \cup {"ready"}

Typed ==
    /\ queue \in Seq(Requests) /\ current \in Requests \cup {None}
    /\ conn \in [Runs -> Connections \cup {None}]
    /\ keystore \in Certs /\ tx \in Transactions \cup {None}
    /\ pc \in [Runs -> Points] /\ mode \in [Runs -> MODES]
    /\ ev \in [Runs -> Evidence(Certs)] /\ before \in [Runs -> Certs \cup {None}]
    /\ lock \in Runs \cup {None}

\* The operations that change the keystore or its transaction.
Changing == {"install", "verify_pending"}

\* A run has at most one request at the executor.
Unique ==
    /\ \A i, j \in 1..Len(queue) : queue[i].run = queue[j].run => i = j
    /\ current # None => \A i \in 1..Len(queue) : queue[i].run # current.run

\* A changing request of an earlier owner of the lock stands before any request
\* of the present one.
Ordered ==
    /\ \A i, j \in 1..Len(queue) :
           queue[i].run = lock /\ i < j => queue[j].operation \notin Changing
    /\ current # None /\ current.run = lock =>
           \A j \in 1..Len(queue) : queue[j].operation \notin Changing

\* What a changing request and a transaction tell of the run they are for.
Changes ==
    /\ \A q \in Waiting : q.operation \in Changing =>
           /\ q.run \in issued
           /\ \A p \in Waiting : p.operation \in Changing => p.run = q.run
           /\ q.operation = "install" => tx = None
           /\ q.operation = "verify_pending" => tx = None \/ tx.issued = q.run
    /\ tx # None => tx.issued \in issued

\* What was installed was issued before, and so was what may be restored.
Authority ==
    /\ posts \cap issued = {}
    /\ keystore \in installed \cup {Old}
    /\ tx # None => tx.old \in installed \cup {Old}
    /\ installed \cap Runs \subseteq issued

Issued == {"retrieve", "install_inspect", "install", "verify"}

OK(r) == conn[r] # None /\ conn[r].status = "ok"

\* The lock belongs to the run that signs and installs, and a connection to a
\* control point that calls the executor.
Placed(r) ==
    /\ lock = r <=> Active(r) /\ pc[r] # "locking" /\ mode[r] \in LockedModes
    /\ pc[r] \in {"locking", "client", "inspect_before", "preflight", "sign",
                  "posted"} \cup Issued => mode[r] \in LockedModes
    /\ pc[r] = "recover" => mode[r] = "recover"
    /\ pc[r] = "inspect" => mode[r] \in {"inspect", "renew"}
    /\ pc[r] = "config" => mode[r] # "recover"
    /\ pc[r] = "csr" => mode[r] \in LockedModes \cup {"csr"}
    /\ conn[r] # None => pc[r] \in DOMAIN CallOf
    /\ OK(r) /\ pc[r] \in {"inspect", "inspect_before"} => conn[r].state \in Certs
    /\ pc[r] \in Issued => r \in issued

\* A run that lives waits for the request it has at the executor.
Awaits(r) ==
    \A q \in Waiting : q.run = r =>
        /\ pc[r] # "ready"
        /\ Active(r) => /\ conn[r] # None /\ conn[r].status = "waiting"
                        /\ q.operation = CallOf[pc[r]]

Quiet == tx = None /\ \A q \in Waiting : q.operation \notin Changing

\* The executor has told the owner of the lock that no transaction is open.
Told(r) ==
    \/ pc[r] \in {"csr", "preflight", "sign", "posted", "retrieve", "install_inspect"}
    \/ pc[r] = "install" /\ conn[r] = None
    \/ pc[r] = "inspect_before" /\ (OK(r) \/ mode[r] = "renew")
    \/ pc[r] = "client" /\ mode[r] = "renew"
    \/ pc[r] = "inspect" /\ OK(r)

\* From its inspection to its installation nothing changes under the owner.
Settled(r) ==
    lock = r /\ Told(r) =>
        /\ Quiet
        /\ pc[r] \in {"csr", "preflight", "sign", "posted", "retrieve",
                      "install_inspect", "install"} => keystore = before[r]
        /\ pc[r] \in {"inspect", "inspect_before"} /\ OK(r) => keystore = conn[r].state
        /\ mode[r] = "renew" /\ pc[r] \in {"client", "inspect_before", "csr", "preflight",
                                           "sign"} => due(keystore)

\* The owner has asked for the installation: no other run changes anything.
Installing(r) ==
    lock = r /\ (pc[r] = "verify" \/ (pc[r] = "install" /\ conn[r] # None)) =>
        /\ \A q \in Waiting : q.operation \in Changing => q.run = r
        /\ tx = None \/ tx.issued = r

\* What is not attempted has not happened and cannot happen any more.
Attempted(r) ==
    LET m == ev[r].milestones IN
    /\ m["issuance"] = "not_attempted" => r \notin posts \cup issued
    /\ m["installation"] = "not_attempted" =>
           /\ r \notin installed /\ ~InFlight(r, "install")
           /\ tx # None => tx.issued # r
    /\ m["live_tls"] = "not_attempted" =>
           /\ r \notin finalized /\ ~InFlight(r, "verify_pending")
           /\ tx # None /\ tx.issued = r => tx.phase # "live_verified"

\* What is confirmed has happened, and what the executor answered is true.
Confirmed(r) ==
    LET m == ev[r].milestones IN
    /\ m["issuance"] = "confirmed" => r \in issued
    /\ m["installation"] = "confirmed" => r \in installed /\ ~InFlight(r, "install")
    /\ m["live_tls"] = "confirmed" =>
           /\ r \in finalized /\ ~InFlight(r, "verify_pending")
           /\ tx # None => tx.issued # r
    /\ OK(r) /\ pc[r] = "install" => r \in installed
    /\ OK(r) /\ pc[r] = "verify" => r \in finalized /\ (tx # None => tx.issued # r)
    /\ InFlight(r, "install") => m["live_tls"] = "not_attempted"

Unsigned == {"locking", "config", "inspect", "client", "inspect_before", "csr",
             "preflight", "sign", "recover"}

\* The evidence of a run at its control points.
Stated(r) ==
    LET e == ev[r]
        m == ev[r].milestones
    IN  /\ e.change = "none" <=> m["issuance"] = "not_attempted"
        /\ e.change = "confirmed" <=> m["issuance"] = "confirmed"
        /\ m["csr"] # "uncertain" /\ m["activation"] = m["live_tls"]
        /\ m["issuance"] # "failed" /\ m["installation"] # "failed" /\ m["live_tls"] # "failed"
        /\ pc[r] \in Unsigned \cup {"ready"} => m["issuance"] = "not_attempted"
        /\ pc[r] \in Issued => m["issuance"] = "confirmed"
        /\ pc[r] \in (Unsigned \cup {"ready", "posted"} \cup Issued) \ {"install", "verify"}
           => m["installation"] = "not_attempted"
        /\ pc[r] \in (Unsigned \cup {"ready", "posted"} \cup Issued) \ {"verify"}
           => m["live_tls"] = "not_attempted"
        /\ pc[r] \in {"install_inspect", "install", "verify"} =>
               e.certificate = {r} /\ (mode[r] = "renew" => ~due(r))
        /\ pc[r] = "verify" => m["installation"] = "confirmed"

\* What the result of a run that ended was derived from.
Derived(r) ==
    LET e == ev[r]
        m == ev[r].milestones
    IN  /\ pc[r] \in {"exit_1", "exit_75"} =>
               /\ e.outcome \in {"failure_ambiguous", "failure_partial", "failure_pre_attempt"}
               /\ e.outcome = "failure_partial" => ~Uncertain(e) /\ e.change = "confirmed"
               /\ e.outcome = "failure_pre_attempt" => ~Uncertain(e) /\ e.change # "confirmed"
               /\ e.manual_recovery_required <=> e.change # "none" \/ Uncertain(e)
        /\ pc[r] = "exit_0" /\ mode[r] # "recover" =>
               \/ /\ e.outcome \in {"success_no_change", "attention_due", "success_prepared"}
                  /\ m["issuance"] # "uncertain" /\ m["installation"] = "not_attempted"
                  /\ m["live_tls"] = "not_attempted"
                  /\ e.outcome = "success_prepared" \/ m["issuance"] = "not_attempted"
               \/ /\ e.outcome = "success_changed" /\ e.certificate = {r}
                  /\ m["issuance"] = "confirmed" /\ m["installation"] = "confirmed"
                  /\ m["live_tls"] = "confirmed"
                  /\ mode[r] = "renew" => ~due(r)

Global == Unique /\ Ordered /\ Changes /\ Authority

Sound(r) ==
    /\ Placed(r) /\ Awaits(r) /\ Settled(r) /\ Installing(r) /\ Attempted(r) /\ Confirmed(r)
    /\ Stated(r) /\ Derived(r)

RenewerInvariant == Typed /\ Global /\ \A r \in Runs : Sound(r)

-----------------------------------------------------------------------------
(* The evidence.                                                           *)

\* The fields of the evidence, without their product.
LEMMA EvidenceFields ==
    ASSUME NEW e \in Evidence(Certs)
    PROVE  /\ e.stage \in Stages /\ e.outcome \in Outcomes
           /\ e.change \in {"none", "possible", "confirmed"}
           /\ e.manual_recovery_required \in BOOLEAN
           /\ e.milestones \in [MILESTONE_NAMES -> Milestones]
  BY DEF Evidence

\* What the invariant reads of the evidence.
Reads(e, f) ==
    /\ f.milestones = e.milestones /\ f.change = e.change /\ f.outcome = e.outcome
    /\ f.manual_recovery_required = e.manual_recovery_required
    /\ f.certificate = e.certificate

\* The stage at a control point.
LEMMA StageEvidence ==
    ASSUME NEW e \in Evidence(Certs), NEW label \in DOMAIN StageOf
    PROVE  /\ [e EXCEPT !.stage = StageOf[label]] \in Evidence(Certs)
           /\ Reads(e, [e EXCEPT !.stage = StageOf[label]])
  <1>1. StageOf[label] \in Stages
    BY SMT DEF StageOf, Stages, _FAILURE_REASONS
  <1> QED  BY <1>1 DEF Evidence, Reads

\* New evidence.
LEMMA NewEvidenceFields ==
    /\ NewEvidence \in Evidence(Certs)
    /\ NewEvidence.change = "none"
    /\ \A name \in MILESTONE_NAMES : NewEvidence.milestones[name] = "not_attempted"
  <1>1. "startup" \in Stages /\ "failure_pre_attempt" \in Outcomes /\ "none" \in Reasons
    BY DEF Stages, Outcomes, _SEVERITY, Reasons
  <1> QED  BY <1>1 DEF NewEvidence, Evidence, Milestones

\* confirm sets one milestone, and the change with the issuance.
LEMMA ConfirmEvidence ==
    ASSUME NEW e \in Evidence(Certs), NEW name \in MILESTONE_NAMES
    PROVE  /\ confirm(e, name) \in Evidence(Certs)
           /\ confirm(e, name).milestones = [e.milestones EXCEPT ![name] = "confirmed"]
           /\ confirm(e, name).change = IF name = "issuance" THEN "confirmed" ELSE e.change
           /\ confirm(e, name).certificate = e.certificate
  BY DEF confirm, Evidence, Milestones

\* signing_dispatch makes the issuance uncertain before the request leaves.
LEMMA SigningEvidence ==
    ASSUME NEW e \in Evidence(Certs)
    PROVE  /\ signing_dispatch(e) \in Evidence(Certs)
           /\ signing_dispatch(e).milestones = [e.milestones EXCEPT !["issuance"] = "uncertain"]
           /\ signing_dispatch(e).change = "possible"
  BY DEF signing_dispatch, Evidence, Milestones, MILESTONE_NAMES

\* executor_dispatch makes uncertain what the operation may do, and nothing else.
LEMMA DispatchEvidence ==
    ASSUME NEW e \in Evidence(Certs), NEW operation
    PROVE  LET f == executor_dispatch(e, operation) IN
           /\ f \in Evidence(Certs) /\ f.change = e.change /\ f.certificate = e.certificate
           /\ f.milestones \in [MILESTONE_NAMES -> Milestones]
           /\ \A name \in {"csr", "issuance"} : f.milestones[name] = e.milestones[name]
           /\ f.milestones["installation"] = IF operation = "install" THEN "uncertain"
                                             ELSE e.milestones["installation"]
           /\ \A name \in {"activation", "live_tls"} :
                  f.milestones[name] = IF operation = "verify_pending" THEN "uncertain"
                                       ELSE e.milestones[name]
  <1>1. CASE operation = "install"
    BY <1>1 DEF executor_dispatch, Evidence, Milestones, MILESTONE_NAMES
  <1>2. CASE operation = "verify_pending"
    BY <1>2 DEF executor_dispatch, Evidence, Milestones, MILESTONE_NAMES
  <1>3. CASE operation \notin {"install", "verify_pending"}
    <2>1. executor_dispatch(e, operation) = e
      BY <1>3 DEF executor_dispatch
    <2> QED  BY <1>3, <2>1, EvidenceFields DEF MILESTONE_NAMES
  <1> QED  BY <1>1, <1>2, <1>3

\* success sets the outcome and leaves what was recorded.
LEMMA SuccessEvidence ==
    ASSUME NEW e \in Evidence(Certs), NEW result \in Outcomes, NEW d \in SUBSET BOOLEAN
    PROVE  LET f == success(e, result, d) IN
           /\ f \in Evidence(Certs) /\ f.outcome = result
           /\ f.milestones = e.milestones /\ f.change = e.change
           /\ f.certificate = e.certificate
  <1>1. "completed" \in Stages /\ "none" \in Reasons
    BY DEF Stages, Reasons
  <1> QED  BY <1>1 DEF success, Evidence

\* The result of a failure follows from what was attempted and confirmed.
LEMMA FailureEvidence ==
    ASSUME NEW e \in Evidence(Certs), NEW reason \in {{}, {"lock_busy"}}
    PROVE  LET f == failure(e, reason) IN
           /\ f \in Evidence(Certs) /\ f.change = e.change
           /\ \A name \in MILESTONE_NAMES \ {"csr"} : f.milestones[name] = e.milestones[name]
           /\ f.milestones["csr"] \in {e.milestones["csr"], "failed"}
           /\ f.outcome = IF Uncertain(e) THEN "failure_ambiguous"
                          ELSE IF e.change = "confirmed" THEN "failure_partial"
                          ELSE "failure_pre_attempt"
           /\ f.manual_recovery_required <=> e.change # "none" \/ Uncertain(e)
  <1> DEFINE wanted(r) == IF reason # {} THEN r \in reason
                          ELSE r = IF e.stage \in DOMAIN _FAILURE_REASONS
                                   THEN _FAILURE_REASONS[e.stage] ELSE "unexpected_failure"
             why == CHOOSE r \in Reasons : wanted(r)
             what == CASE Uncertain(e) -> "failure_ambiguous"
                       [] ~Uncertain(e) /\ e.change = "confirmed" -> "failure_partial"
                       [] OTHER -> "failure_pre_attempt"
  <1>1. why \in Reasons
    <2>1. \E r \in Reasons : wanted(r)
      <3>1. CASE reason # {}
        BY <3>1 DEF Reasons
      <3>2. CASE reason = {} /\ e.stage \in DOMAIN _FAILURE_REASONS
        BY <3>2 DEF Reasons
      <3>3. CASE reason = {} /\ e.stage \notin DOMAIN _FAILURE_REASONS
        BY <3>3 DEF Reasons
      <3> QED  BY <3>1, <3>2, <3>3
    <2> HIDE DEF wanted
    <2> QED  BY <2>1
  <1>2. /\ what \in Outcomes
        /\ what = IF Uncertain(e) THEN "failure_ambiguous"
                  ELSE IF e.change = "confirmed" THEN "failure_partial"
                  ELSE "failure_pre_attempt"
    BY DEF Outcomes, _SEVERITY
  <1>3. failure(e, reason) =
            [e EXCEPT !.target_stage = e.stage, !.reason_code = why, !.outcome = what,
                      !.manual_recovery_required = e.change # "none" \/ Uncertain(e),
                      !.milestones["csr"] = IF e.stage = "csr_generation" THEN "failed" ELSE @]
    BY DEF failure
  <1>4. (e.change # "none" \/ Uncertain(e)) \in BOOLEAN
    BY DEF Uncertain
  <1> DEFINE asked == e.change # "none" \/ Uncertain(e)
             csr == IF e.stage = "csr_generation" THEN "failed" ELSE e.milestones["csr"]
             m == [e.milestones EXCEPT !["csr"] = csr]
             f == [e EXCEPT !.target_stage = e.stage, !.reason_code = why, !.outcome = what,
                            !.manual_recovery_required = asked, !.milestones = m]
  <1>5. failure(e, reason) = f
    BY <1>3
  <1>6. /\ m \in [MILESTONE_NAMES -> Milestones] /\ m["csr"] \in {e.milestones["csr"], "failed"}
        /\ \A name \in MILESTONE_NAMES \ {"csr"} : m[name] = e.milestones[name]
    BY EvidenceFields DEF MILESTONE_NAMES, Milestones
  <1> HIDE DEF why, what, m, asked
  <1>7. /\ f.change = e.change /\ f.milestones = m /\ f.outcome = what
        /\ f.manual_recovery_required = asked
    BY DEF Evidence
  <1>8. f \in Evidence(Certs)
    BY <1>1, <1>2, <1>4, <1>6 DEF Evidence, asked
  <1>9. f.manual_recovery_required <=> e.change # "none" \/ Uncertain(e)
    <2> HIDE DEF f
    <2> QED  BY <1>7, Zenon DEF asked
  <1> HIDE DEF f
  <1> QED  BY <1>2, <1>5, <1>6, <1>7, <1>8, <1>9

-----------------------------------------------------------------------------
(* The requests at the executor.                                           *)

\* A request in the queue or in service, by its place.
LEMMA WaitingPlaces ==
    ASSUME Typed
    PROVE  /\ Waiting \subseteq Requests
           /\ \A i \in 1..Len(queue) : queue[i] \in Waiting
           /\ current # None => current \in Waiting
           /\ \A q \in Waiting : \/ q = current /\ current # None
                                 \/ \E i \in 1..Len(queue) : q = queue[i]
  <1>1. \A i \in 1..Len(queue) : queue[i] \in Requests
    BY SMT DEF Typed
  <1> QED  BY <1>1 DEF Waiting, Typed

\* A run that lives and does not wait has no request at the executor.
LEMMA Calm ==
    ASSUME RenewerInvariant, NEW r \in Runs, Active(r),
           conn[r] = None \/ conn[r].status # "waiting"
    PROVE  /\ \A q \in Waiting : q.run # r
           /\ \A operation : ~InFlight(r, operation)
  BY DEF RenewerInvariant, Sound, Awaits, InFlight

\* A run with a connection lives.
LEMMA Connected ==
    ASSUME RenewerInvariant, NEW r \in Runs, conn[r] # None
    PROVE  Active(r) /\ pc[r] \in DOMAIN CallOf
  BY DEF RenewerInvariant, Sound, Placed, Active, StageOf, CallOf

-----------------------------------------------------------------------------
(* The steps of a run that touch nothing but the run.                      *)

\* Such a step of run r, seen from everyone else: it takes the lock at
\* "locking" when it is free, and gives only its own lock away.
Local(r) ==
    /\ UNCHANGED <<queue, current, executorVars, issued, lasting>>
    /\ posts' = posts \/ (posts' = posts \cup {r} /\ r \notin issued)
    /\ \/ lock' = lock
       \/ lock = r /\ lock' = None
       \/ lock = None /\ lock' = r /\ pc[r] = "locking"
    /\ \A s \in Runs \ {r} :
           /\ pc'[s] = pc[s] /\ mode'[s] = mode[s] /\ ev'[s] = ev[s]
           /\ before'[s] = before[s] /\ conn'[s] = conn[s]

\* The requests, the transaction and the due dates that such a step leaves alone.
LEMMA LocalWaiting ==
    ASSUME NEW r, Local(r)
    PROVE  /\ Waiting' = Waiting /\ (Quiet' <=> Quiet)
           /\ \A s, operation : InFlight(s, operation)' <=> InFlight(s, operation)
           /\ \A c : due(c)' <=> due(c)
  <1>1. queue' = queue /\ current' = current /\ tx' = tx /\ lasting' = lasting
    BY DEF Local, executorVars
  <1>2. Waiting' = Waiting
    BY <1>1 DEF Waiting
  <1> QED  BY <1>1, <1>2 DEF InFlight, due, Quiet

\* Another run does not notice.
LEMMA Bystander ==
    ASSUME Typed, NEW r \in Runs, Local(r), NEW s \in Runs \ {r}, Sound(s)
    PROVE  Sound(s)'
  <1>1. /\ pc'[s] = pc[s] /\ mode'[s] = mode[s] /\ ev'[s] = ev[s]
        /\ before'[s] = before[s] /\ conn'[s] = conn[s]
    BY DEF Local
  <1>2. lock' = s <=> lock = s
    BY ServiceAssumption, SMT DEF Local
  <1>3. /\ tx' = tx /\ keystore' = keystore /\ installed' = installed
        /\ finalized' = finalized /\ issued' = issued /\ (s \in posts' <=> s \in posts)
    BY DEF Local, executorVars
  <1>4. /\ Waiting' = Waiting /\ (Quiet' <=> Quiet)
        /\ \A operation : InFlight(s, operation)' <=> InFlight(s, operation)
        /\ \A c : due(c)' <=> due(c)
    BY LocalWaiting
  <1>5. (OK(s)' <=> OK(s)) /\ (Active(s)' <=> Active(s)) /\ (Told(s)' <=> Told(s))
    BY <1>1 DEF OK, Active, Told
  <1>6. Placed(s)'
    BY <1>1, <1>2, <1>3, <1>5 DEF Sound, Placed
  <1>7. Awaits(s)'
    BY <1>1, <1>4, <1>5 DEF Sound, Awaits
  <1>8. Settled(s)'
    BY <1>1, <1>2, <1>3, <1>4, <1>5 DEF Sound, Settled
  <1>9. Installing(s)'
    BY <1>1, <1>2, <1>3, <1>4 DEF Sound, Installing
  <1>10. Attempted(s)'
    BY <1>1, <1>3, <1>4 DEF Sound, Attempted
  <1>11. Confirmed(s)'
    BY <1>1, <1>3, <1>4, <1>5 DEF Sound, Confirmed
  <1>12. Stated(s)'
    BY <1>1, <1>4 DEF Sound, Stated
  <1>13. Derived(s)'
    BY <1>1, <1>4 DEF Sound, Derived, Uncertain
  <1> QED  BY <1>6, <1>7, <1>8, <1>9, <1>10, <1>11, <1>12, <1>13 DEF Sound

\* What is left to show of a local step: the types and the run's own part.
LEMMA LocalKeeps ==
    ASSUME RenewerInvariant, NEW r \in Runs, Local(r), Typed', Sound(r)'
    PROVE  RenewerInvariant'
  <1>1. /\ queue' = queue /\ current' = current /\ tx' = tx /\ keystore' = keystore
        /\ installed' = installed /\ issued' = issued /\ Waiting' = Waiting
    BY LocalWaiting DEF Local, executorVars
  <1>2. Typed /\ Global /\ \A s \in Runs : Sound(s)
    BY DEF RenewerInvariant
  <1>3. \A i \in 1..Len(queue) : queue[i].run \in Runs /\ queue[i].run # None
    <2>1. \A q \in Waiting : q.run \in Runs /\ q.run # None
      BY <1>2, WaitingPlaces, ServiceAssumption DEF Requests
    <2> QED  BY <1>2, <2>1, WaitingPlaces
  <1>4. current # None => current.run \in Runs /\ current.run # None
    BY <1>2, ServiceAssumption DEF Typed, Requests
  <1>5. Unique'
    BY <1>1, <1>2 DEF Global, Unique
  <1>6. Ordered'
    <2>1. CASE lock' = lock
      BY <1>1, <1>2, <2>1 DEF Global, Ordered
    <2>2. CASE lock' = None
      BY <1>1, <1>3, <1>4, <2>2 DEF Ordered
    <2>3. CASE lock' = r /\ pc[r] = "locking"
      <3>1. Active(r) /\ conn[r] = None
        BY <1>2, <2>3 DEF Active, StageOf, CallOf, Sound, Placed
      <3>2. \A q \in Waiting : q.run # r
        BY <3>1, Calm
      <3> QED  BY <1>1, <1>2, <2>3, <3>2, WaitingPlaces DEF Ordered
    <2> QED  BY <2>1, <2>2, <2>3 DEF Local
  <1>7. Changes'
    BY <1>1, <1>2 DEF Global, Changes
  <1>8. Authority'
    BY <1>1, <1>2 DEF Global, Authority, Local
  <1>9. \A s \in Runs \ {r} : Sound(s)'
    BY <1>2, Bystander
  <1> QED  BY <1>5, <1>6, <1>7, <1>8, <1>9 DEF RenewerInvariant, Global

\* A record that only becomes more careful stays true.
LEMMA RecordKept ==
    ASSUME NEW r \in Runs, Local(r), Attempted(r), Confirmed(r), ~OK(r)',
           posts' = posts \/ ev'[r].milestones["issuance"] # "not_attempted",
           \A name \in {"issuance", "installation", "live_tls"} :
               ev'[r].milestones[name] \in {ev[r].milestones[name], "uncertain"},
           \/ ev'[r].milestones["live_tls"] = ev[r].milestones["live_tls"]
           \/ ~InFlight(r, "install")
    PROVE  Attempted(r)' /\ Confirmed(r)'
  <1>1. /\ tx' = tx /\ installed' = installed /\ finalized' = finalized /\ issued' = issued
        /\ \A operation : InFlight(r, operation)' <=> InFlight(r, operation)
    BY LocalWaiting DEF Local, executorVars
  <1>2. Attempted(r)'
    BY <1>1 DEF Attempted
  <1>3. Confirmed(r)'
    BY <1>1 DEF Confirmed
  <1> QED  BY <1>2, <1>3

\* A run that ends holds nothing and waits for nothing.
LEMMA EndKept ==
    ASSUME NEW r \in Runs, pc'[r] \in Ended, conn'[r] = None, lock' # r
    PROVE  Placed(r)' /\ Awaits(r)' /\ Settled(r)' /\ Installing(r)' /\ ~OK(r)'
  <1>1. ~Active(r)' /\ ~OK(r)' /\ pc'[r] # "ready"
    BY DEF Ended, Active, StageOf, OK
  <1>2. Placed(r)'
    BY <1>1 DEF Placed, Ended, Issued
  <1> QED  BY <1>1, <1>2 DEF Awaits, Settled, Installing

-----------------------------------------------------------------------------
(* The ends of a run.                                                      *)

\* What holds of the evidence of a run everywhere.
Recorded(e) ==
    /\ e.change = "none" <=> e.milestones["issuance"] = "not_attempted"
    /\ e.change = "confirmed" <=> e.milestones["issuance"] = "confirmed"
    /\ e.milestones["csr"] # "uncertain"
    /\ e.milestones["activation"] = e.milestones["live_tls"]
    /\ e.milestones["issuance"] # "failed" /\ e.milestones["installation"] # "failed"
    /\ e.milestones["live_tls"] # "failed"

\* The types that a step of a run keeps.
LEMMA RunTypes ==
    ASSUME Typed, NEW r \in Runs, UNCHANGED <<queue, current, executorVars>>,
           before' \in [Runs -> Certs \cup {None}], NEW label \in Points, NEW e \in Evidence(Certs),
           pc' = [pc EXCEPT ![r] = label], ev' = [ev EXCEPT ![r] = e],
           mode' \in [Runs -> MODES], lock' \in {lock, None, r},
           conn' = conn \/ Hangup(r)
    PROVE  Typed'
  BY DEF Typed, Hangup, executorVars

\* A failure is derived from what the run has recorded when it gives up.
LEMMA FailureKept ==
    ASSUME Typed, NEW r \in Runs, Active(r), NEW e \in Evidence(Certs), Recorded(e),
           NEW reason \in {{}, {"lock_busy"}}, ev' = [ev EXCEPT ![r] = failure(e, reason)],
           pc'[r] \in {"exit_1", "exit_75"}
    PROVE  /\ Stated(r)' /\ Derived(r)'
           /\ \A name \in {"issuance", "installation", "live_tls"} :
                  ev'[r].milestones[name] = e.milestones[name]
  <1> DEFINE f == failure(e, reason)
  <1>1. ev'[r] = f
    BY DEF Typed
  <1>2. /\ f.change = e.change
        /\ \A name \in {"issuance", "installation", "live_tls", "activation"} :
               f.milestones[name] = e.milestones[name]
        /\ f.milestones["csr"] \in {e.milestones["csr"], "failed"}
        /\ f.outcome = IF Uncertain(e) THEN "failure_ambiguous"
                       ELSE IF e.change = "confirmed" THEN "failure_partial"
                       ELSE "failure_pre_attempt"
        /\ f.manual_recovery_required <=> e.change # "none" \/ Uncertain(e)
    <2>1. {"issuance", "installation", "live_tls", "activation"}
              \subseteq MILESTONE_NAMES \ {"csr"}
      BY DEF MILESTONE_NAMES
    <2>2. /\ f.change = e.change
          /\ \A name \in MILESTONE_NAMES \ {"csr"} : f.milestones[name] = e.milestones[name]
          /\ f.milestones["csr"] \in {e.milestones["csr"], "failed"}
          /\ f.outcome = IF Uncertain(e) THEN "failure_ambiguous"
                         ELSE IF e.change = "confirmed" THEN "failure_partial"
                         ELSE "failure_pre_attempt"
          /\ f.manual_recovery_required <=> e.change # "none" \/ Uncertain(e)
      BY FailureEvidence, Zenon
    <2> HIDE DEF f
    <2> QED  BY <2>1, <2>2, Zenon
  <1> HIDE DEF f
  <1>3. Uncertain(f) <=> Uncertain(e)
    BY <1>2 DEF Uncertain, MILESTONE_NAMES, Recorded
  <1>4. Stated(r)'
    BY <1>1, <1>2 DEF Stated, Recorded, Unsigned, Issued
  <1>5. Derived(r)'
    <2>1. Uncertain(ev[r])' <=> Uncertain(e)
      BY <1>1, <1>3
    <2> QED  BY <1>1, <1>2, <2>1, SMT DEF Derived
  <1> QED  BY <1>1, <1>2, <1>4, <1>5

\* An exception: the run reports a failure and gives everything back.
LEMMA RaiseKeeps ==
    ASSUME RenewerInvariant, NEW r \in Runs, Active(r), NEW e \in Evidence(Certs),
           Recorded(e), Raise(r, e),
           \A name \in {"issuance", "installation", "live_tls"} :
               e.milestones[name] \in {ev[r].milestones[name], "uncertain"},
           e.milestones["live_tls"] = ev[r].milestones["live_tls"] \/ ~InFlight(r, "install")
    PROVE  RenewerInvariant'
  <1>1. Typed /\ Sound(r)
    BY DEF RenewerInvariant
  <1>2. /\ pc' = [pc EXCEPT ![r] = "exit_1"] /\ ev' = [ev EXCEPT ![r] = failure(e, {})]
        /\ conn' = [conn EXCEPT ![r] = None] /\ lock' = IF lock = r THEN None ELSE lock
        /\ UNCHANGED <<serving, queue, current, executorVars, before, mode, posts, issued,
                       lasting>>
    BY DEF Raise, Exit, Hangup, Keep, authorityVars
  <1>3. pc'[r] = "exit_1" /\ conn'[r] = None /\ lock' # r
    BY <1>1, <1>2, ServiceAssumption DEF Typed
  <1>4. Local(r)
    BY <1>1, <1>2 DEF Local, Typed
  <1>5. Typed'
    <2>1. failure(e, {}) \in Evidence(Certs) /\ "exit_1" \in Points
      BY FailureEvidence DEF Points, Ended
    <2> QED  BY <1>1, <1>2, <2>1, RunTypes DEF Hangup, Typed
  <1>6. Placed(r)' /\ Awaits(r)' /\ Settled(r)' /\ Installing(r)' /\ ~OK(r)'
    BY <1>3, EndKept DEF Ended
  <1>7. /\ Stated(r)' /\ Derived(r)'
        /\ \A name \in {"issuance", "installation", "live_tls"} :
               ev'[r].milestones[name] = e.milestones[name]
    BY <1>1, <1>2, <1>3, FailureKept
  <1>8. Attempted(r)' /\ Confirmed(r)'
    BY <1>1, <1>2, <1>4, <1>6, <1>7, RecordKept DEF Sound
  <1> QED  BY <1>4, <1>5, <1>6, <1>7, <1>8, LocalKeeps DEF Sound

\* Every failure of a run: the executor's, a deadline, a certificate that is due
\* and any other exception.
LEMMA FailuresKeep ==
    ASSUME RenewerInvariant, NEW r \in Runs,
           Refused(r) \/ GivesUp(r) \/ StillDue(r) \/ Fails(r)
    PROVE  RenewerInvariant'
  <1>1. Typed /\ Sound(r) /\ ev[r] \in Evidence(Certs) /\ Recorded(ev[r])
    BY DEF RenewerInvariant, Sound, Stated, Recorded, Typed
  <1>2. Active(r)
    BY Connected DEF Refused, GivesUp, StillDue, Fails, Active, StageOf, CallOf
  <1>3. Raise(r, ev[r])
    BY DEF Refused, GivesUp, StillDue, Fails
  <1> QED  BY <1>1, <1>2, <1>3, RaiseKeeps

\* A run that is killed reports nothing, and what it sent may still happen.
LEMMA KilledKeeps ==
    ASSUME RenewerInvariant, NEW r \in Runs, Killed(r)
    PROVE  RenewerInvariant'
  <1>1. Typed /\ Sound(r) /\ ev[r] \in Evidence(Certs)
    BY DEF RenewerInvariant, Typed
  <1>2. /\ pc' = [pc EXCEPT ![r] = "killed"] /\ ev' = [ev EXCEPT ![r] = ev[r]]
        /\ conn' = [conn EXCEPT ![r] = None] /\ lock' = IF lock = r THEN None ELSE lock
        /\ UNCHANGED <<serving, queue, current, executorVars, before, mode, posts, issued,
                       lasting>>
    BY DEF Killed, Exit, Hangup, authorityVars
  <1>3. pc'[r] = "killed" /\ conn'[r] = None /\ lock' # r /\ ev'[r] = ev[r]
    BY <1>1, <1>2, ServiceAssumption DEF Typed
  <1>4. Local(r)
    BY <1>1, <1>2 DEF Local, Typed
  <1>5. Typed'
    <2>1. "killed" \in Points
      BY DEF Points, Ended
    <2> QED  BY <1>1, <1>2, <2>1, RunTypes DEF Hangup, Typed
  <1>6. Placed(r)' /\ Awaits(r)' /\ Settled(r)' /\ Installing(r)' /\ ~OK(r)'
    BY <1>3, EndKept DEF Ended
  <1>7. Stated(r)' /\ Derived(r)'
    BY <1>1, <1>3 DEF Sound, Stated, Derived, Unsigned, Issued
  <1>8. Attempted(r)' /\ Confirmed(r)'
    BY <1>1, <1>2, <1>3, <1>4, <1>6, RecordKept DEF Sound
  <1> QED  BY <1>4, <1>5, <1>6, <1>7, <1>8, LocalKeeps DEF Sound

-----------------------------------------------------------------------------
(* The steps on which a run goes on.                                       *)

\* A run without a request at the executor reaches a control point.
LEMMA GoesOn ==
    ASSUME RenewerInvariant, NEW r \in Runs, \A q \in Waiting : q.run # r, Local(r),
           NEW label \in DOMAIN StageOf, NEW e \in Evidence(Certs), Goto(r, label, e),
           (conn' = conn /\ conn[r] = None) \/ Hangup(r),
           before' \in [Runs -> Certs \cup {None}], mode' \in [Runs -> MODES]
    PROVE  /\ Typed' /\ Awaits(r)' /\ Derived(r)' /\ ~OK(r)' /\ Active(r)'
           /\ pc'[r] = label /\ conn'[r] = None /\ Reads(e, ev'[r])
  <1> DEFINE f == [e EXCEPT !.stage = StageOf[label]]
  <1>1. Typed /\ label \in Points
    BY DEF RenewerInvariant, Points
  <1>2. f \in Evidence(Certs) /\ Reads(e, f)
    BY StageEvidence
  <1> HIDE DEF f
  <1>3. pc' = [pc EXCEPT ![r] = label] /\ ev' = [ev EXCEPT ![r] = f]
    BY DEF Goto, f
  <1>4. UNCHANGED <<queue, current, executorVars>> /\ lock' \in {lock, None, r}
    BY DEF Local
  <1>5. Typed'
    BY <1>1, <1>2, <1>3, <1>4, RunTypes
  <1>6. pc'[r] = label /\ ev'[r] = f /\ conn'[r] = None
    BY <1>1, <1>3 DEF Typed, Hangup
  <1>7. ~OK(r)' /\ Active(r)' /\ pc'[r] \notin Ended
    BY <1>6 DEF OK, Active, Ended, StageOf
  <1>8. Awaits(r)' /\ Derived(r)'
    BY <1>7, LocalWaiting DEF Awaits, Derived, Ended
  <1> QED  BY <1>2, <1>5, <1>6, <1>7, <1>8

\* main and run_one_shot: a new run has recorded nothing yet.
LEMMA StartKeeps ==
    ASSUME RenewerInvariant, NEW r \in Runs, Start(r)
    PROVE  RenewerInvariant'
  <1>1. Typed /\ Sound(r) /\ pc[r] = "ready"
    BY DEF RenewerInvariant, Start
  <1>2. PICK m \in MODES :
            /\ mode' = [mode EXCEPT ![r] = m]
            /\ Goto(r, CASE m \in LockedModes -> "locking"
                         [] m = "recover" -> "recover"
                         [] OTHER -> "config", NewEvidence)
    BY DEF Start
  <1>3. PICK label : /\ label = CASE m \in LockedModes -> "locking"
                                  [] m = "recover" -> "recover"
                                  [] OTHER -> "config"
                     /\ Goto(r, label, NewEvidence)
    BY <1>2
  <1>4. /\ label \in {"locking", "recover", "config"}
        /\ label = "locking" <=> m \in LockedModes
        /\ label = "recover" <=> m = "recover"
    BY <1>3 DEF LockedModes
  <1>5. UNCHANGED <<serving, queue, current, conn, executorVars, before, lock, posts,
                    issued, lasting>>
    BY DEF Start, serviceVars, executorVars, authorityVars
  <1>6. Local(r) /\ mode'[r] = m /\ mode' \in [Runs -> MODES]
    BY <1>1, <1>2, <1>3, <1>5 DEF Local, Goto, Typed
  <1>7. ~Active(r) /\ lock # r /\ conn[r] = None /\ \A q \in Waiting : q.run # r
    BY <1>1 DEF Active, StageOf, CallOf, Sound, Placed, Awaits
  <1>8. /\ Typed' /\ Awaits(r)' /\ Derived(r)' /\ ~OK(r)' /\ Active(r)'
        /\ pc'[r] = label /\ conn'[r] = None /\ Reads(NewEvidence, ev'[r])
    <2>1. label \in DOMAIN StageOf
      BY <1>4 DEF StageOf
    <2>2. before' \in [Runs -> Certs \cup {None}]
      BY <1>1, <1>5 DEF Typed
    <2> QED  BY <1>3, <1>5, <1>6, <1>7, <2>1, <2>2, NewEvidenceFields, GoesOn
  <1>9. /\ ev'[r].change = "none"
        /\ \A name \in MILESTONE_NAMES : ev'[r].milestones[name] = "not_attempted"
    BY <1>8, NewEvidenceFields DEF Reads
  <1>10. Placed(r)'
    BY <1>4, <1>5, <1>6, <1>7, <1>8 DEF Placed, LockedModes, Issued
  <1>11. Settled(r)' /\ Installing(r)'
    BY <1>5, <1>7 DEF Settled, Installing
  <1>12. Stated(r)'
    BY <1>4, <1>8, <1>9 DEF Stated, MILESTONE_NAMES, Issued, Unsigned
  <1>13. Attempted(r)' /\ Confirmed(r)'
    <2>1. \A name \in {"issuance", "installation", "live_tls"} :
              ev'[r].milestones[name] = ev[r].milestones[name]
      BY <1>1, <1>9 DEF Sound, Stated, MILESTONE_NAMES
    <2> QED  BY <1>1, <1>5, <1>6, <1>8, <2>1, RecordKept DEF Sound
  <1> QED  BY <1>6, <1>8, <1>10, <1>11, <1>12, <1>13, LocalKeeps DEF Sound

\* The lifecycle lock, or the exit of a run that finds it busy.
LEMMA LockKeeps ==
    ASSUME RenewerInvariant, NEW r \in Runs, Lock(r)
    PROVE  RenewerInvariant'
  <1>1. Typed /\ Sound(r) /\ pc[r] = "locking" /\ ev[r] \in Evidence(Certs)
    BY DEF RenewerInvariant, Lock, Typed
  <1>2. UNCHANGED <<serving, queue, current, conn, executorVars, before, mode, posts,
                    issued, lasting>>
    BY DEF Lock, Keep, serviceVars, executorVars, authorityVars
  <1>3. Active(r) /\ lock # r /\ conn[r] = None /\ mode[r] \in LockedModes
    BY <1>1 DEF Active, StageOf, CallOf, Sound, Placed
  <1>4. \A q \in Waiting : q.run # r
    BY <1>3, Calm
  <1>5. CASE lock = None /\ Goto(r, "config", ev[r]) /\ lock' = r
    <2>1. Local(r)
      BY <1>1, <1>2, <1>5 DEF Local, Goto, Typed
    <2>2. /\ Typed' /\ Awaits(r)' /\ Derived(r)' /\ ~OK(r)' /\ Active(r)'
          /\ pc'[r] = "config" /\ conn'[r] = None /\ Reads(ev[r], ev'[r])
      <3>1. "config" \in DOMAIN StageOf
        BY DEF StageOf
      <3>2. before' \in [Runs -> Certs \cup {None}] /\ mode' \in [Runs -> MODES]
        BY <1>1, <1>2 DEF Typed
      <3> QED  BY <1>1, <1>2, <1>3, <1>4, <1>5, <2>1, <3>1, <3>2, GoesOn
    <2>3. Placed(r)'
      BY <1>2, <1>3, <1>5, <2>2 DEF Placed, LockedModes, Issued
    <2>4. Settled(r)' /\ Installing(r)'
      BY <2>2 DEF Settled, Told, Installing
    <2>5. Stated(r)'
      BY <1>1, <1>2, <2>2 DEF Sound, Stated, Reads, Unsigned, Issued
    <2>6. Attempted(r)' /\ Confirmed(r)'
      BY <1>1, <1>2, <2>1, <2>2, RecordKept DEF Sound, Reads
    <2> QED  BY <2>1, <2>2, <2>3, <2>4, <2>5, <2>6, LocalKeeps DEF Sound
  <1>6. CASE lock # None /\ Exit(r, "exit_75", failure(ev[r], {"lock_busy"}))
    <2>1. /\ pc' = [pc EXCEPT ![r] = "exit_75"] /\ lock' = lock
          /\ ev' = [ev EXCEPT ![r] = failure(ev[r], {"lock_busy"})]
      BY <1>3, <1>6 DEF Exit
    <2>2. pc'[r] = "exit_75" /\ conn'[r] = None /\ lock' # r
      BY <1>1, <1>2, <1>3, <2>1 DEF Typed
    <2>3. Local(r)
      BY <1>1, <1>2, <2>1 DEF Local, Typed
    <2>4. Typed'
      <3>1. failure(ev[r], {"lock_busy"}) \in Evidence(Certs) /\ "exit_75" \in Points
        BY <1>1, FailureEvidence DEF Points, Ended
      <3> QED  BY <1>1, <1>2, <2>1, <3>1, RunTypes DEF Typed
    <2>5. Placed(r)' /\ Awaits(r)' /\ Settled(r)' /\ Installing(r)' /\ ~OK(r)'
      BY <2>2, EndKept DEF Ended
    <2>6. Recorded(ev[r])
      BY <1>1 DEF Sound, Stated, Recorded
    <2>7. /\ Stated(r)' /\ Derived(r)'
          /\ \A name \in {"issuance", "installation", "live_tls"} :
                 ev'[r].milestones[name] = ev[r].milestones[name]
      BY <1>1, <1>3, <2>1, <2>2, <2>6, FailureKept
    <2>8. Attempted(r)' /\ Confirmed(r)'
      BY <1>1, <1>2, <2>3, <2>5, <2>7, RecordKept DEF Sound
    <2> QED  BY <2>3, <2>4, <2>5, <2>7, <2>8, LocalKeeps DEF Sound
  <1> QED  BY <1>5, <1>6 DEF Lock

\* A run between two calls has no request at the executor ...
LEMMA AtRest ==
    ASSUME RenewerInvariant, NEW r \in Runs, Active(r), pc[r] \notin DOMAIN CallOf
    PROVE  /\ Typed /\ Sound(r) /\ ev[r] \in Evidence(Certs)
           /\ conn[r] = None /\ \A q \in Waiting : q.run # r
  <1>1. Typed /\ Sound(r) /\ ev[r] \in Evidence(Certs) /\ conn[r] = None
    BY DEF RenewerInvariant, Typed, Sound, Placed
  <1> QED  BY <1>1, Calm

\* ... and neither has one with an answer.
LEMMA AtAnswer ==
    ASSUME RenewerInvariant, NEW r \in Runs, NEW label, Received(r, label)
    PROVE  /\ Typed /\ Sound(r) /\ ev[r] \in Evidence(Certs)
           /\ OK(r) /\ Active(r) /\ pc[r] = label /\ Hangup(r)
           /\ \A q \in Waiting : q.run # r
           /\ UNCHANGED <<queue, current, executorVars, posts, issued, lasting, mode>>
  <1>1. /\ pc[r] = label /\ conn[r] # None /\ conn[r].status = "ok" /\ Hangup(r)
        /\ UNCHANGED <<queue, current, executorVars, posts, issued, lasting, mode>>
    BY DEF Received, Answered, Keep, authorityVars
  <1>2. OK(r) /\ Active(r)
    BY <1>1, Connected DEF OK
  <1>3. \A q \in Waiting : q.run # r
    BY <1>1, <1>2, Calm
  <1>4. Typed /\ Sound(r) /\ ev[r] \in Evidence(Certs)
    BY DEF RenewerInvariant, Typed
  <1> QED  BY <1>1, <1>2, <1>3, <1>4

\* A step of such a run that leaves the lock and the mode alone.
LEMMA Advances ==
    ASSUME RenewerInvariant, NEW r \in Runs, \A q \in Waiting : q.run # r,
           NEW label \in DOMAIN StageOf, NEW e \in Evidence(Certs), Goto(r, label, e),
           (conn' = conn /\ conn[r] = None) \/ Hangup(r),
           NEW b \in Certs \cup {None}, before' = [before EXCEPT ![r] = b],
           UNCHANGED <<queue, current, executorVars, issued, lasting, mode, lock>>,
           posts' = posts \/ (posts' = posts \cup {r} /\ r \notin issued)
    PROVE  /\ Local(r)
           /\ Typed' /\ Awaits(r)' /\ Derived(r)' /\ ~OK(r)' /\ Active(r)'
           /\ pc'[r] = label /\ conn'[r] = None /\ Reads(e, ev'[r]) /\ before'[r] = b
  <1>1. Typed
    BY DEF RenewerInvariant
  <1>2. Local(r)
    BY <1>1 DEF Local, Goto, Hangup, Typed
  <1>3. before' \in [Runs -> Certs \cup {None}] /\ mode' \in [Runs -> MODES] /\ before'[r] = b
    BY <1>1 DEF Typed
  <1> QED  BY <1>2, <1>3, GoesOn

\* load_production_config
LEMMA ConfigureKeeps ==
    ASSUME RenewerInvariant, NEW r \in Runs, Configure(r)
    PROVE  RenewerInvariant'
  <1>1. pc[r] = "config" /\ Active(r) /\ pc[r] \notin DOMAIN CallOf
    BY DEF Configure, Active, StageOf, CallOf
  <1>2. /\ Typed /\ Sound(r) /\ ev[r] \in Evidence(Certs)
        /\ conn[r] = None /\ \A q \in Waiting : q.run # r
    BY <1>1, AtRest
  <1>3. PICK label : /\ label = CASE mode[r] \in {"inspect", "renew"} -> "inspect"
                                  [] mode[r] = "csr" -> "csr"
                                  [] OTHER -> "client"
                     /\ Goto(r, label, ev[r])
    BY DEF Configure
  <1>4. UNCHANGED <<queue, current, conn, executorVars, posts, issued, lasting, mode, lock,
                    before>>
    BY DEF Configure, Keep, serviceVars, executorVars, authorityVars
  <1>5. /\ label \in {"inspect", "csr", "client"}
        /\ label = "inspect" <=> mode[r] \in {"inspect", "renew"}
        /\ label = "csr" <=> mode[r] = "csr"
        /\ Goto(r, label, ev[r])
    BY <1>3
  <1>6. /\ Local(r)
        /\ Typed' /\ Awaits(r)' /\ Derived(r)' /\ ~OK(r)' /\ Active(r)'
        /\ pc'[r] = label /\ conn'[r] = None /\ Reads(ev[r], ev'[r])
    <2>1. label \in DOMAIN StageOf
      BY <1>5 DEF StageOf
    <2>2. before[r] \in Certs \cup {None} /\ before' = [before EXCEPT ![r] = before[r]]
      BY <1>2, <1>4 DEF Typed
    <2> QED  BY <1>2, <1>4, <1>5, <2>1, <2>2, Advances
  <1>7. mode[r] \in MODES /\ mode'[r] = mode[r] /\ lock' = lock
    BY <1>2, <1>4 DEF Typed
  <1>8. Placed(r)'
    BY <1>1, <1>2, <1>5, <1>6, <1>7 DEF Sound, Placed, LockedModes, MODES, Issued
  <1>9. Settled(r)' /\ Installing(r)'
    BY <1>2, <1>5, <1>6, <1>7, <1>8 DEF Settled, Told, Installing, Placed, LockedModes
  <1>10. Stated(r)'
    BY <1>1, <1>2, <1>5, <1>6, <1>7 DEF Sound, Stated, Reads, Unsigned, Issued
  <1>11. Attempted(r)' /\ Confirmed(r)'
    BY <1>2, <1>4, <1>6, RecordKept DEF Sound, Reads
  <1> QED  BY <1>6, <1>8, <1>9, <1>10, <1>11, LocalKeeps DEF Sound

\* Steps within a run that change neither the evidence nor the connection: a
\* client for OPNsense, the preflight.
LEMMA PassageKeeps ==
    ASSUME RenewerInvariant, NEW r \in Runs, BuildClient(r) \/ Preflight(r)
    PROVE  RenewerInvariant'
  <1>1. PICK label \in {"inspect_before", "sign"} :
            /\ Goto(r, label, ev[r])
            /\ label = "inspect_before" => pc[r] = "client"
            /\ label = "sign" => pc[r] = "preflight"
    BY DEF BuildClient, Preflight
  <1>2. Active(r) /\ pc[r] \notin DOMAIN CallOf /\ pc[r] \in {"client", "preflight"}
    BY <1>1 DEF Active, StageOf, CallOf
  <1>3. /\ Typed /\ Sound(r) /\ ev[r] \in Evidence(Certs)
        /\ conn[r] = None /\ \A q \in Waiting : q.run # r
    BY <1>2, AtRest
  <1>4. UNCHANGED <<queue, current, conn, executorVars, posts, issued, lasting, mode, lock,
                    before>>
    BY DEF BuildClient, Preflight, Keep, serviceVars, executorVars, authorityVars
  <1>5. /\ Local(r)
        /\ Typed' /\ Awaits(r)' /\ Derived(r)' /\ ~OK(r)' /\ Active(r)'
        /\ pc'[r] = label /\ conn'[r] = None /\ Reads(ev[r], ev'[r])
    <2>1. label \in DOMAIN StageOf
      BY DEF StageOf
    <2>2. before[r] \in Certs \cup {None} /\ before' = [before EXCEPT ![r] = before[r]]
      BY <1>3, <1>4 DEF Typed
    <2> QED  BY <1>1, <1>3, <1>4, <2>1, <2>2, Advances
  <1>6. /\ mode'[r] = mode[r] /\ lock' = lock /\ keystore' = keystore /\ before'[r] = before[r]
        /\ (Quiet' <=> Quiet) /\ (\A c : due(c)' <=> due(c))
    BY <1>4, <1>5, LocalWaiting DEF executorVars
  <1>7. Placed(r)'
    BY <1>1, <1>2, <1>3, <1>5, <1>6 DEF Sound, Placed, LockedModes, Issued
  <1>8. Settled(r)'
    BY <1>1, <1>2, <1>3, <1>5, <1>6 DEF Sound, Settled, Told
  <1>9. Installing(r)'
    BY <1>5 DEF Installing
  <1>10. Stated(r)'
    BY <1>2, <1>3, <1>5, <1>6 DEF Sound, Stated, Reads, Unsigned, Issued
  <1>11. Attempted(r)' /\ Confirmed(r)'
    BY <1>3, <1>4, <1>5, RecordKept DEF Sound, Reads
  <1> QED  BY <1>5, <1>7, <1>8, <1>9, <1>10, <1>11, LocalKeeps DEF Sound

\* sign_csr: the attempt is on record before the request leaves.
LEMMA SignKeeps ==
    ASSUME RenewerInvariant, NEW r \in Runs, sign_csr(r)
    PROVE  RenewerInvariant'
  <1> DEFINE e == signing_dispatch(ev[r])
  <1>1. pc[r] = "sign" /\ Active(r) /\ pc[r] \notin DOMAIN CallOf
    BY DEF sign_csr, Active, StageOf, CallOf
  <1>2. /\ Typed /\ Sound(r) /\ ev[r] \in Evidence(Certs)
        /\ conn[r] = None /\ \A q \in Waiting : q.run # r
    BY <1>1, AtRest
  <1>3. /\ Goto(r, "posted", e) /\ posts' = posts \cup {r}
        /\ UNCHANGED <<queue, current, conn, executorVars, issued, lasting, mode, lock,
                       before>>
    BY DEF sign_csr, serviceVars, executorVars
  <1>4. /\ e \in Evidence(Certs) /\ e.change = "possible"
        /\ e.milestones = [ev[r].milestones EXCEPT !["issuance"] = "uncertain"]
    BY <1>2, SigningEvidence
  <1> HIDE DEF e
  <1>5. /\ e.milestones["issuance"] = "uncertain"
        /\ \A name \in {"csr", "installation", "activation", "live_tls"} :
               e.milestones[name] = ev[r].milestones[name]
    BY <1>2, <1>4, EvidenceFields DEF MILESTONE_NAMES
  <1>6. r \notin issued
    BY <1>1, <1>2 DEF Sound, Attempted, Stated, Unsigned
  <1>7. /\ Local(r)
        /\ Typed' /\ Awaits(r)' /\ Derived(r)' /\ ~OK(r)' /\ Active(r)'
        /\ pc'[r] = "posted" /\ conn'[r] = None /\ Reads(e, ev'[r])
    <2>1. "posted" \in DOMAIN StageOf
      BY DEF StageOf
    <2>2. before[r] \in Certs \cup {None} /\ before' = [before EXCEPT ![r] = before[r]]
      BY <1>2, <1>3 DEF Typed
    <2>3. e \in Evidence(Certs)
      BY <1>4
    <2>4. /\ conn' = conn /\ posts' = posts \cup {r} /\ Goto(r, "posted", e)
          /\ UNCHANGED <<queue, current, executorVars, issued, lasting, mode, lock>>
      BY <1>3
    <2> QED  BY <1>2, <1>6, <2>1, <2>2, <2>3, <2>4, Advances
  <1>8. /\ mode'[r] = mode[r] /\ lock' = lock /\ keystore' = keystore /\ before'[r] = before[r]
        /\ (Quiet' <=> Quiet) /\ (\A c : due(c)' <=> due(c))
    BY <1>3, <1>7, LocalWaiting DEF executorVars
  <1>9. Placed(r)'
    BY <1>1, <1>2, <1>7, <1>8 DEF Sound, Placed, LockedModes, Issued
  <1>10. Settled(r)'
    BY <1>1, <1>2, <1>7, <1>8 DEF Sound, Settled, Told
  <1>11. Installing(r)'
    BY <1>7 DEF Installing
  <1>12. Stated(r)'
    BY <1>1, <1>2, <1>4, <1>5, <1>7, SMT DEF Sound, Stated, Reads, Unsigned, Issued
  <1>13. Attempted(r)' /\ Confirmed(r)'
    <2>1. /\ \A name \in {"issuance", "installation", "live_tls"} :
                 ev'[r].milestones[name] \in {ev[r].milestones[name], "uncertain"}
          /\ ev'[r].milestones["live_tls"] = ev[r].milestones["live_tls"]
          /\ ev'[r].milestones["issuance"] # "not_attempted"
      BY <1>5, <1>7 DEF Reads
    <2> QED  BY <1>2, <1>7, <2>1, RecordKept DEF Sound
  <1> QED  BY <1>7, <1>9, <1>10, <1>11, <1>12, <1>13, LocalKeeps DEF Sound

\* The saved response: the certificate is there.
LEMMA SignedKeeps ==
    ASSUME RenewerInvariant, NEW r \in Runs, Signed(r)
    PROVE  RenewerInvariant'
  <1> DEFINE e == confirm(ev[r], "issuance")
  <1>1. pc[r] = "posted" /\ Active(r) /\ pc[r] \notin DOMAIN CallOf /\ r \in issued
    BY DEF Signed, Active, StageOf, CallOf
  <1>2. /\ Typed /\ Sound(r) /\ ev[r] \in Evidence(Certs)
        /\ conn[r] = None /\ \A q \in Waiting : q.run # r
    BY <1>1, AtRest
  <1>3. /\ Goto(r, "retrieve", e)
        /\ UNCHANGED <<queue, current, conn, executorVars, posts, issued, lasting, mode,
                       lock, before>>
    BY DEF Signed, Keep, serviceVars, executorVars, authorityVars
  <1>4. /\ e \in Evidence(Certs) /\ e.change = "confirmed"
        /\ e.milestones = [ev[r].milestones EXCEPT !["issuance"] = "confirmed"]
    BY <1>2, ConfirmEvidence DEF MILESTONE_NAMES
  <1> HIDE DEF e
  <1>5. /\ e.milestones["issuance"] = "confirmed"
        /\ \A name \in {"csr", "installation", "activation", "live_tls"} :
               e.milestones[name] = ev[r].milestones[name]
    BY <1>2, <1>4, EvidenceFields DEF MILESTONE_NAMES
  <1>6. /\ Local(r)
        /\ Typed' /\ Awaits(r)' /\ Derived(r)' /\ ~OK(r)' /\ Active(r)'
        /\ pc'[r] = "retrieve" /\ conn'[r] = None /\ Reads(e, ev'[r])
    <2>1. "retrieve" \in DOMAIN StageOf
      BY DEF StageOf
    <2>2. before[r] \in Certs \cup {None} /\ before' = [before EXCEPT ![r] = before[r]]
      BY <1>2, <1>3 DEF Typed
    <2>3. e \in Evidence(Certs)
      BY <1>4
    <2> QED  BY <1>2, <1>3, <2>1, <2>2, <2>3, Advances
  <1>7. /\ mode'[r] = mode[r] /\ lock' = lock /\ keystore' = keystore /\ before'[r] = before[r]
        /\ tx' = tx /\ installed' = installed /\ finalized' = finalized /\ issued' = issued
        /\ (Quiet' <=> Quiet) /\ (\A c : due(c)' <=> due(c))
        /\ \A operation : InFlight(r, operation)' <=> InFlight(r, operation)
    BY <1>3, <1>6, LocalWaiting DEF executorVars
  <1>8. Placed(r)'
    BY <1>1, <1>2, <1>6, <1>7 DEF Sound, Placed, LockedModes, Issued
  <1>9. Settled(r)'
    BY <1>1, <1>2, <1>6, <1>7 DEF Sound, Settled, Told
  <1>10. Installing(r)'
    BY <1>6 DEF Installing
  <1>11. Stated(r)'
    BY <1>1, <1>2, <1>4, <1>5, <1>6, SMT DEF Sound, Stated, Reads, Unsigned, Issued
  <1>12. Attempted(r)'
    BY <1>2, <1>5, <1>6, <1>7 DEF Sound, Attempted, Reads
  <1>13. Confirmed(r)'
    BY <1>1, <1>2, <1>5, <1>6, <1>7 DEF Sound, Confirmed, Reads
  <1> QED  BY <1>6, <1>8, <1>9, <1>10, <1>11, <1>12, <1>13, LocalKeeps DEF Sound

\* The fresh inspection still shows what the request says.
LEMMA StillAsBeforeKeeps ==
    ASSUME RenewerInvariant, NEW r \in Runs, StillAsBefore(r)
    PROVE  RenewerInvariant'
  <1>1. /\ Received(r, "install_inspect") /\ Goto(r, "install", ev[r])
        /\ UNCHANGED <<before, lock>>
    BY DEF StillAsBefore
  <1>2. /\ Typed /\ Sound(r) /\ ev[r] \in Evidence(Certs)
        /\ OK(r) /\ Active(r) /\ pc[r] = "install_inspect" /\ Hangup(r)
        /\ \A q \in Waiting : q.run # r
        /\ UNCHANGED <<queue, current, executorVars, posts, issued, lasting, mode>>
    BY <1>1, AtAnswer
  <1>3. /\ Local(r)
        /\ Typed' /\ Awaits(r)' /\ Derived(r)' /\ ~OK(r)' /\ Active(r)'
        /\ pc'[r] = "install" /\ conn'[r] = None /\ Reads(ev[r], ev'[r])
    <2>1. "install" \in DOMAIN StageOf
      BY DEF StageOf
    <2>2. before[r] \in Certs \cup {None} /\ before' = [before EXCEPT ![r] = before[r]]
      BY <1>1, <1>2 DEF Typed
    <2> QED  BY <1>1, <1>2, <2>1, <2>2, Advances
  <1>4. /\ mode'[r] = mode[r] /\ lock' = lock /\ keystore' = keystore /\ before'[r] = before[r]
        /\ issued' = issued /\ (Quiet' <=> Quiet) /\ (\A c : due(c)' <=> due(c))
    BY <1>1, <1>2, <1>3, LocalWaiting DEF executorVars
  <1>5. Placed(r)'
    BY <1>2, <1>3, <1>4 DEF Sound, Placed, LockedModes, Issued
  <1>6. Settled(r)'
    BY <1>2, <1>3, <1>4 DEF Sound, Settled, Told
  <1>7. Installing(r)'
    BY <1>3 DEF Installing
  <1>8. Stated(r)'
    BY <1>2, <1>3, <1>4 DEF Sound, Stated, Reads, Unsigned, Issued
  <1>9. Attempted(r)' /\ Confirmed(r)'
    BY <1>2, <1>3, RecordKept DEF Sound, Reads
  <1> QED  BY <1>3, <1>5, <1>6, <1>7, <1>8, <1>9, LocalKeeps DEF Sound

\* The executor's answer that the certificate is installed.
LEMMA InstalledKeeps ==
    ASSUME RenewerInvariant, NEW r \in Runs, Installed(r)
    PROVE  RenewerInvariant'
  <1> DEFINE e == confirm(ev[r], "installation")
  <1>1. Received(r, "install") /\ Goto(r, "verify", e) /\ UNCHANGED <<before, lock>>
    BY DEF Installed
  <1>2. /\ Typed /\ Sound(r) /\ ev[r] \in Evidence(Certs)
        /\ OK(r) /\ Active(r) /\ pc[r] = "install" /\ Hangup(r)
        /\ \A q \in Waiting : q.run # r
        /\ UNCHANGED <<queue, current, executorVars, posts, issued, lasting, mode>>
    BY <1>1, AtAnswer
  <1>3. /\ e \in Evidence(Certs) /\ e.change = ev[r].change
        /\ e.certificate = ev[r].certificate
        /\ e.milestones = [ev[r].milestones EXCEPT !["installation"] = "confirmed"]
    BY <1>2, ConfirmEvidence DEF MILESTONE_NAMES
  <1> HIDE DEF e
  <1>4. /\ e.change = ev[r].change /\ e.certificate = ev[r].certificate
        /\ e.milestones["installation"] = "confirmed"
        /\ \A name \in {"csr", "issuance", "activation", "live_tls"} :
               e.milestones[name] = ev[r].milestones[name]
    BY <1>2, <1>3, EvidenceFields DEF MILESTONE_NAMES
  <1>5. /\ Local(r)
        /\ Typed' /\ Awaits(r)' /\ Derived(r)' /\ ~OK(r)' /\ Active(r)'
        /\ pc'[r] = "verify" /\ conn'[r] = None /\ Reads(e, ev'[r])
    <2>1. "verify" \in DOMAIN StageOf /\ e \in Evidence(Certs)
      BY <1>3 DEF StageOf
    <2>2. before[r] \in Certs \cup {None} /\ before' = [before EXCEPT ![r] = before[r]]
      BY <1>1, <1>2 DEF Typed
    <2> QED  BY <1>1, <1>2, <2>1, <2>2, Advances
  <1>6. /\ mode'[r] = mode[r] /\ lock' = lock /\ tx' = tx /\ issued' = issued
        /\ installed' = installed /\ finalized' = finalized /\ posts' = posts
        /\ Waiting' = Waiting /\ (\A c : due(c)' <=> due(c))
        /\ \A operation : InFlight(r, operation)' <=> InFlight(r, operation)
    BY <1>1, <1>2, <1>5, LocalWaiting DEF executorVars
  <1>7. \A operation : ~InFlight(r, operation)
    BY <1>2 DEF InFlight
  <1>8. Placed(r)'
    BY <1>2, <1>5, <1>6 DEF Sound, Placed, LockedModes, Issued
  <1>9. Settled(r)'
    BY <1>5 DEF Settled, Told
  <1>10. Installing(r)'
    BY <1>2, <1>6 DEF Sound, Installing, OK
  <1>11. Stated(r)'
    BY <1>2, <1>4, <1>5, <1>6 DEF Sound, Stated, Reads, Unsigned, Issued
  <1>12. Attempted(r)'
    BY <1>2, <1>4, <1>5, <1>6 DEF Sound, Attempted, Reads
  <1>13. Confirmed(r)'
    BY <1>2, <1>4, <1>5, <1>6, <1>7 DEF Sound, Confirmed, Reads
  <1> QED  BY <1>5, <1>8, <1>9, <1>10, <1>11, <1>12, <1>13, LocalKeeps DEF Sound

\* run_to_installation's own inspection: the state goes into the request.
LEMMA InspectedBeforeKeeps ==
    ASSUME RenewerInvariant, NEW r \in Runs, InspectedBefore(r)
    PROVE  RenewerInvariant'
  <1>1. /\ Received(r, "inspect_before") /\ Goto(r, "csr", ev[r]) /\ lock' = lock
        /\ before' = [before EXCEPT ![r] = conn[r].state]
    BY DEF InspectedBefore
  <1>2. /\ Typed /\ Sound(r) /\ ev[r] \in Evidence(Certs)
        /\ OK(r) /\ Active(r) /\ pc[r] = "inspect_before" /\ Hangup(r)
        /\ \A q \in Waiting : q.run # r
        /\ UNCHANGED <<queue, current, executorVars, posts, issued, lasting, mode>>
    BY <1>1, AtAnswer
  <1>3. conn[r].state \in Certs
    BY <1>2 DEF Sound, Placed
  <1>4. /\ Local(r)
        /\ Typed' /\ Awaits(r)' /\ Derived(r)' /\ ~OK(r)' /\ Active(r)'
        /\ pc'[r] = "csr" /\ conn'[r] = None /\ Reads(ev[r], ev'[r])
        /\ before'[r] = conn[r].state
    <2>1. "csr" \in DOMAIN StageOf /\ conn[r].state \in Certs \cup {None}
      BY <1>3 DEF StageOf
    <2> QED  BY <1>1, <1>2, <2>1, Advances
  <1>5. /\ mode'[r] = mode[r] /\ lock' = lock /\ keystore' = keystore /\ issued' = issued
        /\ (Quiet' <=> Quiet) /\ (\A c : due(c)' <=> due(c))
    BY <1>1, <1>2, <1>4, LocalWaiting DEF executorVars
  <1>6. Placed(r)'
    BY <1>2, <1>4, <1>5 DEF Sound, Placed, LockedModes, Issued
  <1>7. Settled(r)'
    BY <1>2, <1>4, <1>5 DEF Sound, Settled, Told
  <1>8. Installing(r)'
    BY <1>4 DEF Installing
  <1>9. Stated(r)'
    BY <1>2, <1>4, <1>5 DEF Sound, Stated, Reads, Unsigned, Issued
  <1>10. Attempted(r)' /\ Confirmed(r)'
    BY <1>2, <1>4, RecordKept DEF Sound, Reads
  <1> QED  BY <1>4, <1>6, <1>7, <1>8, <1>9, <1>10, LocalKeeps DEF Sound

-----------------------------------------------------------------------------
(* The steps on which a run succeeds.                                      *)

\* What success may be reported on, for run r in its mode.
Successful(r, e) ==
    \/ mode[r] = "recover"
    \/ /\ e.outcome \in {"success_no_change", "attention_due", "success_prepared"}
       /\ e.milestones["issuance"] # "uncertain"
       /\ e.milestones["installation"] = "not_attempted"
       /\ e.milestones["live_tls"] = "not_attempted"
       /\ e.outcome = "success_prepared" \/ e.milestones["issuance"] = "not_attempted"
    \/ /\ e.outcome = "success_changed" /\ e.certificate = {r}
       /\ e.milestones["issuance"] = "confirmed"
       /\ e.milestones["installation"] = "confirmed"
       /\ e.milestones["live_tls"] = "confirmed"
       /\ mode[r] = "renew" => ~due(r)

\* A run that reports success gives everything back.
LEMMA Succeeds ==
    ASSUME RenewerInvariant, NEW r \in Runs, NEW e \in Evidence(Certs),
           Exit(r, "exit_0", e), Recorded(e), Successful(r, e),
           (conn' = conn /\ conn[r] = None) \/ Hangup(r),
           UNCHANGED <<queue, current, executorVars, posts, issued, lasting, mode, before>>
    PROVE  /\ Local(r) /\ Typed' /\ ev'[r] = e /\ ~OK(r)'
           /\ Placed(r)' /\ Awaits(r)' /\ Settled(r)' /\ Installing(r)' /\ Stated(r)' /\ Derived(r)'
  <1>1. Typed
    BY DEF RenewerInvariant
  <1>2. /\ pc' = [pc EXCEPT ![r] = "exit_0"] /\ ev' = [ev EXCEPT ![r] = e]
        /\ lock' = IF lock = r THEN None ELSE lock
    BY DEF Exit
  <1>3. pc'[r] = "exit_0" /\ ev'[r] = e /\ conn'[r] = None /\ lock' # r /\ mode'[r] = mode[r]
    BY <1>1, <1>2, ServiceAssumption DEF Typed, Hangup
  <1>4. Local(r)
    BY <1>1, <1>2 DEF Local, Typed, Hangup
  <1>5. Typed'
    <2>1. "exit_0" \in Points /\ lock' \in {lock, None, r}
      BY <1>2 DEF Points, Ended
    <2>2. before' \in [Runs -> Certs \cup {None}] /\ mode' \in [Runs -> MODES]
      BY <1>1 DEF Typed
    <2> QED  BY <1>1, <1>2, <2>1, <2>2, RunTypes
  <1>6. Placed(r)' /\ Awaits(r)' /\ Settled(r)' /\ Installing(r)' /\ ~OK(r)'
    BY <1>3, EndKept DEF Ended
  <1>7. Stated(r)'
    BY <1>3 DEF Stated, Recorded, Unsigned, Issued
  <1>8. Derived(r)'
    <2>1. due(r)' <=> due(r)
      BY DEF due
    <2> QED  BY <1>3, <2>1 DEF Derived, Successful
  <1> QED  BY <1>3, <1>4, <1>5, <1>6, <1>7, <1>8

\* A success that changes none of the milestones which other parties answer for.
LEMMA SuccessKeeps ==
    ASSUME RenewerInvariant, NEW r \in Runs, NEW e \in Evidence(Certs),
           Exit(r, "exit_0", e), Recorded(e), Successful(r, e),
           (conn' = conn /\ conn[r] = None) \/ Hangup(r),
           UNCHANGED <<queue, current, executorVars, posts, issued, lasting, mode, before>>,
           \A name \in {"issuance", "installation", "live_tls"} :
               e.milestones[name] = ev[r].milestones[name]
    PROVE  RenewerInvariant'
  <1>1. /\ Local(r) /\ Typed' /\ ev'[r] = e /\ ~OK(r)'
        /\ Placed(r)' /\ Awaits(r)' /\ Settled(r)' /\ Installing(r)' /\ Stated(r)' /\ Derived(r)'
    BY Succeeds
  <1>2. Attempted(r) /\ Confirmed(r)
    BY DEF RenewerInvariant, Sound
  <1>3. Attempted(r)' /\ Confirmed(r)'
    BY <1>1, <1>2, RecordKept
  <1> QED  BY <1>1, <1>3, LocalKeeps DEF Sound

\* The first inspection, and the decision of a renewal.
LEMMA InspectedKeeps ==
    ASSUME RenewerInvariant, NEW r \in Runs, Inspected(r)
    PROVE  RenewerInvariant'
  <1> DEFINE c == conn[r].state
             e == [ev[r] EXCEPT !.certificate = {c}, !.stage = "decision"]
  <1>1. Received(r, "inspect") /\ before' = before
    BY DEF Inspected
  <1>2. /\ Typed /\ Sound(r) /\ ev[r] \in Evidence(Certs)
        /\ OK(r) /\ Active(r) /\ pc[r] = "inspect" /\ Hangup(r)
        /\ \A q \in Waiting : q.run # r
        /\ UNCHANGED <<queue, current, executorVars, posts, issued, lasting, mode>>
    BY <1>1, AtAnswer
  <1>3. c \in Certs
    BY <1>2 DEF Sound, Placed
  <1>4. /\ e \in Evidence(Certs) /\ e.change = ev[r].change
        /\ e.milestones = ev[r].milestones
    <2>1. "decision" \in Stages
      BY DEF Stages, _FAILURE_REASONS
    <2> QED  BY <1>2, <1>3, <2>1 DEF Evidence
  <1>5. /\ Recorded(e)
        /\ \A name \in {"issuance", "installation", "live_tls"} :
               ev[r].milestones[name] = "not_attempted"
    BY <1>2, <1>4 DEF Sound, Stated, Recorded, Unsigned
  <1>6. ASSUME NEW result \in {"attention_due", "success_no_change"}, NEW d \in SUBSET BOOLEAN,
               Exit(r, "exit_0", success(e, result, d))
        PROVE  RenewerInvariant'
    <2> HIDE DEF e
    <2> DEFINE f == success(e, result, d)
    <2>1. result \in Outcomes
      BY DEF Outcomes, _SEVERITY
    <2>2. /\ f \in Evidence(Certs) /\ f.outcome = result
          /\ f.milestones = e.milestones /\ f.change = e.change
      BY <1>4, <2>1, SuccessEvidence
    <2> HIDE DEF f
    <2>3. Recorded(f) /\ Successful(r, f)
      BY <1>4, <1>5, <2>2 DEF Recorded, Successful
    <2>4. \A name \in {"issuance", "installation", "live_tls"} :
              f.milestones[name] = ev[r].milestones[name]
      BY <1>4, <2>2
    <2>5. Exit(r, "exit_0", f)
      BY <1>6 DEF f
    <2> QED  BY <1>1, <1>2, <2>2, <2>3, <2>4, <2>5, SuccessKeeps
  <1>7. ASSUME mode[r] = "renew", due(c), UNCHANGED lock,
               Goto(r, "client", [e EXCEPT !.certificate = {}, !.renewal_due = {TRUE}])
        PROVE  RenewerInvariant'
    <2> DEFINE f == [e EXCEPT !.certificate = {}, !.renewal_due = {TRUE}]
    <2>1. f \in Evidence(Certs) /\ f.change = ev[r].change /\ f.milestones = ev[r].milestones
      <3> HIDE DEF e
      <3>1. {TRUE} \in SUBSET BOOLEAN
        OBVIOUS
      <3> QED  BY <1>4, <3>1 DEF Evidence
    <2>2. Goto(r, "client", f)
      BY <1>7
    <2> HIDE DEF e, f
    <2>3. /\ Local(r)
          /\ Typed' /\ Awaits(r)' /\ Derived(r)' /\ ~OK(r)' /\ Active(r)'
          /\ pc'[r] = "client" /\ conn'[r] = None /\ Reads(f, ev'[r])
      <3>1. "client" \in DOMAIN StageOf
        BY DEF StageOf
      <3>2. before[r] \in Certs \cup {None} /\ before' = [before EXCEPT ![r] = before[r]]
        BY <1>1, <1>2 DEF Typed
      <3> QED  BY <1>2, <1>7, <2>1, <2>2, <3>1, <3>2, Advances
    <2>4. /\ mode'[r] = mode[r] /\ lock' = lock /\ keystore' = keystore
          /\ (Quiet' <=> Quiet) /\ (\A k : due(k)' <=> due(k))
      BY <1>2, <1>7, <2>3, LocalWaiting DEF executorVars
    <2>5. Placed(r)'
      BY <1>2, <1>7, <2>3, <2>4 DEF Sound, Placed, LockedModes, Issued
    <2>6. Settled(r)'
      BY <1>2, <1>7, <2>3, <2>4 DEF Sound, Settled, Told, c
    <2>7. Installing(r)'
      BY <2>3 DEF Installing
    <2>8. Stated(r)'
      BY <1>2, <2>1, <2>3 DEF Sound, Stated, Reads, Unsigned, Issued
    <2>9. Attempted(r)' /\ Confirmed(r)'
      BY <1>2, <2>1, <2>3, RecordKept DEF Sound, Reads
    <2> QED  BY <2>3, <2>5, <2>6, <2>7, <2>8, <2>9, LocalKeeps DEF Sound
  <1>8. \/ \E result \in {"attention_due", "success_no_change"}, d \in SUBSET BOOLEAN :
               Exit(r, "exit_0", success(e, result, d))
        \/ /\ mode[r] = "renew" /\ due(c) /\ UNCHANGED lock
           /\ Goto(r, "client", [e EXCEPT !.certificate = {}, !.renewal_due = {TRUE}])
    <2>1. {due(c)} \in SUBSET BOOLEAN /\ {FALSE} \in SUBSET BOOLEAN
      BY DEF due
    <2>2. (IF due(c) THEN "attention_due" ELSE "success_no_change")
              \in {"attention_due", "success_no_change"}
      OBVIOUS
    <2> QED  BY <2>1, <2>2 DEF Inspected
  <1> QED  BY <1>6, <1>7, <1>8

\* The CSR is there and valid: the end of a run for it, or on to OPNsense.
LEMMA GotCsrKeeps ==
    ASSUME RenewerInvariant, NEW r \in Runs, GotCsr(r)
    PROVE  RenewerInvariant'
  <1> DEFINE e == confirm(ev[r], "csr")
  <1>1. Received(r, "csr") /\ before' = before
    BY DEF GotCsr
  <1>2. /\ Typed /\ Sound(r) /\ ev[r] \in Evidence(Certs)
        /\ OK(r) /\ Active(r) /\ pc[r] = "csr" /\ Hangup(r)
        /\ \A q \in Waiting : q.run # r
        /\ UNCHANGED <<queue, current, executorVars, posts, issued, lasting, mode>>
    BY <1>1, AtAnswer
  <1>3. /\ e \in Evidence(Certs) /\ e.change = ev[r].change
        /\ e.milestones = [ev[r].milestones EXCEPT !["csr"] = "confirmed"]
    BY <1>2, ConfirmEvidence DEF MILESTONE_NAMES
  <1>4. CASE mode[r] = "csr" /\ Exit(r, "exit_0", success(e, "success_prepared", {}))
    <2> HIDE DEF e
    <2> DEFINE f == success(e, "success_prepared", {})
    <2>1. "success_prepared" \in Outcomes /\ {} \in SUBSET BOOLEAN
      BY DEF Outcomes, _SEVERITY
    <2>2. /\ f \in Evidence(Certs) /\ f.outcome = "success_prepared"
          /\ f.milestones = e.milestones /\ f.change = e.change
      BY <1>3, <2>1, SuccessEvidence, SMT
    <2>3. Exit(r, "exit_0", f)
      BY <1>4
    <2> HIDE DEF f
    <2>4. /\ f.milestones["csr"] = "confirmed" /\ f.change = ev[r].change
          /\ \A name \in {"issuance", "installation", "live_tls", "activation"} :
                 f.milestones[name] = ev[r].milestones[name]
      BY <1>2, <1>3, <2>2, EvidenceFields DEF MILESTONE_NAMES
    <2>5. Recorded(f) /\ Successful(r, f)
      BY <1>2, <2>2, <2>4 DEF Sound, Stated, Recorded, Successful, Unsigned
    <2> QED  BY <1>1, <1>2, <2>2, <2>3, <2>4, <2>5, SuccessKeeps
  <1>5. CASE mode[r] # "csr" /\ Goto(r, "preflight", e) /\ UNCHANGED lock
    <2> HIDE DEF e
    <2>1. /\ e.milestones["csr"] = "confirmed" /\ e.change = ev[r].change
          /\ \A name \in {"issuance", "installation", "live_tls", "activation"} :
                 e.milestones[name] = ev[r].milestones[name]
      BY <1>2, <1>3, EvidenceFields DEF MILESTONE_NAMES
    <2>2. /\ Local(r)
          /\ Typed' /\ Awaits(r)' /\ Derived(r)' /\ ~OK(r)' /\ Active(r)'
          /\ pc'[r] = "preflight" /\ conn'[r] = None /\ Reads(e, ev'[r])
      <3>1. "preflight" \in DOMAIN StageOf /\ e \in Evidence(Certs)
        BY <1>3 DEF StageOf
      <3>2. before[r] \in Certs \cup {None} /\ before' = [before EXCEPT ![r] = before[r]]
        BY <1>1, <1>2 DEF Typed
      <3> QED  BY <1>2, <1>5, <3>1, <3>2, Advances
    <2>3. /\ mode'[r] = mode[r] /\ lock' = lock /\ keystore' = keystore
          /\ before'[r] = before[r] /\ (Quiet' <=> Quiet) /\ (\A c : due(c)' <=> due(c))
      BY <1>1, <1>2, <1>5, <2>2, LocalWaiting DEF executorVars
    <2>4. Placed(r)'
      BY <1>2, <1>5, <2>2, <2>3 DEF Sound, Placed, LockedModes, Issued
    <2>5. Settled(r)'
      BY <1>2, <2>2, <2>3 DEF Sound, Settled, Told
    <2>6. Installing(r)'
      BY <2>2 DEF Installing
    <2>7. Stated(r)'
      BY <1>2, <2>1, <2>2 DEF Sound, Stated, Reads, Unsigned, Issued
    <2>8. Attempted(r)' /\ Confirmed(r)'
      BY <1>2, <2>1, <2>2, RecordKept DEF Sound, Reads
    <2> QED  BY <2>2, <2>4, <2>5, <2>6, <2>7, <2>8, LocalKeeps DEF Sound
  <1> QED  BY <1>4, <1>5 DEF GotCsr

\* The issued certificate is retrieved and, for a renewal, not due already.
LEMMA RetrievedKeeps ==
    ASSUME RenewerInvariant, NEW r \in Runs, Retrieved(r)
    PROVE  RenewerInvariant'
  <1> DEFINE e == [ev[r] EXCEPT !.certificate = {r}]
  <1>1. /\ pc[r] = "retrieve" /\ Active(r) /\ pc[r] \notin DOMAIN CallOf
        /\ mode[r] = "renew" => ~due(r)
    BY DEF Retrieved, Active, StageOf, CallOf
  <1>2. /\ Typed /\ Sound(r) /\ ev[r] \in Evidence(Certs)
        /\ conn[r] = None /\ \A q \in Waiting : q.run # r
    BY <1>1, AtRest
  <1>3. UNCHANGED <<queue, current, conn, executorVars, posts, issued, lasting, mode,
                    before>>
    BY DEF Retrieved, Keep, serviceVars, executorVars, authorityVars
  <1>4. /\ e \in Evidence(Certs) /\ e.change = ev[r].change
        /\ e.milestones = ev[r].milestones /\ e.certificate = {r}
    BY <1>2 DEF Evidence, Certs
  <1>5. CASE mode[r] = "prepare" /\ Exit(r, "exit_0", success(e, "success_prepared", {}))
    <2> HIDE DEF e
    <2> DEFINE f == success(e, "success_prepared", {})
    <2>1. "success_prepared" \in Outcomes /\ {} \in SUBSET BOOLEAN
      BY DEF Outcomes, _SEVERITY
    <2>2. /\ f \in Evidence(Certs) /\ f.outcome = "success_prepared"
          /\ f.milestones = e.milestones /\ f.change = e.change
      BY <1>4, <2>1, SuccessEvidence
    <2>3. Exit(r, "exit_0", f)
      BY <1>5
    <2> HIDE DEF f
    <2>4. Recorded(f) /\ Successful(r, f)
      BY <1>1, <1>2, <1>4, <2>2 DEF Sound, Stated, Recorded, Successful, Issued
    <2>5. \A name \in {"issuance", "installation", "live_tls"} :
              f.milestones[name] = ev[r].milestones[name]
      BY <1>4, <2>2
    <2> QED  BY <1>2, <1>3, <2>2, <2>3, <2>4, <2>5, SuccessKeeps
  <1>6. CASE mode[r] # "prepare" /\ Goto(r, "install_inspect", e) /\ UNCHANGED lock
    <2> HIDE DEF e
    <2>1. /\ Local(r)
          /\ Typed' /\ Awaits(r)' /\ Derived(r)' /\ ~OK(r)' /\ Active(r)'
          /\ pc'[r] = "install_inspect" /\ conn'[r] = None /\ Reads(e, ev'[r])
      <3>1. "install_inspect" \in DOMAIN StageOf /\ e \in Evidence(Certs)
        BY <1>4 DEF StageOf
      <3>2. before[r] \in Certs \cup {None} /\ before' = [before EXCEPT ![r] = before[r]]
        BY <1>2, <1>3 DEF Typed
      <3>3. /\ conn' = conn /\ posts' = posts /\ Goto(r, "install_inspect", e)
            /\ UNCHANGED <<queue, current, executorVars, issued, lasting, mode, lock>>
        BY <1>3, <1>6
      <3> QED  BY <1>2, <3>1, <3>2, <3>3, Advances
    <2>2. /\ mode'[r] = mode[r] /\ lock' = lock /\ keystore' = keystore /\ issued' = issued
          /\ before'[r] = before[r] /\ (Quiet' <=> Quiet) /\ (\A c : due(c)' <=> due(c))
      BY <1>3, <1>6, <2>1, LocalWaiting DEF executorVars
    <2>3. Placed(r)'
      BY <1>1, <1>2, <2>1, <2>2 DEF Sound, Placed, LockedModes, Issued
    <2>4. Settled(r)'
      BY <1>1, <1>2, <2>1, <2>2 DEF Sound, Settled, Told
    <2>5. Installing(r)'
      BY <2>1 DEF Installing
    <2>6. Stated(r)'
      BY <1>1, <1>2, <1>4, <2>1, <2>2 DEF Sound, Stated, Reads, Unsigned, Issued
    <2>7. Attempted(r)' /\ Confirmed(r)'
      BY <1>2, <1>3, <1>4, <2>1, RecordKept DEF Sound, Reads
    <2> QED  BY <2>1, <2>3, <2>4, <2>5, <2>6, <2>7, LocalKeeps DEF Sound
  <1> QED  BY <1>5, <1>6 DEF Retrieved

\* verify_pending answered that the renewal is finalised.
LEMMA VerifiedKeeps ==
    ASSUME RenewerInvariant, NEW r \in Runs, Verified(r)
    PROVE  RenewerInvariant'
  <1> DEFINE e1 == confirm(ev[r], "activation")
             e2 == confirm(e1, "live_tls")
             d == IF mode[r] = "renew" THEN {TRUE} ELSE {}
             f == success(e2, "success_changed", d)
  <1>1. Received(r, "verify") /\ before' = before /\ Exit(r, "exit_0", f)
    BY DEF Verified
  <1>2. /\ Typed /\ Sound(r) /\ ev[r] \in Evidence(Certs)
        /\ OK(r) /\ Active(r) /\ pc[r] = "verify" /\ Hangup(r)
        /\ \A q \in Waiting : q.run # r
        /\ UNCHANGED <<queue, current, executorVars, posts, issued, lasting, mode>>
    BY <1>1, AtAnswer
  <1>3. /\ e1 \in Evidence(Certs) /\ e1.change = ev[r].change
        /\ e1.certificate = ev[r].certificate
        /\ e1.milestones = [ev[r].milestones EXCEPT !["activation"] = "confirmed"]
    BY <1>2, ConfirmEvidence DEF MILESTONE_NAMES
  <1> HIDE DEF e1
  <1>4. /\ e2 \in Evidence(Certs) /\ e2.change = e1.change /\ e2.certificate = e1.certificate
        /\ e2.milestones = [e1.milestones EXCEPT !["live_tls"] = "confirmed"]
    BY <1>3, ConfirmEvidence DEF MILESTONE_NAMES
  <1> HIDE DEF e2
  <1>5. /\ f \in Evidence(Certs) /\ f.outcome = "success_changed"
        /\ f.milestones = e2.milestones /\ f.change = e2.change
        /\ f.certificate = e2.certificate
    <2>1. "success_changed" \in Outcomes /\ d \in SUBSET BOOLEAN
      BY DEF Outcomes, _SEVERITY
    <2> HIDE DEF d
    <2> QED  BY <1>4, <2>1, SuccessEvidence, SMT
  <1> HIDE DEF f
  <1>6. /\ f.change = ev[r].change /\ f.certificate = ev[r].certificate
        /\ f.milestones["activation"] = "confirmed" /\ f.milestones["live_tls"] = "confirmed"
        /\ \A name \in {"csr", "issuance", "installation"} :
               f.milestones[name] = ev[r].milestones[name]
    <2>1. /\ e1.milestones["activation"] = "confirmed"
          /\ \A name \in {"csr", "issuance", "installation"} :
                 e1.milestones[name] = ev[r].milestones[name]
      BY <1>2, <1>3, EvidenceFields DEF MILESTONE_NAMES
    <2>2. /\ e2.milestones["live_tls"] = "confirmed"
          /\ \A name \in {"csr", "issuance", "installation", "activation"} :
                 e2.milestones[name] = e1.milestones[name]
      BY <1>3, <1>4, EvidenceFields DEF MILESTONE_NAMES
    <2>3. e1.change = ev[r].change /\ e1.certificate = ev[r].certificate
      BY <1>3
    <2>4. e2.change = e1.change /\ e2.certificate = e1.certificate
      BY <1>4
    <2> QED  BY <1>5, <2>1, <2>2, <2>3, <2>4
  <1>7. Recorded(f) /\ Successful(r, f)
    BY <1>2, <1>5, <1>6 DEF Sound, Stated, Recorded, Successful, Issued
  <1>8. /\ Local(r) /\ Typed' /\ ev'[r] = f /\ ~OK(r)'
        /\ Placed(r)' /\ Awaits(r)' /\ Settled(r)' /\ Installing(r)' /\ Stated(r)' /\ Derived(r)'
    BY <1>1, <1>2, <1>5, <1>7, Succeeds
  <1>9. /\ tx' = tx /\ installed' = installed /\ finalized' = finalized /\ issued' = issued
        /\ posts' = posts /\ \A operation : ~InFlight(r, operation)'
    <2>1. \A operation : ~InFlight(r, operation)
      BY <1>2 DEF InFlight
    <2> QED  BY <1>2, <1>8, <2>1, LocalWaiting DEF executorVars
  <1>10. Attempted(r)'
    BY <1>2, <1>6, <1>8, <1>9 DEF Sound, Attempted
  <1>11. Confirmed(r)'
    BY <1>2, <1>6, <1>8, <1>9 DEF Sound, Confirmed
  <1> QED  BY <1>8, <1>10, <1>11, LocalKeeps DEF Sound

\* The operator's recover has its answer.
LEMMA RecoveredKeeps ==
    ASSUME RenewerInvariant, NEW r \in Runs, Recovered(r)
    PROVE  RenewerInvariant'
  <1>1. Received(r, "recover") /\ before' = before /\ Exit(r, "exit_0", ev[r])
    BY DEF Recovered
  <1>2. /\ Typed /\ Sound(r) /\ ev[r] \in Evidence(Certs) /\ pc[r] = "recover" /\ Hangup(r)
        /\ UNCHANGED <<queue, current, executorVars, posts, issued, lasting, mode>>
    BY <1>1, AtAnswer
  <1>3. Recorded(ev[r]) /\ Successful(r, ev[r])
    BY <1>2 DEF Sound, Stated, Placed, Recorded, Successful
  <1> QED  BY <1>1, <1>2, <1>3, SuccessKeeps

-----------------------------------------------------------------------------
(* The call: the attempt goes on record, and a request joins the queue.     *)

\* on_dispatch: what the run is about to ask for becomes uncertain.
LEMMA DispatchKeeps ==
    ASSUME RenewerInvariant, NEW r \in Runs, on_dispatch(r)
    PROVE  RenewerInvariant'
  <1> DEFINE operation == CallOf[pc[r]]
             f == executor_dispatch(ev[r], operation)
  <1>1. /\ pc[r] \in DOMAIN CallOf /\ conn[r] = None /\ ev' = [ev EXCEPT ![r] = f] /\ f # ev[r]
        /\ UNCHANGED <<queue, current, conn, executorVars, pc, before, lock, mode, posts, issued,
                       lasting>>
    BY DEF on_dispatch, Dispatched, Keep, serviceVars, executorVars, authorityVars
  <1>2. Typed /\ Sound(r) /\ ev[r] \in Evidence(Certs) /\ Active(r)
    BY <1>1 DEF RenewerInvariant, Typed, Active, StageOf, CallOf
  <1>3. /\ f \in Evidence(Certs) /\ f.change = ev[r].change
        /\ f.certificate = ev[r].certificate
        /\ \A name \in {"csr", "issuance"} : f.milestones[name] = ev[r].milestones[name]
        /\ f.milestones["installation"] = IF operation = "install" THEN "uncertain"
                                          ELSE ev[r].milestones["installation"]
        /\ \A name \in {"activation", "live_tls"} :
               f.milestones[name] = IF operation = "verify_pending" THEN "uncertain"
                                    ELSE ev[r].milestones[name]
    BY <1>2, DispatchEvidence
  <1>4. /\ operation = "install" <=> pc[r] = "install"
        /\ operation = "verify_pending" <=> pc[r] = "verify"
    BY <1>1, SMT DEF CallOf
  <1>5. ev'[r] = f /\ \A s \in Runs \ {r} : ev'[s] = ev[s]
    BY <1>1, <1>2 DEF Typed
  <1>6. pc[r] \in {"install", "verify"}
    BY <1>1, <1>4 DEF executor_dispatch
  <1> HIDE DEF operation, f
  <1>7. Local(r)
    BY <1>1, <1>5 DEF Local
  <1>8. Typed'
    <2>1. ev' \in [Runs -> Evidence(Certs)]
      BY <1>1, <1>2, <1>3 DEF Typed
    <2> QED  BY <1>1, <1>2, <2>1 DEF Typed, executorVars
  <1>9. /\ Waiting' = Waiting /\ tx' = tx /\ keystore' = keystore /\ (Quiet' <=> Quiet)
        /\ (\A c : due(c)' <=> due(c)) /\ ~OK(r)'
    BY <1>1, <1>7, LocalWaiting DEF executorVars, OK
  <1>10. Placed(r)' /\ Awaits(r)'
    BY <1>1, <1>2, <1>9 DEF Sound, Placed, Awaits, Active, OK
  <1>11. Settled(r)'
    BY <1>1, <1>2, <1>9 DEF Sound, Settled, Told, OK
  <1>12. Installing(r)'
    BY <1>1, <1>2, <1>9 DEF Sound, Installing
  <1>13. Stated(r)'
    <2>1. CASE pc[r] = "install"
      BY <1>1, <1>2, <1>3, <1>4, <1>5, <1>9, <2>1 DEF Sound, Stated, Unsigned, Issued
    <2>2. CASE pc[r] = "verify"
      BY <1>1, <1>2, <1>3, <1>4, <1>5, <1>9, <2>2 DEF Sound, Stated, Unsigned, Issued
    <2> QED  BY <1>6, <2>1, <2>2
  <1>14. Derived(r)'
    BY <1>1, <1>6 DEF Derived
  <1>15. Attempted(r)' /\ Confirmed(r)'
    <2>1. ~InFlight(r, "install")
      BY <1>1, <1>2, Calm
    <2>2. \A name \in {"issuance", "installation", "live_tls"} :
              ev'[r].milestones[name] \in {ev[r].milestones[name], "uncertain"}
      BY <1>3, <1>5
    <2> QED  BY <1>1, <1>2, <1>7, <1>9, <2>1, <2>2, RecordKept DEF Sound
  <1> QED  BY <1>7, <1>8, <1>10, <1>11, <1>12, <1>13, <1>14, <1>15, LocalKeeps DEF Sound

\* What Call does: the request is the last in the queue, and the run waits.
LEMMA CallEffect ==
    ASSUME RenewerInvariant, NEW r \in Runs, Call(r)
    PROVE  LET q == Request(r) IN
           /\ pc[r] \in DOMAIN CallOf /\ Active(r) /\ conn[r] = None
           /\ q \in Requests /\ q.run = r /\ q.operation = CallOf[pc[r]]
           /\ queue' \in Seq(Requests) /\ Len(queue') = Len(queue) + 1
           /\ queue'[Len(queue) + 1] = q
           /\ \A i \in 1..Len(queue) : queue'[i] = queue[i]
           /\ Waiting' = Waiting \cup {q}
           /\ conn' = [conn EXCEPT ![r] = [status |-> "waiting", state |-> None]]
           /\ UNCHANGED <<current, executorVars, pc, before, lock, mode, posts, issued,
                          lasting>>
  <1> DEFINE q == Request(r)
  <1>1. Typed
    BY DEF RenewerInvariant
  <1>2. q.run = r /\ q.operation = CallOf[pc[r]] /\ pc[r] \in DOMAIN CallOf
    BY DEF Request, Call
  <1>3. q \in Requests
    <2>1. CallOf[pc[r]] \in _OPERATIONS
      BY <1>2, SMT DEF CallOf, _OPERATIONS
    <2> QED  BY <1>1, <2>1 DEF Request, Requests, Typed
  <1>4. Connect(q)
    BY DEF Call
  <1>5. /\ queue' = Append(queue, q) /\ conn[r] = None
        /\ conn' = [conn EXCEPT ![r] = [status |-> "waiting", state |-> None]]
        /\ UNCHANGED <<current, executorVars>>
    BY <1>2, <1>4 DEF Connect
  <1> HIDE DEF q
  <1>6. /\ queue' \in Seq(Requests) /\ Len(queue') = Len(queue) + 1
        /\ queue'[Len(queue) + 1] = q
        /\ \A i \in 1..Len(queue) : queue'[i] = queue[i]
        /\ Len(queue) \in Nat
    BY <1>1, <1>3, <1>5, SMT DEF Typed
  <1>7. {queue'[i] : i \in 1..Len(queue')} = {queue[i] : i \in 1..Len(queue)} \cup {q}
    <2>1. 1..Len(queue') = 1..Len(queue) \cup {Len(queue) + 1}
      BY <1>6, SMT
    <2> QED  BY <1>6, <2>1, SMT
  <1>8. Waiting' = Waiting \cup {q}
    BY <1>5, <1>7 DEF Waiting
  <1>9. Active(r)
    BY <1>2 DEF Active, StageOf, CallOf
  <1>10. UNCHANGED <<pc, before, lock, mode, posts, issued, lasting>>
    BY DEF Call, Keep, authorityVars
  <1> QED  BY <1>2, <1>3, <1>5, <1>6, <1>8, <1>9, <1>10 DEF q

\* A run calls for a change only while it owns the lock, nothing else is in the
\* air, and only its own transaction may be open.
LEMMA CallsAlone ==
    ASSUME RenewerInvariant, NEW r \in Runs, pc[r] \in {"install", "verify"}, conn[r] = None
    PROVE  /\ lock = r /\ r \in issued
           /\ \A q \in Waiting : q.operation \notin Changing
           /\ pc[r] = "install" => tx = None
           /\ pc[r] = "verify" => tx = None \/ tx.issued = r
  <1>1. Sound(r) /\ Active(r)
    BY DEF RenewerInvariant, Active, StageOf
  <1>2. lock = r /\ r \in issued
    BY <1>1 DEF Sound, Placed, Issued
  <1>3. \A q \in Waiting : q.run # r
    BY <1>1, Calm
  <1>4. CASE pc[r] = "install"
    BY <1>1, <1>2, <1>4 DEF Sound, Settled, Told, Quiet
  <1>5. CASE pc[r] = "verify"
    BY <1>1, <1>2, <1>3, <1>5 DEF Sound, Installing
  <1> QED  BY <1>2, <1>4, <1>5

\* The queue after a call.
LEMMA CallGlobal ==
    ASSUME RenewerInvariant, NEW r \in Runs, Call(r)
    PROVE  Global'
  <1> DEFINE q == Request(r)
             n == Len(queue)
  <1>1. /\ pc[r] \in DOMAIN CallOf /\ Active(r) /\ conn[r] = None
        /\ q.run = r /\ q.operation = CallOf[pc[r]]
        /\ Len(queue') = n + 1 /\ queue'[n + 1] = q
        /\ \A i \in 1..n : queue'[i] = queue[i]
        /\ Waiting' = Waiting \cup {q}
        /\ UNCHANGED <<current, executorVars, lock, posts, issued>>
    BY CallEffect
  <1>2. Typed /\ Unique /\ Ordered /\ Changes /\ Authority /\ n \in Nat
    BY SMT DEF RenewerInvariant, Global, Typed
  <1>3. \A p \in Waiting : p.run # r
    BY <1>1, Calm
  <1>4. /\ \A i \in 1..n : queue[i].run # r
        /\ current # None => current.run # r
    BY <1>2, <1>3, WaitingPlaces
  <1>5. q.operation \in Changing =>
            /\ lock = r /\ r \in issued
            /\ \A p \in Waiting : p.operation \notin Changing
            /\ q.operation = "install" => tx = None
            /\ q.operation = "verify_pending" => tx = None \/ tx.issued = r
    <2>1. /\ q.operation = "install" => pc[r] = "install"
          /\ q.operation = "verify_pending" => pc[r] = "verify"
      BY <1>1, SMT DEF CallOf
    <2> HIDE DEF q
    <2> QED  BY <1>1, <2>1, CallsAlone DEF Changing
  <1> HIDE DEF q, n
  <1>6. \A i \in 1..(n + 1) : i \in 1..n \/ i = n + 1
    BY <1>2, SMT
  <1>7. Unique'
    <2>1. ASSUME NEW i \in 1..(n + 1), NEW j \in 1..(n + 1), queue'[i].run = queue'[j].run
          PROVE  i = j
      <3>1. CASE i \in 1..n /\ j \in 1..n
        BY <1>1, <1>2, <2>1, <3>1 DEF Unique, n
      <3>2. CASE i = n + 1 \/ j = n + 1
        BY <1>1, <1>4, <1>6, <2>1, <3>2
      <3> QED  BY <1>6, <3>1, <3>2
    <2>2. ASSUME current # None, NEW i \in 1..(n + 1)
          PROVE  queue'[i].run # current.run
      BY <1>1, <1>2, <1>4, <1>6, <2>2 DEF Unique, n
    <2> QED  BY <1>1, <2>1, <2>2 DEF Unique
  <1>8. Ordered'
    <2>1. ASSUME NEW i \in 1..(n + 1), NEW j \in 1..(n + 1), queue'[i].run = lock, i < j
          PROVE  queue'[j].operation \notin Changing
      <3>1. i \in 1..n
        BY <1>2, <2>1, SMT
      <3>2. CASE j \in 1..n
        BY <1>1, <1>2, <2>1, <3>1, <3>2 DEF Ordered, n
      <3>3. CASE j = n + 1
        BY <1>1, <1>4, <1>5, <2>1, <3>1, <3>3
      <3> QED  BY <1>6, <3>2, <3>3
    <2>2. ASSUME current # None, current.run = lock, NEW j \in 1..(n + 1)
          PROVE  queue'[j].operation \notin Changing
      <3>1. CASE j \in 1..n
        BY <1>1, <1>2, <2>2, <3>1 DEF Ordered, n
      <3>2. CASE j = n + 1
        BY <1>1, <1>4, <1>5, <2>2, <3>2
      <3> QED  BY <1>6, <3>1, <3>2
    <2> QED  BY <1>1, <2>1, <2>2 DEF Ordered
  <1>9. Changes'
    <2>1. tx' = tx /\ issued' = issued
      BY <1>1 DEF executorVars
    <2> QED  BY <1>1, <1>2, <1>5, <2>1, SMT DEF Changes
  <1>10. Authority'
    BY <1>1, <1>2 DEF Authority, executorVars
  <1> QED  BY <1>7, <1>8, <1>9, <1>10 DEF Global

\* Another run does not notice the call.
LEMMA CallBystander ==
    ASSUME RenewerInvariant, NEW r \in Runs, Call(r), NEW s \in Runs \ {r}
    PROVE  Sound(s)'
  <1> DEFINE q == Request(r)
  <1>1. /\ pc[r] \in DOMAIN CallOf /\ conn[r] = None /\ q.run = r
        /\ q.operation = CallOf[pc[r]] /\ Waiting' = Waiting \cup {q}
        /\ conn' = [conn EXCEPT ![r] = [status |-> "waiting", state |-> None]]
        /\ UNCHANGED <<executorVars, pc, before, lock, mode, posts, issued, lasting>>
    BY CallEffect
  <1>2. Typed /\ Sound(s)
    BY DEF RenewerInvariant
  <1>3. conn'[s] = conn[s] /\ ev'[s] = ev[s]
    BY <1>1, <1>2 DEF Typed, Call
  <1>4. q.operation \in Changing => lock = r
    <2>1. q.operation \in Changing => pc[r] \in {"install", "verify"}
      BY <1>1, SMT DEF CallOf, Changing
    <2> HIDE DEF q
    <2> QED  BY <1>1, <2>1, CallsAlone
  <1> HIDE DEF q
  <1>5. /\ tx' = tx /\ keystore' = keystore /\ installed' = installed
        /\ finalized' = finalized /\ \A c : due(c)' <=> due(c)
    BY <1>1 DEF executorVars, due
  <1>6. \A operation : InFlight(s, operation)' <=> InFlight(s, operation)
    BY <1>1 DEF InFlight
  <1>7. (OK(s)' <=> OK(s)) /\ (Active(s)' <=> Active(s)) /\ (Told(s)' <=> Told(s))
    BY <1>1, <1>3 DEF OK, Active, Told
  <1>8. Placed(s)'
    BY <1>1, <1>2, <1>3, <1>7 DEF Sound, Placed
  <1>9. Awaits(s)'
    BY <1>1, <1>2, <1>3, <1>7 DEF Sound, Awaits
  <1>10. Settled(s)'
    <2>1. lock = s /\ Quiet => Quiet'
      BY <1>1, <1>4, <1>5 DEF Quiet
    <2> QED  BY <1>1, <1>2, <1>3, <1>5, <1>7, <2>1 DEF Sound, Settled
  <1>11. Installing(s)'
    BY <1>1, <1>2, <1>3, <1>4, <1>5 DEF Sound, Installing
  <1>12. Attempted(s)'
    BY <1>1, <1>2, <1>3, <1>5, <1>6 DEF Sound, Attempted
  <1>13. Confirmed(s)'
    BY <1>1, <1>2, <1>3, <1>5, <1>6, <1>7 DEF Sound, Confirmed
  <1>14. Stated(s)'
    BY <1>1, <1>2, <1>3, <1>5 DEF Sound, Stated
  <1>15. Derived(s)'
    BY <1>1, <1>2, <1>3, <1>5 DEF Sound, Derived, Uncertain
  <1> QED  BY <1>8, <1>9, <1>10, <1>11, <1>12, <1>13, <1>14, <1>15 DEF Sound

\* The attempt is on record before the executor can see the request.
LEMMA CallKeeps ==
    ASSUME RenewerInvariant, NEW r \in Runs, Call(r)
    PROVE  RenewerInvariant'
  <1> DEFINE q == Request(r)
             f == executor_dispatch(ev[r], CallOf[pc[r]])
  <1>1. /\ pc[r] \in DOMAIN CallOf /\ Active(r) /\ conn[r] = None
        /\ q.run = r /\ q.operation = CallOf[pc[r]]
        /\ queue' \in Seq(Requests) /\ Waiting' = Waiting \cup {q}
        /\ conn' = [conn EXCEPT ![r] = [status |-> "waiting", state |-> None]]
        /\ UNCHANGED <<current, executorVars, pc, before, lock, mode, posts, issued,
                       lasting>>
    BY CallEffect
  <1>2. Typed /\ Sound(r) /\ ev[r] \in Evidence(Certs)
    BY DEF RenewerInvariant, Typed
  <1>3. ev' = ev /\ ev'[r] = f
    BY DEF Call, Dispatched
  <1>4. /\ f \in Evidence(Certs) /\ f.change = ev[r].change
        /\ f.certificate = ev[r].certificate
        /\ \A name \in {"csr", "issuance"} : f.milestones[name] = ev[r].milestones[name]
        /\ f.milestones["installation"] = IF q.operation = "install" THEN "uncertain"
                                          ELSE ev[r].milestones["installation"]
        /\ \A name \in {"activation", "live_tls"} :
               f.milestones[name] = IF q.operation = "verify_pending" THEN "uncertain"
                                    ELSE ev[r].milestones[name]
    BY <1>1, <1>2, DispatchEvidence, SMT
  <1>5. /\ q.operation = "install" <=> pc[r] = "install"
        /\ q.operation = "verify_pending" <=> pc[r] = "verify"
    BY <1>1, SMT DEF CallOf
  <1>6. conn'[r] # None /\ conn'[r].status = "waiting"
    <2>1. [status |-> "waiting", state |-> None] \in Connections
      BY DEF Connections
    <2> QED  BY <1>1, <1>2, <2>1, NullConnection DEF Typed
  <1>7. \A p \in Waiting : p.run # r
    BY <1>1, Calm
  <1>8. pc[r] \in {"install", "verify"} =>
            /\ lock = r /\ r \in issued
            /\ \A p \in Waiting : p.operation \notin Changing
            /\ pc[r] = "install" => tx = None
            /\ pc[r] = "verify" => tx = None \/ tx.issued = r
    BY <1>1, CallsAlone
  <1> HIDE DEF q, f
  <1>9. Typed'
    <2>1. [status |-> "waiting", state |-> None] \in Connections
      BY DEF Connections
    <2>2. conn' \in [Runs -> Connections \cup {None}]
      BY <1>1, <1>2, <2>1 DEF Typed
    <2>3. ev' \in [Runs -> Evidence(Certs)]
      BY <1>2, <1>3, <1>4 DEF Typed
    <2> QED  BY <1>1, <1>2, <2>2, <2>3 DEF Typed, executorVars
  <1>10. /\ tx' = tx /\ keystore' = keystore /\ installed' = installed
         /\ finalized' = finalized /\ \A c : due(c)' <=> due(c)
    BY <1>1 DEF executorVars, due
  <1>11. ~OK(r)' /\ (Active(r)' <=> Active(r))
    BY <1>1, <1>6 DEF OK, Active
  <1>12. \A operation : InFlight(r, operation)' <=> operation = q.operation
    BY <1>1, <1>7 DEF InFlight
  <1>13. Placed(r)'
    BY <1>1, <1>2, <1>11 DEF Sound, Placed
  <1>14. Awaits(r)'
    BY <1>1, <1>6, <1>7, <1>11 DEF Awaits, CallOf
  <1>15. Settled(r)'
    <2>1. Told(r)' => Told(r) /\ pc[r] # "install"
      BY <1>1, <1>6, <1>11 DEF Told
    <2>2. pc[r] \notin {"install", "verify"} /\ Quiet => Quiet'
      BY <1>1, <1>5, <1>10 DEF Quiet, Changing
    <2>3. Told(r) => pc[r] # "verify"
      BY DEF Told
    <2> QED  BY <1>1, <1>2, <1>10, <1>11, <2>1, <2>2, <2>3 DEF Sound, Settled
  <1>16. Installing(r)'
    BY <1>1, <1>8, <1>10 DEF Installing
  <1>17. Stated(r)'
    <2>1. Stated(r) /\ pc'[r] = pc[r] /\ mode'[r] = mode[r] /\ (due(r)' <=> due(r))
      BY <1>1, <1>2, <1>10 DEF Sound
    <2>2. CASE pc[r] = "install"
      BY <1>3, <1>4, <1>5, <2>1, <2>2 DEF Stated, Unsigned, Issued
    <2>3. CASE pc[r] = "verify"
      BY <1>3, <1>4, <1>5, <2>1, <2>3 DEF Stated, Unsigned, Issued
    <2>4. CASE pc[r] \notin {"install", "verify"}
      BY <1>3, <1>4, <1>5, <2>1, <2>4 DEF Stated
    <2> QED  BY <2>2, <2>3, <2>4
  <1>18. Derived(r)'
    BY <1>1, <1>3 DEF Derived, CallOf
  <1>19. Attempted(r)'
    BY <1>1, <1>2, <1>3, <1>4, <1>10, <1>12 DEF Sound, Attempted
  <1>20. Confirmed(r)'
    <2>1. pc[r] = "install" => ev[r].milestones["live_tls"] = "not_attempted"
      BY <1>2 DEF Sound, Stated, Issued
    <2> QED  BY <1>1, <1>2, <1>3, <1>4, <1>5, <1>10, <1>11, <1>12, <2>1 DEF Sound, Confirmed
  <1>21. Sound(r)'
    BY <1>13, <1>14, <1>15, <1>16, <1>17, <1>18, <1>19, <1>20 DEF Sound
  <1>22. \A s \in Runs : Sound(s)'
    BY <1>21, CallBystander
  <1> QED  BY <1>9, <1>22, CallGlobal DEF RenewerInvariant

-----------------------------------------------------------------------------
(* The executor.                                                           *)

Verifying == \E q \in Waiting : q.operation = "verify_pending"

\* A transaction ends; it is finalised only after it was verified.
Ends ==
    /\ tx # None /\ tx' = None /\ keystore' \in {keystore, tx.old} /\ installed' = installed
    /\ \/ finalized' = finalized
       \/ finalized' = finalized \cup {tx.issued} /\ (tx.phase = "live_verified" \/ Verifying)

\* A transaction goes on, between the same certificates.
Moves ==
    /\ tx # None /\ tx' \in Transactions /\ tx'.issued = tx.issued /\ tx'.old = tx.old
    /\ tx'.phase = "live_verified" => Verifying
    /\ keystore' \in {keystore, tx.old} /\ UNCHANGED <<installed, finalized>>

\* A transaction is opened on a request that leaves the executor.
Opens(q) ==
    /\ q.operation = "install" /\ tx = None
    /\ tx' \in Transactions /\ tx'.issued = q.run /\ tx'.phase # "live_verified"
    /\ tx'.old = keystore
    /\ keystore' \in {keystore, q.run} /\ installed' = installed \cup {keystore'}
    /\ finalized' = finalized
    /\ \A p \in Waiting' : p.run # q.run

Effect == UNCHANGED executorVars \/ Ends \/ Moves \/ \E q \in Waiting : Opens(q)

\* Everything that the executor does has one of these effects.
LEMMA RecoverEffect ==
    ASSUME Typed, Recover
    PROVE  Effect
  <1>1. CASE tx = None /\ UNCHANGED executorVars
    BY <1>1 DEF Effect
  <1>2. CASE tx # None /\ tx.phase = "live_verified" /\ Finalize
    BY <1>2 DEF Finalize, Effect, Ends
  <1>3. CASE /\ tx # None /\ tx' = [tx EXCEPT !.phase = "pending"]
             /\ UNCHANGED <<keystore, installed, finalized>>
    BY <1>3 DEF Typed, Transactions, Effect, Moves
  <1>4. CASE tx # None /\ tx' = None /\ UNCHANGED <<keystore, installed, finalized>>
    BY <1>4 DEF Effect, Ends
  <1>5. CASE Restore /\ tx' = None
    BY <1>5 DEF Restore, Effect, Ends
  <1> QED  BY <1>1, <1>2, <1>3, <1>4, <1>5 DEF Recover

\* What any part of an operation may do to the keystore and its transaction.
LEMMA PartEffect ==
    ASSUME Typed, NEW q \in Waiting, \A p \in Waiting' : p.run # q.run, PartOf(q)
    PROVE  Effect
  <1>1. q \in Requests
    BY WaitingPlaces
  <1>2. q.run \in Runs /\ q.run \in Certs
    BY <1>1 DEF Requests, Certs
  <1>3. CASE q.operation = "install" /\ Install(q)
    <2>1. /\ tx = None /\ tx' = [old |-> keystore, issued |-> q.run, phase |-> "pending"]
          /\ keystore' = q.run /\ installed' = installed \cup {q.run} /\ finalized' = finalized
      BY <1>3 DEF Install, Installable, _no_transaction
    <2>2. /\ tx' \in Transactions /\ tx'.issued = q.run /\ tx'.old = keystore
          /\ tx'.phase # "live_verified"
      BY <1>2, <2>1 DEF Transactions, Typed
    <2> QED  BY <1>3, <2>1, <2>2 DEF Effect, Opens
  <1>4. CASE q.operation = "install" /\ Installable(q) /\ Interrupt(q)
    <2>1. /\ tx = None /\ tx' = [old |-> keystore, issued |-> q.run, phase |-> "open"]
          /\ keystore' \in {keystore, q.run} /\ installed' = installed \cup {keystore'}
          /\ finalized' = finalized
      BY <1>4 DEF Interrupt, Installable, _no_transaction
    <2>2. /\ tx' \in Transactions /\ tx'.issued = q.run /\ tx'.old = keystore
          /\ tx'.phase # "live_verified"
      BY <1>2, <2>1 DEF Transactions, Typed
    <2> QED  BY <1>4, <2>1, <2>2 DEF Effect, Opens
  <1>5. CASE q.operation = "verify_pending" /\ VerifyPending
    BY <1>5 DEF VerifyPending, Finalize, Effect, Ends, Verifying
  <1>6. CASE /\ q.operation = "verify_pending" /\ tx # None
             /\ tx' = [tx EXCEPT !.phase = "live_verified"]
             /\ UNCHANGED <<keystore, installed, finalized>>
    BY <1>6 DEF Typed, Transactions, Effect, Moves, Verifying
  <1>7. CASE Recover
    BY <1>7, RecoverEffect
  <1>8. CASE UNCHANGED executorVars
    BY <1>8 DEF Effect
  <1>9. CASE Restore /\ tx' = tx
    <2>1. tx # None /\ tx \in Transactions /\ tx.phase # "live_verified"
      BY <1>9 DEF Restore, Typed
    <2> QED  BY <1>9, <2>1 DEF Restore, Effect, Moves
  <1> QED  BY <1>3, <1>4, <1>5, <1>6, <1>7, <1>8, <1>9 DEF PartOf, dispatch

\* The types that an effect keeps.
LEMMA EffectTypes ==
    ASSUME Typed, Effect
    PROVE  keystore' \in Certs /\ tx' \in Transactions \cup {None}
  <1>1. \A q \in Waiting : q.run \in Certs
    BY WaitingPlaces DEF Requests, Certs
  <1>2. tx # None => tx.old \in Certs
    BY DEF Typed, Transactions
  <1> QED  BY <1>1, <1>2 DEF Typed, Effect, Ends, Moves, Opens, executorVars

\* What a run may see of its connection while the executor works: an answer ends
\* its request, and a good answer is true.
Answers(s) ==
    \/ conn'[s] = conn[s]
    \/ /\ conn[s] # None /\ conn'[s] # None /\ \A p \in Waiting' : p.run # s
       /\ conn'[s].status = "ok" =>
              /\ pc[s] \in {"inspect", "inspect_before"} =>
                     /\ tx' = None /\ keystore' = conn'[s].state /\ keystore' \in Certs
                     /\ lock = s => \A p \in Waiting' : p.operation \notin Changing
              /\ pc[s] = "install" => s \in installed'
              /\ pc[s] = "verify" => s \in finalized' /\ tx' = None

\* A step of the executor that has such an effect, gives such answers and only
\* takes requests out of the queue.
Works ==
    /\ Effect /\ Waiting' \subseteq Waiting /\ UNCHANGED runVars
    /\ \A s \in Runs : Answers(s)

\* What the executor and OPNsense know of the transaction after a step.
LEMMA WorksGlobal ==
    ASSUME Typed, Changes, Authority, Works
    PROVE  Changes' /\ Authority'
  <1>1. issued' = issued /\ posts' = posts /\ Waiting' \subseteq Waiting
    BY DEF Works, runVars
  <1>2. \A q \in Waiting : q.run \in Runs
    BY WaitingPlaces DEF Requests
  <1>3. CASE UNCHANGED executorVars
    BY <1>1, <1>3 DEF Changes, Authority, executorVars
  <1>4. CASE Ends
    BY <1>1, <1>4 DEF Changes, Authority, Ends
  <1>5. CASE Moves
    BY <1>1, <1>5 DEF Changes, Authority, Moves
  <1>6. ASSUME NEW q \in Waiting, Opens(q)
        PROVE  Changes' /\ Authority'
    <2>1. q.run \in issued /\ \A p \in Waiting : p.operation \in Changing => p.run = q.run
      BY <1>6 DEF Changes, Opens, Changing
    <2>2. Changes'
      BY <1>1, <1>6, <2>1 DEF Changes, Opens
    <2>3. Authority'
      BY <1>1, <1>2, <1>6, <2>1, ServiceAssumption DEF Authority, Opens
    <2> QED  BY <2>2, <2>3
  <1> QED  BY <1>3, <1>4, <1>5, <1>6 DEF Works, Effect

\* While a run has been told that no transaction is open, none is opened.
LEMMA QuietStays ==
    ASSUME Quiet, Effect
    PROVE  UNCHANGED executorVars
  <1>1. \A q \in Waiting : ~Opens(q)
    BY DEF Quiet, Opens, Changing
  <1> QED  BY <1>1 DEF Quiet, Effect, Ends, Moves

\* Every run keeps its part of the invariant while the executor works.
LEMMA WorksSound ==
    ASSUME RenewerInvariant, Works, NEW s \in Runs
    PROVE  Sound(s)'
  <1>1. Typed /\ Changes /\ Authority /\ Sound(s) /\ s # Old
    BY ServiceAssumption DEF RenewerInvariant, Global
  <1>2. /\ UNCHANGED <<pc, mode, ev, before, lock, posts, issued, lasting>>
        /\ Waiting' \subseteq Waiting /\ Effect /\ Answers(s)
    BY DEF Works, runVars
  <1>3. conn'[s] # None <=> conn[s] # None
    BY <1>2 DEF Answers
  <1>4. \A c : due(c)' <=> due(c)
    BY <1>2 DEF due
  <1>5. \A operation : InFlight(s, operation)' => InFlight(s, operation)
    BY <1>2 DEF InFlight
  <1>6. Active(s)' <=> Active(s)
    BY <1>2 DEF Active
  <1>7. Placed(s)'
    <2>1. OK(s)' /\ pc[s] \in {"inspect", "inspect_before"} => conn'[s].state \in Certs
      BY <1>1, <1>2 DEF Sound, Placed, OK, Answers
    <2> QED  BY <1>1, <1>2, <1>3, <1>6, <2>1 DEF Sound, Placed
  <1>8. Awaits(s)'
    <2>1. ASSUME NEW q \in Waiting', q.run = s
          PROVE  conn'[s] = conn[s] /\ q \in Waiting
      BY <1>2, <2>1 DEF Answers
    <2> QED  BY <1>1, <1>2, <1>6, <2>1 DEF Sound, Awaits
  <1>9. Settled(s)'
    <2>1. CASE lock = s /\ Told(s)
      <3>1. Quiet /\ UNCHANGED executorVars
        BY <1>1, <1>2, <2>1, QuietStays DEF Sound, Settled
      <3>2. Quiet' /\ keystore' = keystore
        BY <1>2, <3>1 DEF Quiet, executorVars
      <3>3. pc[s] \in {"inspect", "inspect_before"} /\ OK(s)' => keystore' = conn'[s].state
        BY <1>1, <1>2, <2>1, <3>2 DEF Sound, Settled, Answers, OK
      <3> QED  BY <1>1, <1>2, <1>4, <2>1, <3>2, <3>3 DEF Sound, Settled
    <2>2. CASE lock = s /\ ~Told(s) /\ Told(s)'
      <3>1. /\ pc[s] \in {"inspect", "inspect_before"} /\ OK(s)' /\ ~OK(s)
            /\ pc[s] = "inspect_before" => mode[s] # "renew"
        BY <1>2, <1>3, <2>2 DEF Told
      <3>2. conn'[s] # conn[s] /\ conn'[s].status = "ok"
        BY <3>1 DEF OK
      <3>3. Quiet' /\ keystore' = conn'[s].state
        BY <1>2, <2>2, <3>1, <3>2 DEF Answers, Quiet
      <3> QED  BY <1>2, <3>1, <3>3 DEF Settled
    <2> QED  BY <1>2, <2>1, <2>2 DEF Settled
  <1>10. Installing(s)'
    BY <1>1, <1>2, <1>3 DEF Sound, Installing, Effect, Ends, Moves, Opens, Changing, executorVars
  <1>11. Stated(s)' /\ Derived(s)'
    BY <1>1, <1>2, <1>4 DEF Sound, Stated, Derived
  <1>12. Attempted(s)'
    <2> DEFINE m == ev[s].milestones
    <2>1. ev'[s].milestones = m /\ posts' = posts /\ issued' = issued
      BY <1>2
    <2>2. ASSUME m["installation"] = "not_attempted"
          PROVE  /\ s \notin installed' /\ ~InFlight(s, "install")'
                 /\ tx' # None => tx'.issued # s
      <3>1. /\ s \notin installed /\ ~InFlight(s, "install") /\ s # keystore
            /\ tx # None => tx.issued # s
        BY <1>1, <2>2 DEF Sound, Attempted, Authority
      <3>2. \A q \in Waiting : Opens(q) => q.run # s
        BY <3>1 DEF Opens, InFlight
      <3> QED  BY <1>2, <1>5, <3>1, <3>2 DEF Effect, Ends, Moves, Opens, executorVars
    <2>3. ASSUME m["live_tls"] = "not_attempted"
          PROVE  /\ s \notin finalized' /\ ~InFlight(s, "verify_pending")'
                 /\ tx' # None /\ tx'.issued = s => tx'.phase # "live_verified"
      <3>1. /\ s \notin finalized /\ ~InFlight(s, "verify_pending")
            /\ tx # None /\ tx.issued = s => tx.phase # "live_verified"
        BY <1>1, <2>3 DEF Sound, Attempted
      <3>2. tx # None /\ Verifying => tx.issued # s
        BY <1>1, <3>1 DEF Verifying, InFlight, Changes, Changing
      <3> QED  BY <1>2, <1>5, <3>1, <3>2 DEF Effect, Ends, Moves, Opens, executorVars
    <2> HIDE DEF m
    <2> QED  BY <1>1, <2>1, <2>2, <2>3 DEF Sound, Attempted, m
  <1>13. Confirmed(s)'
    <2>1. installed \subseteq installed' /\ finalized \subseteq finalized'
      BY <1>2 DEF Effect, Ends, Moves, Opens, executorVars
    <2>2. ASSUME tx # None => tx.issued # s, ~InFlight(s, "install")
          PROVE  tx' # None => tx'.issued # s
      <3>1. \A q \in Waiting : Opens(q) => q.run # s
        BY <2>2 DEF Opens, InFlight
      <3> QED  BY <1>2, <2>2, <3>1 DEF Effect, Ends, Moves, Opens, executorVars
    <2>3. OK(s)' /\ pc[s] = "install" => s \in installed'
      BY <1>1, <1>2, <2>1 DEF Sound, Confirmed, OK, Answers
    <2>4. OK(s)' /\ pc[s] = "verify" => s \in finalized' /\ (tx' # None => tx'.issued # s)
      <3>1. ASSUME OK(s), pc[s] = "verify"
            PROVE  ~InFlight(s, "install") /\ s \in finalized /\ (tx # None => tx.issued # s)
        BY <1>1, <3>1 DEF Sound, Confirmed, Awaits, InFlight, OK, Active, StageOf
      <3>2. CASE conn'[s] = conn[s]
        BY <2>1, <2>2, <3>1, <3>2 DEF OK
      <3>3. CASE conn'[s] # conn[s]
        BY <1>2, <3>3 DEF OK, Answers
      <3> QED  BY <3>2, <3>3
    <2>5. ev[s].milestones["live_tls"] = "confirmed" => ~InFlight(s, "install")
      BY <1>1 DEF Sound, Confirmed
    <2> QED  BY <1>1, <1>2, <1>5, <2>1, <2>2, <2>3, <2>4, <2>5 DEF Sound, Confirmed
  <1> QED  BY <1>7, <1>8, <1>9, <1>10, <1>11, <1>12, <1>13 DEF Sound

\* The executor keeps the invariant when its queue stays unique and ordered.
LEMMA WorksKeeps ==
    ASSUME RenewerInvariant, Works, Unique', Ordered', queue' \in Seq(Requests),
           current' \in Requests \cup {None}, conn' \in [Runs -> Connections \cup {None}]
    PROVE  RenewerInvariant'
  <1>1. Typed /\ Changes /\ Authority /\ Effect
    BY DEF RenewerInvariant, Global, Works
  <1>2. Typed'
    <2>1. UNCHANGED <<pc, mode, ev, before, lock>>
      BY DEF Works, runVars
    <2> QED  BY <1>1, <2>1, EffectTypes DEF Typed
  <1>3. Changes' /\ Authority'
    BY <1>1, WorksGlobal
  <1>4. \A s \in Runs : Sound(s)'
    BY WorksSound
  <1> QED  BY <1>2, <1>3, <1>4 DEF RenewerInvariant, Global

\* accept(): the first of the queue is served next.
LEMMA AcceptKeeps ==
    ASSUME RenewerInvariant, Accept, UNCHANGED runVars
    PROVE  RenewerInvariant'
  <1>1. Typed /\ Unique /\ Ordered
    BY DEF RenewerInvariant, Global
  <1>2. /\ current = None /\ queue # <<>> /\ current' = Head(queue) /\ queue' = Tail(queue)
        /\ UNCHANGED executorVars /\ conn' = conn /\ lock' = lock
    BY DEF Accept, runVars
  <1>3. /\ Len(queue) \in Nat /\ Len(queue) >= 1 /\ Len(queue') = Len(queue) - 1
        /\ current' = queue[1] /\ queue[1] \in Requests /\ queue' \in Seq(Requests)
        /\ \A i \in 1..Len(queue') : queue'[i] = queue[i + 1] /\ i + 1 \in 1..Len(queue)
    BY <1>1, <1>2, SMT DEF Typed
  <1>4. Waiting' \subseteq Waiting
    BY <1>3, SMT DEF Waiting
  <1>5. Unique'
    <2>1. ASSUME NEW i \in 1..Len(queue'), NEW j \in 1..Len(queue'),
                 queue'[i].run = queue'[j].run
          PROVE  i = j
      <3>1. /\ i + 1 \in 1..Len(queue) /\ j + 1 \in 1..Len(queue)
            /\ queue[i + 1].run = queue[j + 1].run
        BY <1>3, <2>1
      <3>2. i + 1 = j + 1
        BY <1>1, <3>1 DEF Unique
      <3> QED  BY <3>2, SMT
    <2>2. ASSUME NEW i \in 1..Len(queue')
          PROVE  queue'[i].run # current'.run
      <3>1. i + 1 # 1 /\ 1 \in 1..Len(queue)
        BY <1>3, SMT
      <3> QED  BY <1>1, <1>3, <3>1 DEF Unique
    <2> QED  BY <2>1, <2>2 DEF Unique
  <1>6. Ordered'
    <2>1. ASSUME NEW i \in 1..Len(queue'), NEW j \in 1..Len(queue'),
                 queue'[i].run = lock, i < j
          PROVE  queue'[j].operation \notin Changing
      <3>1. i + 1 < j + 1
        BY <1>3, <2>1, SMT
      <3> QED  BY <1>1, <1>3, <2>1, <3>1 DEF Ordered
    <2>2. ASSUME NEW j \in 1..Len(queue'), current'.run = lock
          PROVE  queue'[j].operation \notin Changing
      <3>1. 1 < j + 1 /\ 1 \in 1..Len(queue)
        BY <1>3, SMT
      <3> QED  BY <1>1, <1>3, <2>2, <3>1 DEF Ordered
    <2> QED  BY <1>2, <2>1, <2>2 DEF Ordered
  <1>7. Works
    BY <1>2, <1>4 DEF Works, Effect, Answers
  <1> QED  BY <1>1, <1>2, <1>3, <1>5, <1>6, <1>7, WorksKeeps DEF Typed

\* A request in service leaves the executor, with its answer.
LEMMA Leaves ==
    ASSUME RenewerInvariant, NEW status \in {"ok", "error"}, NEW state \in Certs \cup {None},
           current # None, Answer(status, state), UNCHANGED runVars
    PROVE  /\ Typed /\ current \in Waiting /\ current.run \in Runs
           /\ Waiting' \subseteq Waiting /\ \A p \in Waiting' : p.run # current.run
           /\ Unique' /\ Ordered' /\ queue' \in Seq(Requests) /\ current' \in Requests \cup {None}
           /\ conn' \in [Runs -> Connections \cup {None}]
           /\ \A s \in Runs : \/ conn'[s] = conn[s]
                              \/ /\ s = current.run /\ conn[s] # None /\ conn'[s] # None
                                 /\ conn'[s].status = status /\ conn'[s].state = state
  <1>1. Typed /\ Unique /\ Ordered
    BY DEF RenewerInvariant, Global
  <1>2. /\ queue' = queue /\ current' = None /\ lock' = lock
        /\ conn' = IF conn[current.run] # None
                   THEN [conn EXCEPT ![current.run] = [status |-> status, state |-> state]]
                   ELSE conn
    BY DEF Answer, runVars
  <1>3. current \in Waiting /\ current.run \in Runs
    BY <1>1, WaitingPlaces DEF Requests
  <1>4. Waiting' = {queue[i] : i \in 1..Len(queue)}
    BY <1>2 DEF Waiting
  <1>5. Waiting' \subseteq Waiting
    BY <1>4 DEF Waiting
  <1>6. \A p \in Waiting' : p.run # current.run
    BY <1>1, <1>4 DEF Unique
  <1>7. Unique' /\ Ordered'
    BY <1>1, <1>2 DEF Unique, Ordered
  <1>8. [status |-> status, state |-> state] \in Connections
    BY DEF Connections
  <1>9. conn' \in [Runs -> Connections \cup {None}]
    BY <1>1, <1>2, <1>3, <1>8 DEF Typed
  <1>10. ASSUME NEW s \in Runs
         PROVE  \/ conn'[s] = conn[s]
                \/ /\ s = current.run /\ conn[s] # None /\ conn'[s] # None
                   /\ conn'[s].status = status /\ conn'[s].state = state
    BY <1>1, <1>2, <1>8, NullConnection DEF Typed
  <1> QED  BY <1>1, <1>2, <1>3, <1>5, <1>6, <1>7, <1>9, <1>10 DEF Typed

\* An operation that succeeds, and its answer.
LEMMA HandleOkKeeps ==
    ASSUME RenewerInvariant, HandleOk, UNCHANGED runVars
    PROVE  RenewerInvariant'
  <1>1. PICK state \in Certs \cup {None} : dispatch(current, state) /\ Answer("ok", state)
    BY DEF HandleOk
  <1>2. /\ Typed /\ current \in Waiting /\ current.run \in Runs
        /\ Waiting' \subseteq Waiting /\ \A p \in Waiting' : p.run # current.run
        /\ Unique' /\ Ordered' /\ queue' \in Seq(Requests) /\ current' \in Requests \cup {None}
        /\ conn' \in [Runs -> Connections \cup {None}]
        /\ \A s \in Runs : \/ conn'[s] = conn[s]
                           \/ /\ s = current.run /\ conn[s] # None /\ conn'[s] # None
                              /\ conn'[s].status = "ok" /\ conn'[s].state = state
    BY <1>1, Leaves DEF HandleOk
  <1>3. Effect
    BY <1>1, <1>2, PartEffect DEF PartOf
  <1>4. ASSUME NEW s \in Runs, conn'[s] # conn[s]
        PROVE  Answers(s)
    <2>1. /\ s = current.run /\ conn[s] # None /\ conn'[s] # None /\ conn'[s].state = state
          /\ \A p \in Waiting' : p.run # s
      BY <1>2, <1>4
    <2>2. Active(s) /\ current.operation = CallOf[pc[s]]
      BY <1>2, <2>1, Connected DEF RenewerInvariant, Sound, Awaits
    <2>3. ASSUME pc[s] \in {"inspect", "inspect_before"}
          PROVE  /\ tx' = None /\ keystore' = conn'[s].state /\ keystore' \in Certs
                 /\ lock = s => \A p \in Waiting' : p.operation \notin Changing
      <3>1. current.operation = "inspect"
        BY <2>2, <2>3, SMT DEF CallOf
      <3>2. tx = None /\ state = keystore /\ UNCHANGED executorVars
        BY <1>1, <3>1 DEF dispatch, _no_transaction
      <3>3. lock = s => \A p \in Waiting' : p.operation \notin Changing
        <4>1. Ordered /\ current # None /\ current' = None /\ queue' = queue
          BY <1>1 DEF RenewerInvariant, Global, HandleOk, Answer
        <4>2. Waiting' = {queue[i] : i \in 1..Len(queue)}
          BY <4>1 DEF Waiting
        <4> QED  BY <2>1, <4>1, <4>2 DEF Ordered
      <3> QED  BY <1>2, <2>1, <3>2, <3>3 DEF executorVars, Typed
    <2>4. ASSUME pc[s] = "install"
          PROVE  s \in installed'
      <3>1. current.operation = "install"
        BY <2>2, <2>4, SMT DEF CallOf
      <3> QED  BY <1>1, <2>1, <3>1 DEF dispatch, Install
    <2>5. ASSUME pc[s] = "verify"
          PROVE  s \in finalized' /\ tx' = None
      <3>1. current.operation = "verify_pending"
        BY <2>2, <2>5, SMT DEF CallOf
      <3>2. tx # None /\ tx' = None /\ finalized' = finalized \cup {tx.issued}
        BY <1>1, <3>1 DEF dispatch, VerifyPending, Finalize
      <3>3. tx.issued = s
        BY <1>2, <2>1, <3>1, <3>2 DEF RenewerInvariant, Global, Changes, Changing
      <3> QED  BY <3>2, <3>3
    <2> QED  BY <2>1, <2>3, <2>4, <2>5 DEF Answers
  <1>5. Works
    BY <1>2, <1>3, <1>4 DEF Works, Answers
  <1> QED  BY <1>2, <1>5, WorksKeeps

\* An operation that fails, having done part of its work, all of it or nothing.
LEMMA HandleErrorKeeps ==
    ASSUME RenewerInvariant, HandleError, UNCHANGED runVars
    PROVE  RenewerInvariant'
  <1>1. current # None /\ PartOf(current) /\ Answer("error", None)
    BY DEF HandleError
  <1>2. /\ Typed /\ current \in Waiting
        /\ Waiting' \subseteq Waiting /\ \A p \in Waiting' : p.run # current.run
        /\ Unique' /\ Ordered' /\ queue' \in Seq(Requests) /\ current' \in Requests \cup {None}
        /\ conn' \in [Runs -> Connections \cup {None}]
        /\ \A s \in Runs : \/ conn'[s] = conn[s]
                           \/ /\ s = current.run /\ conn[s] # None /\ conn'[s] # None
                              /\ conn'[s].status = "error" /\ conn'[s].state = None
    BY <1>1, Leaves
  <1>3. Effect
    BY <1>1, <1>2, PartEffect
  <1>4. Works
    BY <1>2, <1>3 DEF Works, Answers
  <1> QED  BY <1>2, <1>4, WorksKeeps

\* The helper starts again, in a new container after a recovery.
LEMMA ListenKeeps ==
    ASSUME RenewerInvariant, Listen, UNCHANGED runVars
    PROVE  RenewerInvariant'
  <1>1. Typed /\ Unique /\ Ordered
    BY DEF RenewerInvariant, Global
  <1>2. queue' = queue /\ current' = current /\ conn' = conn /\ lock' = lock
    BY DEF Listen, runVars
  <1>3. Waiting' = Waiting
    BY <1>2 DEF Waiting
  <1>4. Effect
    BY <1>1, RecoverEffect DEF Listen, Effect
  <1>5. Works
    BY <1>2, <1>3, <1>4 DEF Works, Answers
  <1>6. Unique' /\ Ordered'
    BY <1>1, <1>2 DEF Unique, Ordered
  <1> QED  BY <1>1, <1>2, <1>5, <1>6, WorksKeeps DEF Typed

\* The helper dies: no request is left, and its operation stops half way.
LEMMA HelperDiesKeeps ==
    ASSUME RenewerInvariant, HelperDies, UNCHANGED runVars
    PROVE  RenewerInvariant'
  <1>1. Typed
    BY DEF RenewerInvariant
  <1>2. /\ current' = None /\ queue' = <<>>
        /\ conn' = [r \in Runs |-> IF conn[r] # None /\ conn[r].status = "waiting"
                                   THEN [status |-> "closed", state |-> None] ELSE conn[r]]
    BY DEF HelperDies
  <1>3. Waiting' = {}
    BY <1>2, SMT DEF Waiting
  <1>4. Effect
    <2>1. CASE current = None
      BY <2>1 DEF HelperDies, Effect
    <2>2. CASE current # None
      <3>1. current \in Waiting /\ PartOf(current)
        BY <1>1, <2>2, WaitingPlaces DEF HelperDies
      <3> QED  BY <1>1, <1>3, <3>1, PartEffect
    <2> QED  BY <2>1, <2>2
  <1>5. [status |-> "closed", state |-> None] \in Connections
    BY DEF Connections
  <1>6. conn' \in [Runs -> Connections \cup {None}]
    BY <1>1, <1>2, <1>5 DEF Typed
  <1>7. \A s \in Runs : Answers(s)
    BY <1>1, <1>2, <1>3, <1>5, NullConnection DEF Answers, Typed
  <1>8. Works
    BY <1>3, <1>4, <1>7 DEF Works
  <1>9. Unique' /\ Ordered' /\ queue' \in Seq(Requests)
    BY <1>2, SMT DEF Unique, Ordered
  <1> QED  BY <1>2, <1>6, <1>8, <1>9, WorksKeeps

-----------------------------------------------------------------------------
(* OPNsense.                                                               *)

\* OPNsense decides on a request: the keystore is not the new certificate, so
\* that it is due or not as before.
LEMMA DecidedKeeps ==
    ASSUME RenewerInvariant, NEW r \in Runs, Save(r) \/ Reject(r)
    PROVE  RenewerInvariant'
  <1>1. Typed /\ Global /\ \A s \in Runs : Sound(s)
    BY DEF RenewerInvariant
  <1>2. /\ UNCHANGED <<queue, current, conn, keystore, tx, installed, finalized>>
        /\ UNCHANGED <<pc, mode, ev, before, lock>>
        /\ r \in posts /\ posts' = posts \ {r} /\ issued \subseteq issued'
        /\ issued' \subseteq issued \cup {r}
        /\ lasting \subseteq lasting' /\ lasting' \subseteq lasting \cup {r}
    BY DEF Save, Reject, serviceVars
  <1>3. keystore # r
    BY <1>1, <1>2, ServiceAssumption DEF Global, Authority
  <1>4. /\ due(keystore)' <=> due(keystore)
        /\ \A c : ~due(c) => ~due(c)'
    BY <1>2, <1>3 DEF due
  <1>5. /\ Waiting' = Waiting /\ (Quiet' <=> Quiet)
        /\ \A s, operation : InFlight(s, operation)' <=> InFlight(s, operation)
    <2>1. Waiting' = Waiting
      BY <1>2 DEF Waiting
    <2> QED  BY <1>2, <2>1 DEF Quiet, InFlight
  <1>6. Typed'
    BY <1>1, <1>2 DEF Typed
  <1>7. Unique' /\ Ordered'
    BY <1>1, <1>2 DEF Global, Unique, Ordered
  <1>8. Changes' /\ Authority'
    BY <1>1, <1>2, <1>5 DEF Global, Changes, Authority
  <1>9. ASSUME NEW s \in Runs
        PROVE  Sound(s)'
    <2>1. Sound(s)
      BY <1>1
    <2>2. (OK(s)' <=> OK(s)) /\ (Active(s)' <=> Active(s)) /\ (Told(s)' <=> Told(s))
      BY <1>2 DEF OK, Active, Told
    <2>3. Placed(s)'
      BY <1>2, <2>1, <2>2 DEF Sound, Placed
    <2>4. Awaits(s)'
      BY <1>2, <1>5, <2>1, <2>2 DEF Sound, Awaits
    <2>5. Settled(s)'
      BY <1>2, <1>4, <1>5, <2>1, <2>2 DEF Sound, Settled
    <2>6. Installing(s)'
      BY <1>2, <1>5, <2>1 DEF Sound, Installing
    <2>7. Attempted(s)'
      BY <1>2, <1>5, <2>1 DEF Sound, Attempted
    <2>8. Confirmed(s)'
      BY <1>2, <1>5, <2>1, <2>2 DEF Sound, Confirmed
    <2>9. Stated(s)'
      BY <1>2, <1>4, <2>1 DEF Sound, Stated
    <2>10. Derived(s)'
      BY <1>2, <1>4, <2>1 DEF Sound, Derived
    <2> QED  BY <2>3, <2>4, <2>5, <2>6, <2>7, <2>8, <2>9, <2>10 DEF Sound
  <1> QED  BY <1>6, <1>7, <1>8, <1>9 DEF RenewerInvariant, Global

-----------------------------------------------------------------------------
(* The invariant.                                                          *)

\* Before the first run there is no request, no transaction and no record.
LEMMA RenewerInit ==
    ASSUME Init
    PROVE  RenewerInvariant
  <1>1. /\ queue = <<>> /\ current = None /\ conn = [r \in Runs |-> None]
        /\ keystore = Old /\ tx = None /\ installed = {} /\ finalized = {}
        /\ pc = [r \in Runs |-> "ready"] /\ mode = [r \in Runs |-> "inspect"]
        /\ ev = [r \in Runs |-> NewEvidence] /\ before = [r \in Runs |-> None]
        /\ lock = None /\ posts = {} /\ issued = {}
    BY DEF Init, ServiceInit
  <1>2. Waiting = {}
    BY <1>1, SMT DEF Waiting
  <1>3. Typed
    BY <1>1, NewEvidenceFields, SMT DEF Typed, Points, MODES, Certs
  <1>4. Global
    BY <1>1, <1>2, SMT DEF Global, Unique, Ordered, Changes, Authority
  <1>5. ASSUME NEW r \in Runs
        PROVE  Sound(r)
    <2>1. /\ pc[r] = "ready" /\ conn[r] = None /\ lock # r /\ ev[r] = NewEvidence
          /\ ~Active(r) /\ ~OK(r)
      BY <1>1, ServiceAssumption DEF Active, StageOf, OK
    <2>2. /\ ev[r].change = "none"
          /\ \A name \in MILESTONE_NAMES : ev[r].milestones[name] = "not_attempted"
      BY <2>1, NewEvidenceFields
    <2>3. Placed(r) /\ Awaits(r) /\ Settled(r) /\ Installing(r)
      BY <1>2, <2>1 DEF Placed, Awaits, Settled, Installing, Issued
    <2>4. Attempted(r) /\ Confirmed(r)
      BY <1>1, <1>2, <2>1, <2>2 DEF Attempted, Confirmed, InFlight, MILESTONE_NAMES
    <2>5. Stated(r) /\ Derived(r)
      BY <2>1, <2>2 DEF Stated, Derived, MILESTONE_NAMES, Unsigned, Issued
    <2> QED  BY <2>3, <2>4, <2>5 DEF Sound
  <1> QED  BY <1>3, <1>4, <1>5 DEF RenewerInvariant

\* Every step of a run, of the executor and of OPNsense keeps the invariant.
LEMMA RenewerNext ==
    ASSUME RenewerInvariant, [Next]_vars
    PROVE  RenewerInvariant'
  <1>1. ASSUME NEW r \in Runs, Start(r) \/ Run(r) \/ Fails(r) \/ Killed(r)
        PROVE  RenewerInvariant'
    <2>1. CASE Start(r)
      BY <2>1, StartKeeps
    <2>2. CASE Lock(r)
      BY <2>2, LockKeeps
    <2>3. CASE Configure(r)
      BY <2>3, ConfigureKeeps
    <2>4. CASE BuildClient(r) \/ Preflight(r)
      BY <2>4, PassageKeeps
    <2>5. CASE Call(r)
      BY <2>5, CallKeeps
    <2>6. CASE Inspected(r)
      BY <2>6, InspectedKeeps
    <2>7. CASE InspectedBefore(r)
      BY <2>7, InspectedBeforeKeeps
    <2>8. CASE GotCsr(r)
      BY <2>8, GotCsrKeeps
    <2>9. CASE sign_csr(r)
      BY <2>9, SignKeeps
    <2>10. CASE Signed(r)
      BY <2>10, SignedKeeps
    <2>11. CASE Retrieved(r)
      BY <2>11, RetrievedKeeps
    <2>12. CASE StillAsBefore(r)
      BY <2>12, StillAsBeforeKeeps
    <2>13. CASE Installed(r)
      BY <2>13, InstalledKeeps
    <2>14. CASE Verified(r)
      BY <2>14, VerifiedKeeps
    <2>15. CASE Recovered(r)
      BY <2>15, RecoveredKeeps
    <2>16. CASE Refused(r) \/ GivesUp(r) \/ StillDue(r) \/ Fails(r)
      BY <2>16, FailuresKeep
    <2>17. CASE Killed(r)
      BY <2>17, KilledKeeps
    <2>18. CASE on_dispatch(r)
      BY <2>18, DispatchKeeps
    <2> QED  BY <1>1, <2>1, <2>2, <2>3, <2>4, <2>5, <2>6, <2>7, <2>8, <2>9, <2>10, <2>11,
                <2>12, <2>13, <2>14, <2>15, <2>16, <2>17, <2>18 DEF Run, Steps
  <1>2. ASSUME NEW r \in Runs, Save(r) \/ Reject(r)
        PROVE  RenewerInvariant'
    BY <1>2, DecidedKeeps
  <1>3. CASE Serve
    <2>1. UNCHANGED runVars
      BY <1>3 DEF Serve
    <2> QED  BY <1>3, <2>1, AcceptKeeps, HandleOkKeeps, HandleErrorKeeps, ListenKeeps DEF Serve
  <1>4. CASE Crash
    BY <1>4, HelperDiesKeeps DEF Crash
  <1>5. CASE UNCHANGED vars
    <2>1. /\ UNCHANGED executorVars /\ Waiting' = Waiting /\ UNCHANGED runVars
          /\ queue' = queue /\ current' = current /\ conn' = conn /\ lock' = lock
      BY <1>5 DEF vars, serviceVars, executorVars, runVars, Waiting
    <2>2. Works
      BY <2>1 DEF Works, Effect, Answers
    <2>3. Typed /\ Unique /\ Ordered
      BY DEF RenewerInvariant, Global
    <2>4. Unique' /\ Ordered'
      BY <2>1, <2>3 DEF Unique, Ordered
    <2> QED  BY <2>1, <2>2, <2>3, <2>4, WorksKeeps DEF Typed
  <1> QED  BY <1>1, <1>2, <1>3, <1>4, <1>5 DEF Next

\* The invariant of the renewer, its executor and OPNsense holds throughout.
THEOREM RenewerHolds == Spec => []RenewerInvariant
  <1>1. Init => RenewerInvariant
    BY RenewerInit
  <1>2. RenewerInvariant /\ [Next]_vars => RenewerInvariant'
    BY RenewerNext
  <1> QED  BY <1>1, <1>2, PTL DEF Spec

-----------------------------------------------------------------------------
(* What follows.                                                           *)

\* The evidence never understates (signing_dispatch, executor_dispatch): what it
\* calls not attempted has not happened and cannot happen any more.
THEOREM EvidenceNeverUnderstates == Spec => []NothingUnderstated
  <1>1. RenewerInvariant => NothingUnderstated
    BY DEF RenewerInvariant, Sound, Attempted, NothingUnderstated
  <1> QED  BY <1>1, RenewerHolds, PTL

\* The evidence never overstates (confirm): what it calls confirmed has happened
\* at OPNsense or in the executor.
THEOREM EvidenceNeverOverstates == Spec => []NothingOverstated
  <1>1. RenewerInvariant => NothingOverstated
    BY DEF RenewerInvariant, Sound, Confirmed, Stated, NothingOverstated
  <1> QED  BY <1>1, RenewerHolds, PTL

\* What a run that ended has recorded, as its result is read.
LEMMA Report ==
    ASSUME RenewerInvariant, NEW r \in Runs, Reported(r), NEW e, e = ev[r], NEW m, m = e.milestones
    PROVE  /\ finish(e).outcome = e.outcome /\ finish(e).certificate = e.certificate
           /\ finish(e).manual_recovery_required = e.manual_recovery_required
           /\ \/ /\ e.outcome \in {"failure_ambiguous", "failure_partial", "failure_pre_attempt"}
                 /\ e.outcome = "failure_partial" =>
                        /\ m["issuance"] = "confirmed"
                        /\ m["installation"] \in {"not_attempted", "confirmed"}
                        /\ m["live_tls"] \in {"not_attempted", "confirmed"}
                 /\ e.outcome = "failure_pre_attempt" => m["issuance"] = "not_attempted"
                 /\ ~e.manual_recovery_required => m["issuance"] = "not_attempted"
              \/ /\ e.outcome \in {"success_no_change", "attention_due", "success_prepared"}
                 /\ m["issuance"] \in {"not_attempted", "confirmed"}
                 /\ m["installation"] = "not_attempted" /\ m["live_tls"] = "not_attempted"
                 /\ e.outcome = "success_prepared" \/ m["issuance"] = "not_attempted"
              \/ /\ e.outcome = "success_changed" /\ e.certificate = {r}
                 /\ m["issuance"] = "confirmed" /\ m["installation"] = "confirmed"
                 /\ m["live_tls"] = "confirmed"
  <1>1. Stated(r) /\ Derived(r) /\ e \in Evidence(Certs)
    BY DEF RenewerInvariant, Sound, Typed
  <1>2. /\ finish(e).outcome = e.outcome /\ finish(e).certificate = e.certificate
        /\ finish(e).manual_recovery_required = e.manual_recovery_required
    BY DEF finish
  <1>3. /\ \A name \in MILESTONE_NAMES : m[name] \in Milestones
        /\ e.change \in {"none", "possible", "confirmed"}
    BY <1>1, EvidenceFields
  <1>4. ~Uncertain(e) => /\ m["issuance"] \in {"not_attempted", "confirmed"}
                         /\ m["installation"] \in {"not_attempted", "confirmed"}
                         /\ m["live_tls"] \in {"not_attempted", "confirmed"}
    BY <1>1, <1>3 DEF Uncertain, Stated, MILESTONE_NAMES, Milestones
  <1>5. /\ e.change = "none" <=> m["issuance"] = "not_attempted"
        /\ e.change = "confirmed" <=> m["issuance"] = "confirmed"
    BY <1>1 DEF Stated
  <1>6. CASE pc[r] \in {"exit_1", "exit_75"}
    BY <1>1, <1>2, <1>4, <1>5, <1>6 DEF Derived
  <1>7. CASE pc[r] = "exit_0" /\ mode[r] # "recover"
    <2>1. m["issuance"] # "uncertain" => m["issuance"] \in {"not_attempted", "confirmed"}
      BY <1>1, <1>3 DEF Stated, MILESTONE_NAMES, Milestones
    <2> QED  BY <1>1, <1>2, <1>7, <2>1 DEF Derived
  <1> QED  BY <1>6, <1>7 DEF Reported

\* The result that main prints is true, and stays true for as long as it is on
\* record, whatever the run has left behind (failure, success, finish).
THEOREM ResultAlwaysHolds == Spec => []ResultHolds
  <1>1. ASSUME RenewerInvariant, NEW r \in Runs, Reported(r)
        PROVE  LET result == finish(ev[r]) IN
               /\ result.outcome = "failure_pre_attempt" =>
                      r \notin posts \cup issued \cup installed
               /\ result.outcome = "failure_partial" =>
                      /\ r \in issued
                      /\ ~\E q \in Waiting :
                             q.run = r /\ q.operation \in {"install", "verify_pending"}
               /\ result.outcome = "success_changed" =>
                      r \in finalized /\ result.certificate = {r} /\ (tx # None => tx.issued # r)
    <2> DEFINE e == ev[r]
               m == e.milestones
    <2>1. Attempted(r) /\ Confirmed(r) /\ Authority
      BY <1>1 DEF RenewerInvariant, Global, Sound
    <2>2. /\ finish(e).outcome = e.outcome /\ finish(e).certificate = e.certificate
          /\ e.outcome = "failure_partial" =>
                 /\ m["issuance"] = "confirmed"
                 /\ m["installation"] \in {"not_attempted", "confirmed"}
                 /\ m["live_tls"] \in {"not_attempted", "confirmed"}
          /\ e.outcome = "failure_pre_attempt" => m["issuance"] = "not_attempted"
          /\ e.outcome = "success_changed" =>
                 e.certificate = {r} /\ m["live_tls"] = "confirmed"
      BY <1>1, Report, SMT
    <2>3. e.outcome = "failure_pre_attempt" => r \notin posts \cup issued \cup installed
      BY <2>1, <2>2 DEF Attempted, Authority
    <2>4. e.outcome = "failure_partial" =>
              r \in issued /\ ~InFlight(r, "install") /\ ~InFlight(r, "verify_pending")
      BY <2>1, <2>2 DEF Attempted, Confirmed
    <2>5. e.outcome = "success_changed" => r \in finalized /\ (tx # None => tx.issued # r)
      BY <2>1, <2>2 DEF Confirmed
    <2> QED  BY <2>2, <2>3, <2>4, <2>5 DEF InFlight
  <1>2. RenewerInvariant => ResultHolds
    BY <1>1 DEF ResultHolds
  <1> QED  BY <1>2, RenewerHolds, PTL

\* A run whose result does not ask for manual recovery has left nothing that
\* another run could meet (failure).
THEOREM RetryIsSafe == Spec => []RetrySafe
  <1>1. ASSUME RenewerInvariant, NEW r \in Runs, Reported(r),
               ~finish(ev[r]).manual_recovery_required
        PROVE  /\ r \notin posts
               /\ ~\E q \in Waiting : q.run = r /\ q.operation \in {"install", "verify_pending"}
               /\ tx # None => tx.issued # r
               /\ r \in issued => finish(ev[r]).outcome \in {"success_prepared", "success_changed"}
    <2> DEFINE e == ev[r]
               m == e.milestones
    <2>1. Attempted(r) /\ Confirmed(r) /\ Authority /\ Changes
      BY <1>1 DEF RenewerInvariant, Global, Sound
    <2>2. /\ finish(e).outcome = e.outcome
          /\ \/ m["issuance"] = "not_attempted"
             \/ /\ e.outcome = "success_prepared" /\ m["issuance"] = "confirmed"
                /\ m["installation"] = "not_attempted" /\ m["live_tls"] = "not_attempted"
             \/ /\ e.outcome = "success_changed" /\ m["issuance"] = "confirmed"
                /\ m["installation"] = "confirmed" /\ m["live_tls"] = "confirmed"
      BY <1>1, Report, SMT
    <2>3. CASE m["issuance"] = "not_attempted"
      BY <2>1, <2>3 DEF Attempted, Changes, Changing
    <2>4. CASE /\ e.outcome = "success_prepared" /\ m["issuance"] = "confirmed"
               /\ m["installation"] = "not_attempted" /\ m["live_tls"] = "not_attempted"
      BY <2>1, <2>2, <2>4 DEF Attempted, Confirmed, Authority, InFlight
    <2>5. CASE /\ e.outcome = "success_changed" /\ m["issuance"] = "confirmed"
               /\ m["installation"] = "confirmed" /\ m["live_tls"] = "confirmed"
      BY <2>1, <2>2, <2>5 DEF Attempted, Confirmed, Authority, InFlight
    <2> QED  BY <2>2, <2>3, <2>4, <2>5
  <1>2. RenewerInvariant => RetrySafe
    BY <1>1 DEF RetrySafe
  <1> QED  BY <1>2, RenewerHolds, PTL

\* The owner of the lock at "sign" has been told that no transaction is open.
LEMMA AboutToSign ==
    ASSUME RenewerInvariant, NEW r \in Runs, pc[r] = "sign"
    PROVE  /\ Quiet /\ keystore = before[r]
           /\ mode[r] = "renew" => due(keystore)
  <1>1. Sound(r) /\ Active(r)
    BY DEF RenewerInvariant, Active, StageOf
  <1>2. lock = r /\ Told(r)
    BY <1>1 DEF Sound, Placed, Told
  <1> QED  BY <1>1, <1>2 DEF Sound, Settled

\* A run signs for the keystore that it inspected, with no transaction open on it
\* and no change of an earlier run still to come (run_to_installation).
THEOREM AlwaysSignsForSettledKeystore == Spec => []SignsForSettledKeystore
  <1>1. RenewerInvariant => SignsForSettledKeystore
    BY AboutToSign DEF SignsForSettledKeystore, Quiet, Changing
  <1> QED  BY <1>1, RenewerHolds, PTL

\* A renewal signs while the installed certificate is due, and succeeds with one
\* that is not (_renewal_is_due).
THEOREM RenewalAlwaysSettles == Spec => []RenewalSettles
  <1>1. ASSUME RenewerInvariant, NEW r \in Runs, mode[r] = "renew", pc[r] = "exit_0",
               ev[r].outcome = "success_changed"
        PROVE  ~due(r)
    BY <1>1 DEF RenewerInvariant, Sound, Derived
  <1>2. RenewerInvariant => RenewalSettles
    BY <1>1, AboutToSign DEF RenewalSettles
  <1> QED  BY <1>2, RenewerHolds, PTL
=============================================================================

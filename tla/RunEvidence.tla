----------------------------- MODULE RunEvidence -----------------------------
(***************************************************************************)
(* The structured result of one run, src/run_result.py.  The worker        *)
(* records what it dispatched and what was confirmed to it, and derives    *)
(* the outcome that it reports from that record when the run ends.         *)
(***************************************************************************)
EXTENDS Naturals

MILESTONE_NAMES == {"csr", "issuance", "installation", "activation", "live_tls"}

Milestones == {"not_attempted", "confirmed", "failed", "uncertain"}

\* _SEVERITY, which orders the outcomes.
_SEVERITY ==
    [success_no_change |-> 0, success_prepared |-> 1, success_changed |-> 2,
     attention_due |-> 3, failure_pre_attempt |-> 4, failure_partial |-> 5,
     failure_ambiguous |-> 6]

Outcomes == DOMAIN _SEVERITY

\* The reason a failure gives for the stage it happened in.
_FAILURE_REASONS ==
    [configuration |-> "config_invalid", lock |-> "lock_failed",
     inspection |-> "inspection_failed", decision |-> "validation_failed",
     preflight |-> "validation_failed", csr_generation |-> "csr_failed",
     csr_retrieval |-> "csr_failed",
     signing |-> "signing_failed", issued_validation |-> "validation_failed",
     installation |-> "installation_failed", activation |-> "verification_failed",
     live_verification |-> "verification_failed", finalization |-> "recovery_required"]

Reasons == {_FAILURE_REASONS[s] : s \in DOMAIN _FAILURE_REASONS}
               \cup {"none", "lock_busy", "unexpected_failure"}

Stages == DOMAIN _FAILURE_REASONS \cup {"startup", "completed"}

\* The evidence over certificates of Certs; a set of at most one element stands
\* for an optional value.
Evidence(Certs) ==
    [stage : Stages, certificate : {{}} \cup {{c} : c \in Certs},
     outcome : Outcomes, target_stage : Stages, renewal_due : SUBSET BOOLEAN,
     change : {"none", "possible", "confirmed"}, manual_recovery_required : BOOLEAN,
     reason_code : Reasons, milestones : [MILESTONE_NAMES -> Milestones]]

NewEvidence ==
    [stage |-> "startup", certificate |-> {},
     outcome |-> "failure_pre_attempt", target_stage |-> "startup", renewal_due |-> {},
     change |-> "none", manual_recovery_required |-> FALSE, reason_code |-> "none",
     milestones |-> [name \in MILESTONE_NAMES |-> "not_attempted"]]

confirm(e, name) ==
    [e EXCEPT !.milestones[name] = "confirmed",
              !.change = IF name = "issuance" THEN "confirmed" ELSE @]

signing_dispatch(e) ==
    [e EXCEPT !.milestones["issuance"] = "uncertain", !.change = "possible"]

executor_dispatch(e, operation) ==
    CASE operation = "install" -> [e EXCEPT !.milestones["installation"] = "uncertain"]
      [] operation = "verify_pending" ->
             [e EXCEPT !.milestones["activation"] = "uncertain",
                       !.milestones["live_tls"] = "uncertain"]
      [] OTHER -> e

success(e, outcome, renewal_due) ==
    [e EXCEPT !.outcome = outcome,
              !.target_stage = IF outcome = "attention_due" THEN e.stage ELSE "completed",
              !.renewal_due = renewal_due, !.reason_code = "none"]

Uncertain(e) == \E name \in MILESTONE_NAMES : e.milestones[name] = "uncertain"

\* Mutant of failure: only a confirmed change asks for an operator.
failure_optimistic(e, reason) ==
    [e EXCEPT !.outcome = CASE Uncertain(e) -> "failure_ambiguous"
                            [] ~Uncertain(e) /\ e.change = "confirmed" -> "failure_partial"
                            [] OTHER -> "failure_pre_attempt",
              !.manual_recovery_required = e.change = "confirmed"]

\* Mutant of failure: a confirmed change is decided before an uncertain one.
failure_swapped(e, reason) ==
    [e EXCEPT !.outcome = CASE e.change = "confirmed" -> "failure_partial"
                            [] e.change # "confirmed" /\ Uncertain(e) -> "failure_ambiguous"
                            [] OTHER -> "failure_pre_attempt",
              !.manual_recovery_required = e.change # "none" \/ Uncertain(e)]

\* The csr milestone fails after the outcome is derived; reason is {} or {r}.
failure(e, reason) ==
    [e EXCEPT
        !.target_stage = e.stage,
        !.reason_code = CHOOSE r \in Reasons :
            IF reason # {} THEN r \in reason
            ELSE r = IF e.stage \in DOMAIN _FAILURE_REASONS
                     THEN _FAILURE_REASONS[e.stage] ELSE "unexpected_failure",
        !.outcome = CASE Uncertain(e) -> "failure_ambiguous"
                      [] ~Uncertain(e) /\ e.change = "confirmed" -> "failure_partial"
                      [] OTHER -> "failure_pre_attempt",
        !.manual_recovery_required = e.change # "none" \/ Uncertain(e),
        !.milestones["csr"] = IF e.stage = "csr_generation" THEN "failed" ELSE @]

\* RunResult.finish for the one target of a run: what main prints.
finish(e) ==
    [outcome |-> e.outcome, reason_code |-> e.reason_code,
     manual_recovery_required |-> e.manual_recovery_required,
     certificate |-> e.certificate, milestones |-> e.milestones,
     stage |-> IF _SEVERITY[e.outcome] >= _SEVERITY["attention_due"]
               THEN e.target_stage ELSE "completed"]
=============================================================================

-------------------------- MODULE VulnerabilityGate -------------------------
(***************************************************************************)
(* The comparison of a derivative image's vulnerability report with that   *)
(* of its exact upstream: scripts/compare_container_vulnerabilities.py.    *)
(*                                                                         *)
(* A finding is an identity, a severity and a fixed version ("" when there *)
(* is none).  An identity is its installed version and all else that makes *)
(* it: the place, of a Debian package or of another kind of component.     *)
(***************************************************************************)
EXTENDS Naturals, Functions

CONSTANT MAX_EXCEPTION_DAYS

ASSUME DaysAssumption == MAX_EXCEPTION_DAYS \in Nat

BLOCKING_SEVERITIES == {"HIGH", "CRITICAL"}

NoScope == "no scope"

-----------------------------------------------------------------------------
(* Reports.                                                                *)

\* Findings outside the requested severities and conflicting duplicates fail.
normalize_findings(report) ==
    /\ \A f \in report : f.severity \in BLOCKING_SEVERITIES
    /\ \A f, g \in report : f.identity = g.identity => f = g

SharedMetadataAgrees(d, u) ==
    \A f \in d, g \in u : f.identity = g.identity => f = g

\* Only Debian packages match across versions.
_debian_upgrade_scope(identity) ==
    IF identity.kind = "debian" THEN identity.place ELSE NoScope

_upgrade_candidates(report, scope) ==
    {f \in report : _debian_upgrade_scope(f.identity) = scope}

SameWeakness(new, old) ==
    /\ _debian_upgrade_scope(new.identity) # NoScope
    /\ _debian_upgrade_scope(new.identity) = _debian_upgrade_scope(old.identity)
    /\ <<new.severity, new.fixed>> = <<old.severity, old.fixed>>
    /\ old.identity.version < new.identity.version

\* Mutant of PackageUpgrade: several versions may replace one.
PackageUpgradeOfAny(new, old, d, u) ==
    /\ new \notin u
    /\ SameWeakness(new, old)

\* One introduced version in the derivative, one removed version upstream.
PackageUpgrade(new, old, d, u) ==
    LET scope == _debian_upgrade_scope(new.identity)
    IN  /\ new \notin u /\ old \notin d
        /\ SameWeakness(new, old)
        /\ _upgrade_candidates(d, scope) = {new}
        /\ _upgrade_candidates(u, scope) = {old}

Upgraded(d, u) == {f \in d : \E g \in u : PackageUpgrade(f, g, d, u)}

Introduced(d, u) == (d \ u) \ Upgraded(d, u)

Inherited(d, u) == (d \cap u) \cup Upgraded(d, u)

-----------------------------------------------------------------------------
(* Reviewed exceptions.                                                    *)

ExceptionScope(e) == <<e.upstream_image, e.platform, e.finding.identity>>

load_exceptions(exceptions, day) ==
    /\ \A e \in exceptions :
          /\ e.finding.severity \in BLOCKING_SEVERITIES /\ e.finding.fixed # ""
          /\ e.reviewed_on <= day /\ day < e.expires_on
          /\ e.expires_on \in (e.reviewed_on + 1)..(e.reviewed_on + MAX_EXCEPTION_DAYS)
    /\ \A e, f \in exceptions :
          e.identifier = f.identifier \/ ExceptionScope(e) = ExceptionScope(f) => e = f

apply_exceptions(d, u, exceptions, image, platform) ==
    {e \in exceptions :
        /\ e.upstream_image = image /\ e.platform = platform
        /\ e.finding \in Inherited(d, u) /\ e.finding.fixed # ""}

unexcepted_fixable(d, u, accepted) ==
    {f \in Inherited(d, u) : f.fixed # "" /\ f \notin {e.finding : e \in accepted}}

\* main exits with 0.
Passes(d, u, exceptions, image, platform, day) ==
    /\ normalize_findings(d) /\ normalize_findings(u)
    /\ SharedMetadataAgrees(d, u)
    /\ load_exceptions(exceptions, day)
    /\ Introduced(d, u) = {}
    /\ unexcepted_fixable(
          d, u, apply_exceptions(d, u, exceptions, image, platform)) = {}

-----------------------------------------------------------------------------
(* What a pass promises, said without the comparison's own sets.           *)

\* Each finding of the derivative stands for one of upstream's, which no other
\* stands for: the same, or the same weakness in an older version.
CarriedOver(d, u) ==
    \E h \in Injection(d, u) : \A f \in d : h[f] = f \/ SameWeakness(f, h[f])

\* Whatever could be fixed has been reviewed for this image and is not expired.
Reviewed(d, exceptions, image, platform, day) ==
    \A f \in d : f.fixed # "" =>
        \E e \in exceptions :
            /\ e.finding = f /\ e.upstream_image = image /\ e.platform = platform
            /\ day \in e.reviewed_on..(e.expires_on - 1)

Explained(d, u, exceptions, image, platform, day) ==
    /\ CarriedOver(d, u)
    /\ Reviewed(d, exceptions, image, platform, day)
=============================================================================

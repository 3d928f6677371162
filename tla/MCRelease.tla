------------------------------ MODULE MCRelease -----------------------------
(***************************************************************************)
(* A small instance of Release: two pushes of the tag, two attempts of     *)
(* each run, two days; reports of at most three findings.                  *)
(***************************************************************************)
EXTENDS Release, FiniteSets

Tag(commit, type, verified, signer) ==
    [commit |-> commit, type |-> type, verified |-> verified, signer |-> signer]

MCTagObjects ==
    {Tag("c1", "tag", "valid", "approved"), Tag("c2", "tag", "valid", "approved"),
     Tag("c2", "tag", "valid", "another"), Tag("c1", "tag", "unsigned", "approved"),
     Tag("c1", "commit", "valid", "approved"), Tag("c3", "tag", "valid", "approved")}

Finding(kind, version, severity, fixed) ==
    [identity |-> [kind |-> kind, place |-> "p", version |-> version],
     severity |-> severity, fixed |-> fixed]

Fixable == Finding("debian", 1, "HIGH", "2")

Findings ==
    {Finding("debian", v, "HIGH", "") : v \in 1..3}
    \cup {Fixable, Finding("debian", 2, "CRITICAL", ""), Finding("other", 1, "HIGH", "")}

MCReports == {r \in SUBSET Findings : Cardinality(r) <= 3}

MCUpstream == [renewer |-> "python", unifi |-> "linuxserver"]

MCExceptions ==
    {[identifier |-> "EX-1", upstream_image |-> "python", platform |-> "linux/amd64",
      finding |-> Fixable, reviewed_on |-> 0, expires_on |-> 1]}
=============================================================================

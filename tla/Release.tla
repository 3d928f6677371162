------------------------------- MODULE Release ------------------------------
(***************************************************************************)
(* The publication of a release tag: the workflow release.yml with the     *)
(* scripts it decides by (release_qualification.py, validate_release_tag   *)
(* .py, verify_release_signature.py, compare_container_vulnerabilities.py, *)
(* release_candidate.py, publish-release-image.sh).                        *)
(*                                                                         *)
(* A push of the tag starts a run for the commit it then pointed to; the   *)
(* tag may be pushed again at any time.  The runs of a tag take turns.  A  *)
(* job may fail at any step, and a run that failed may be run again, whole *)
(* or from the job that failed with the outputs of the jobs before it.     *)
(***************************************************************************)
EXTENDS VulnerabilityGate, Sequences

CONSTANTS
    TagObjects,     \* what the tag may point to
    MainCommits,    \* the commits reachable from origin/main
    Reports,        \* the reports a scan may return
    Exceptions,     \* the reviewed exception registry
    Upstream,       \* kind of image -> its pinned upstream
    MaxPushes, MaxAttempts, MaxDay,   \* bounds
    None

Kinds == {"renewer", "unifi"}

REQUIRED == {"actions", "markdown", "python_lint", "python_tests", "security"}

VARIABLES
    tag,         \* the object refs/tags/<release> points to
    runs,        \* the runs of the workflow, in the order of the pushes
    active,      \* the run in progress, 0 when there is none
    builds,      \* the commit and the image identities of every build so far
    today,
    registry,    \* kind -> the image the release tag names, with who pushed it
    released     \* the images of the GitHub release, or None

vars == <<tag, runs, active, builds, today, registry, released>>

ASSUME BoundsAssumption ==
    MaxPushes \in Nat /\ MaxAttempts \in Nat /\ MaxDay \in Nat

ASSUME ExceptionsAssumption ==
    \A e \in Exceptions : e.reviewed_on \in Nat /\ e.expires_on \in Nat

Commits == {t.commit : t \in TagObjects}

Images ==
    [kind : Kinds, sha : Commits, id : Nat, run : Nat, attempt : Nat,
     explained : {"no", "yes", "wrong"}]

\* What the registry keeps under the release tag.
Entries ==
    [image : Images, run : Nat, attempt : Nat, tag_object : TagObjects \cup {None}]

\* The file that the verify job hands over.
Manifests ==
    [context : [sha : Commits, run_id : Nat, run_attempt : Nat],
     files : [Kinds -> Images \cup {None}]]

ASSUME NullAssumption == None \notin Images \cup Entries \cup Manifests

inspecting == [k \in Kinds |-> IF k = "renewer" THEN "inspect renewer" ELSE "inspect unifi"]
pushing == [k \in Kinds |-> IF k = "renewer" THEN "push renewer" ELSE "push unifi"]

\* Where a run may be: waiting for its turn, ended, or at a step of its job.
Resting == {"queued", "failed", "done"}
VerifySteps == {"verify", "build", "scan", "candidate"}
PublishSteps ==
    {"publish", "handoff", "inspect renewer", "push renewer", "inspect unifi", "push unifi"}

Runs ==
    [sha : Commits, attempt : Nat,
     pc : Resting \cup {"qualification", "release"} \cup VerifySteps \cup PublishSteps,
     job : {"qualification", "verify", "publish", "release"},
     qualified : BOOLEAN, tag_object : TagObjects \cup {None},
     images : [Kinds -> Images \cup {None}], manifest : Manifests \cup {None}]

\* The types: every run the workflow ever had is on record.
TypeOK ==
    /\ tag \in TagObjects \cup {None}
    /\ runs \in Seq(Runs)
    /\ active \in 0..Len(runs)
    /\ builds \in Seq([sha : Commits, id : [Kinds -> Nat]])
    /\ today \in 0..MaxDay
    /\ registry \in [Kinds -> Entries \cup {None}]
    /\ released \in [Kinds -> Images \cup {None}] \cup {None}

NoImages == [k \in Kinds |-> None]

Init ==
    /\ tag = None /\ runs = <<>> /\ active = 0 /\ builds = <<>> /\ today = 0
    /\ registry = NoImages /\ released = None

-----------------------------------------------------------------------------
(* The environment.                                                        *)

\* A maintainer pushes the tag; github.sha is the commit it names.
PushTag(t) ==
    /\ Len(runs) < MaxPushes
    /\ tag' = t
    /\ runs' = Append(runs,
          [sha |-> t.commit, attempt |-> 1, pc |-> "queued", job |-> "qualification",
           qualified |-> FALSE, tag_object |-> None, images |-> NoImages,
           manifest |-> None])
    /\ UNCHANGED <<active, builds, today, registry, released>>

NextDay ==
    /\ today < MaxDay
    /\ today' = today + 1
    /\ UNCHANGED <<tag, runs, active, builds, registry, released>>

\* The concurrency group of the tag: one run at a time.
Begin(r) ==
    /\ active = 0
    /\ runs[r].pc = "queued"
    /\ active' = r
    /\ runs' = [runs EXCEPT ![r].pc = runs[r].job]
    /\ UNCHANGED <<tag, builds, today, registry, released>>

\* A run that failed is run again: all its jobs, or those that failed.
Rerun(r) ==
    /\ runs[r].pc = "failed" /\ runs[r].attempt < MaxAttempts
    /\ runs' = [runs EXCEPT ![r].attempt = @ + 1, ![r].pc = "queued",
                            ![r].job = "qualification", ![r].qualified = FALSE,
                            ![r].tag_object = None, ![r].images = NoImages,
                            ![r].manifest = None]
    /\ UNCHANGED <<tag, active, builds, today, registry, released>>

RerunFailed(r) ==
    /\ runs[r].pc = "failed" /\ runs[r].attempt < MaxAttempts
    /\ runs' = [runs EXCEPT ![r].attempt = @ + 1, ![r].pc = "queued"]
    /\ UNCHANGED <<tag, active, builds, today, registry, released>>

-----------------------------------------------------------------------------
(* The jobs.  run is the run in progress.                                  *)

run == runs[active]

Step(next) == runs' = [runs EXCEPT ![active] = next]

\* A step of a job fails: on what it checks, or for a reason of its own.  The
\* outputs of a job are those of its success.
Fail ==
    /\ active # 0
    /\ Step(IF run.job = "verify"
            THEN [run EXCEPT !.pc = "failed", !.tag_object = None, !.images = NoImages]
            ELSE [run EXCEPT !.pc = "failed"])
    /\ active' = 0
    /\ UNCHANGED <<tag, builds, today, registry, released>>

\* release_qualification.validate: every job's receipt, and each says passed.
validate(needs) ==
    /\ DOMAIN needs = REQUIRED
    /\ \A job \in REQUIRED : needs[job] = [result |-> "success", passed |-> "true"]

Receipts ==
    LET all == [job \in REQUIRED |-> [result |-> "success", passed |-> "true"]]
    IN  {all} \cup
        {[all EXCEPT ![job] = [result |-> r, passed |-> ""]] :
            job \in REQUIRED, r \in {"success", "skipped", "failure"}}

Qualify ==
    /\ active # 0 /\ run.pc = "qualification"
    /\ \E needs \in Receipts :
          /\ validate(needs)
          /\ Step([run EXCEPT !.pc = "verify", !.job = "verify", !.qualified = TRUE])
    /\ UNCHANGED <<tag, active, builds, today, registry, released>>

\* validate_tag_ref, validate_tag_object and verify_release_signature on what
\* the tag points to now, for the commit of the run.
validate_tag_ref(t) == t.type = "tag"

validate_tag_object(t) == t.verified = "valid"

approved_signature(t) == t.signer = "approved"

TagApproved(t, sha) ==
    /\ validate_tag_ref(t) /\ validate_tag_object(t)
    /\ t.commit = sha
    /\ approved_signature(t)
    /\ sha \in MainCommits

VerifyTag ==
    /\ active # 0 /\ run.pc = "verify"
    /\ run.qualified /\ TagApproved(tag, run.sha)
    /\ Step([run EXCEPT !.pc = "build", !.tag_object = tag])
    /\ UNCHANGED <<tag, active, builds, today, registry, released>>

\* A build of a commit may or may not reproduce an image of an earlier one; an
\* identity is the build that first made it.
Identities(k, sha) ==
    {n \in DOMAIN builds : builds[n].sha = sha /\ builds[n].id[k] = n}
    \cup {Len(builds) + 1}

\* The images are built once; explained is filled in by the scan.
Build ==
    /\ active # 0 /\ run.pc = "build"
    /\ \E id \in [Kinds -> 1..(Len(builds) + 1)] :
          /\ \A k \in Kinds : id[k] \in Identities(k, run.sha)
          /\ builds' = Append(builds, [sha |-> run.sha, id |-> id])
          /\ Step([run EXCEPT !.pc = "scan",
                !.images = [k \in Kinds |->
                    [kind |-> k, sha |-> run.sha, id |-> id[k], run |-> active,
                     attempt |-> run.attempt, explained |-> "no"]]])
    /\ UNCHANGED <<tag, active, today, registry, released>>

\* The scans of an image on a day with which scan-container.sh passes, and
\* whether what a pass promises is so.
Scans ==
    {<<q[1], q[2], IF Explained(q[3], q[4], Exceptions, Upstream[q[1]], "linux/amd64", q[2])
                   THEN "yes" ELSE "wrong">> :
        q \in
            {q \in Kinds \X (0..MaxDay) \X Reports \X Reports :
                Passes(q[3], q[4], Exceptions, Upstream[q[1]], "linux/amd64", q[2])}}

Scan(k) ==
    /\ active # 0 /\ run.pc = "scan"
    /\ run.images[k].explained = "no"
    /\ k = "unifi" => run.images["renewer"].explained # "no"
    /\ \E verdict \in {"yes", "wrong"} :
          /\ <<k, today, verdict>> \in Scans
          /\ Step([run EXCEPT !.images[k].explained = verdict,
                              !.pc = IF k = "unifi" THEN "candidate" ELSE "scan"])
    /\ UNCHANGED <<tag, active, builds, today, registry, released>>

\* context: the identity of this attempt, from its environment.
context == [sha |-> run.sha, run_id |-> active, run_attempt |-> run.attempt]

\* release_candidate.create; the archives are the images.
CreateCandidate ==
    /\ active # 0 /\ run.pc = "candidate"
    /\ Step([run EXCEPT !.pc = "publish", !.job = "publish",
                        !.manifest = [context |-> context, files |-> run.images]])
    /\ UNCHANGED <<tag, active, builds, today, registry, released>>

\* The publisher verifies the tag again: the same object, still approved.
PublishTag ==
    /\ active # 0 /\ run.pc = "publish"
    /\ run.qualified /\ TagApproved(tag, run.sha)
    /\ tag = run.tag_object
    /\ Step([run EXCEPT !.pc = "handoff"])
    /\ UNCHANGED <<tag, active, builds, today, registry, released>>

\* release_candidate.verify against the context of this attempt.
SameContext(c) == c = context

Handoff ==
    /\ active # 0 /\ run.pc = "handoff"
    /\ SameContext(run.manifest.context)
    /\ run.manifest.files = run.images
    /\ Step([run EXCEPT !.pc = inspecting["renewer"]])
    /\ UNCHANGED <<tag, active, builds, today, registry, released>>

\* One image after the other, then the release job.
Proceed(k) ==
    Step(IF k = "renewer" THEN [run EXCEPT !.pc = inspecting["unifi"]]
                          ELSE [run EXCEPT !.pc = "release", !.job = "release"])

Published(k) == registry[k].image

\* Mutant of Reusable: any image under the tag will do.
ReusableAny(k) == TRUE

\* An image that is there is reused when it is the tested one.
Reusable(k) == Published(k).id = run.images[k].id

\* Mutant of Unused: the tag is pushed whether or not it names an image.
UnusedOrNot(k) == TRUE

\* docker manifest inspect says that there is none.
Unused(k) == registry[k] = None

Inspect(k) ==
    /\ active # 0 /\ run.pc = inspecting[k]
    /\ \/ Unused(k) /\ Step([run EXCEPT !.pc = pushing[k]])
       \/ registry[k] # None /\ Reusable(k) /\ Proceed(k)
    /\ UNCHANGED <<tag, active, builds, today, registry, released>>

\* The push is complete, whether or not the script lives to see it.
Push(k) ==
    /\ active # 0 /\ run.pc = pushing[k]
    /\ registry' = [registry EXCEPT ![k] =
          [image |-> run.images[k], run |-> active, attempt |-> run.attempt,
           tag_object |-> run.tag_object]]
    /\ Proceed(k)
    /\ UNCHANGED <<tag, active, builds, today, released>>

\* The release job; gh refuses a release that exists.
CreateRelease ==
    /\ active # 0 /\ run.pc = "release"
    /\ released = None
    /\ released' = run.images
    /\ Step([run EXCEPT !.pc = "done"])
    /\ active' = 0
    /\ UNCHANGED <<tag, builds, today, registry>>

Jobs ==
    \/ Fail \/ Qualify \/ VerifyTag \/ Build \/ CreateCandidate \/ PublishTag \/ Handoff
    \/ CreateRelease
    \/ \E k \in Kinds : Scan(k) \/ Inspect(k) \/ Push(k)

Environment ==
    \/ NextDay
    \/ \E t \in TagObjects : PushTag(t)
    \/ \E r \in DOMAIN runs : Begin(r) \/ Rerun(r) \/ RerunFailed(r)

Next == Jobs \/ Environment

Spec == Init /\ [][Next]_vars

-----------------------------------------------------------------------------
\* An image under the release tag was built from a commit that an approved tag
\* object names, passed a scan whose promise holds, and was pushed by the very
\* attempt that built and scanned it: a job that is run again on a later day
\* does not publish what an expired exception once let pass (release_candidate
\* compares run and attempt).
PublishedSound ==
    \A k \in Kinds : registry[k] # None =>
        /\ registry[k].image.explained = "yes"
        /\ TagApproved(registry[k].tag_object, registry[k].image.sha)
        /\ registry[k].image.run = registry[k].run
        /\ registry[k].image.attempt = registry[k].attempt

\* The two images under the tag are images of one build, and the GitHub release
\* names exactly them: an attempt that finds the first image of an earlier,
\* half-finished one goes on only when its own build made the same (publish-
\* release-image.sh compares identities).
OneBuild ==
    /\ (\A k \in Kinds : registry[k] # None) =>
          \E n \in DOMAIN builds : \A k \in Kinds :
              builds[n].sha = Published(k).sha /\ builds[n].id[k] = Published(k).id
    /\ released # None => \A k \in Kinds :
          registry[k] # None /\ released[k].id = Published(k).id

\* A release tag in the registry never comes to name another image, whatever is
\* pushed to git and however often the workflow is run again.
TagNeverMoves ==
    [][\A k \in Kinds : registry[k] # None => registry'[k] = registry[k]]_registry
=============================================================================

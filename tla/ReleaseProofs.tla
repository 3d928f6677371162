---------------------------- MODULE ReleaseProofs ---------------------------
(***************************************************************************)
(* What the vulnerability gate lets pass is explained, for all reports and *)
(* exceptions; and a release keeps its promises for every number of tag    *)
(* pushes, attempts and days.                                              *)
(***************************************************************************)
EXTENDS Release, Integers, TLAPS

-----------------------------------------------------------------------------
(* The vulnerability gate.                                                 *)

\* Each finding that is not upstream's own has exactly one older version there,
\* and no two findings have the same: the comparison's single-candidate rule is
\* what makes the correspondence an injection.
LEMMA CarriedOverByGate ==
    ASSUME NEW d, NEW u, Introduced(d, u) = {}
    PROVE  CarriedOver(d, u)
  <1> DEFINE old(f) == CHOOSE g \in u : PackageUpgrade(f, g, d, u)
             h == [f \in d |-> IF f \in u THEN f ELSE old(f)]
  <1>1. ASSUME NEW f \in d, f \notin u
        PROVE  old(f) \in u /\ PackageUpgrade(f, old(f), d, u)
    BY <1>1 DEF Introduced, Upgraded
  <1> HIDE DEF old
  <1>2. h \in [d -> u]
    BY <1>1
  <1>3. \A f \in d : h[f] = f \/ SameWeakness(f, h[f])
    BY <1>1 DEF PackageUpgrade
  <1>4. ASSUME NEW f \in d, NEW g \in d, h[f] = h[g]
        PROVE  f = g
    <2>1. CASE f \in u /\ g \in u
      BY <1>4, <2>1
    <2>2. CASE f \in u /\ g \notin u
      BY <1>1, <1>4, <2>2 DEF PackageUpgrade
    <2>3. CASE f \notin u /\ g \in u
      BY <1>1, <1>4, <2>3 DEF PackageUpgrade
    <2>4. CASE f \notin u /\ g \notin u
      <3>1. /\ _debian_upgrade_scope(f.identity) = _debian_upgrade_scope(g.identity)
            /\ _upgrade_candidates(d, _debian_upgrade_scope(f.identity)) = {f}
        BY <1>1, <1>4, <2>4 DEF PackageUpgrade, SameWeakness
      <3>2. g \in _upgrade_candidates(d, _debian_upgrade_scope(f.identity))
        BY <3>1 DEF _upgrade_candidates
      <3> QED  BY <3>1, <3>2
    <2> QED  BY <2>1, <2>2, <2>3, <2>4
  <1>5. h \in Injection(d, u)
    BY <1>2, <1>4 DEF Injection, IsInjective
  <1> QED  BY <1>3, <1>5 DEF CarriedOver

\* The days from a review to the day before its exception expires.
LEMMA DayBetween ==
    ASSUME NEW a \in Nat, NEW b \in Nat, NEW x \in Nat, a <= x, x < b
    PROVE  x \in a..(b - 1)
  OBVIOUS

\* Whatever could be fixed is inherited, so that an exception accepts it, and
\* every exception of the registry is of the day.
LEMMA ReviewedByGate ==
    ASSUME NEW d, NEW u, NEW exceptions, NEW image, NEW platform, NEW day \in Nat,
           \A e \in exceptions : e.reviewed_on \in Nat /\ e.expires_on \in Nat,
           Passes(d, u, exceptions, image, platform, day)
    PROVE  Reviewed(d, exceptions, image, platform, day)
  <1> SUFFICES ASSUME NEW f \in d, f.fixed # ""
               PROVE  \E e \in exceptions :
                          /\ e.finding = f /\ e.upstream_image = image
                          /\ e.platform = platform
                          /\ day \in e.reviewed_on..(e.expires_on - 1)
    BY ZenonT(30) DEF Reviewed
  <1>1. f \in Inherited(d, u)
    BY ZenonT(30) DEF Passes, Introduced, Inherited
  <1>2. PICK e \in apply_exceptions(d, u, exceptions, image, platform) : e.finding = f
    BY <1>1, ZenonT(30) DEF Passes, unexcepted_fixable
  <1>3. e \in exceptions /\ e.upstream_image = image /\ e.platform = platform
    BY <1>2, ZenonT(30) DEF apply_exceptions
  <1>4. e.reviewed_on <= day /\ day < e.expires_on
    BY <1>3, ZenonT(30) DEF Passes, load_exceptions
  <1>5. e.reviewed_on \in Nat /\ e.expires_on \in Nat
    BY <1>3, ZenonT(30)
  <1>6. day \in e.reviewed_on..(e.expires_on - 1)
    BY <1>4, <1>5, DayBetween, ZenonT(30)
  <1> QED  BY <1>2, <1>3, <1>6, ZenonT(30)

\* A scan that passes keeps its promise: every finding of the derivative is
\* upstream's or a newer version of one of upstream's that no other finding
\* stands for, and whatever could be fixed has a reviewed exception of the day.
THEOREM GateIsSound ==
    ASSUME NEW d, NEW u, NEW exceptions, NEW image, NEW platform, NEW day \in Nat,
           \A e \in exceptions : e.reviewed_on \in Nat /\ e.expires_on \in Nat,
           Passes(d, u, exceptions, image, platform, day)
    PROVE  Explained(d, u, exceptions, image, platform, day)
  BY CarriedOverByGate, ReviewedByGate DEF Passes, Explained

\* No scan is ever wrong.
LEMMA NoWrongScan ==
    ASSUME NEW k, NEW day, NEW verdict, <<k, day, verdict>> \in Scans
    PROVE  verdict = "yes"
  <1>1. PICK q \in Kinds \X (0..MaxDay) \X Reports \X Reports :
            /\ Passes(q[3], q[4], Exceptions, Upstream[q[1]], "linux/amd64", q[2])
            /\ verdict = IF Explained(q[3], q[4], Exceptions, Upstream[q[1]], "linux/amd64", q[2])
                         THEN "yes" ELSE "wrong"
    BY DEF Scans
  <1>2. q[2] \in Nat
    BY BoundsAssumption
  <1> QED  BY <1>1, <1>2, GateIsSound, ExceptionsAssumption

-----------------------------------------------------------------------------
(* The runs.                                                               *)

\* The images are those of one build of the commit, each identity the number of
\* a build of that commit.
Built(images, sha) ==
    /\ \A k \in Kinds : /\ images[k] \in Images /\ images[k].sha = sha
                        /\ images[k].id \in DOMAIN builds /\ builds[images[k].id].sha = sha
    /\ \E n \in DOMAIN builds :
          builds[n].sha = sha /\ \A k \in Kinds : builds[n].id[k] = images[k].id

\* The image under the tag is the run's.
Stands(k, images) == registry[k] # None /\ Published(k).id = images[k].id

\* The images were built by attempt a of run r, and their scans are among verdicts.
Scanned(images, r, a, verdicts) ==
    \A k \in Kinds : /\ images[k].run = r /\ images[k].attempt = a
                     /\ images[k].explained \in verdicts

JobOf(R) ==
    /\ R.pc \in VerifySteps => R.job = "verify"
    /\ R.pc \in PublishSteps => R.job = "publish"
    /\ R.pc = "qualification" => R.job = "qualification"
    /\ R.pc = "release" => R.job = "release"

\* What is so of run r when its state is R.
Sound(r, R) ==
    /\ R.pc \notin Resting => r = active
    /\ JobOf(R)
    /\ R.pc \in {"scan", "candidate"} =>
           /\ Built(R.images, R.sha)
           /\ Scanned(R.images, r, R.attempt, IF R.pc = "scan" THEN {"no", "yes"} ELSE {"yes"})
    /\ R.job \in {"publish", "release"} =>
           /\ R.manifest \in Manifests
           /\ Built(R.images, R.sha)
           /\ Scanned(R.images, r, R.manifest.context.run_attempt, {"yes"})
    /\ R.pc \in PublishSteps \ {"publish"} => TagApproved(R.tag_object, R.sha)
    /\ R.pc \in PublishSteps \ {"publish", "handoff"} =>
           R.manifest.context.run_attempt = R.attempt
    /\ \A k \in Kinds : R.pc = pushing[k] => registry[k] = None
    /\ R.pc \in {"inspect unifi", "push unifi"} => Stands("renewer", R.images)
    /\ R.job = "release" => \A k \in Kinds : Stands(k, R.images)

\* The images are pushed in order, and have the identities of builds.
RegistryOK ==
    /\ registry["unifi"] # None => registry["renewer"] # None
    /\ \A k \in Kinds : registry[k] # None =>
          Published(k).id \in DOMAIN builds /\ builds[Published(k).id].sha = Published(k).sha

Releasing ==
    /\ TypeOK
    /\ \A r \in DOMAIN runs : Sound(r, runs[r])
    /\ RegistryOK /\ PublishedSound /\ OneBuild

\* What is so of a run outlasts new builds, new images and the steps of others.
LEMMA Lasting ==
    ASSUME NEW r, NEW R, Sound(r, R),
           \A n \in DOMAIN builds : n \in DOMAIN builds' /\ builds'[n] = builds[n],
           \A k \in Kinds : registry[k] # None => registry'[k] = registry[k],
           R.pc \in Resting \/ (active' = active /\ registry' = registry)
    PROVE  Sound(r, R)'
  <1>1. Built(R.images, R.sha) => Built(R.images, R.sha)'
    BY DEF Built
  <1>2. \A k \in Kinds : Stands(k, R.images) => Stands(k, R.images)'
    BY DEF Stands, Published
  <1>3. ASSUME NEW k \in Kinds, R.pc = pushing[k] PROVE registry'[k] = None
    BY <1>3, ZenonT(30) DEF Sound, pushing, Kinds, Resting
  <1> QED
    BY <1>1, <1>2, <1>3, ZenonT(30) DEF Sound, Kinds, Scanned, JobOf, TagApproved

\* A step of the run in progress: the others are not touched.
LEMMA OneAtATime ==
    ASSUME Releasing, NEW a \in Nat \ {0}, active = a,
           NEW next \in Runs, Step(next), active' \in {0, a},
           \A n \in DOMAIN builds : n \in DOMAIN builds' /\ builds'[n] = builds[n],
           \A k \in Kinds : registry[k] # None => registry'[k] = registry[k],
           Sound(a, next)'
    PROVE  /\ runs' \in Seq(Runs) /\ active' \in 0..Len(runs')
           /\ \A r \in DOMAIN runs' : Sound(r, runs[r])'
  <1>1. active \in DOMAIN runs /\ runs \in Seq(Runs)
    BY DEF Releasing, TypeOK
  <1>2. runs' = [runs EXCEPT ![a] = next]
    BY DEF Step
  <1>3. runs' \in Seq(Runs) /\ Len(runs') = Len(runs) /\ DOMAIN runs' = DOMAIN runs
    BY <1>1, <1>2
  <1>4. ASSUME NEW r \in DOMAIN runs, r # a PROVE Sound(r, runs[r])'
    <2> DEFINE R == runs[r]
    <2>1. Sound(r, R) /\ runs'[r] = R
      BY <1>1, <1>2, <1>4 DEF Releasing
    <2>2. R.pc \in Resting
      BY <1>4, <2>1, ZenonT(30) DEF Sound
    <2>3. ASSUME NEW S, S = R PROVE Sound(r, S)'
      BY <2>1, <2>2, <2>3, Lasting
    <2> QED  BY <2>1, <2>3
  <1>5. active' \in 0..Len(runs')
    BY <1>3 DEF Releasing, TypeOK
  <1>6. runs'[a] = next
    BY <1>1, <1>2
  <1> QED  BY <1>3, <1>4, <1>5, <1>6

\* New builds leave what is published as it is.
LEMMA PublishedLasts ==
    ASSUME Releasing, UNCHANGED <<registry, released>>,
           \A n \in DOMAIN builds : n \in DOMAIN builds' /\ builds'[n] = builds[n]
    PROVE  RegistryOK' /\ PublishedSound' /\ OneBuild'
  <1>1. RegistryOK'
    BY DEF Releasing, RegistryOK, Published, Kinds
  <1>2. PublishedSound'
    BY DEF Releasing, PublishedSound, TagApproved
  <1>3. OneBuild'
    BY DEF Releasing, OneBuild, Published
  <1> QED  BY <1>1, <1>2, <1>3

\* A step that changes nothing but the run in progress.
LEMMA RunStep ==
    ASSUME Releasing, NEW a \in Nat \ {0}, active = a,
           NEW next \in Runs, Step(next), Sound(a, next),
           UNCHANGED <<tag, active, builds, today, registry, released>>
    PROVE  Releasing'
  <1>1. Sound(a, next)'
    BY Lasting
  <1>2. RegistryOK' /\ PublishedSound' /\ OneBuild'
    BY PublishedLasts
  <1>3. runs' \in Seq(Runs) /\ active' \in 0..Len(runs') /\ \A r \in DOMAIN runs' : Sound(r, runs[r])'
    BY <1>1, OneAtATime
  <1> QED  BY <1>2, <1>3 DEF Releasing, TypeOK

\* The run in progress is one of the runs.
LEMMA InProgress ==
    ASSUME Releasing, active # 0
    PROVE  /\ active \in Nat \ {0} /\ active \in DOMAIN runs
           /\ run \in Runs /\ Sound(active, run)
  <1>1. active \in Nat \ {0} /\ active \in DOMAIN runs /\ runs \in Seq(Runs)
    BY DEF Releasing, TypeOK
  <1> QED  BY <1>1 DEF Releasing, run

\* The steps of the verify job up to the build.
LEMMA VerifyJob == Releasing /\ (Qualify \/ VerifyTag) => Releasing'
  <1> SUFFICES ASSUME Releasing, Qualify \/ VerifyTag PROVE Releasing'
    OBVIOUS
  <1>1. active # 0
    BY DEF Qualify, VerifyTag
  <1>2. active \in Nat \ {0} /\ run \in Runs /\ Sound(active, run)
    BY <1>1, InProgress
  <1>3. CASE Qualify
    <2> DEFINE next == [run EXCEPT !.pc = "verify", !.job = "verify", !.qualified = TRUE]
    <2>1. next \in Runs /\ next.pc = "verify" /\ next.job = "verify"
      BY <1>2, ZenonT(30) DEF Runs, VerifySteps
    <2> HIDE DEF next
    <2>2. Sound(active, next)
      BY <2>1 DEF Sound, JobOf, VerifySteps, PublishSteps, pushing, Kinds
    <2>3. Step(next) /\ UNCHANGED <<tag, active, builds, today, registry, released>>
      BY <1>3 DEF Qualify, next
    <2> QED  BY <1>2, <2>1, <2>2, <2>3, RunStep
  <1>4. CASE VerifyTag
    <2> DEFINE next == [run EXCEPT !.pc = "build", !.tag_object = tag]
    <2>1. next \in Runs /\ next.pc = "build" /\ next.job = "verify"
      BY <1>2, <1>4, ZenonT(30) DEF Runs, VerifySteps, Releasing, TypeOK, VerifyTag, Sound, JobOf
    <2> HIDE DEF next
    <2>2. Sound(active, next)
      BY <2>1 DEF Sound, JobOf, VerifySteps, PublishSteps, pushing, Kinds
    <2>3. Step(next) /\ UNCHANGED <<tag, active, builds, today, registry, released>>
      BY <1>4 DEF VerifyTag, next
    <2> QED  BY <1>2, <2>1, <2>2, <2>3, RunStep
  <1> QED  BY <1>3, <1>4

\* A scan: its verdict is right.
LEMMA ScanStep == ASSUME Releasing, NEW k \in Kinds, Scan(k) PROVE Releasing'
  <1>1. active \in Nat \ {0} /\ run \in Runs /\ Sound(active, run) /\ run.pc = "scan"
    BY InProgress DEF Scan
  <1>2. PICK verdict \in {"yes", "wrong"} :
            /\ <<k, today, verdict>> \in Scans
            /\ Step([run EXCEPT !.images[k].explained = verdict,
                                !.pc = IF k = "unifi" THEN "candidate" ELSE "scan"])
    BY ZenonT(30) DEF Scan
  <1>3. verdict = "yes"
    BY <1>2, NoWrongScan
  <1> DEFINE images == [run.images EXCEPT ![k].explained = "yes"]
             next == [run EXCEPT !.images[k].explained = "yes",
                                 !.pc = IF k = "unifi" THEN "candidate" ELSE "scan"]
  <1>4. Built(run.images, run.sha) /\ Scanned(run.images, active, run.attempt, {"no", "yes"})
    BY <1>1 DEF Sound
  <1>5. \A j \in Kinds : /\ images[j] \in Images
                         /\ images[j].sha = run.images[j].sha
                         /\ images[j].id = run.images[j].id
                         /\ images[j].run = run.images[j].run
                         /\ images[j].attempt = run.images[j].attempt
                         /\ images[j].explained = IF j = k THEN "yes" ELSE run.images[j].explained
    BY <1>1, <1>4 DEF Built, Images, Runs
  <1>6. /\ next \in Runs /\ next.images = images /\ next.sha = run.sha
        /\ next.attempt = run.attempt /\ next.job = "verify"
        /\ next.pc = IF k = "unifi" THEN "candidate" ELSE "scan"
    BY <1>1, <1>5, ZenonT(30) DEF Runs, VerifySteps, Sound, JobOf
  <1> HIDE DEF next, images
  <1>7. Built(images, run.sha)
    BY <1>4, <1>5 DEF Built
  <1>8. Scanned(images, active, run.attempt, IF next.pc = "scan" THEN {"no", "yes"} ELSE {"yes"})
    <2>1. k = "unifi" => run.images["renewer"].explained = "yes"
      BY <1>4 DEF Scan, Scanned, Kinds
    <2> QED  BY <1>4, <1>5, <1>6, <2>1 DEF Scanned, Kinds
  <1>9. Sound(active, next)
    BY <1>6, <1>7, <1>8 DEF Sound, JobOf, VerifySteps, PublishSteps, pushing, Kinds
  <1>10. Step(next) /\ UNCHANGED <<tag, active, builds, today, registry, released>>
    BY <1>2, <1>3 DEF Scan, next
  <1> QED  BY <1>1, <1>6, <1>9, <1>10, RunStep

\* The hand-over from the verify job to the publisher.
LEMMA HandOver == Releasing /\ (CreateCandidate \/ PublishTag \/ Handoff) => Releasing'
  <1> SUFFICES ASSUME Releasing, CreateCandidate \/ PublishTag \/ Handoff PROVE Releasing'
    OBVIOUS
  <1>1. active # 0
    BY DEF CreateCandidate, PublishTag, Handoff
  <1>2. active \in Nat \ {0} /\ run \in Runs /\ Sound(active, run)
    BY <1>1, InProgress
  <1>3. CASE CreateCandidate
    <2> DEFINE m == [context |-> context, files |-> run.images]
               next == [run EXCEPT !.pc = "publish", !.job = "publish", !.manifest = m]
    <2>1. m \in Manifests /\ m.context.run_attempt = run.attempt
      BY <1>2 DEF Manifests, context, Runs
    <2> HIDE DEF m
    <2>2. /\ next \in Runs /\ next.pc = "publish" /\ next.job = "publish"
          /\ next.manifest = m /\ next.images = run.images /\ next.sha = run.sha
      BY <1>2, <2>1, ZenonT(30) DEF Runs, PublishSteps
    <2>3. Built(run.images, run.sha) /\ Scanned(run.images, active, run.attempt, {"yes"})
      BY <1>2, <1>3 DEF CreateCandidate, Sound
    <2>4. Step(next) /\ UNCHANGED <<tag, active, builds, today, registry, released>>
      BY <1>3 DEF CreateCandidate, m
    <2> HIDE DEF next
    <2>5. Sound(active, next)
      BY <2>1, <2>2, <2>3 DEF Sound, JobOf, VerifySteps, PublishSteps, pushing, Kinds
    <2> QED  BY <1>2, <2>2, <2>4, <2>5, RunStep
  <1>4. CASE PublishTag
    <2> DEFINE next == [run EXCEPT !.pc = "handoff"]
    <2>1. /\ next \in Runs /\ next.pc = "handoff" /\ next.job = "publish"
          /\ next.manifest = run.manifest /\ next.images = run.images /\ next.sha = run.sha
          /\ next.tag_object = run.tag_object
      BY <1>2, <1>4, ZenonT(30) DEF PublishTag, Runs, PublishSteps, Sound, JobOf
    <2>2. TagApproved(run.tag_object, run.sha)
      BY <1>4 DEF PublishTag
    <2>3. /\ run.manifest \in Manifests /\ Built(run.images, run.sha)
          /\ Scanned(run.images, active, run.manifest.context.run_attempt, {"yes"})
      BY <1>2, <1>4 DEF PublishTag, Sound, JobOf, PublishSteps
    <2>4. Step(next) /\ UNCHANGED <<tag, active, builds, today, registry, released>>
      BY <1>4 DEF PublishTag
    <2> HIDE DEF next
    <2>5. Sound(active, next)
      BY <2>1, <2>2, <2>3 DEF Sound, JobOf, VerifySteps, PublishSteps, pushing, Kinds
    <2> QED  BY <1>2, <2>1, <2>4, <2>5, RunStep
  <1>5. CASE Handoff
    <2> DEFINE next == [run EXCEPT !.pc = inspecting["renewer"]]
    <2>1. /\ next \in Runs /\ next.pc = "inspect renewer" /\ next.job = "publish"
          /\ next.manifest = run.manifest /\ next.images = run.images /\ next.sha = run.sha
          /\ next.tag_object = run.tag_object /\ next.attempt = run.attempt
      BY <1>2, <1>5, ZenonT(30) DEF Handoff, Runs, PublishSteps, Sound, JobOf, inspecting, Kinds
    <2>2. run.manifest.context.run_attempt = run.attempt
      BY <1>5 DEF Handoff, SameContext, context
    <2>3. /\ run.manifest \in Manifests /\ Built(run.images, run.sha)
          /\ Scanned(run.images, active, run.manifest.context.run_attempt, {"yes"})
          /\ TagApproved(run.tag_object, run.sha)
      BY <1>2, <1>5 DEF Handoff, Sound, JobOf, PublishSteps
    <2>4. Step(next) /\ UNCHANGED <<tag, active, builds, today, registry, released>>
      BY <1>5 DEF Handoff
    <2> HIDE DEF next
    <2>5. Sound(active, next)
      BY <2>1, <2>2, <2>3, ZenonT(30) DEF Sound, JobOf, VerifySteps, PublishSteps, pushing, Kinds
    <2> QED  BY <1>2, <2>1, <2>4, <2>5, RunStep, ZenonT(30)
  <1> QED  BY <1>3, <1>4, <1>5

\* The run as publish-release-image.sh sees it, for either image.
Publishing ==
    /\ run.job = "publish" /\ run.manifest \in Manifests
    /\ Built(run.images, run.sha)
    /\ Scanned(run.images, active, run.attempt, {"yes"})
    /\ run.manifest.context.run_attempt = run.attempt
    /\ TagApproved(run.tag_object, run.sha)

\* What is so when an image is inspected or pushed.
LEMMA AtPublish ==
    ASSUME Releasing, active # 0, NEW k \in Kinds, run.pc \in {inspecting[k], pushing[k]}
    PROVE  /\ Publishing
           /\ k = "unifi" => Stands("renewer", run.images)
           /\ run.pc = pushing[k] => registry[k] = None
  <1>1. Sound(active, run)
    BY InProgress
  <1>2. /\ run.pc \in PublishSteps \ {"publish", "handoff"}
        /\ k = "unifi" => run.pc \in {"inspect unifi", "push unifi"}
    BY ZenonT(30) DEF inspecting, pushing, Kinds, PublishSteps
  <1> QED  BY <1>1, <1>2, ZenonT(30) DEF Sound, JobOf, Publishing

\* The run goes on once the image stands under the tag.
LEMMA Proceeding ==
    ASSUME Releasing, active # 0, Publishing, NEW k \in Kinds, Proceed(k)
    PROVE  \E next \in Runs :
              /\ Step(next)
              /\ next.pc = (IF k = "renewer" THEN "inspect unifi" ELSE "release")
              /\ next.job = (IF k = "renewer" THEN "publish" ELSE "release")
              /\ next.manifest = run.manifest /\ next.images = run.images
              /\ next.sha = run.sha /\ next.attempt = run.attempt
              /\ next.tag_object = run.tag_object
  <1>1. run \in Runs
    BY InProgress
  <1>2. CASE k = "renewer"
    <2> DEFINE next == [run EXCEPT !.pc = "inspect unifi"]
    <2>1. next \in Runs
      BY <1>1, ZenonT(30) DEF Runs, PublishSteps
    <2>2. Step(next)
      BY <1>2, ZenonT(30) DEF Proceed, inspecting, Kinds
    <2> QED  BY <1>1, <1>2, <2>1, <2>2, ZenonT(30) DEF Runs, Publishing
  <1>3. CASE k # "renewer"
    <2> DEFINE next == [run EXCEPT !.pc = "release", !.job = "release"]
    <2>1. next \in Runs
      BY <1>1, ZenonT(30) DEF Runs
    <2>2. Step(next)
      BY <1>3 DEF Proceed
    <2> QED  BY <1>1, <1>3, <2>1, <2>2, ZenonT(30) DEF Runs
  <1> QED  BY <1>2, <1>3, ZenonT(30)

\* An image that is there is the run's own, or none is and it will be pushed.
LEMMA InspectStep == ASSUME Releasing, NEW k \in Kinds, Inspect(k) PROVE Releasing'
  <1>1. active # 0 /\ run.pc = inspecting[k]
    BY DEF Inspect
  <1>2. active \in Nat \ {0} /\ run \in Runs /\ Sound(active, run)
    BY <1>1, InProgress
  <1>3. Publishing /\ (k = "unifi" => Stands("renewer", run.images))
    BY <1>1, AtPublish
  <1>4. UNCHANGED <<tag, active, builds, today, registry, released>>
    BY DEF Inspect
  <1>5. CASE Unused(k) /\ Step([run EXCEPT !.pc = pushing[k]])
    <2> DEFINE next == [run EXCEPT !.pc = pushing[k]]
    <2>1. /\ next \in Runs /\ next.pc = pushing[k] /\ next.job = "publish"
          /\ next.manifest = run.manifest /\ next.images = run.images /\ next.sha = run.sha
          /\ next.tag_object = run.tag_object /\ next.attempt = run.attempt
      BY <1>2, <1>3, ZenonT(30) DEF Publishing, Runs, PublishSteps, pushing, Kinds
    <2> HIDE DEF next
    <2>2. pushing[k] \in PublishSteps \ {"publish", "handoff"}
      BY DEF pushing, PublishSteps, Kinds
    <2>3. \A j \in Kinds : pushing[k] = pushing[j] => registry[j] = None
      BY <1>5, ZenonT(30) DEF pushing, Kinds, Unused
    <2>4. pushing[k] \in {"inspect unifi", "push unifi"} => k = "unifi"
      BY DEF pushing, Kinds
    <2>5. JobOf(next) /\ next.pc \notin {"scan", "candidate"}
      BY <2>1, <2>2, ZenonT(30) DEF JobOf, PublishSteps, VerifySteps
    <2>6. Sound(active, next)
      BY <1>3, <2>1, <2>2, <2>3, <2>4, <2>5, ZenonT(30) DEF Sound, Publishing
    <2> QED  BY <1>2, <1>4, <1>5, <2>1, <2>6, RunStep DEF next
  <1>6. CASE registry[k] # None /\ Reusable(k) /\ Proceed(k)
    <2>1. Stands(k, run.images)
      BY <1>6 DEF Stands, Reusable
    <2>2. PICK next \in Runs :
              /\ Step(next)
              /\ next.pc = (IF k = "renewer" THEN "inspect unifi" ELSE "release")
              /\ next.job = (IF k = "renewer" THEN "publish" ELSE "release")
              /\ next.manifest = run.manifest /\ next.images = run.images
              /\ next.sha = run.sha /\ next.attempt = run.attempt
              /\ next.tag_object = run.tag_object
      BY <1>1, <1>3, <1>6, Proceeding, ZenonT(30)
    <2>3. Sound(active, next)
      BY <1>3, <2>1, <2>2, ZenonT(30)
      DEF Sound, Publishing, JobOf, VerifySteps, PublishSteps, pushing, Kinds
    <2> QED  BY <1>2, <1>4, <2>2, <2>3, RunStep, ZenonT(30)
  <1> QED  BY <1>5, <1>6 DEF Inspect

\* A push: the tag named no image, and both images are of one build.
LEMMA PushStep == ASSUME Releasing, NEW k \in Kinds, Push(k) PROVE Releasing'
  <1>1. active # 0 /\ run.pc = pushing[k]
    BY DEF Push
  <1>2. active \in Nat \ {0} /\ run \in Runs /\ Sound(active, run)
    BY <1>1, InProgress
  <1>3. /\ Publishing /\ registry[k] = None
        /\ k = "unifi" => Stands("renewer", run.images)
    BY <1>1, AtPublish
  <1> DEFINE entry == [image |-> run.images[k], run |-> active, attempt |-> run.attempt,
                       tag_object |-> run.tag_object]
  <1>4. entry \in Entries /\ entry # None
    BY <1>2, <1>3, NullAssumption DEF Entries, Publishing, Built, Runs
  <1>5. /\ registry' = [registry EXCEPT ![k] = entry] /\ Proceed(k)
        /\ UNCHANGED <<tag, active, builds, today, released>>
    BY DEF Push
  <1>6. /\ registry' \in [Kinds -> Entries \cup {None}] /\ registry'[k] = entry
        /\ \A j \in Kinds \ {k} : registry'[j] = registry[j]
    BY <1>4, <1>5 DEF Releasing, TypeOK
  <1>7. \A j \in Kinds : registry[j] # None => registry'[j] = registry[j]
    BY <1>3, <1>6
  <1>8. entry.image = run.images[k] /\ entry.run = active /\ entry.attempt = run.attempt
        /\ entry.tag_object = run.tag_object
    OBVIOUS
  <1> HIDE DEF entry
  <1>9. PICK next \in Runs :
            /\ Step(next)
            /\ next.pc = (IF k = "renewer" THEN "inspect unifi" ELSE "release")
            /\ next.job = (IF k = "renewer" THEN "publish" ELSE "release")
            /\ next.manifest = run.manifest /\ next.images = run.images
            /\ next.sha = run.sha /\ next.attempt = run.attempt
            /\ next.tag_object = run.tag_object
    BY <1>1, <1>3, <1>5, Proceeding, ZenonT(30)
  <1> DEFINE Here(j, images) == registry'[j] # None /\ registry'[j].image.id = images[j].id
  <1>10. Here(k, next.images) /\ (k = "unifi" => Here("renewer", next.images))
    BY <1>3, <1>4, <1>6, <1>7, <1>8, <1>9, ZenonT(30) DEF Stands, Published, Kinds
  <1>11. Built(next.images, next.sha) /\ builds' = builds
    BY <1>3, <1>5, <1>9, ZenonT(30) DEF Publishing
  <1>12. PICK a \in Nat \ {0} : active = a /\ active' = a
    BY <1>2, <1>5, ZenonT(30)
  <1>13. Sound(a, next)'
    <2>1. Built(next.images, next.sha)'
      BY <1>11 DEF Built
    <2>2. Stands(k, next.images)' /\ (k = "unifi" => Stands("renewer", next.images)')
      BY <1>10 DEF Stands, Published
    <2> QED
      BY <1>3, <1>9, <1>12, <2>1, <2>2, ZenonT(30)
      DEF Sound, Publishing, JobOf, VerifySteps, PublishSteps, pushing, Kinds, Scanned,
          TagApproved
  <1>14. /\ runs' \in Seq(Runs) /\ active' \in 0..Len(runs')
         /\ \A r \in DOMAIN runs' : Sound(r, runs[r])'
    BY <1>5, <1>7, <1>9, <1>12, <1>13, OneAtATime, ZenonT(30)
  <1>15. TypeOK'
    BY <1>5, <1>6, <1>14 DEF Releasing, TypeOK
  <1>16. /\ run.images[k].id \in DOMAIN builds /\ run.images[k].sha = run.sha
         /\ builds[run.images[k].id].sha = run.sha
    BY <1>3 DEF Publishing, Built
  <1>17. RegistryOK'
    <2>1. registry'["unifi"] # None => registry'["renewer"] # None
      BY <1>3, <1>4, <1>6 DEF Releasing, RegistryOK, Stands, Kinds
    <2>2. ASSUME NEW j \in Kinds, registry'[j] # None
          PROVE  /\ registry'[j].image.id \in DOMAIN builds
                 /\ builds[registry'[j].image.id].sha = registry'[j].image.sha
      BY <1>6, <1>8, <1>16, <2>2, ZenonT(30) DEF Releasing, RegistryOK, Published
    <2> QED  BY <1>5, <2>1, <2>2 DEF RegistryOK, Published
  <1>18. PublishedSound'
    <2>1. /\ entry.image.explained = "yes" /\ entry.image.run = entry.run
          /\ entry.image.attempt = entry.attempt
          /\ TagApproved(entry.tag_object, entry.image.sha)
      BY <1>3, <1>8, <1>16 DEF Publishing, Scanned
    <2> QED  BY <1>6, <2>1, ZenonT(30) DEF Releasing, PublishedSound, TagApproved
  <1>19. OneBuild'
    <2>1. CASE k = "renewer"
      <3>1. registry'["unifi"] = None
        BY <1>3, <1>6, <2>1 DEF Releasing, RegistryOK, Kinds
      <3>2. released = None
        BY <1>3, <2>1 DEF Releasing, OneBuild, Kinds
      <3> QED  BY <1>5, <3>1, <3>2 DEF OneBuild, Kinds
    <2>2. CASE k = "unifi"
      <3>1. PICK n \in DOMAIN builds :
                builds[n].sha = run.sha /\ \A j \in Kinds : builds[n].id[j] = run.images[j].id
        BY <1>3 DEF Publishing, Built
      <3>2. /\ registry["renewer"] # None /\ Published("renewer").id = run.images["renewer"].id
            /\ builds[Published("renewer").id].sha = Published("renewer").sha
        BY <1>3, <2>2 DEF Releasing, RegistryOK, Stands, Kinds
      <3>3. builds[run.images["renewer"].id].sha = run.sha
        BY <1>3 DEF Publishing, Built, Kinds
      <3>4. \A j \in Kinds : /\ builds[n].sha = registry'[j].image.sha
                             /\ builds[n].id[j] = registry'[j].image.id
        BY <1>6, <1>8, <1>16, <2>2, <3>1, <3>2, <3>3 DEF Published, Kinds
      <3>5. released = None
        BY <1>3, <2>2 DEF Releasing, OneBuild, Kinds
      <3> QED  BY <1>5, <3>1, <3>4, <3>5 DEF OneBuild, Published
    <2> QED  BY <2>1, <2>2 DEF Kinds
  <1> QED  BY <1>14, <1>15, <1>17, <1>18, <1>19 DEF Releasing

\* A build: the images of a commit are new or those of an earlier build of it.
LEMMA BuildStep == Releasing /\ Build => Releasing'
  <1> SUFFICES ASSUME Releasing, Build PROVE Releasing'
    OBVIOUS
  <1>1. active # 0 /\ run.pc = "build" /\ UNCHANGED <<tag, active, today, registry, released>>
    BY DEF Build
  <1>2. active \in Nat \ {0} /\ run \in Runs /\ Sound(active, run)
    BY <1>1, InProgress, ZenonT(30)
  <1>3. PICK id \in [Kinds -> 1..(Len(builds) + 1)] :
            /\ \A k \in Kinds : id[k] \in Identities(k, run.sha)
            /\ builds' = Append(builds, [sha |-> run.sha, id |-> id])
            /\ Step([run EXCEPT !.pc = "scan",
                  !.images = [k \in Kinds |->
                      [kind |-> k, sha |-> run.sha, id |-> id[k], run |-> active,
                       attempt |-> run.attempt, explained |-> "no"]]])
    BY ZenonT(30) DEF Build
  <1> DEFINE b == [sha |-> run.sha, id |-> id]
             images == [k \in Kinds |->
                           [kind |-> k, sha |-> run.sha, id |-> id[k], run |-> active,
                            attempt |-> run.attempt, explained |-> "no"]]
             next == [run EXCEPT !.pc = "scan", !.images = images]
             B == [sha : Commits, id : [Kinds -> Nat]]
  <1>4. builds \in Seq(B) /\ Len(builds) \in Nat
    BY DEF Releasing, TypeOK
  <1>5. id \in [Kinds -> Nat] /\ b \in B /\ b.sha = run.sha /\ b.id = id
    BY <1>2, <1>3, <1>4 DEF Runs
  <1> HIDE DEF b, B
  <1>6. /\ builds' \in Seq(B) /\ Len(builds') = Len(builds) + 1
        /\ builds'[Len(builds) + 1] = b
        /\ \A n \in DOMAIN builds : n \in DOMAIN builds' /\ builds'[n] = builds[n]
        /\ Len(builds) + 1 \in DOMAIN builds'
    BY <1>3, <1>4, <1>5 DEF b
  <1>7. \A k \in Kinds : /\ images[k] \in Images /\ images[k].sha = run.sha
                         /\ images[k].id = id[k] /\ images[k].run = active
                         /\ images[k].attempt = run.attempt /\ images[k].explained = "no"
    BY <1>2, <1>5 DEF Images, Runs
  <1>8. \A k \in Kinds : id[k] \in DOMAIN builds' /\ builds'[id[k]].sha = run.sha
    BY <1>3, <1>5, <1>6, ZenonT(30) DEF Identities
  <1>9. /\ next \in Runs /\ next.pc = "scan" /\ next.job = "verify" /\ next.images = images
        /\ next.sha = run.sha /\ next.attempt = run.attempt
    BY <1>1, <1>2, <1>7, ZenonT(30) DEF Runs, VerifySteps, Sound, JobOf
  <1>10. Step(next)
    BY <1>3
  <1> HIDE DEF images, next
  <1>11. PICK a \in Nat \ {0}, N \in Runs : active = a /\ active' = a /\ N = next
    BY <1>1, <1>2, <1>9, ZenonT(30)
  <1>12. Built(N.images, N.sha)'
    <2>1. N.images = images /\ N.sha = run.sha
      BY <1>9, <1>11
    <2>2. LET n == Len(builds) + 1
          IN  /\ n \in DOMAIN builds' /\ builds'[n].sha = run.sha
              /\ \A k \in Kinds : builds'[n].id[k] = images[k].id
      BY <1>5, <1>6, <1>7, ZenonT(30)
    <2> QED  BY <1>7, <1>8, <2>1, <2>2, ZenonT(30) DEF Built
  <1>13. Scanned(N.images, a, N.attempt, {"no", "yes"})
    BY <1>7, <1>9, <1>11, ZenonT(30) DEF Scanned
  <1>14. Sound(a, N)'
    BY <1>9, <1>11, <1>12, <1>13, ZenonT(30)
    DEF Sound, JobOf, VerifySteps, PublishSteps, pushing, Kinds, Scanned
  <1>15. /\ runs' \in Seq(Runs) /\ active' \in 0..Len(runs')
         /\ \A r \in DOMAIN runs' : Sound(r, runs[r])'
    BY <1>1, <1>6, <1>10, <1>11, <1>14, OneAtATime
  <1>16. RegistryOK' /\ PublishedSound' /\ OneBuild'
    BY <1>1, <1>6, PublishedLasts
  <1> QED  BY <1>1, <1>6, <1>15, <1>16 DEF Releasing, TypeOK, B

\* The end of the run in progress, by failure or by the release.
LEMMA EndStep == Releasing /\ (Fail \/ CreateRelease) => Releasing'
  <1> SUFFICES ASSUME Releasing, Fail \/ CreateRelease PROVE Releasing'
    OBVIOUS
  <1>1. active # 0 /\ active' = 0 /\ UNCHANGED <<tag, builds, today, registry>>
    BY DEF Fail, CreateRelease
  <1>2. active \in Nat \ {0} /\ run \in Runs /\ Sound(active, run)
    BY <1>1, InProgress
  <1>3. CASE Fail
    <2> DEFINE next == IF run.job = "verify"
                       THEN [run EXCEPT !.pc = "failed", !.tag_object = None, !.images = NoImages]
                       ELSE [run EXCEPT !.pc = "failed"]
    <2>1. /\ next \in Runs /\ next.pc = "failed" /\ next.job = run.job
          /\ run.job # "verify" => /\ next.manifest = run.manifest /\ next.images = run.images
                                   /\ next.sha = run.sha
      <3>1. CASE run.job = "verify"
        BY <1>2, <3>1, ZenonT(30) DEF Runs, NoImages, Resting
      <3>2. CASE run.job # "verify"
        BY <1>2, <3>2 DEF Runs, Resting
      <3> QED  BY <3>1, <3>2
    <2>2. Step(next) /\ UNCHANGED released
      BY <1>3 DEF Fail
    <2> HIDE DEF next
    <2>3. Sound(active, next)
      BY <1>2, <2>1, ZenonT(30)
      DEF Sound, JobOf, Resting, VerifySteps, PublishSteps, pushing, Kinds
    <2>4. PICK a \in Nat \ {0}, N \in Runs : active = a /\ N = next
      BY <1>2, <2>1
    <2>5. Sound(a, N)'
      BY <1>1, <2>1, <2>3, <2>4, Lasting DEF Resting
    <2>6. /\ runs' \in Seq(Runs) /\ active' \in 0..Len(runs')
          /\ \A r \in DOMAIN runs' : Sound(r, runs[r])'
      BY <1>1, <2>2, <2>4, <2>5, OneAtATime
    <2>7. RegistryOK' /\ PublishedSound' /\ OneBuild'
      BY <1>1, <2>2, PublishedLasts
    <2> QED  BY <1>1, <2>2, <2>6, <2>7 DEF Releasing, TypeOK
  <1>4. CASE CreateRelease
    <2> DEFINE next == [run EXCEPT !.pc = "done"]
    <2>1. /\ next \in Runs /\ next.pc = "done" /\ next.job = run.job
          /\ next.manifest = run.manifest /\ next.images = run.images /\ next.sha = run.sha
      BY <1>2 DEF Runs, Resting
    <2>2. Step(next) /\ released' = run.images /\ run.job = "release"
      BY <1>2, <1>4 DEF CreateRelease, Sound, JobOf
    <2> HIDE DEF next
    <2>3. Sound(active, next)
      BY <1>2, <2>1, ZenonT(30)
      DEF Sound, JobOf, Resting, VerifySteps, PublishSteps, pushing, Kinds
    <2>4. PICK a \in Nat \ {0}, N \in Runs : active = a /\ N = next
      BY <1>2, <2>1
    <2>5. Sound(a, N)'
      BY <1>1, <2>1, <2>3, <2>4, Lasting DEF Resting
    <2>6. /\ runs' \in Seq(Runs) /\ active' \in 0..Len(runs')
          /\ \A r \in DOMAIN runs' : Sound(r, runs[r])'
      BY <1>1, <2>2, <2>4, <2>5, OneAtATime
    <2>7. RegistryOK' /\ PublishedSound'
      BY <1>1 DEF Releasing, RegistryOK, PublishedSound, Published, TagApproved, Kinds
    <2>8. \A k \in Kinds : Stands(k, run.images)
      BY <1>2, <2>2, ZenonT(30) DEF Sound
    <2>9. OneBuild'
      BY <1>1, <2>2, <2>8 DEF Releasing, OneBuild, Published, Stands
    <2>10. TypeOK'
      BY <1>1, <1>2, <2>2, <2>6 DEF Releasing, TypeOK, Runs
    <2> QED  BY <2>6, <2>7, <2>9, <2>10 DEF Releasing
  <1> QED  BY <1>3, <1>4

\* The runs are as they were.
LEMMA Untouched ==
    ASSUME Releasing, UNCHANGED <<runs, active, builds, registry>>
    PROVE  \A r \in DOMAIN runs' : Sound(r, runs[r])'
  <1> SUFFICES ASSUME NEW r \in DOMAIN runs PROVE Sound(r, runs[r])'
    OBVIOUS
  <1>1. ASSUME NEW R, R = runs[r] PROVE Sound(r, R)'
    <2>1. Sound(r, R)
      BY <1>1 DEF Releasing
    <2> QED  BY <2>1, Lasting
  <1> QED  BY <1>1

\* A run that rests is begun or queued again.
LEMMA Restart ==
    ASSUME Releasing, NEW r \in DOMAIN runs, NEW next \in Runs,
           runs[r].pc \in Resting, runs' = [runs EXCEPT ![r] = next],
           active' = active \/ (active = 0 /\ active' = r),
           UNCHANGED <<tag, builds, today, registry, released>>, Sound(r, next)'
    PROVE  Releasing'
  <1>1. runs \in Seq(Runs) /\ active \in 0..Len(runs)
    BY DEF Releasing, TypeOK
  <1>2. /\ runs' \in Seq(Runs) /\ Len(runs') = Len(runs) /\ DOMAIN runs' = DOMAIN runs
        /\ active' \in 0..Len(runs') /\ runs'[r] = next
    BY <1>1
  <1>3. ASSUME NEW q \in DOMAIN runs, q # r PROVE Sound(q, runs[q])'
    <2> DEFINE R == runs[q]
    <2>1. Sound(q, R) /\ runs'[q] = R
      BY <1>1, <1>3 DEF Releasing
    <2>2. R.pc \in Resting \/ active' = active
      <3>1. q # 0
        BY <1>1
      <3> QED  BY <2>1, <3>1, ZenonT(30) DEF Sound
    <2>3. ASSUME NEW S, S = R PROVE Sound(q, S)'
      BY <2>1, <2>2, <2>3, Lasting
    <2> QED  BY <2>1, <2>3
  <1>4. RegistryOK' /\ PublishedSound' /\ OneBuild'
    BY PublishedLasts
  <1> QED  BY <1>2, <1>3, <1>4 DEF Releasing, TypeOK

\* The environment: pushes of the tag, days, and runs begun or run again.
LEMMA EnvironmentStep == Releasing /\ Environment => Releasing'
  <1> SUFFICES ASSUME Releasing, Environment PROVE Releasing'
    OBVIOUS
  <1>1. runs \in Seq(Runs) /\ active \in 0..Len(runs) /\ \A r \in DOMAIN runs : runs[r] \in Runs
    BY DEF Releasing, TypeOK
  <1>2. CASE NextDay
    <2>1. \A r \in DOMAIN runs' : Sound(r, runs[r])'
      BY <1>2, Untouched DEF NextDay
    <2>2. RegistryOK' /\ PublishedSound' /\ OneBuild'
      BY <1>2, PublishedLasts DEF NextDay
    <2> QED  BY <1>2, <2>1, <2>2, BoundsAssumption DEF NextDay, Releasing, TypeOK
  <1>3. ASSUME NEW t \in TagObjects, PushTag(t) PROVE Releasing'
    <2> DEFINE first == [sha |-> t.commit, attempt |-> 1, pc |-> "queued",
                         job |-> "qualification", qualified |-> FALSE, tag_object |-> None,
                         images |-> NoImages, manifest |-> None]
    <2>1. first \in Runs /\ first.pc = "queued" /\ first.job = "qualification"
      BY DEF Runs, Commits, NoImages, Resting
    <2>2. runs' = Append(runs, first) /\ UNCHANGED <<active, builds, today, registry, released>>
      BY <1>3 DEF PushTag
    <2> HIDE DEF first
    <2>3. /\ runs' \in Seq(Runs) /\ Len(runs') = Len(runs) + 1
          /\ runs'[Len(runs) + 1] = first /\ \A r \in DOMAIN runs : runs'[r] = runs[r]
          /\ \A r \in DOMAIN runs' : r \in DOMAIN runs \/ r = Len(runs) + 1
      BY <1>1, <2>1, <2>2
    <2>4. ASSUME NEW r \in DOMAIN runs PROVE Sound(r, runs[r])'
      <3>1. Sound(r, runs[r]) /\ runs'[r] = runs[r]
        BY <2>3 DEF Releasing
      <3>2. ASSUME NEW R, R = runs[r] PROVE Sound(r, R)'
        BY <2>2, <3>1, <3>2, Lasting
      <3> QED  BY <3>1, <3>2
    <2>5. ASSUME NEW r, r = Len(runs) + 1 PROVE Sound(r, runs[r])'
      BY <2>1, <2>3, <2>5, ZenonT(30)
      DEF Sound, JobOf, Resting, VerifySteps, PublishSteps, pushing, Kinds
    <2>6. RegistryOK' /\ PublishedSound' /\ OneBuild'
      BY <2>2, PublishedLasts
    <2>7. TypeOK'
      <3>1. active' \in 0..Len(runs')
        BY <1>1, <2>2, <2>3
      <3>2. tag' \in TagObjects
        BY <1>3 DEF PushTag
      <3> QED  BY <2>2, <2>3, <3>1, <3>2 DEF Releasing, TypeOK
    <2> QED  BY <2>3, <2>4, <2>5, <2>6, <2>7 DEF Releasing
  <1>4. ASSUME NEW r \in DOMAIN runs, Begin(r) PROVE Releasing'
    <2> DEFINE next == [runs[r] EXCEPT !.pc = runs[r].job]
    <2>1. /\ next \in Runs /\ next.pc = next.job /\ next.job = runs[r].job
          /\ next.manifest = runs[r].manifest /\ next.images = runs[r].images
          /\ next.sha = runs[r].sha
      BY <1>1, ZenonT(30) DEF Runs, VerifySteps, PublishSteps
    <2>2. runs' = [runs EXCEPT ![r] = next]
      BY <1>1, <1>4 DEF Begin
    <2>3. /\ active = 0 /\ active' = r /\ runs[r].pc \in Resting
          /\ UNCHANGED <<tag, builds, today, registry, released>>
      BY <1>4 DEF Begin, Resting
    <2> HIDE DEF next
    <2>4. Sound(r, runs[r])
      BY DEF Releasing
    <2>5. PICK N \in Runs : N = next
      BY <2>1
    <2>6. /\ N.pc = N.job /\ N.job \in {"qualification", "verify", "publish", "release"}
          /\ N.job \in {"publish", "release"} =>
                 /\ N.manifest \in Manifests /\ Built(N.images, N.sha)
                 /\ Scanned(N.images, r, N.manifest.context.run_attempt, {"yes"})
          /\ N.job = "release" => \A k \in Kinds : Stands(k, N.images)
      BY <2>1, <2>4, <2>5, ZenonT(30) DEF Sound, Runs
    <2>7. Built(N.images, N.sha) => Built(N.images, N.sha)'
      BY <2>3 DEF Built
    <2>8. \A k \in Kinds : Stands(k, N.images) => Stands(k, N.images)'
      BY <2>3, ZenonT(30) DEF Stands, Published
    <2>9. Sound(r, N)'
      BY <2>3, <2>6, <2>7, <2>8, ZenonT(30)
      DEF Sound, JobOf, VerifySteps, PublishSteps, pushing, Kinds, Scanned
    <2> QED  BY <2>2, <2>3, <2>5, <2>9, Restart, ZenonT(30)
  <1>5. ASSUME NEW r \in DOMAIN runs, Rerun(r) PROVE Releasing'
    <2> DEFINE next == [runs[r] EXCEPT !.attempt = @ + 1, !.pc = "queued",
                          !.job = "qualification", !.qualified = FALSE,
                          !.tag_object = None, !.images = NoImages, !.manifest = None]
    <2>1. next \in Runs /\ next.pc = "queued" /\ next.job = "qualification"
      <3>1. runs[r].attempt + 1 \in Nat /\ NoImages \in [Kinds -> Images \cup {None}]
        BY <1>1 DEF Runs, NoImages
      <3> QED  BY <1>1, <3>1, ZenonT(30) DEF Runs, Resting
    <2>2. runs' = [runs EXCEPT ![r] = next]
      BY <1>1, <1>5, ZenonT(30) DEF Rerun
    <2>3. /\ runs[r].pc \in Resting /\ active' = active
          /\ UNCHANGED <<tag, builds, today, registry, released>>
      BY <1>5 DEF Rerun, Resting
    <2> HIDE DEF next
    <2>4. PICK N \in Runs : N = next
      BY <2>1
    <2>5. Sound(r, N)'
      BY <2>1, <2>4, ZenonT(30)
      DEF Sound, JobOf, Resting, VerifySteps, PublishSteps, pushing, Kinds
    <2> QED  BY <2>2, <2>3, <2>4, <2>5, Restart, ZenonT(30)
  <1>6. ASSUME NEW r \in DOMAIN runs, RerunFailed(r) PROVE Releasing'
    <2> DEFINE next == [runs[r] EXCEPT !.attempt = @ + 1, !.pc = "queued"]
    <2>1. /\ next \in Runs /\ next.pc = "queued" /\ next.job = runs[r].job
          /\ next.manifest = runs[r].manifest /\ next.images = runs[r].images
          /\ next.sha = runs[r].sha
      <3>1. runs[r].attempt + 1 \in Nat
        BY <1>1 DEF Runs
      <3> QED  BY <1>1, <3>1, ZenonT(30) DEF Runs, Resting
    <2>2. runs' = [runs EXCEPT ![r] = next]
      BY <1>1, <1>6, ZenonT(30) DEF RerunFailed
    <2>3. /\ runs[r].pc \in Resting /\ active' = active
          /\ UNCHANGED <<tag, builds, today, registry, released>>
      BY <1>6 DEF RerunFailed, Resting
    <2> HIDE DEF next
    <2>4. Sound(r, runs[r])
      BY DEF Releasing
    <2>5. PICK N \in Runs : N = next
      BY <2>1
    <2>6. Sound(r, N)
      BY <2>1, <2>4, <2>5, ZenonT(30)
      DEF Sound, JobOf, Resting, VerifySteps, PublishSteps, pushing, Kinds
    <2>7. Sound(r, N)'
      BY <2>1, <2>3, <2>5, <2>6, Lasting DEF Resting
    <2> QED  BY <2>2, <2>3, <2>5, <2>7, Restart, ZenonT(30)
  <1> QED  BY <1>2, <1>3, <1>4, <1>5, <1>6 DEF Environment

-----------------------------------------------------------------------------
(* The theorems.                                                           *)

\* Nothing is published at first.
LEMMA ReleasingInit == Init => Releasing
  <1> SUFFICES ASSUME Init PROVE Releasing
    OBVIOUS
  <1>1. TypeOK
    BY BoundsAssumption DEF Init, TypeOK, NoImages
  <1>2. RegistryOK /\ PublishedSound /\ OneBuild
    BY DEF Init, RegistryOK, PublishedSound, OneBuild, NoImages, Kinds
  <1> QED  BY <1>1, <1>2 DEF Init, Releasing

\* Every step keeps the invariant.
LEMMA ReleasingNext == Releasing /\ [Next]_vars => Releasing'
  <1> SUFFICES ASSUME Releasing, [Next]_vars PROVE Releasing'
    OBVIOUS
  <1>1. CASE Jobs
    BY <1>1, VerifyJob, ScanStep, HandOver, InspectStep, PushStep, BuildStep, EndStep, ZenonT(30)
    DEF Jobs
  <1>2. CASE UNCHANGED vars
    <2>1. \A r \in DOMAIN runs' : Sound(r, runs[r])'
      BY <1>2, Untouched DEF vars
    <2>2. RegistryOK' /\ PublishedSound' /\ OneBuild'
      BY <1>2, PublishedLasts DEF vars
    <2> QED  BY <1>2, <2>1, <2>2 DEF vars, Releasing, TypeOK
  <1> QED  BY <1>1, <1>2, EnvironmentStep DEF Next

\* An image under the release tag comes from an approved tag object and a scan
\* whose promise holds, and was pushed by the attempt that built and scanned it.
THEOREM AlwaysPublishedSound == Spec => []PublishedSound
  <1>1. Releasing => PublishedSound
    BY DEF Releasing
  <1> QED  BY <1>1, ReleasingInit, ReleasingNext, PTL DEF Spec

\* The two images under the tag, and those of the GitHub release, are of one build.
THEOREM AlwaysOneBuild == Spec => []OneBuild
  <1>1. Releasing => OneBuild
    BY DEF Releasing
  <1> QED  BY <1>1, ReleasingInit, ReleasingNext, PTL DEF Spec

\* The release tag never comes to name another image: an image is pushed only
\* where the inspection, which no other run can follow, found none.
THEOREM TagStays == Spec => TagNeverMoves
  <1> DEFINE Stays == \A k \in Kinds : registry[k] # None => registry'[k] = registry[k]
  <1>1. Releasing /\ [Next]_vars => [Stays]_registry
    <2> SUFFICES ASSUME Releasing, Next, registry' # registry PROVE Stays
      BY DEF vars
    <2>1. PICK k \in Kinds : Push(k)
      BY ZenonT(30)
      DEF Next, Environment, Jobs, NextDay, PushTag, Begin, Rerun, RerunFailed, Fail,
         Qualify, VerifyTag, Build, CreateCandidate, PublishTag, Handoff, CreateRelease,
         Scan, Inspect
    <2>2. registry[k] = None
      BY <2>1, AtPublish DEF Push
    <2> QED  BY <2>1, <2>2 DEF Push, Releasing, TypeOK
  <1> QED  BY <1>1, ReleasingInit, ReleasingNext, PTL DEF Spec, TagNeverMoves
=============================================================================

# A TLA+ model of unifi-cert-renewer

unifi-cert-renewer renews the TLS certificate of a UniFi controller. An
unprivileged worker inspects the certificate, asks for a CSR, has OPNsense sign
it, and asks a privileged executor inside the UniFi container to install it and
to verify it over live TLS. The executor replaces the keystore in a journalled
transaction that must survive exceptions, the death of its process, container
restarts and power losses. A workflow builds, scans and publishes the two container
images of a release. This directory holds the specifications, the TLC
configurations and the TLAPS proofs about these parts.

## The system

| Part | Source (`src/`) | State | Concurrency and failure |
| --- | --- | --- | --- |
| Keystore files | `unifi_executor_files.py` | canonical, stage, rollback, journal, temporary journal; what of them is on disk | power loss between any operation and its fsync |
| UniFi under s6 | `unifi_process.py` (`_Service`) | Java up, down or between; the keystore it loaded | starts, stops, crashes and rewrites its keystore on its own |
| Executor | `unifi_executor.py` | the transaction's phase and flags, the flock, an expected stop | exceptions, SIGKILL, a keytool child that outlives its parent |
| Startup gate | `unifi_executor_service.py`, s6 services | owners of the executor's files, how far the boot is | a boot that is cut short anywhere |
| Socket service and client | `unifi_executor_service.py`, `unifi_executor_client.py` | backlog, the request in service | clients that time out or die while their request lives on |
| Worker | `production_renewer.py`, `unifi_cert_renewer.py`, `unifi_client.py`, `opnsense_client.py` | one control point per run, the lifecycle flock | overlapping runs, kills, lost and late answers |
| Run result | `run_result.py` | milestones, change, outcome | derived when the run ends, true after that |
| Process runner | `unifi_process.py` (`_run`, `_reap`) | the child's group, its pipes, who holds the flock | a child and its descendants that do as they like; a killed helper |
| `/proc` inspection | `unifi_process.py` (`_processes`) | the walk, one inspection child | processes that exit or change owners, a child that fails or hangs |
| Live TLS verification | `unifi_tls.py` | attempts, deadline | a controller that is starting, silent, or serves something else |
| Policy file | `renewal_policy.py` | the file, who is reading it | an administrator who edits it under its readers |
| Certificate and CSR rules | `certificate.py`, `csr.py`, validations of `unifi_client.py` and `opnsense_client.py` | none; predicates of a certificate, a policy and a clock | |
| Issuance | `unifi_cert_renewer.py`, `unifi_client.py`, `unifi_executor_service.py` | the certificate on its way, two clocks' references | time, edits, a new key, restarts and give-ups between any two steps |
| Vulnerability gate | `scripts/compare_container_vulnerabilities.py` | none; reports and reviewed exceptions | |
| Release workflow | `.github/workflows/release.yml`, the release scripts | git tag, runs and attempts, registry, GitHub release | jobs that fail anywhere and are run again, tags that move |
| Secure files, CI policy, deployment checks | `secure_file.py`, `scripts/ci_policy.py`, ... | none that outlives a call | see *Not modelled* |

## Modules

**ExecutorFiles.** `dir` is the directory a process sees. `disk` is the set of
directories that a power loss may leave: each rename, link, create and unlink
since the last directory fsync is atomic and may or may not have reached the
disk, independently of the others. `synced` says which inodes' contents are
fsynced; other contents may come back unreadable. Each primitive of `_Files`
that changes something is an operator of the same name.

**UnifiService.** The Java service as `_Service` commands it and as it behaves:
it may start with another certificate than the keystore's, crash, and rewrite
the canonical keystore in place while it lives.

**UnifiExecutor.** `exclusive` with `import_certificate_reply`,
`verify_pending` and `recover`, one action per system call that changes the
files, per s6 command and per run of keytool, with the checks the code makes just
before. `Checks` gathers those by control point; `CheckFails` is the exception
they raise. `write_journal` is three steps (temporary file, rename, directory
fsync) that every `_phase` goes through. Faults are `Raise` (any call fails),
`HelperDies`, `ContainerRestart`, `PowerLoss` and Java's own; there are at most
`MaxFaults` of them in a behaviour.

**StartupGate.** The boot around UnifiExecutor: first oneshot (prove, take the
files back to root, recover), LinuxServer's recursive chown, second oneshot,
then Java and the executor. `abc` is the set of the executor's files that belong
to the user abc, `loose` those whose owner or mode is changed and not fsynced;
`Own` is the `fchown` of one file and `Fsync` what follows it, so that a boot may
end between the two. A file that root owns again is not looked at by the next
boot, though a power loss may still give it back to abc; the same holds for the
0600 of the canonical keystore. `_validate_normalization_transaction` is the table
of reachable phases, flags and files. `Startup`, `Guarded` and `FirstReturns` put
the gate in front of UnifiExecutor's own actions. A oneshot that fails blocks the
boot until somebody restarts the container, which nothing in the model promises.
`drift` says that the executor loaded a policy whose digest is not the journal's,
which `_require_current_policy` refuses.

**RunEvidence.** `RunEvidence` and `RunResult.finish` as operators on a record.

**ExecutorService.** The socket: a bounded queue, one request in service,
answers to clients that may have gone. The executor is seen from outside: an
operation has its whole effect, or a part of it and an error, or dies with the
helper. The parts are the states UnifiExecutor lets a transaction stop in: open
with the old or the issued keystore, pending, or verified and not yet cleaned up.
A recovery of a transaction that is not verified may keep the issued keystore
pending or put the old one back (`Restore`), with or without ending it.

**ProductionRenewer.** Every mode of a run from `main` to its exit code; runs
overlap, hold the lifecycle lock where the code does, may be killed, give up
waiting, or fail anywhere. `on_dispatch` records a request in the evidence and
`Call` sends it; a run may be killed in between. OPNsense decides a signing request whenever it likes,
also after the run has given up. An operator's `recover` over the same socket is
one more kind of run. A certificate is named after the run it was signed for.

**LiveTLS.** `verify_prepared_live_tls_certificate`: attempts, the deadline of
an attempt, the delay, the verdict. Time is counted in ticks and passes only
where the code blocks. `link` is `"stuck"` once an attempt has met silence: a
packet lost while the controller was down may leave that attempt waiting even
though the controller is up by now. In UnifiExecutor all this is one wait.

**ProcessRunner.** `_run` and `_reap`: the selector loop step by step, and
around it the child and one descendant that read, write, close, fork, stall and
exit in any order. Data is counted in chunks; a pipe holds `PipeSize` of them.
`locked` is the set of processes with a descriptor of the flock: `pass_fds` gives
it to the child, and a fork to its descendant, which is taken not to close it.

**ProcessScan.** `_processes`: the walk over `/proc`, and for a process root may
not read the identity check, the forked child, its one byte, and the second
identity check. The child may report any failure, also that a living process is
gone. A process that matters does not appear during the scan, as the code assumes.

**KeystoreTransaction, UnifiExecutorRefinement.** What the executor promises,
without files, phases or flags: one canonical keystore and at most one transaction
on record, which offers a new keystore and is open, pending, verified or undone.
The canonical changes only by a commit of the keystore on offer or by the return
of the old one; a transaction is verified only when pending, and leaves the record
only when its outcome is canonical. A power loss may take the record back to an
earlier point. The refinement mapping reads the transaction from the journal in
the directory: its phase gives the state, its commit intent the offer.

**CertificateRules.** The checks of a CSR, an issued leaf, its CA and a policy as
predicates, one per function of the code. A name is an identity and a spelling,
so that `lower`, `casefold` and `ip_address` are what makes two spellings equal.
The path that the cryptography library builds is reduced to issuer and dates.

**PolicyFile.** `load_policy` in its system calls (open and fstat, the copying of
the text in two halves, fstat and stat, parse) against an administrator who
renames a new file into place or truncates and rewrites the old one. Every write
is taken to move `st_mtime_ns`; a file system whose time stamps are too coarse to
tell two writes apart could hide one.

**Issuance.** It composes the two: a run of the renewer from the policy through
inspection, CSR, signing and validation to the install request, the queue, and the
executor that validates again with its own policy and its own clock. OPNsense may
return what was asked for, or something that differs in a field or in its dates.
The import is one step; how it is made atomic is UnifiExecutor's subject. The
policy is compared whole where the code compares its digest.

**VulnerabilityGate.** The comparison of a derivative image's report with its
upstream's, and the reviewed exceptions. `Explained` says what a pass should mean
without the comparison's own sets: an injection of the derivative's findings into
upstream's, and a current review of everything fixable.

**Release.** The workflow's jobs as steps of a run; a step may fail for any
reason, and a failed run is run again whole or from the job that failed, with the
outputs of the jobs before it. A build may or may not reproduce an earlier image.
`Scans` is the set of verdicts the gate can come to on a day, with a mark on those
that are not `Explained`. The concurrency group lets one run of a tag proceed at a
time; it does not serialise with pushes to git, the calendar or later attempts.

**UnifiExecutorInvariant, StartupGateInvariant, and the modules whose names end in
Proofs.** The inductive invariants and the proofs, below.

Definitions named "Mutant of ..." are plausible mistakes in the code. Each one,
put in the place of the definition it names, makes TLC report the property it is
paired with in `PROJECT.json`.

## Runs

| Run | Configuration | Bounds | Distinct states |
| --- | --- | --- | --- |
| `executor` | MCUnifiExecutor.cfg | 2 inodes, 2 certificates, 3 faults | 516,320 |
| `boot` | MCStartupGate.cfg | same, 4 faults | 1,909,815 |
| `boot_liveness` | MCStartupGateLiveness.cfg | same, 2 faults | 405,336 |
| `renewer` | MCProductionRenewer.cfg | 2 runs, backlog 2, 2 faults | 614,817 |
| `live_tls` | MCLiveTLS.cfg | 108 policies, deadlines up to 8 ticks | 232,466 |
| `process_runner` | MCProcessRunner.cfg | 2 chunks of input and of output, pipes of 1, one descendant | 108,175 |
| `process_scan` | MCProcessScan.cfg | 2 processes | 134,832 |
| `issuance` | MCIssuance.cfg | 3 policies, 1 edit, 1 run, 4 ticks, days of 3 ticks | 1,561,379 |
| `release` | MCRelease.cfg | 2 pushes of 6 tag objects, 2 attempts each, 2 days, reports of up to 3 of 6 findings | 914,110 |
| `executor_pending`, `executor_stale`, `boot_mixture` | violations | 1, 2 and 4 faults | |

*executor.* `Recoverable`: whatever a power loss leaves, the surviving journal
stands beside the old keystore, or beside the issued one with commit intent and a
rollback, both whole but for what Java itself wrote. `Attributed`: no stage,
rollback or stopped UniFi without a journal. `JournalAccepted`: no journal the
executor writes, the exception handler included, is refused by `_validate_journal`. `ReturnsDurably`: what an operation
reports, a power loss cannot take back. `CanonicalUntouched`, `NoLostUpdate`:
nothing but Java writes into the canonical, and the commit never discards what
Java wrote. `RollbackGivenUp`: the last copy of the old keystore goes only after
Java has presented the new certificate. `Inductive` is the invariant of the
proofs. `ImplementsTransaction`: every behaviour, faults included, is one of
KeystoreTransaction.

*boot.* `StrictBehindGate`: no operation and no Java while a file belongs to abc,
and from the second recovery of a boot on no executor file would belong to abc
again after a power loss. This rests on the init: it gives every file to abc, so
the second pass takes back and fsyncs also what an earlier boot had left without
its fsync. `PassesConverge`: whatever an interrupted chown or a lost one left, the
next pass accepts, but for `RestoredUnderPending`. The table refuses some states a
crash can leave (a recorded stage that a power loss took, for one). They do no
harm because LinuxServer's chown only ever follows a recovery that succeeded, so
that such a state is never looked at through the table; this property is what says
so. `SecondRecoveryAgrees`: the second recovery of a boot decides as the first did.

*boot_liveness.* `OperationsEnd`: every operation of the executor ends, whatever
Java does; an s6 command that Java does not follow ends with its deadline
(`CheckFails`). `BootOpens`: every boot opens the gate and starts UniFi, or another
fault happens, or it is one of the cases in `OperatorNeeded`.

*renewer.* `NothingUnderstated`, `NothingOverstated`, `ResultHolds`,
`RetrySafe`: the evidence and the printed result stay true after the run ended,
although requests it sent may still be waiting. `SignsForSettledKeystore`: a
request of an earlier run may outlive that run's lock, yet no run signs around
it, because the executor serves in order and inspection refuses an open
transaction. `RenewalSettles`: a renewal never leaves the next one work.
`RunsEnd`: every run ends, even when the executor and OPNsense never answer.

*live_tls.* `WithinDeadline`: no wait is planned or lasts past the deadline.
`ReadyIsVerified`: a controller that has served the expected leaf since early
enough is never reported as not ready; with the default policy, since 54 seconds
after the start. `VerificationEnds`.

*process_runner.* `NoPipeDeadlock`: the helper and the group never wait for each
other with full pipes; only a process that stalls needs the deadline.
`DeadlineEnds`: after it `_run` ends. `LeavesNobody`: then the child is reaped and
its group has been killed, a descendant that outlived the child included.
`WholeOutput`: a result is all that the group wrote. `ChildExcludes`: the flock is
free only when nobody of the group lives, also when the helper was killed. A
descendant that was killed but not yet gone still holds it.

*process_scan.* `NothingOverlooked`: a scan that returns has found every UniFi JVM
and every keytool that lives. `NoChildLeft` and `ScanEnds`: it waits for one
child at a time, for a bounded time, and reaps it.

*issuance.* `WholePolicy`: a load that overlaps an edit is refused, so that a
loaded policy is one version. `KeyMatches`: the keystore's certificate is for the
keystore's key, although UniFi may get another key while a request is signed or
queued. `InstalledAsRequested`: the imported certificate has each of the renewer's
names exactly as often as its policy lists it, although CSR and leaf are compared
by number and as sets; the policy's own names being distinct is what makes that
enough. `NoInstallAfterGiveUp`: a request that waited in the queue until its
client stopped waiting is never begun, because the executor's own reference
allows a certificate of at most five minutes, as long as the client waits.
`RenewNeverWastes`: a renewal that issued a valid certificate never refuses it as
due; the threshold below the lifetime and the small backdating ensure it.

*release.* `PublishedSound`: an image under the release tag was built from an
approved tag's commit, passed a scan whose promise holds, and was pushed by the
attempt that built it; so a job that is run again after an exception expired does
not publish what it let pass. `OneBuild`: the two images and the GitHub release are
of one build, also when an earlier attempt published only one. `TagNeverMoves`: a
registry tag keeps its image.

**Why the bounds are enough.** A transaction involves two inodes, the old and the
staged, and a third is interchangeable with a freed one; two certificates tell
old from issued, and TLC also lets the two be equal. Faults come in
combinations of the kind "crash, crash in the recovery, power loss": three; four at
boot, where an `fchown` without its fsync takes a crash of its own. Two
runs make every overlap of a run with one that ended or still lives; the invariants
also hold with three runs and one fault (7,532,592 states up to symmetry, six
minutes). A backlog of two holds a request of each run; the code's is four. That
a connect fails for want of room needs a backlog of one: with it all properties of
`renewer` hold too (604,221 states). The policies of `live_tls` have deadlines that cut an attempt, a delay or
neither, and attempts that run out before the deadline or do not. More input than
a pipe holds is what a pipe deadlock needs, and one chunk over `MAX_IO` is what
the limit needs. Two processes let one be ahead of the scan, visited or behind it
while another changes. One edit of the policy is enough to overlap both loads, and four ticks let a request outlive its client's
wait of two and a certificate the skew of two; a day is longer than the skew. Two
attempts on two days separate a scan from a publication, and two pushes a run from
the tag it meets. Three findings of a package are what an ambiguous upgrade needs.
`boot_liveness` has two faults where `boot` has four.
Symmetry is used only in runs without liveness; no definition compares
inodes, certificates or runs otherwise than by equality.

**Fairness.** `BootFairSpec`: the helper takes its steps (it is a
running process whose calls all have timeouts; what it waits for need not come), and
s6 runs the init and the two oneshots of a boot. Nothing is assumed of Java, of an
orphan of keytool, of a restart or of the power. In ProductionRenewer only the runs themselves are fair; the executor and OPNsense may never answer,
because every wait of a run has a deadline. In LiveTLS the loop
is fair, whose every call has a timeout; the controller owes nothing. In
ProcessRunner the helper is fair, and so is a process that does not stall, or that
SIGKILL has reached (a task the kernel cannot end keeps `_reap` waiting, which the
code intends); the deadline is not, so that `NoPipeDeadlock` cannot lean on it. In
ProcessScan the scan and the clock are fair and the child is not. Issuance and
Release have no liveness property and no fairness: either may stop at any step. No
fault is fair. Deadlock is not an error in any run: faults run out, runs and calls end, and a boot left to the operator stops.

## What disagrees with the documentation

* `executor_pending`: a verification that stops between creating the temporary
  journal and renaming it leaves a pending transaction which `verify_pending`
  refuses until `recover` has run; the document says that a later caller
  verifies again.
* `executor_stale`: a temporary journal can stand beside a `live_verified` one,
  which the document calls unreachable. A helper dies between the journal's unlink
  and the fsync, the next installation starts without syncing the directory, and
  a power loss keeps its new file and not the unlink. Recovery refuses that
  state at every boot. It needs a file system that reorders directory
  operations; one that commits them in order does not show it.

* `boot_mixture`: the service's comment says that a crash between the ownership
  operations is restart-safe "because mixed root/abc ownership is accepted and
  revalidated on the next boot". A boot stops between the `fchown` of a pending
  journal and its fsync; the next one finds nothing to take back, its recovery
  cannot read the issued keystore and restores the old one, and the power fails
  before that is recorded. The journal is abc's again, it says pending beside the
  old keystore, and the pass refuses it at every boot. `PassesConverge` says that
  this is the only such state.

In all three the old and the issued keystore are safe: `Recoverable` holds.

## Proofs

TLAPS proves every safety property that a passing run checks, invariants, action
properties and refinement, for any sets of inodes and certificates and any number
of faults, for any set of runs and any backlog, any size of pipe and amount of
data, any set of valid policies of the verification, any set of processes, any
policies, clocks and name lists of an issuance, and any tags, reports, exceptions
and numbers of runs of a release:

| Module | Theorem | States |
| --- | --- | --- |
| UnifiExecutorProofs | `TypeCorrect` | `Spec => []TypeOK` |
| | `InductiveHolds` | `Spec => []Inductive` |
| | `AlwaysRecoverable` | `Spec => []Recoverable` |
| | `AlwaysAttributed` | `Spec => []Attributed` |
| | `JournalsAccepted` | `Spec => []JournalAccepted` |
| | `ResultsAreDurable` | `Spec => []ReturnsDurably` |
| | `UpdatesAreKept` | `Spec => NoLostUpdate` |
| | `CanonicalStaysWhole` | `Spec => CanonicalUntouched` |
| | `RollbackIsKept` | `Spec => RollbackGivenUp` |
| | `ExecutorImplementsTransaction` | `Spec => ImplementsTransaction` |
| StartupGateProofs | `BootHolds` | `BootSpec => []BootInvariant` |
| | `BootKeepsPromises` | `BootSpec => [](Recoverable /\ Attributed /\ JournalAccepted /\ ReturnsDurably)` |
| | `ExecutorIsStrict` | `BootSpec => []StrictBehindGate` |
| | `PassesAlwaysConverge` | `BootSpec => []PassesConverge` |
| | `RecoveriesAgree` | `BootSpec => SecondRecoveryAgrees` |
| | `BootImplementsTransaction` | `BootSpec => ImplementsTransaction` |
| ProductionRenewerProofs | `RenewerHolds` | `Spec => []RenewerInvariant` |
| | `EvidenceNeverUnderstates` | `Spec => []NothingUnderstated` |
| | `EvidenceNeverOverstates` | `Spec => []NothingOverstated` |
| | `ResultAlwaysHolds` | `Spec => []ResultHolds` |
| | `RetryIsSafe` | `Spec => []RetrySafe` |
| | `AlwaysSignsForSettledKeystore` | `Spec => []SignsForSettledKeystore` |
| | `RenewalAlwaysSettles` | `Spec => []RenewalSettles` |
| ProcessRunnerProofs | `FlockOutlivesHelper` | `Spec => []ChildExcludes` |
| | `NobodyIsLeft` | `Spec => []LeavesNobody` |
| | `ResultIsWhole` | `Spec => []WholeOutput` |
| LiveTLSProofs | `AlwaysWithinDeadline` | `Spec => []WithinDeadline` |
| | `ReadyAlwaysVerified` | `Spec => []ReadyIsVerified` |
| ProcessScanProofs | `NothingIsOverlooked` | `Spec => []NothingOverlooked` |
| | `NoChildIsLeft` | `Spec => []NoChildLeft` |
| IssuanceProofs | `AlwaysWholePolicy` | `Spec => []WholePolicy` |
| | `KeyAlwaysMatches` | `Spec => []KeyMatches` |
| | `NeverWastes` | `Spec => []RenewNeverWastes` |
| | `NeverAfterGiveUp` | `Spec => []NoInstallAfterGiveUp` |
| | `ImportsAreAsRequested` | `Spec => []InstalledAsRequested` |
| ReleaseProofs | `GateIsSound` | a pass of the comparison is `Explained` |
| | `AlwaysPublishedSound` | `Spec => []PublishedSound` |
| | `AlwaysOneBuild` | `Spec => []OneBuild` |
| | `TagStays` | `Spec => TagNeverMoves` |

The assumptions are those the modules name. Some only say that a null value or a
model value is not one of the others: `ModelValues`, `NullJournal`,
`NullTransaction`, `NullConnection`, `NullAssumption`. Some say that a constant is a
number, a date or a list: `MaxFaultsAssumption`, `ServiceAssumption` (the backlog is
positive), `RenewerAssumption`, `RunnerAssumption` (a pipe holds something),
`NamesAssumption` (a policy lists its names), `DaysAssumption`, `BoundsAssumption`,
`ExceptionsAssumption`. The others come from the code: `PoliciesAssumption` of
LiveTLS (the policies are those `validate_live_tls_configuration` accepts) and of
PolicyFile (a policy's text is two halves), `LoadersAssumption`, `TimeAssumption`
(the clock skew is less than a day) and `TimeoutAssumption` (the skew is at most the
client's wait; in the code both are five minutes).

### The executor

`Recoverable` is not inductive: it says nothing of the journal the helper holds in
memory, nor of what the next step is about to rely on. `Consistent` adds three
things. `Typed` and `Control` say which operation can be at which control point
with which journal. `OnDisk` says that *every* journal which may be read later,
on any directory of `disk` or in memory, fits *every* directory of `disk`, for a
power loss may pair any two that unsynced operations left; and that all of them
belong to one transaction. `AtPoint` says what holds at each control point: until
the rollback link is synced no readable journal expects it, before the commit the
stage is whole and fsynced, in a recovery after its decision the canonical is the
keystore it decided for, during cleanup only the surviving journal counts.

What an operation reports, and the three action properties, need `Reported` beside
it. Its conjuncts say what an operation has seen and made durable where it is about
to return (`Committing`, `Verified`, `Closing`, `Returning`); that Java is down and
has rewritten nothing unnoticed from the moment the installation saw it stop
(`Quieted`), which is why the commit loses no update; that a `live_verified` journal
beside a rollback means that Java has presented the certificate (`Presented`), which
is why the rollback may go; and which inodes the other names may hold (`Linking`),
so that neither keytool nor its orphan can be writing into the canonical.
`Inductive` is all of this together with `Usable`: no keystore that `status` would
refuse is canonical or a rollback. The proofs take one lemma per action; facts about
the directory primitives and about which journals fit come first.

The refinement needs more than `Inductive`. `Recorded` adds which journal may
replace which in the directory (`Follows`), which may come back in its place after
a power loss (`Precedes`), and at which control points the journal in memory
already stands for a decision about the canonical.

### The boot

StartupGate runs the executor's own actions behind a gate, so its proof keeps the
executor's lemmas and adds what the gate changes. Two things the executor alone
could assume fail here. The mode of the canonical keystore may be one that `status`
refuses, because LinuxServer has just made it or because a power loss took the
first pass's 0600 back. And the chowns between two recoveries are steps that no
journal records.

`Private` replaces the executor's `Usable`: the mode is right and durable, or no
transaction has linked a rollback yet; the fsync of the canonical keystore before
the link is the step from the second to the first. `Gated` says who may run behind
which gate. `Owning` says which files may have an owner that a power loss undoes,
and that the second pass is done only when none of the executor's is left.
`Steady` says that from the init to the second decision the disk is what a recovery
that succeeded leaves: no transaction, or a pending one, whole. `Exposed` carries
this over a crash: as long as an executor file belongs to abc or may do so after a
power loss, every directory that may come back is one of the few that a recovery
of such a state makes, pending, restored or finished, and while that recovery runs
they differ in their journals alone. From it follows that the passes converge: of
all the states that the table of `_validate_normalization_transaction` judges, only
these are ever met. `Agreed` says that a recovery which decided for the issued
keystore has read both keystores, and that they still hold what it read when the
second one decides. The executor's promises and the refinement hold for `BootSpec`
by the same invariant. `BootInvariant` is no property of a run; as an additional
INVARIANT of MCStartupGate.cfg TLC finds it to hold in the 1,909,815 states of `boot`.

### The renewer

`RenewerInvariant` relates three parties for any number of runs. Of the executor's
queue it says that a run has at most one request in it (`Unique`), and that a changing
request of an earlier owner of the lifecycle lock stands before any request of the
present one (`Ordered`). That order is the reason why an inspection answered to the
owner settles the keystore (`Settled`): whatever was sent before has been served.
`Changes` and `Authority` say that every changing request and every transaction is of
one run whose certificate was issued. Of each run, `Attempted` and `Confirmed` are the
two sides of the evidence, true also of requests that outlive the run; `Stated` and
`Derived` carry them through the control points to the printed result.

### The other components

`RunnerInvariant` of ProcessRunnerProofs says that whoever of the group lives holds
the flock (`Inherited`), that a stream leaves the selector only when it is empty and
nobody has it open (`Drained`), and what SIGKILL and the wait have established
(`Reaping`); once there is a result nothing of it changes (`Returned`).

`Bounds` of LiveTLSProofs says at each control point how much time the failed
attempts and delays can have used: the delays slept so far are no more than the
time that has passed, and an attempt that misses a ready controller began before
it was ready. `Scanning` of ProcessScanProofs says that a living writer is ahead
of the scan, being visited, or found, and that a report about a process that
still lives is true unless it is a failure.

`Reading` of IssuanceProofs says what a loader in the middle of a read holds: as
long as the file it opened has the size and the time it saw first, what it has
copied is a prefix of the one version written there. `Matching` follows the key of
the state, the CSR and the certificate from the inspection to the import.
`Renewing` keeps the threshold below the lifetime from the configuration to the
retrieval. `Requesting` bounds the age of the certificate in every queued request
by the moment it was sent. `Working` keeps the executor under the policy of the
request; that equal numbers and equal sets of names make equal lists up to order
is a pigeonhole argument (`SameNamesDistinct`), and needs the policy's names to be
distinct.

`GateIsSound` builds the injection: a finding that upstream has too stands for
itself, an upgraded one for the only removed finding of its scope. `Releasing` of
ReleaseProofs says of every run what its last finished step established: the tag
it approved, the images of its attempt's build, the verdict of their scans, the
manifest with that attempt in its context. It also ties each registry entry to a
build on record, which is what makes an equal identity a reason to reuse it.

### Only model-checked

Liveness is out of the prover's reach: `OperationsEnd`, `BootOpens`, `RunsEnd`,
`VerificationEnds`, `NoPipeDeadlock`, `DeadlineEnds` and `ScanEnds` are checked by TLC
on the bounds above. The theorems are about the modules one by one: a bound that a
module itself fixes stays, such as one descendant of the runner's child, one run at a
time in Issuance, and `Certs` of ProductionRenewer, one certificate for each run.

## Not modelled

* Composition of ProcessRunner, ProcessScan and LiveTLS with UnifiExecutor, which
  sees them as steps that hold, raise or time out. Children of `keytool -list` only
  read.
* In the process runner: stderr apart from stdout, and descendants that leave the
  group. In the inspection: how a command line is recognised. In the live TLS
  verification: the TLS context and the syntax of hosts and leaves.
* In an import: the comparison of key and chain that `canonical_verified` and
  `live_verified` make beside that of the leaf.
* In the renewer: OPNsense's timeout is one of each socket operation, so that a
  slow answer may take longer than one wait; and a run that ended well is not run
  again in Release.
* Inside a certificate or CSR: PEM and DER parsing, the cryptography of signatures
  and the library's path building, which appear as fields and simple conditions.
  Parsing of keytool's output, message codecs, HTTP and JSON: a malformed message
  is a step that fails.
* `secure_file.py`: each call opens and checks one file, changes nothing and keeps
  nothing. On Linux the kernel's `O_NOFOLLOW` replaces its own comparisons.
* `ci_policy.py` decides which jobs a change needs from file names;
  `validate_deployment.py` and the packaging scripts check static files and built
  images. None has state or a sequence of steps.
* The dependency and secret scans, SBOMs and attestations of a release.
* Failing fsyncs that drop dirty pages, partially written temporary journals
  (never read), changes of the device number across mounts, and the first
  creation of the lock file and of `/config/data`.
* The human-readable output of the worker, image build and Dockerfiles.

## Plan

1. Use KeystoreTransaction in ExecutorService in place of its own view of the
   executor, so that `renewer` rests on the refinement.
2. Any number of descendants of the runner's child.
3. First boot: creation of the lock file and of the data directory.

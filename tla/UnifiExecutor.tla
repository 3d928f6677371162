---------------------------- MODULE UnifiExecutor ----------------------------
(***************************************************************************)
(* ProductionUnifiExecutor of src/unifi_executor.py: the journalled        *)
(* transaction that installs a certificate (exclusive and                  *)
(* import_certificate_reply), its live verification (verify_pending) and   *)
(* its recovery (recover).                                                 *)
(*                                                                         *)
(* One helper process runs one operation at a time under the flock; pc is  *)
(* its control point.  One step is one system call that changes the files, *)
(* one command to s6 or one run of keytool, together with the checks that  *)
(* precede it.  Around it stand Java, a keytool child that outlives a dead *)
(* helper, exceptions at any point, the death of the helper, a restart of  *)
(* the container and a power loss.  Of these faults there are at most      *)
(* MaxFaults in a behaviour.                                               *)
(***************************************************************************)
EXTENDS UnifiService, Naturals

CONSTANT MaxFaults

ASSUME MaxFaultsAssumption == MaxFaults \in Nat

VARIABLES
    op,         \* the operation the helper runs
    pc,         \* its control point
    w,          \* the next step of write_journal, "none" outside it
    jm,         \* self._journal
    expect,     \* self._expect_stopped
    outcome,    \* recover's decision
    lock,       \* the helper's hold of the executor lock
    keytool,    \* the inode a keytool -importcert child writes
    booted,     \* the startup recovery of this boot has succeeded
    faults      \* how many faults are still to come, at most

vars == <<filesVars, serviceVars, op, pc, w, jm, expect, outcome, lock,
          keytool, booted, faults>>

PENDING == "service_resumed_pending_live_verification"

Phases == {"quiescing", "quiesced", "staging", "staged_validated",
           "rollback_durable", "commit_possible", "committed",
           "canonical_verified", PENDING, "live_verified",
           "recovery_required", "recovered_old"}

Journals ==
    [phase : Phases, resume : BOOLEAN, old : Certs, issued : Certs \cup {None},
     old_inode : Inodes, stage_inode : Inodes \cup {None},
     rollback_expected : BOOLEAN, commit_possible : BOOLEAN]

ASSUME NullJournal == None \notin Journals

\* The consistency half of _validate_journal; Journals is its typing half.  That
\* a live_verified journal names two certificates of one key, the issued one with
\* its CA, is left out: a certificate is a value here (CertificateRules has both).
ValidJournal(j) ==
    /\ j.commit_possible =>
           j.issued # None /\ j.stage_inode # None /\ j.rollback_expected
    /\ j.phase = "live_verified" =>
           /\ j.resume /\ j.rollback_expected /\ j.commit_possible
           /\ j.old_inode # j.stage_inode

NoTransaction == \A name \in Names \ {CANONICAL} : ~exists(name)

CanonicalIs(cert, inode) ==
    status(CANONICAL) /\ dir[CANONICAL] = inode /\ collect(CANONICAL) = cert

\* _validate_live_verified_files
LiveVerifiedFiles(j, rollback_optional) ==
    /\ CanonicalIs(j.issued, j.stage_inode) /\ LinkedOnce(CANONICAL)
    /\ IF exists(ROLLBACK)
       THEN /\ LinkedOnce(ROLLBACK)
            /\ dir[ROLLBACK] = j.old_inode /\ collect(ROLLBACK) = j.old
       ELSE rollback_optional
    /\ ~exists(STAGE) /\ ~exists(JOURNAL_NEW)

\* recover: a rollback that is there must be the old keystore, and one that is
\* expected may be missing only when the old keystore is canonical again.
RollbackAcceptable ==
    IF exists(ROLLBACK)
    THEN dir[ROLLBACK] = jm.old_inode /\ collect(ROLLBACK) = jm.old
    ELSE jm.rollback_expected => dir[CANONICAL] = jm.old_inode

StageAcceptable ==
    exists(STAGE) =>
        /\ status(STAGE)
        /\ jm.stage_inode # None => dir[STAGE] = jm.stage_inode

-----------------------------------------------------------------------------
(* Control.                                                                *)

\* Mutant of LiveCertificate: any certificate that Java presents will do.
LiveService == serving # None

\* verify_prepared_live_tls_certificate: the leaf that Java presents.
LiveCertificate == serving = jm.issued

\* What the code checks at a control point before it acts there.
Checks ==
    /\ pc \in {"quiesce", "import_checks", "sync_canonical", "commit", "resume",
               "decide", "restore", "recover_resume"} => stopped
    /\ pc \in {"quiesce", "import_checks", "sync_canonical", "restored"} =>
           CanonicalIs(jm.old, jm.old_inode)
    /\ pc \in {"quiesce", "sync_canonical", "commit", "resumed"} => same
    /\ pc \in {"copy_stage", "import", "sync_stage", "commit"} => status(STAGE)
    /\ pc = "import" => collect(STAGE) = jm.old
    /\ pc = "sync_stage" => collect(STAGE) = jm.issued
    /\ pc \in {"verify_commit", "resume"} =>
           CanonicalIs(jm.issued, jm.stage_inode)
    /\ pc = "decide" => status(CANONICAL) /\ RollbackAcceptable
    /\ pc = "restore" => status(ROLLBACK)
    /\ pc = "recover_resume" => StageAcceptable /\ collect(CANONICAL) \in Certs
    /\ pc \in {"await_up", "recheck"} => running
    /\ pc = "observe" => LiveCertificate
    /\ pc = "recheck" => LiveVerifiedFiles(jm, FALSE)
    /\ pc = "remove_rollback" /\ op # "verify" => LiveVerifiedFiles(jm, TRUE)

At(label) == pc = label /\ w = "none" /\ Checks

Goto(label) == pc' = label /\ UNCHANGED <<w, jm>>

\* _phase: the new journal is kept in memory, validated and then written.
_phase(j, next) ==
    /\ jm' = j
    /\ w' = IF ValidJournal(j) THEN "create" ELSE "invalid"
    /\ pc' = next

\* An exception.  Once the first journal is durable the handler of exclusive()
\* records recovery_required; elsewhere the exception leaves the operation.
Fail ==
    IF op = "install" /\ pc # "handler" /\ ~(pc = "stop" /\ w # "none")
    THEN _phase([jm EXCEPT !.phase = "recovery_required"], "handler")
    ELSE pc' = "raised" /\ w' = "none" /\ UNCHANGED jm

\* A step that only a fault of the environment explains.
Faulty == faults > 0 /\ faults' = faults - 1

\* What most steps leave alone.
Keep == UNCHANGED <<op, outcome, lock, booted, faults>>
KeepService == UNCHANGED <<serviceVars, expect>>
OnlyControl == Keep /\ KeepService /\ UNCHANGED <<filesVars, keytool>>

\* Mutant of WriteJournal: the directory is not synced after the rename.
WriteJournalUnsynced ==
    /\ Keep /\ KeepService /\ UNCHANGED <<pc, jm, keytool, content, synced, unsafe>>
    /\ \/ w = "create" /\ w' = "rename" /\ Put(JOURNAL_NEW, jm)
       \/ w = "rename" /\ w' = "none" /\ replace(JOURNAL_NEW, JOURNAL)

WriteJournal ==
    /\ Keep /\ KeepService /\ UNCHANGED <<pc, jm, keytool, content, synced, unsafe>>
    /\ \/ w = "create" /\ w' = "rename" /\ Put(JOURNAL_NEW, jm)
       \/ w = "rename" /\ w' = "sync" /\ replace(JOURNAL_NEW, JOURNAL)
       \/ w = "sync" /\ w' = "none" /\ sync_directory

\* Mutant of CheckFails: the waits for s6 and for Java have no deadline.
CheckFailsPatiently ==
    /\ op # "none" /\ w = "none" /\ ~Checks
    /\ ~(pc \in {"quiesce", "decide"} /\ svc = "stopping")
    /\ ~(pc \in {"await_up", "observe"} /\ svc = "starting")
    /\ Fail
    /\ OnlyControl

\* A check that does not hold raises: at once, or, where s6-svc -wD, s6-svc -wU
\* or the TLS retry loop waits for it, when the deadline of that wait has passed.
CheckFails ==
    /\ op # "none" /\ w = "none" /\ ~Checks
    /\ Fail
    /\ OnlyControl

-----------------------------------------------------------------------------
(* exclusive() and import_certificate_reply().                             *)

\* _locked: flock fails while another helper or an orphaned child holds it.
Acquire(operation) ==
    /\ op = "none" /\ lock = "free" /\ keytool = None
    /\ op' = operation /\ lock' = "held"
    /\ UNCHANGED <<keytool, booted, faults>>

\* The request is current when its expected state is what the canonical holds:
\* a stale request raises here, before anything changes.
BeginInstall ==
    /\ booted
    /\ Acquire("install")
    /\ NoTransaction
    /\ status(CANONICAL) /\ collect(CANONICAL) \in Certs
    /\ svc \in {"up", "down"}
    /\ _phase([phase |-> "quiescing", resume |-> running,
               old |-> collect(CANONICAL), issued |-> None,
               old_inode |-> dir[CANONICAL], stage_inode |-> None,
               rollback_expected |-> FALSE, commit_possible |-> FALSE], "stop")
    /\ expect' = FALSE /\ outcome' = "none"
    /\ touched' = FALSE /\ rewritten' = {} /\ served' = {}
    /\ UNCHANGED <<filesVars, svc, serving>>

\* s6-svc -d, for an installation and for a recovery.
Stop ==
    /\ At("stop")
    /\ s6_down /\ expect' = TRUE
    /\ Goto(IF op = "install" THEN "quiesce" ELSE "decide")
    /\ Keep /\ UNCHANGED <<filesVars, serving, served, rewritten, touched, keytool>>

Quiesce ==
    /\ At("quiesce")
    /\ _phase([jm EXCEPT !.phase = "quiesced"], "import_checks")
    /\ OnlyControl

\* import_certificate_reply up to its first journal; the issued certificate
\* has passed prepare_certificate_import and the executor's policy.
ImportChecks ==
    /\ At("import_checks")
    /\ \E issued \in Certs :
           _phase([jm EXCEPT !.phase = "staging", !.issued = issued], "create_stage")
    /\ touched' = FALSE
    /\ Keep
    /\ UNCHANGED <<filesVars, svc, serving, served, rewritten, expect, keytool>>

CopyStage ==
    /\ Keep /\ KeepService /\ UNCHANGED keytool
    /\ \/ At("create_stage") /\ Goto("chown_stage") /\ \E i \in Inodes : CreateStage(i)
       \/ At("chown_stage") /\ Goto("copy_stage") /\ ChownStage
       \/ /\ At("copy_stage")
          /\ copy_stage
          /\ _phase([jm EXCEPT !.stage_inode = dir[STAGE]], "import")

\* Mutant of Import: keytool is given the canonical keystore.
ImportIntoCanonical ==
    /\ Keep /\ KeepService /\ UNCHANGED <<dir, disk, unsafe>>
    /\ \/ /\ At("import") /\ Goto("importing")
          /\ Store(dir[CANONICAL], Junk)
          /\ keytool' = dir[CANONICAL]
       \/ /\ At("importing") /\ Goto("sync_stage")
          /\ Store(dir[CANONICAL], jm.issued)
          /\ keytool' = None

\* keytool -importcert rewrites the stage in place: torn while it runs.
Import ==
    /\ Keep /\ KeepService /\ UNCHANGED <<dir, disk, unsafe>>
    /\ \/ /\ At("import") /\ Goto("importing")
          /\ Store(dir[STAGE], Junk)
          /\ keytool' = dir[STAGE]
       \/ /\ At("importing") /\ Goto("sync_stage")
          /\ Store(dir[STAGE], jm.issued)
          /\ keytool' = None

SyncStage ==
    /\ At("sync_stage")
    /\ sync_file(STAGE)
    /\ _phase([jm EXCEPT !.phase = "staged_validated"], "sync_canonical")
    /\ Keep /\ KeepService /\ UNCHANGED <<dir, disk, content, unsafe, keytool>>

SyncCanonical ==
    /\ At("sync_canonical") /\ Goto("link")
    /\ sync_file(CANONICAL)
    /\ Keep /\ KeepService /\ UNCHANGED <<dir, disk, content, unsafe, keytool>>

\* Mutant of LinkRollback: the journal does not say that a rollback exists.
LinkRollbackUnrecorded ==
    /\ Keep /\ KeepService /\ UNCHANGED <<content, synced, unsafe, keytool>>
    /\ \/ At("link") /\ Goto("sync_link") /\ link_rollback
       \/ /\ At("sync_link")
          /\ sync_directory
          /\ _phase([jm EXCEPT !.phase = "rollback_durable"], "committable")

LinkRollback ==
    /\ Keep /\ KeepService /\ UNCHANGED <<content, synced, unsafe, keytool>>
    /\ \/ At("link") /\ Goto("sync_link") /\ link_rollback
       \/ /\ At("sync_link")
          /\ sync_directory
          /\ _phase([jm EXCEPT !.phase = "rollback_durable",
                               !.rollback_expected = TRUE], "committable")

Committable ==
    /\ At("committable")
    /\ _phase([jm EXCEPT !.phase = "commit_possible", !.commit_possible = TRUE],
              "commit")
    /\ OnlyControl

Commit ==
    /\ Keep /\ KeepService /\ UNCHANGED <<content, synced, unsafe, keytool>>
    /\ \/ At("commit") /\ Goto("sync_commit") /\ replace(STAGE, CANONICAL)
       \/ /\ At("sync_commit")
          /\ sync_directory
          /\ _phase([jm EXCEPT !.phase = "committed"], "verify_commit")

VerifyCommit ==
    /\ At("verify_commit")
    /\ _phase([jm EXCEPT !.phase = "canonical_verified"], "resume")
    /\ OnlyControl

-----------------------------------------------------------------------------
(* _resume_service(), for an installation and for a recovery.              *)

Resume ==
    /\ At("resume") \/ At("recover_resume")
    /\ IF jm.resume /\ op # "startup"
       THEN s6_up /\ Goto("await_up")
       ELSE UNCHANGED svc /\ Goto("resumed")
    /\ touched' = FALSE
    /\ Keep
    /\ UNCHANGED <<filesVars, serving, served, rewritten, expect, keytool>>

AwaitUp ==
    /\ At("await_up") /\ Goto("resumed")
    /\ expect' = FALSE
    /\ Keep /\ UNCHANGED <<filesVars, serviceVars, keytool>>

Resumed ==
    /\ At("resumed")
    /\ IF op = "install" THEN _phase([jm EXCEPT !.phase = PENDING], "returned")
       ELSE _phase([jm EXCEPT !.phase = outcome],
                   IF outcome = "recovered_old" THEN "remove_stage" ELSE "returned")
    /\ OnlyControl

-----------------------------------------------------------------------------
(* verify_pending() and the cleanup it shares with recover().              *)

BeginVerify ==
    /\ booted
    /\ Acquire("verify")
    /\ exists(JOURNAL) /\ ValidJournal(dir[JOURNAL])
    /\ dir[JOURNAL].phase = PENDING /\ dir[JOURNAL].resume
    /\ running
    /\ jm' = dir[JOURNAL] /\ LiveVerifiedFiles(dir[JOURNAL], FALSE)
    /\ w' = w /\ pc' = "observe" /\ expect' = FALSE /\ outcome' = "none"
    /\ UNCHANGED <<filesVars, serviceVars>>

Observe == At("observe") /\ Goto("recheck") /\ OnlyControl

Recheck ==
    /\ At("recheck")
    /\ _phase([jm EXCEPT !.phase = "live_verified"], "establish")
    /\ OnlyControl

\* _establish_live_verified_durability, then _finish_live_verified, whose last
\* two steps also end the cleanup of a recovered old keystore.
Cleanup ==
    /\ Keep /\ KeepService /\ UNCHANGED <<content, synced, unsafe, keytool>>
    /\ \/ At("establish") /\ Goto("remove_rollback") /\ sync_directory
       \/ At("remove_rollback") /\ Goto("sync_cleanup") /\ remove(ROLLBACK)
       \/ At("remove_stage") /\ Goto("remove_old_rollback") /\ remove(STAGE)
       \/ At("remove_old_rollback") /\ Goto("remove_new") /\ remove(ROLLBACK)
       \/ At("remove_new") /\ Goto("sync_cleanup") /\ remove(JOURNAL_NEW)
       \/ At("sync_cleanup") /\ Goto("remove_journal") /\ sync_directory
       \/ At("remove_journal") /\ Goto("sync_journal") /\ remove(JOURNAL)
       \/ At("sync_journal") /\ Goto("returned") /\ sync_directory

-----------------------------------------------------------------------------
(* recover().                                                              *)

\* Mutant of BeginRecoverClean: the interrupted sync is not completed.
BeginRecoverCleanUnsynced(operation) ==
    /\ booted <=> operation = "recover"
    /\ Acquire(operation)
    /\ NoTransaction
    /\ jm' = None /\ w' = w /\ pc' = "returned" /\ expect' = FALSE /\ outcome' = "none"
    /\ UNCHANGED <<filesVars, serviceVars>>

\* Without a journal there must be no transaction file either.
BeginRecoverClean(operation) ==
    /\ booted <=> operation = "recover"
    /\ Acquire(operation)
    /\ NoTransaction
    /\ sync_directory
    /\ jm' = None /\ w' = w /\ pc' = "returned" /\ expect' = FALSE /\ outcome' = "none"
    /\ UNCHANGED <<content, synced, unsafe, serviceVars>>

BeginRecover(operation) ==
    /\ booted <=> operation = "recover"
    /\ Acquire(operation)
    /\ exists(JOURNAL) /\ ValidJournal(dir[JOURNAL])
    /\ jm' = dir[JOURNAL] /\ w' = w /\ expect' = FALSE /\ outcome' = "none"
    /\ pc' = IF dir[JOURNAL].phase = "live_verified" THEN "establish" ELSE "stop"
    /\ UNCHANGED <<filesVars, serviceVars>>

\* What recover() makes of the canonical keystore; found is what keytool -list
\* reads, Junk when it cannot.
IsOld(found) == found = jm.old /\ dir[CANONICAL] = jm.old_inode

\* Mutant of IsIssued: the certificate alone decides.
IsIssuedByName(found) == jm.commit_possible /\ exists(ROLLBACK) /\ found = jm.issued

IsIssued(found) ==
    /\ jm.commit_possible /\ exists(ROLLBACK)
    /\ found = jm.issued /\ dir[CANONICAL] = jm.stage_inode

IsLost(found) ==
    /\ jm.commit_possible /\ exists(ROLLBACK)
    /\ found = Junk /\ dir[CANONICAL] \in {jm.old_inode, jm.stage_inode}

\* A run of keytool that fails counts as an unreadable keystore.
Decide ==
    /\ At("decide")
    /\ \E found \in {collect(CANONICAL), Junk} :
          /\ IF found = collect(CANONICAL) THEN UNCHANGED faults ELSE Faulty
          /\ \/ IsOld(found) /\ outcome' = "recovered_old" /\ Goto("recover_resume")
             \/ IsIssued(found) /\ outcome' = PENDING /\ Goto("recover_resume")
             \/ IsLost(found) /\ outcome' = "recovered_old" /\ Goto("restore")
             \/ /\ ~(IsOld(found) \/ IsIssued(found) \/ IsLost(found))
                /\ Fail /\ UNCHANGED outcome
    /\ KeepService
    /\ UNCHANGED <<op, lock, booted, filesVars, keytool>>

Restore ==
    /\ Keep /\ KeepService /\ UNCHANGED <<content, synced, unsafe, keytool>>
    /\ \/ At("restore") /\ Goto("sync_restore") /\ replace(ROLLBACK, CANONICAL)
       \/ At("sync_restore") /\ Goto("restored") /\ sync_directory
       \/ At("restored") /\ Goto("recover_resume") /\ UNCHANGED <<dir, disk>>

-----------------------------------------------------------------------------
(* The end of an operation, and faults.                                    *)

\* The finally block of _locked: the lock is kept, and the operation raises,
\* when the service should be stopped and is not, or nobody can tell whether a
\* keytool is left.
Release ==
    /\ w = "none"
    /\ \/ pc = "handler" /\ Goto("raised") /\ UNCHANGED <<op, lock, booted, svc, faults>>
       \/ /\ pc \in {"returned", "raised"} /\ pc' = "idle" /\ op' = "none"
          /\ \/ lock' = (IF expect /\ ~stopped THEN "retained" ELSE "free") /\ UNCHANGED faults
             \/ lock' = "retained" /\ Faulty
          /\ jm' = None /\ UNCHANGED w
          /\ IF op = "startup" /\ pc = "returned" /\ lock' = "free"
             THEN booted' = TRUE /\ svc' = "starting"
             ELSE UNCHANGED <<booted, svc>>
    /\ UNCHANGED <<filesVars, serving, served, rewritten, touched, expect, outcome,
                   keytool>>

\* Any call may raise: an I/O error, a child that fails or times out, a process
\* table that cannot be read.  A policy that differs from the journal's, and goes
\* on doing so, is StartupGate's.  The service is expected to be stopped from just
\* before s6-svc -d on.
Raise ==
    /\ Faulty
    /\ op # "none"
    /\ pc \notin {"returned", "raised"} \/ w # "none"
    /\ Fail
    /\ expect' \in {expect, expect \/ (pc = "stop" /\ w = "none")}
    /\ keytool' = None
    /\ UNCHANGED <<filesVars, serviceVars, op, outcome, lock, booted>>

\* What the process that dies forgets.
HelperGone ==
    /\ op' = "none" /\ pc' = "idle" /\ w' = "none" /\ jm' = None
    /\ expect' = FALSE /\ outcome' = "none" /\ lock' = "free"

\* SIGKILL of the helper, or its exit; a keytool child lives on.
HelperDies ==
    /\ Faulty
    /\ op # "none" \/ lock = "retained"
    /\ HelperGone
    /\ UNCHANGED <<filesVars, serviceVars, keytool, booted>>

\* The orphan ends its import, whole or torn; its exit releases the lock.
OrphanEnds ==
    /\ op = "none" /\ keytool # None
    /\ keytool' = None
    /\ \E value \in Certs \cup {Junk} : Store(keytool, value)
    /\ UNCHANGED <<dir, disk, unsafe, serviceVars, op, pc, w, jm, expect, outcome,
                   lock, booted, faults>>

\* Every process ends.  Nothing runs Java before the startup recovery.
ContainerStops ==
    /\ Faulty
    /\ HelperGone
    /\ keytool' = None /\ booted' = FALSE
    /\ svc' = "down" /\ serving' = None
    /\ UNCHANGED <<served, rewritten, touched>>

ContainerRestart == ContainerStops /\ UNCHANGED filesVars

PowerLoss == ContainerStops /\ LosePower

-----------------------------------------------------------------------------

Init ==
    /\ \E i \in Inodes, cert \in Certs :
          /\ dir = [name \in Names |-> IF name = CANONICAL THEN i ELSE None]
          /\ content = [j \in Inodes |-> IF j = i THEN cert ELSE Junk]
          /\ svc \in {"up", "down"}
          /\ serving = IF svc = "up" THEN cert ELSE None
    /\ disk = {dir} /\ synced = {} /\ unsafe = {}
    /\ served = {} /\ rewritten = {} /\ touched = FALSE
    /\ op = "none" /\ pc = "idle" /\ w = "none" /\ jm = None
    /\ expect = FALSE /\ outcome = "none" /\ lock = "free" /\ keytool = None
    /\ booted = TRUE /\ faults = MaxFaults

BeginRecovery ==
    \E operation \in {"recover", "startup"} :
        BeginRecoverClean(operation) \/ BeginRecover(operation)

Step ==
    \/ WriteJournal \/ CheckFails \/ Release
    \/ Stop \/ Quiesce \/ ImportChecks \/ CopyStage \/ Import \/ SyncStage
    \/ SyncCanonical \/ LinkRollback \/ Committable \/ Commit \/ VerifyCommit
    \/ Resume \/ AwaitUp \/ Resumed
    \/ Observe \/ Recheck \/ Cleanup
    \/ Decide \/ Restore

KeepExecutor ==
    UNCHANGED <<op, pc, w, jm, expect, outcome, lock, keytool, booted>>

JavaSteps ==
    /\ JavaUp(TRUE) \/ JavaDown
    /\ KeepExecutor /\ UNCHANGED faults

JavaFaults ==
    /\ JavaUp(FALSE) \/ JavaCrash \/ \E cert \in Certs : JavaRewrites(cert)
    /\ KeepExecutor /\ Faulty

Fault == Raise \/ HelperDies \/ ContainerRestart \/ PowerLoss \/ JavaFaults

Next ==
    \/ BeginInstall \/ BeginVerify \/ BeginRecovery
    \/ Step \/ OrphanEnds \/ JavaSteps \/ Fault

Spec == Init /\ [][Next]_vars

-----------------------------------------------------------------------------
(* Properties.                                                             *)

Labels ==
    {"idle", "stop", "quiesce", "import_checks", "create_stage", "chown_stage",
     "copy_stage", "import", "importing", "sync_stage", "sync_canonical", "link",
     "sync_link", "committable", "commit", "sync_commit", "verify_commit",
     "resume", "await_up", "resumed", "observe", "recheck", "establish",
     "remove_rollback", "remove_stage", "remove_old_rollback", "remove_new",
     "sync_cleanup", "remove_journal", "sync_journal", "decide", "restore",
     "sync_restore", "restored", "recover_resume", "handler", "returned", "raised"}

Directories ==
    {d \in [Names -> Inodes \cup Journals \cup {None}] :
        /\ d[CANONICAL] \in Inodes
        /\ d[STAGE] \in Inodes \cup {None} /\ d[ROLLBACK] \in Inodes \cup {None}
        /\ d[JOURNAL] \in Journals \cup {None}
        /\ d[JOURNAL_NEW] \in Journals \cup {None}}

\* The types of the variables: the directory always has a canonical keystore,
\* and what processes see is one of the directories a power loss may leave.
TypeOK ==
    /\ disk \subseteq Directories /\ dir \in disk
    /\ content \in [Inodes -> Certs \cup {Junk}]
    /\ synced \subseteq Inodes /\ unsafe \subseteq Inodes
    /\ svc \in ServiceStates /\ serving \in Certs \cup {Junk, None}
    /\ served \subseteq Certs \cup {Junk, None} /\ rewritten \subseteq Inodes
    /\ touched \in BOOLEAN
    /\ op \in {"none", "install", "verify", "recover", "startup"}
    /\ pc \in Labels /\ w \in {"none", "create", "rename", "sync", "invalid"}
    /\ jm \in Journals \cup {None}
    /\ expect \in BOOLEAN /\ outcome \in {"none", PENDING, "recovered_old"}
    /\ lock \in {"free", "held", "retained"} /\ keytool \in Inodes \cup {None}
    /\ booted \in BOOLEAN /\ faults \in 0..MaxFaults

Survives(i, cert) == content[i] = cert /\ i \in synced

\* Wherever a power loss strikes, a journal that comes back stands beside the
\* old keystore it names, or beside the issued one it names with commit intent
\* and the rollback that undoes it (given up only under live_verified).  Until
\* the transaction is settled both are whole and fsynced, except one that Java
\* itself rewrote.
Recoverable ==
    \A d \in disk : LET j == d[JOURNAL] IN j # None =>
        \/ /\ d[CANONICAL] = j.old_inode
           /\ /\ j.rollback_expected /\ j.phase # "recovered_old"
              /\ j.old_inode \notin rewritten
              => Survives(j.old_inode, j.old)
        \/ /\ d[CANONICAL] = j.stage_inode /\ j.commit_possible
           /\ \/ j.phase = "live_verified"
              \/ /\ d[ROLLBACK] = j.old_inode
                 /\ j.old_inode \notin rewritten => Survives(j.old_inode, j.old)
                 /\ j.stage_inode \notin rewritten => Survives(j.stage_inode, j.issued)

\* No power loss leaves a stage or a rollback that no journal explains, nor a
\* UniFi that an installation stopped without a journal to start it again.
Attributed ==
    \A d \in disk : d[JOURNAL] = None =>
        /\ d[STAGE] = None /\ d[ROLLBACK] = None
        /\ ~(op = "install" /\ expect)

\* _validate_journal refuses neither a journal the executor is about to write,
\* the one of its exception handler included, nor one that recover() may read.
JournalAccepted ==
    /\ w # "invalid"
    /\ \A d \in disk : d[JOURNAL] # None => ValidJournal(d[JOURNAL])

\* A result that an operation returns is durable: an installation and a
\* recovery leave a pending transaction whole, everything else leaves none.
ReturnsDurably ==
    pc = "returned" /\ w = "none" =>
        /\ disk = {dir}
        /\ IF exists(JOURNAL)
           THEN /\ op # "verify" /\ dir[JOURNAL] = jm /\ jm.phase = PENDING
                /\ dir[CANONICAL] = jm.stage_inode /\ dir[ROLLBACK] = jm.old_inode
           ELSE NoTransaction
        /\ op = "verify" =>
               /\ dir[CANONICAL] = jm.stage_inode
               /\ jm.stage_inode \notin rewritten => Survives(jm.stage_inode, jm.issued)

\* While Java is down nothing writes into the canonical keystore: keytool works
\* on an independent inode, and a power loss spares what was fsynced.
CanonicalUntouched ==
    [][LET i == dir[CANONICAL] IN
       svc = "down" /\ content'[i] # content[i] => i \notin synced /\ ~booted']_vars

\* The rename that commits never discards a change Java made to the keystore
\* after the executor looked at it, and no Java runs across it.
NoLostUpdate ==
    [][op = "install" /\ booted' /\ dir'[CANONICAL] # dir[CANONICAL] =>
       svc = "down" /\ dir[CANONICAL] \notin rewritten]_vars

\* The last link to the old keystore disappears only after Java has presented
\* the certificate that replaces it, power losses included.
RollbackGivenUp ==
    [][LET i == dir[ROLLBACK] IN
       i # None /\ dir'[ROLLBACK] # i /\ dir'[CANONICAL] # i =>
           dir[JOURNAL].issued \in served]_vars

\* Every operation ends: it returns, raises, or its helper dies.
OperationsEnd == (op # "none") ~> (op = "none")

\* docs/unifi-executor.md: when a verification leaves no live_verified journal
\* "the earlier pending state and rollback remain authoritative and a later
\* caller must verify live TLS again".  A temporary journal left beside the
\* pending one makes _validate_live_verified_files refuse that caller.
PendingVerifiable ==
    [][/\ op = "verify" /\ op' = "none" /\ dir'[JOURNAL] # None
       /\ dir'[JOURNAL].phase = PENDING
       => dir'[JOURNAL_NEW] = None]_vars

\* docs/unifi-executor.md: cleanup "rejects any surviving stage or temporary
\* journal, because none of those namespace states is reachable after a valid
\* transition".  But _no_transaction does not sync the directory: when a helper
\* dies between the unlink of its live_verified journal and the fsync, the next
\* installation creates a temporary journal that a power loss leaves beside it.
LiveVerifiedAlone ==
    exists(JOURNAL) /\ dir[JOURNAL].phase = "live_verified" => ~exists(JOURNAL_NEW)
=============================================================================

----------------------------- MODULE StartupGate -----------------------------
(***************************************************************************)
(* The boot of the UniFi container: recover_startup and                    *)
(* secure_after_linuxserver_init of src/unifi_executor_service.py, in the  *)
(* order of the s6 services, around UnifiExecutor.  A first oneshot takes  *)
(* the executor's files back to root and recovers; LinuxServer's init then *)
(* gives the whole directory to the user abc; a second oneshot does what   *)
(* the first did; and only then may Java and the executor run.  Any of     *)
(* these may be cut short; the next boot begins with what that left.       *)
(***************************************************************************)
EXTENDS UnifiExecutorInvariant

VARIABLES
    gate,       \* how far this boot has come
    abc,        \* the executor's own files that belong to abc
    loose,      \* files whose change of owner or mode has not been fsynced
    syncing,    \* those of them that the ownership pass fsyncs next, at most one
    drift       \* the executor's policy is not the one that the journal names

gateVars == <<gate, abc, loose, syncing, drift>>
bootVars == <<vars, gateVars>>

LOCK == ".cert-renewer-lock"

\* Each oneshot checks, owns and recovers.  A boot that has failed is blocked.
Gates == {"off", "check1", "own1", "recover1", "init", "check2", "own2",
          "recover2", "open", "blocked"}

\* The lock file is there since the first boot; a journal need not be.
AdminFiles == {LOCK} \cup {name \in {JOURNAL, JOURNAL_NEW} : exists(name)}

\* A file of directory d.  It is another one once its name holds something else.
File(d, name) == <<name, IF name = LOCK THEN None ELSE d[name]>>

Files(d) == {File(d, name) : name \in {LOCK, JOURNAL, JOURNAL_NEW, CANONICAL}}

\* The files of fs that a power loss may still bring back.
Reachable(fs, ds) == {f \in fs : \E d \in ds : f \in Files(d)}

-----------------------------------------------------------------------------
(* _validate_normalization_transaction, for a directory with a journal.    *)

progress(j) ==
    <<j.issued # None, j.stage_inode # None, j.rollback_expected, j.commit_possible>>

progress_initial == <<FALSE, FALSE, FALSE, FALSE>>
progress_staging == <<TRUE, FALSE, FALSE, FALSE>>
progress_staged == <<TRUE, TRUE, FALSE, FALSE>>
progress_rollback == <<TRUE, TRUE, TRUE, FALSE>>
progress_committable == <<TRUE, TRUE, TRUE, TRUE>>

Settling == {"recovery_required", "recovered_old"}

AfterCommit == {"committed", "canonical_verified", PENDING, "live_verified"}

allowed_progress(phase) ==
    CASE phase \in {"quiescing", "quiesced"} -> {progress_initial}
      [] phase = "staging" -> {progress_staging, progress_staged}
      [] phase = "staged_validated" -> {progress_staged}
      [] phase = "rollback_durable" -> {progress_rollback}
      [] phase \in AfterCommit \cup {"commit_possible"} -> {progress_committable}
      [] phase \in Settling ->
             {progress_initial, progress_staging, progress_staged,
              progress_rollback, progress_committable}

allowed_canonical(j) ==
    CASE j.phase \in AfterCommit -> {j.stage_inode}
      [] \/ j.phase = "commit_possible"
         \/ j.phase = "recovery_required" /\ progress(j) = progress_committable ->
             {j.old_inode, j.stage_inode}
      [] OTHER -> {j.old_inode}

\* Mutant of stage_required: a committed stage is still asked for.
stage_required_always(d, j) ==
    progress(j) \in {progress_staged, progress_rollback, progress_committable}

stage_required(d, j) ==
    \/ progress(j) \in {progress_staged, progress_rollback}
    \/ progress(j) = progress_committable /\ d[CANONICAL] = j.old_inode

rollback_required(j) ==
    \/ j.phase \in {"rollback_durable", "commit_possible", "committed",
                    "canonical_verified", PENDING}
    \/ /\ j.phase = "recovery_required"
       /\ progress(j) \in {progress_rollback, progress_committable}

StageFits(d, j) ==
    /\ d[STAGE] # None /\ j.stage_inode # None => d[STAGE] = j.stage_inode
    /\ progress(j) = progress_initial /\ j.phase \notin Settling => d[STAGE] = None
    /\ j.phase \in AfterCommit => d[STAGE] = None
    /\ j.phase # "recovered_old" /\ progress(j) # progress_staging =>
           (stage_required(d, j) <=> d[STAGE] # None)

RollbackFits(d, j) ==
    /\ d[ROLLBACK] \in {None, j.old_inode}
    /\ rollback_required(j) => d[ROLLBACK] # None
    /\ progress(j) \in {progress_initial, progress_staging} /\ j.phase # "recovered_old" =>
           d[ROLLBACK] = None

\* _transaction_entry: a keystore file of abc with mode 0600.
_transaction_entry(d, name) == d[name] # None => d[name] \notin unsafe

_validate_normalization_transaction(d) ==
    LET j == d[JOURNAL] IN
    /\ ValidJournal(j)
    /\ progress(j) \in allowed_progress(j.phase)
    /\ \A name \in Keystores : _transaction_entry(d, name)
    /\ d[CANONICAL] \in allowed_canonical(j)
    /\ StageFits(d, j) /\ RollbackFits(d, j)
    /\ d[JOURNAL_NEW] # None => j.phase # "live_verified"

-----------------------------------------------------------------------------
(* The oneshots and LinuxServer's init.                                    *)

\* secure_after_linuxserver_init before its first chown: a journal is examined
\* only when some file has to be taken back.
Proved ==
    abc # {} =>
        /\ exists(JOURNAL_NEW) => exists(JOURNAL)
        /\ exists(JOURNAL) => _validate_normalization_transaction(dir)

\* _normalize_clean_canonical: the 0644 of a keystore LinuxServer has just made
\* becomes 0600, but only where no transaction governs it.  A keystore that is
\* 0600 already is left alone, also one whose 0600 nobody has fsynced.
_normalize_clean_canonical ==
    IF NoTransaction /\ dir[CANONICAL] \in unsafe
    THEN /\ unsafe' = unsafe \ {dir[CANONICAL]}
         /\ loose' = loose \cup {File(dir, CANONICAL)}
         /\ syncing' = {File(dir, CANONICAL)}
    ELSE UNCHANGED <<unsafe, loose, syncing>>

KeepBoot ==
    UNCHANGED <<serviceVars, op, pc, w, jm, expect, outcome, lock, keytool, booted,
                faults, drift>>

Check ==
    /\ \/ gate = "check1" /\ gate' = "own1"
       \/ gate = "check2" /\ gate' = "own2"
    /\ Proved
    /\ _normalize_clean_canonical
    /\ KeepBoot /\ UNCHANGED <<dir, disk, content, synced, abc>>

CheckRefuses ==
    /\ gate \in {"check1", "check2"} /\ gate' = "blocked"
    /\ ~Proved
    /\ KeepBoot /\ UNCHANGED <<filesVars, abc, loose, syncing>>

\* fchown of the next file that the check has found to be abc's: the lock, the
\* journal, the temporary journal.  One that root already owns is left alone.
Own ==
    /\ gate \in {"own1", "own2"} /\ syncing = {}
    /\ \E name \in abc :
          /\ name # LOCK => LOCK \notin abc
          /\ name = JOURNAL_NEW => JOURNAL \notin abc
          /\ abc' = abc \ {name}
          /\ loose' = loose \cup {File(dir, name)} /\ syncing' = {File(dir, name)}
    /\ UNCHANGED <<gate, filesVars>> /\ KeepBoot

\* Mutant of Fsync: the fsync is forgotten.
FsyncSkipped ==
    /\ syncing # {} /\ syncing' = {}
    /\ UNCHANGED <<gate, abc, loose, filesVars>> /\ KeepBoot

\* The fsync that follows the fchmod or the fchown.
Fsync ==
    /\ syncing # {} /\ syncing' = {}
    /\ loose' = loose \ syncing
    /\ UNCHANGED <<gate, abc, filesVars>> /\ KeepBoot

\* The directory fsync that ends secure_after_linuxserver_init.
Owned ==
    /\ \/ gate = "own1" /\ gate' = "recover1"
       \/ gate = "own2" /\ gate' = "recover2"
    /\ abc = {} /\ syncing = {}
    /\ sync_directory
    /\ loose' = Reachable(loose, disk')
    /\ KeepBoot /\ UNCHANGED <<content, synced, unsafe, abc, syncing>>

\* LinuxServer's recursive chown, file by file and in any order.
InitChowns ==
    /\ gate = "init"
    /\ \E name \in AdminFiles \ abc :
          abc' = abc \cup {name} /\ loose' = loose \cup {File(dir, name)}
    /\ UNCHANGED <<gate, syncing, filesVars>> /\ KeepBoot

InitDone ==
    /\ gate = "init" /\ abc = AdminFiles
    /\ gate' = "check2"
    /\ UNCHANGED <<abc, loose, syncing, filesVars>> /\ KeepBoot

-----------------------------------------------------------------------------
(* The executor behind the gate.                                           *)

\* Whoever starts the executor loads the policy anew, which somebody may have
\* edited since the journal was written.
Loaded == drift' \in IF exists(JOURNAL) THEN BOOLEAN ELSE {FALSE}

\* The strict executor opens its files only when all of them belong to root.
Startup ==
    /\ gate \in {"recover1", "recover2"} /\ abc = {}
    /\ BeginRecoverClean("startup") \/ (~drift /\ BeginRecover("startup"))

\* recover() raises before it has done anything: _require_current_policy, or a
\* transaction file without a journal.
StartupRefuses ==
    /\ gate \in {"recover1", "recover2"} /\ op = "none" /\ gate' = "blocked"
    /\ ~NoTransaction /\ (drift \/ ~exists(JOURNAL))
    /\ KeepBoot /\ UNCHANGED <<filesVars, abc, loose, syncing>>

\* The recovery of the first oneshot returns: LinuxServer's init runs next, not
\* Java as after the second one, which is UnifiExecutor's Release.
FirstReturns ==
    /\ gate = "recover1" /\ pc = "returned" /\ w = "none"
    /\ gate' = "init"
    /\ op' = "none" /\ pc' = "idle" /\ jm' = None /\ lock' = "free"
    /\ Loaded
    /\ UNCHANGED <<filesVars, serviceVars, w, expect, outcome, keytool, booted, faults,
                   abc, loose, syncing>>

Executor ==
    \/ BeginInstall \/ (~drift /\ BeginVerify)
    \/ BeginRecoverClean("recover") \/ (~drift /\ BeginRecover("recover"))
    \/ Startup \/ Step \/ OrphanEnds \/ JavaSteps
    \/ Raise \/ HelperDies \/ JavaFaults

\* Mutant of NextGate: LinuxServer's init runs after a recovery that failed.
NextGateInit ==
    gate' = IF booted' THEN "open"
            ELSE IF op' = "startup" THEN gate
            ELSE IF gate = "recover1" /\ pc = "raised" THEN "init" ELSE "blocked"

\* A oneshot that fails or is killed blocks what depends on it, until somebody
\* restarts the container.
NextGate ==
    gate' = IF booted' THEN "open" ELSE IF op' = "startup" THEN gate ELSE "blocked"

\* The executor's own fsyncs: of a journal it has replaced, of the one it is
\* about to rely on, of the keystore that it is about to link.
Resynced(f) ==
    \/ f[1] = JOURNAL /\ w = "sync" /\ w' = "none" /\ pc' = pc
    \/ f[1] = JOURNAL /\ pc = "establish" /\ pc' = "remove_rollback"
    \/ f[1] = CANONICAL /\ pc = "sync_canonical" /\ pc' = "link"

Guarded ==
    /\ Executor
    /\ gate = "recover1" => ~booted'
    /\ NextGate
    /\ loose' = Reachable({f \in loose : ~Resynced(f)}, disk')
    /\ IF booted' /\ (HelperDies \/ ~booted) THEN Loaded ELSE UNCHANGED drift
    /\ UNCHANGED <<abc, syncing>>

\* Every process ends, and the next boot begins.
Restart ==
    /\ ContainerRestart
    /\ gate # "off" /\ gate' = "check1"
    /\ syncing' = {} /\ Loaded
    /\ UNCHANGED <<abc, loose>>

BootLosesPower ==
    /\ PowerLoss
    /\ gate # "off" /\ gate' = "off"
    /\ syncing' = {} /\ loose' = Reachable(loose, disk')
    /\ UNCHANGED <<abc, drift>>

\* A change of owner or mode that was not fsynced may have been lost.
PowerOn ==
    /\ gate = "off" /\ gate' = "check1"
    /\ \E kept \in SUBSET loose :
          /\ abc' = {name \in AdminFiles :
                        \/ File(dir, name) \in kept
                        \/ name \in abc /\ File(dir, name) \notin loose}
          /\ unsafe' = unsafe \cup {i \in Inodes : <<CANONICAL, i>> \in kept}
    /\ loose' = {} /\ Loaded
    /\ UNCHANGED <<dir, disk, content, synced, serviceVars, op, pc, w, jm, expect,
                   outcome, lock, keytool, booted, faults, syncing>>

\* A container that starts, perhaps with a keystore LinuxServer has just made.
BootInit ==
    /\ \E i \in Inodes, cert \in Certs :
          /\ dir = [name \in Names |-> IF name = CANONICAL THEN i ELSE None]
          /\ content = [j \in Inodes |-> IF j = i THEN cert ELSE Junk]
          /\ unsafe \in {{}, {i}}
    /\ disk = {dir} /\ synced = {}
    /\ svc = "down" /\ serving = None /\ served = {} /\ rewritten = {} /\ touched = FALSE
    /\ op = "none" /\ pc = "idle" /\ w = "none" /\ jm = None
    /\ expect = FALSE /\ outcome = "none" /\ lock = "free" /\ keytool = None
    /\ booted = FALSE /\ faults = MaxFaults
    /\ gate = "check1" /\ abc \in SUBSET {LOCK} /\ loose = {} /\ syncing = {}
    /\ drift = FALSE

BootSteps ==
    \/ Check \/ CheckRefuses \/ Own \/ Fsync \/ Owned
    \/ InitChowns \/ InitDone \/ StartupRefuses \/ FirstReturns

BootNext == BootSteps \/ Guarded \/ Restart \/ BootLosesPower \/ PowerOn

BootSpec == BootInit /\ [][BootNext]_bootVars

\* s6 runs the oneshots and the init of a boot to their ends, and the helper does
\* not stop of itself.  Nothing is assumed of Java, of a restart or of the power.
BootFairSpec ==
    /\ BootSpec
    /\ WF_bootVars(BootSteps)
    /\ WF_bootVars(Guarded /\ (Startup \/ Step))

-----------------------------------------------------------------------------
(* Properties.                                                             *)

\* No operation of the executor, and no Java, runs while a file that recovery
\* relies on belongs to abc; and from the second recovery of a boot on, none would
\* again after a power loss, whatever an earlier boot left without its fsync.
StrictBehindGate ==
    /\ op # "none" \/ svc # "down" => abc = {}
    /\ gate \in {"recover2", "open"} => \A f \in loose : f[1] = CANONICAL

\* A recovery has put the old keystore back and has not recorded it yet.
RestoredUnderPending ==
    /\ exists(JOURNAL) /\ dir[JOURNAL].phase = PENDING
    /\ dir[CANONICAL] = dir[JOURNAL].old_inode

\* Whatever LinuxServer's chown met, complete or cut short, and whatever a power
\* loss undid of it, the next ownership pass accepts, with one exception: a
\* recovery that was cut short just after it had restored the old keystore.
PassesConverge == abc # {} => Proved \/ RestoredUnderPending

\* src/unifi_executor_service.py: "A crash between these fixed operations is
\* restart-safe because mixed root/abc ownership is accepted and revalidated on
\* the next boot."
MixtureAccepted == abc # {} => Proved

\* docs/unifi-executor.md: "Repeated starts are idempotent".  The recovery of
\* the second oneshot comes to the decision of the first: it keeps a pending
\* transaction pending, unless keytool fails under it.
SecondRecoveryAgrees ==
    [][gate = "recover2" /\ pc = "decide" /\ pc' # pc /\ faults' = faults =>
       pc' = "recover_resume" /\ outcome' = PENDING]_bootVars

\* A rollback that is there is the old keystore that journal j names; and the
\* canonical keystore is the issued one, whole, or, before its verification, the
\* old one, or damaged with a rollback to restore.
Explained(j) ==
    /\ exists(ROLLBACK) => collect(ROLLBACK) = j.old
    /\ \/ dir[CANONICAL] = j.stage_inode /\ collect(CANONICAL) = j.issued
       \/ /\ j.phase # "live_verified"
          /\ \/ dir[CANONICAL] = j.old_inode /\ collect(CANONICAL) = j.old
             \/ collect(CANONICAL) = Junk /\ exists(ROLLBACK)

\* What a boot leaves to the operator: an interrupted file creation, also one
\* that a power loss put beside a live_verified journal; keystores that the
\* journal does not explain, because Java changed one or a power loss mixed two
\* states; a canonical keystore whose mode a power loss took back; a journal of
\* another policy; and the one directory that the ownership pass refuses.
OperatorNeeded ==
    \/ exists(JOURNAL_NEW) /\ ~exists(JOURNAL)
    \/ exists(STAGE) /\ dir[STAGE] \in unsafe
    \/ /\ exists(JOURNAL)
       /\ \/ exists(JOURNAL_NEW) /\ dir[JOURNAL].phase = "live_verified"
          \/ ~Explained(dir[JOURNAL])
          \/ dir[CANONICAL] \in unsafe
          \/ drift
          \/ abc # {} /\ RestoredUnderPending

\* A boot under which nothing fails ends with Java started, unless it needs an
\* operator.
BootOpens ==
    \A n \in 0..MaxFaults :
        (gate = "check1" /\ faults = n) ~>
            (gate = "open" \/ OperatorNeeded \/ faults # n)
=============================================================================

------------------------- MODULE UnifiExecutorProofs -------------------------
(***************************************************************************)
(* Proofs about UnifiExecutor for every set of inodes and certificates and *)
(* every number of faults: that its variables keep their types, that       *)
(* UnifiExecutorInvariant's Inductive is preserved, the safety properties  *)
(* that follow, and the refinement of KeystoreTransaction.                 *)
(***************************************************************************)
EXTENDS UnifiExecutorRefinement, TLAPS

\* Most leaves are first-order; those that are not name their prover.
USE ZenonT(30)
USE DEF CANONICAL, STAGE, ROLLBACK, JOURNAL, JOURNAL_NEW, Keystores, Names

Dirs == disk \subseteq Directories /\ dir \in disk


-----------------------------------------------------------------------------
(* The operations of _Files keep the directories well formed.              *)

\* One directory: a keystore name other than the canonical may hold any inode
\* or be absent, a journal name any journal, and the canonical any inode.
LEMMA DirectoryUpdates ==
    ASSUME NEW d \in Directories
    PROVE  /\ \A name \in {STAGE, ROLLBACK}, v \in Inodes \cup {None} :
                  Bind(d, name, v) \in Directories
           /\ \A name \in {JOURNAL, JOURNAL_NEW}, v \in Journals \cup {None} :
                  Bind(d, name, v) \in Directories
           /\ \A name \in {STAGE, ROLLBACK}, v \in Inodes :
                  Move(d, name, CANONICAL, v) \in Directories
           /\ \A v \in Journals \cup {None} :
                  Move(d, JOURNAL_NEW, JOURNAL, v) \in Directories
  BY DEF Directories, Move, Bind

\* What the names of a well-formed directory hold.
LEMMA DirectoryValues ==
    ASSUME NEW d \in Directories
    PROVE  /\ d[CANONICAL] \in Inodes
           /\ d[STAGE] \in Inodes \cup {None} /\ d[ROLLBACK] \in Inodes \cup {None}
           /\ d[JOURNAL] \in Journals \cup {None}
           /\ d[JOURNAL_NEW] \in Journals \cup {None}
  BY DEF Directories

\* Creating, linking and unlinking a keystore name.
LEMMA PutKeystore ==
    ASSUME NEW name \in {STAGE, ROLLBACK}, NEW v \in Inodes \cup {None},
           Dirs, Put(name, v)
    PROVE  Dirs'
  BY DirectoryUpdates, SMT DEF Dirs, Put

\* Creating and unlinking a journal name.
LEMMA PutJournal ==
    ASSUME NEW name \in {JOURNAL, JOURNAL_NEW}, NEW v \in Journals \cup {None},
           Dirs, Put(name, v)
    PROVE  Dirs'
  BY DirectoryUpdates, SMT DEF Dirs, Put

\* Renaming an existing keystore over the canonical keeps a canonical.
LEMMA ReplaceCanonical ==
    ASSUME NEW source \in {STAGE, ROLLBACK}, exists(source), Dirs,
           replace(source, CANONICAL)
    PROVE  Dirs'
  <1>1. dir[source] \in Inodes
    BY DirectoryValues DEF Dirs, exists
  <1> QED  BY <1>1, DirectoryUpdates, SMT DEF Dirs, replace

\* Renaming the temporary journal over the journal.
LEMMA ReplaceJournal ==
    ASSUME Dirs, replace(JOURNAL_NEW, JOURNAL)
    PROVE  Dirs'
  <1>1. dir[JOURNAL_NEW] \in Journals \cup {None}
    BY DirectoryValues DEF Dirs
  <1> QED  BY <1>1, DirectoryUpdates, SMT DEF Dirs, replace

\* Removing any name but the canonical.
LEMMA RemoveTyped ==
    ASSUME NEW name \in Names \ {CANONICAL}, Dirs, remove(name)
    PROVE  Dirs'
  <1>1. CASE exists(name)
    <2>1. Put(name, None)
      BY <1>1 DEF remove
    <2> QED  BY <2>1, PutKeystore, PutJournal
  <1>2. CASE ~exists(name)
    BY <1>2, SMT DEF remove, Dirs
  <1> QED  BY <1>1, <1>2

\* Syncing the directory leaves the visible one only.
LEMMA SyncTyped ==
    ASSUME Dirs, sync_directory
    PROVE  Dirs'
  BY DEF Dirs, sync_directory

\* A power loss brings one of the directories back.
LEMMA LosePowerTyped ==
    ASSUME Dirs, LosePower
    PROVE  Dirs'
  BY DEF Dirs, LosePower

-----------------------------------------------------------------------------
(* Type correctness.                                                       *)

FilesOK ==
    /\ Dirs
    /\ content \in [Inodes -> Certs \cup {Junk}]
    /\ synced \subseteq Inodes /\ unsafe \subseteq Inodes

ServiceOK ==
    /\ svc \in ServiceStates /\ serving \in Certs \cup {Junk, None}
    /\ served \subseteq Certs \cup {Junk, None} /\ rewritten \subseteq Inodes
    /\ touched \in BOOLEAN

ControlOK ==
    /\ op \in {"none", "install", "verify", "recover", "startup"}
    /\ pc \in Labels /\ w \in {"none", "create", "rename", "sync", "invalid"}
    /\ jm \in Journals \cup {None}
    /\ expect \in BOOLEAN /\ outcome \in {"none", PENDING, "recovered_old"}
    /\ lock \in {"free", "held", "retained"} /\ keytool \in Inodes \cup {None}
    /\ booted \in BOOLEAN /\ faults \in 0..MaxFaults

Typed == FilesOK /\ ServiceOK /\ ControlOK

\* The three parts of the type invariant.
LEMMA TypedIsTypeOK == Typed <=> TypeOK
  BY DEF Typed, TypeOK, FilesOK, ServiceOK, ControlOK, Dirs

\* _phase leaves a journal in memory and about to be written.
LEMMA PhaseTyped ==
    ASSUME NEW j \in Journals, NEW next \in Labels, _phase(j, next)
    PROVE  jm' = j /\ jm' # None /\ pc' = next /\ w' \in {"create", "invalid"}
  BY NullJournal DEF _phase

\* A step that fails leaves the control well formed.
LEMMA FailTyped ==
    ASSUME ControlOK, Control, op # "none", Fail,
           pc \notin {"returned", "raised"} \/ w # "none"
    PROVE  /\ pc' \in {"handler", "raised"} /\ w' \in {"none", "create", "invalid"}
           /\ jm' \in Journals /\ jm' # None
           /\ pc' = "handler" => op = "install"
  <1>1. jm \in Journals
    BY DEF ControlOK, Control
  <1>2. [jm EXCEPT !.phase = "recovery_required"] \in Journals
    BY <1>1, SMT DEF Journals, Phases
  <1> QED  BY <1>1, <1>2, NullJournal DEF Fail, _phase

\* The journals that the phases of a transaction write.
LEMMA JournalUpdates ==
    ASSUME NEW j \in Journals
    PROVE  /\ \A p \in Phases : [j EXCEPT !.phase = p] \in Journals
           /\ \A i \in Certs : [j EXCEPT !.phase = "staging", !.issued = i] \in Journals
           /\ \A i \in Inodes : [j EXCEPT !.stage_inode = i] \in Journals
           /\ [j EXCEPT !.phase = "rollback_durable", !.rollback_expected = TRUE]
                  \in Journals
           /\ [j EXCEPT !.phase = "commit_possible", !.commit_possible = TRUE]
                  \in Journals
  BY DEF Journals, Phases

\* The journal is written in three steps.
LEMMA TypedWriteJournal ==
    ASSUME Typed, Control, WriteJournal
    PROVE  Typed' /\ Control'
  <1>1. jm \in Journals
    BY DEF Typed, ControlOK, Control, WriteJournal
  <1>2. Dirs'
    BY <1>1, PutJournal, ReplaceJournal, SyncTyped DEF Typed, FilesOK, WriteJournal
  <1>3. FilesOK' /\ ServiceOK' /\ ControlOK'
    BY <1>2, SMT DEF Typed, FilesOK, ServiceOK, ControlOK, WriteJournal, Keep, KeepService,
        serviceVars
  <1>4. Control'
    BY DEF Control, WriteJournal, Keep, KeepService, Recovering
  <1> QED  BY <1>3, <1>4 DEF Typed

\* A failed check.
LEMMA TypedCheckFails ==
    ASSUME Typed, Control, CheckFails
    PROVE  Typed' /\ Control'
  <1>1. pc \notin {"returned", "raised"}
    BY DEF CheckFails, Checks
  <1>2. /\ pc' \in {"handler", "raised"} /\ w' \in {"none", "create", "invalid"}
        /\ jm' \in Journals /\ jm' # None
        /\ pc' = "handler" => op = "install"
    BY <1>1, FailTyped DEF CheckFails, Typed
  <1>3. FilesOK' /\ ServiceOK' /\ ControlOK'
    BY <1>2, SMT DEF Typed, FilesOK, ServiceOK, ControlOK, CheckFails, OnlyControl, Keep,
        KeepService, serviceVars, filesVars, Dirs, Labels
  <1>4. Control'
    BY <1>2 DEF Control, CheckFails, OnlyControl, Keep, KeepService, Recovering,
        InstallLabels, DecidedLabels, StagingLabels
  <1> QED  BY <1>3, <1>4 DEF Typed

\* The steps of an installation that only write the next journal, the end of a
\* resumption and the two checks of a verification.
LEMMA TypedPhases ==
    ASSUME Typed, Control,
           Quiesce \/ Committable \/ VerifyCommit \/ Resumed \/ Observe \/ Recheck
    PROVE  Typed' /\ Control'
  <1>1. jm \in Journals
    BY DEF Typed, ControlOK, Control, Quiesce, Committable, VerifyCommit, Resumed,
        Observe, Recheck, At
  <1>2. pc = "resumed" /\ op # "install" => outcome \in Phases
    BY DEF Typed, ControlOK, Control, Phases, PENDING
  <1>3. OnlyControl /\ op # "none"
    BY DEF Control, Quiesce, Committable, VerifyCommit, Resumed, Observe, Recheck, At
  <1>4. /\ jm' \in Journals /\ w' \in {"none", "create", "invalid"}
        /\ \/ Quiesce /\ pc' = "import_checks" /\ op = "install"
           \/ Committable /\ pc' = "commit" /\ op = "install"
           \/ VerifyCommit /\ pc' = "resume" /\ op = "install"
           \/ Resumed /\ pc' = "returned"
           \/ Resumed /\ pc' = "remove_stage" /\ Recovering /\ outcome # "none"
           \/ Observe /\ pc' = "recheck" /\ op = "verify"
           \/ Recheck /\ pc' = "establish" /\ op = "verify"
    <2>1. CASE Quiesce
      BY <1>1, <2>1, JournalUpdates
         DEF Quiesce, _phase, At, Control, InstallLabels,
          Phases
    <2>2. CASE Committable
      BY <1>1, <2>2, JournalUpdates
         DEF Committable, _phase, At, Control, InstallLabels
    <2>3. CASE VerifyCommit
      BY <1>1, <2>3, JournalUpdates DEF VerifyCommit, _phase, At, Control,
          InstallLabels, Phases
    <2>4. CASE Resumed
      BY <1>1, <1>2, <2>4, JournalUpdates
         DEF Resumed, _phase, At, Control, Phases
    <2>5. CASE Observe
      BY <1>1, <2>5 DEF Observe, At, Goto, Control
    <2>6. CASE Recheck
      BY <1>1, <2>6, JournalUpdates DEF Recheck, _phase, At, Control, Phases
    <2> QED  BY <2>1, <2>2, <2>3, <2>4, <2>5, <2>6
  <1>5. FilesOK' /\ ServiceOK' /\ ControlOK'
    BY <1>3, <1>4, SMT DEF Typed, FilesOK, ServiceOK, ControlOK, OnlyControl, Keep,
        KeepService, serviceVars, filesVars, Dirs, Labels
  <1>6. Control'
    BY <1>3, <1>4, NullJournal DEF Control, OnlyControl, Keep, KeepService, Recovering,
        InstallLabels, DecidedLabels, StagingLabels
  <1> QED  BY <1>5, <1>6 DEF Typed

\* The first journal of an installation.
LEMMA TypedBeginInstall ==
    ASSUME Typed, Control, BeginInstall
    PROVE  Typed' /\ Control'
  <1>1. /\ dir[CANONICAL] \in Inodes /\ collect(CANONICAL) \in Certs
        /\ running \in BOOLEAN
    BY DirectoryValues DEF Typed, FilesOK, Dirs, BeginInstall, running
  <1>2. jm' \in Journals /\ w' \in {"create", "invalid"} /\ pc' = "stop"
    BY <1>1 DEF BeginInstall, _phase, Journals, Phases
  <1>3. FilesOK' /\ ServiceOK' /\ ControlOK'
    BY <1>2 DEF Typed, FilesOK, ServiceOK, ControlOK, BeginInstall, Acquire,
        filesVars, Dirs, Labels
  <1>4. Control'
    BY <1>2, NullJournal DEF Control, BeginInstall, Acquire, Recovering,
        InstallLabels, DecidedLabels, StagingLabels
  <1> QED  BY <1>3, <1>4 DEF Typed

\* The stop of the service, and the checks before the first staging journal.
LEMMA TypedStopAndChecks ==
    ASSUME Typed, Control, Stop \/ ImportChecks
    PROVE  Typed' /\ Control'
  <1>1. CASE Stop
    <2>1. jm \in Journals /\ op \in {"install", "recover", "startup"}
      BY <1>1 DEF Typed, ControlOK, Control, Stop, At
    <2>2. FilesOK' /\ ServiceOK' /\ ControlOK'
      BY <1>1, SMT DEF Typed, FilesOK, ServiceOK, ControlOK, Stop, Keep, Goto, filesVars,
          Dirs, Labels, s6_down, ServiceStates
    <2>3. Control'
      BY <1>1, <2>1, NullJournal DEF Control, Stop, Keep, Goto, Recovering,
          InstallLabels, DecidedLabels, StagingLabels, At
    <2> QED  BY <2>2, <2>3 DEF Typed
  <1>2. CASE ImportChecks
    <2>1. jm \in Journals /\ op = "install"
      BY <1>2 DEF Typed, ControlOK, Control, ImportChecks, At, InstallLabels
    <2>2. jm' \in Journals /\ w' \in {"create", "invalid"} /\ pc' = "create_stage"
      BY <1>2, <2>1, JournalUpdates DEF ImportChecks, _phase
    <2>3. FilesOK' /\ ServiceOK'
      BY <1>2 DEF Typed, FilesOK, ServiceOK, ImportChecks, filesVars, Dirs
    <2>4. ControlOK'
      BY <1>2, <2>2 DEF Typed, ControlOK, ImportChecks, Keep, Labels
    <2>5. jm'.issued # None
      BY <1>2, <2>1, ModelValues DEF ImportChecks, _phase, Journals
    <2>6. Control'
      BY <1>2, <2>1, <2>2, <2>5, NullJournal
         DEF Control, ImportChecks, Keep, Recovering,
          InstallLabels, DecidedLabels, StagingLabels
    <2> QED  BY <2>3, <2>4, <2>6 DEF Typed
  <1> QED  BY <1>1, <1>2

\* The creation of the stage.
LEMMA TypedCopyStage ==
    ASSUME Typed, Control, CopyStage
    PROVE  Typed' /\ Control'
  <1> USE DEF Typed
  <1>1. jm \in Journals /\ jm.issued # None /\ op = "install"
    BY DEF ControlOK, Control, CopyStage, At, InstallLabels, StagingLabels
  <1>2. /\ dir[CANONICAL] \in Inodes /\ dir[STAGE] \in Inodes \cup {None}
        /\ collect(CANONICAL) \in Certs \cup {Junk}
    BY DirectoryValues DEF FilesOK, Dirs, collect
  <1>3. Dirs'
    BY PutKeystore
       DEF FilesOK, CopyStage, CreateStage, ChownStage, copy_stage, Dirs
  <1>4. FilesOK' /\ ServiceOK'
    BY <1>2, <1>3 DEF FilesOK, ServiceOK, CopyStage, CreateStage, ChownStage,
        copy_stage, Store, KeepService, serviceVars
  <1>5. At("copy_stage") => dir[STAGE] \in Inodes
    BY <1>2 DEF At, Checks, status, exists
  <1>6. /\ jm' \in Journals /\ pc' \in {"chown_stage", "copy_stage", "import"}
        /\ w' \in {"none", "create", "invalid"}
    BY <1>1, <1>5, JournalUpdates DEF CopyStage, Goto, At, _phase
  <1>7. jm'.issued # None
    BY <1>1 DEF CopyStage, Goto, At, _phase, Journals
  <1>8. ControlOK'
    BY <1>6, SMT DEF ControlOK, CopyStage, Keep, KeepService, Labels
  <1>9. Control'
    BY <1>1, <1>6, <1>7, NullJournal DEF Control, CopyStage, Keep, Recovering,
        InstallLabels, DecidedLabels, StagingLabels
  <1> QED  BY <1>4, <1>8, <1>9

\* The run of keytool -importcert.
LEMMA TypedImport ==
    ASSUME Typed, Control, Import
    PROVE  Typed' /\ Control'
  <1> USE DEF Typed
  <1>1. jm \in Journals /\ jm.issued \in Certs /\ op = "install"
    BY DEF ControlOK, Control, Import, At, InstallLabels, StagingLabels, Journals
  <1>2. dir[STAGE] \in Inodes \cup {None}
    BY DirectoryValues DEF FilesOK, Dirs
  <1>3. At("import") => dir[STAGE] \in Inodes
    BY <1>2 DEF At, Checks, status, exists
  <1>4. FilesOK' /\ ServiceOK'
    BY <1>1, <1>2 DEF FilesOK, ServiceOK, Import, Store, KeepService, serviceVars, Dirs
  <1>5. jm' = jm /\ w' = w /\ pc' \in {"importing", "sync_stage"}
    BY DEF Import, Goto
  <1>6. ControlOK'
    BY <1>3, <1>5, SMT DEF ControlOK, Import, Keep, KeepService, Labels
  <1>7. Control'
    BY <1>1, <1>5, NullJournal, ModelValues DEF Control, Import, Keep, Recovering,
        InstallLabels, DecidedLabels, StagingLabels
  <1> QED  BY <1>4, <1>6, <1>7

\* The syncs of the stage and of the canonical keystore.
LEMMA TypedFileSyncs ==
    ASSUME Typed, Control, SyncStage \/ SyncCanonical
    PROVE  Typed' /\ Control'
  <1> USE DEF Typed
  <1>1. jm \in Journals /\ op = "install"
    BY DEF ControlOK, Control, SyncStage, SyncCanonical, At, InstallLabels
  <1>2. dir[CANONICAL] \in Inodes /\ (SyncStage => dir[STAGE] \in Inodes)
    BY DirectoryValues
       DEF FilesOK, Dirs, SyncStage, At, Checks, status, exists
  <1>3. FilesOK' /\ ServiceOK'
    BY <1>2 DEF FilesOK, ServiceOK, SyncStage, SyncCanonical, sync_file, KeepService,
        serviceVars, Dirs
  <1>4. /\ jm' \in Journals /\ pc' \in {"sync_canonical", "link"}
        /\ w' \in {"none", "create", "invalid"}
    BY <1>1, JournalUpdates
       DEF SyncStage, SyncCanonical, Goto, At, _phase, Phases
  <1>5. ControlOK'
    BY <1>4, SMT DEF ControlOK, SyncStage, SyncCanonical, Keep, KeepService, Labels
  <1>6. Control'
    BY <1>1, <1>4, NullJournal DEF Control, SyncStage, SyncCanonical, Keep, Recovering,
        InstallLabels, DecidedLabels, StagingLabels
  <1> QED  BY <1>3, <1>5, <1>6

\* The rollback link, the commit rename and their directory syncs.
LEMMA TypedNamespace ==
    ASSUME Typed, Control, LinkRollback \/ Commit
    PROVE  Typed' /\ Control'
  <1> USE DEF Typed
  <1>1. jm \in Journals /\ op = "install"
    BY DEF ControlOK, Control, LinkRollback, Commit, At, InstallLabels
  <1>2. dir[CANONICAL] \in Inodes
    BY DirectoryValues DEF FilesOK, Dirs
  <1>3. At("commit") => exists(STAGE)
    BY DEF At, Checks, status
  <1>4. Dirs'
    BY <1>2, <1>3, PutKeystore, ReplaceCanonical, SyncTyped
    DEF FilesOK, LinkRollback, Commit, link_rollback
  <1>5. FilesOK' /\ ServiceOK'
    BY <1>4, SMT
       DEF FilesOK, ServiceOK, LinkRollback, Commit, KeepService, serviceVars
  <1>6. /\ jm' \in Journals
        /\ pc' \in {"sync_link", "committable", "sync_commit", "verify_commit"}
        /\ w' \in {"none", "create", "invalid"}
    BY <1>1, JournalUpdates DEF LinkRollback, Commit, Goto, At, _phase, Phases
  <1>7. ControlOK'
    BY <1>6, SMT DEF ControlOK, LinkRollback, Commit, Keep, KeepService, Labels
  <1>8. Control'
    BY <1>1, <1>6, NullJournal DEF Control, LinkRollback, Commit, Keep, Recovering,
        InstallLabels, DecidedLabels, StagingLabels
  <1> QED  BY <1>5, <1>7, <1>8

\* The restart of the service.
LEMMA TypedResume ==
    ASSUME Typed, Control, Resume \/ AwaitUp
    PROVE  Typed' /\ Control'
  <1> USE DEF Typed
  <1>1. /\ jm \in Journals /\ op \in {"install", "recover", "startup"}
        /\ op # "install" => outcome # "none"
    BY DEF ControlOK, Control, Resume, AwaitUp, At, InstallLabels, DecidedLabels,
        Recovering
  <1>2. jm' = jm /\ w' = w /\ pc' \in {"await_up", "resumed"}
    BY DEF Resume, AwaitUp, Goto
  <1>3. FilesOK' /\ ServiceOK'
    BY DEF FilesOK, ServiceOK, Resume, AwaitUp, Keep, filesVars, serviceVars, Dirs,
        s6_up, ServiceStates
  <1>4. ControlOK'
    <2>1. Keep /\ keytool' = keytool /\ (expect' = expect \/ expect' = FALSE)
      BY DEF Resume, AwaitUp
    <2>2. expect' \in BOOLEAN
      BY <2>1 DEF ControlOK
    <2> QED  BY <1>2, <2>1, <2>2, SMT DEF ControlOK, Keep, Labels
  <1>5. Control'
    BY <1>1, <1>2, NullJournal DEF Control, Resume, AwaitUp, Keep, Recovering,
        InstallLabels, DecidedLabels, StagingLabels
  <1> QED  BY <1>3, <1>4, <1>5

\* The removal of the transaction files.
LEMMA TypedCleanup ==
    ASSUME Typed, Control, Cleanup
    PROVE  Typed' /\ Control'
  <1> USE DEF Typed
  <1>1. Dirs'
    BY RemoveTyped, SyncTyped DEF FilesOK, Cleanup
  <1>2. FilesOK' /\ ServiceOK'
    BY <1>1 DEF FilesOK, ServiceOK, Cleanup, KeepService, serviceVars
  <1>3. /\ jm' = jm /\ jm # None /\ w' = w /\ op # "none"
        /\ pc' \in {"remove_rollback", "sync_cleanup", "remove_old_rollback",
                    "remove_new", "remove_journal", "sync_journal", "returned"}
        /\ pc' \in DecidedLabels => Recovering /\ outcome # "none"
    BY DEF Control, Cleanup, Goto, At, DecidedLabels
  <1>4. ControlOK'
    BY <1>3, SMT DEF ControlOK, Cleanup, Keep, KeepService, Labels
  <1>5. Control'
    BY <1>3 DEF Control, Cleanup, Keep, Recovering, InstallLabels, DecidedLabels,
        StagingLabels
  <1> QED  BY <1>2, <1>4, <1>5

\* The beginnings of a verification and of a recovery.
LEMMA TypedBegin ==
    ASSUME Typed, Control, BeginVerify \/ BeginRecovery
    PROVE  Typed' /\ Control'
  <1> USE DEF Typed
  <1>1. dir[JOURNAL] \in Journals \cup {None}
    BY DirectoryValues DEF FilesOK, Dirs
  <1>2. Dirs' /\ FilesOK' /\ ServiceOK'
    BY SyncTyped
       DEF FilesOK, ServiceOK, BeginVerify, BeginRecovery, BeginRecover,
        BeginRecoverClean, filesVars, serviceVars, Dirs
  <1>3. /\ w' = w /\ w = "none" /\ expect' = FALSE /\ outcome' = "none"
        /\ jm' \in Journals \cup {None}
        /\ \/ op' = "verify" /\ pc' = "observe" /\ jm' # None
           \/ op' \in {"recover", "startup"} /\ pc' \in {"establish", "stop"} /\ jm' # None
           \/ op' \in {"recover", "startup"} /\ pc' = "returned"
    BY <1>1
       DEF BeginVerify, BeginRecovery, BeginRecover, BeginRecoverClean, Acquire,
        Control, exists
  <1>4. ControlOK'
    BY <1>3 DEF ControlOK, BeginVerify, BeginRecovery, BeginRecover,
        BeginRecoverClean, Acquire, Labels
  <1>5. Control'
    BY <1>3 DEF Control, Recovering, InstallLabels, DecidedLabels, StagingLabels
  <1> QED  BY <1>2, <1>4, <1>5

\* recover's decision and the restoration of the rollback.
LEMMA TypedDecide ==
    ASSUME Typed, Control, Decide \/ Restore
    PROVE  Typed' /\ Control'
  <1> USE DEF Typed
  <1>1. jm \in Journals /\ Recovering
    BY DEF ControlOK, Control, Decide, Restore, At, DecidedLabels
  <1>2. CASE Decide
    <2>1. /\ jm' \in Journals /\ w' \in {"none", "create", "invalid"}
          /\ outcome' \in {"none", PENDING, "recovered_old"}
          /\ \/ pc' = "raised"
             \/ pc' \in {"recover_resume", "restore"} /\ outcome' # "none"
      BY <1>1, <1>2, ModelValues DEF Decide, Goto, Fail, Recovering, At, Control,
          PENDING, ControlOK, _phase
    <2>2. faults' \in 0..MaxFaults
      BY <1>2, MaxFaultsAssumption, SMT DEF Decide, Faulty, ControlOK
    <2>3. FilesOK' /\ ServiceOK'
      BY <1>2 DEF FilesOK, ServiceOK, Decide, KeepService, filesVars, serviceVars, Dirs
    <2>4. op' = op /\ lock' = lock /\ booted' = booted /\ keytool' = keytool
          /\ expect' = expect
      BY <1>2 DEF Decide, KeepService
    <2>5. ControlOK'
      BY <2>1, <2>2, <2>4, SMT DEF ControlOK, Labels
    <2>6. Control'
      BY <1>1, <2>1, <2>4, NullJournal DEF Control, Recovering,
          InstallLabels, DecidedLabels, StagingLabels
    <2> QED  BY <2>3, <2>5, <2>6
  <1>3. CASE Restore
    <2>1. At("restore") => exists(ROLLBACK)
      BY DEF At, Checks, status
    <2>2. Dirs'
      BY <1>3, <2>1, ReplaceCanonical, SyncTyped DEF FilesOK, Restore, Dirs
    <2>3. FilesOK' /\ ServiceOK'
      BY <1>3, <2>2 DEF FilesOK, ServiceOK, Restore, KeepService, serviceVars
    <2>4. /\ jm' = jm /\ w' = w /\ outcome # "none"
          /\ pc' \in {"sync_restore", "restored", "recover_resume"}
      BY <1>3 DEF Restore, Goto, At, Control, DecidedLabels
    <2>5. ControlOK'
      BY <1>3, <2>4, SMT DEF ControlOK, Restore, Keep, KeepService, Labels
    <2>6. Control'
      BY <1>1, <1>3, <2>4, NullJournal DEF Control, Restore, Keep, Recovering,
          InstallLabels, DecidedLabels, StagingLabels
    <2> QED  BY <2>3, <2>5, <2>6
  <1> QED  BY <1>2, <1>3

\* The end of an operation.
LEMMA TypedRelease ==
    ASSUME Typed, Control, Release
    PROVE  Typed' /\ Control'
  <1> USE DEF Typed
  <1>1. FilesOK' /\ ServiceOK'
    BY DEF FilesOK, ServiceOK, Release, filesVars, Dirs, ServiceStates
  <1>2. CASE pc = "handler"
    <2>1. /\ pc' = "raised" /\ w' = w /\ jm' = jm /\ op' = op /\ lock' = lock
          /\ booted' = booted
      BY <1>2 DEF Release, Goto
    <2>2. ControlOK'
      BY <2>1 DEF ControlOK, Release, Labels
    <2>3. Control'
      BY <1>2, <2>1 DEF Control, Recovering, InstallLabels, DecidedLabels, StagingLabels
    <2> QED  BY <1>1, <2>2, <2>3
  <1>3. CASE pc # "handler"
    <2>1. /\ pc' = "idle" /\ w' = "none" /\ jm' = None /\ op' = "none"
          /\ lock' \in {"retained", "free"} /\ booted' \in BOOLEAN
      BY <1>3 DEF Release, ControlOK
    <2>2. faults' \in 0..MaxFaults
      BY <1>3, MaxFaultsAssumption, SMT DEF Release, Faulty, ControlOK
    <2>3. ControlOK'
      BY <2>1, <2>2 DEF ControlOK, Release, Labels
    <2>4. Control'
      BY <2>1 DEF Control, Recovering, InstallLabels, DecidedLabels, StagingLabels
    <2> QED  BY <1>1, <2>3, <2>4
  <1> QED  BY <1>2, <1>3

\* Faults: exceptions, deaths, restarts and power losses.
LEMMA TypedFaults ==
    ASSUME Typed, Control,
           Raise \/ HelperDies \/ OrphanEnds \/ ContainerRestart \/ PowerLoss
    PROVE  Typed' /\ Control'
  <1> USE DEF Typed
  <1>1. faults' \in 0..MaxFaults
    BY MaxFaultsAssumption, SMT DEF Raise, HelperDies, OrphanEnds, ContainerRestart,
        PowerLoss, ContainerStops, Faulty, ControlOK
  <1>2. CASE Raise
    <2>1. /\ pc' \in {"handler", "raised"} /\ w' \in {"none", "create", "invalid"}
          /\ jm' \in Journals /\ jm' # None
          /\ pc' = "handler" => op = "install"
      BY <1>2, FailTyped DEF Raise
    <2>2. FilesOK' /\ ServiceOK'
      BY <1>2 DEF FilesOK, ServiceOK, Raise, filesVars, serviceVars, Dirs
    <2>3. expect' \in BOOLEAN
      BY <1>2 DEF Raise, ControlOK
    <2>4. ControlOK'
      BY <1>1, <1>2, <2>1, <2>3, SMT DEF ControlOK, Raise, Labels
    <2>5. Control'
      BY <1>2, <2>1 DEF Control, Raise, Recovering, InstallLabels, DecidedLabels,
          StagingLabels
    <2> QED  BY <2>2, <2>4, <2>5
  <1>3. CASE OrphanEnds
    <2>1. FilesOK' /\ ServiceOK'
      BY <1>3 DEF FilesOK, ServiceOK, ControlOK, OrphanEnds, Store, serviceVars, Dirs
    <2>2. ControlOK' /\ Control'
      BY <1>1, <1>3 DEF ControlOK, OrphanEnds, Control, Recovering
    <2> QED  BY <2>1, <2>2
  <1>4. CASE HelperDies \/ ContainerRestart \/ PowerLoss
    <2>1. HelperGone /\ (keytool' = keytool \/ keytool' = None)
          /\ (booted' = booted \/ booted' = FALSE)
      BY <1>4 DEF HelperDies, ContainerRestart, PowerLoss, ContainerStops
    <2>2. ControlOK' /\ Control'
      BY <1>1, <2>1 DEF ControlOK, Control, HelperGone, Labels, Recovering,
          InstallLabels, DecidedLabels, StagingLabels
    <2>3. ServiceOK'
      BY <1>4 DEF ServiceOK, HelperDies, ContainerRestart, PowerLoss, ContainerStops,
          serviceVars, ServiceStates
    <2>4. FilesOK'
      <3>1. CASE PowerLoss
        <4>1. Dirs' /\ LosePower
          BY <3>1, LosePowerTyped DEF FilesOK, PowerLoss
        <4>2. dir'[STAGE] \in Inodes \cup {None}
          BY <4>1, DirectoryValues DEF Dirs
        <4> QED  BY <4>1, <4>2 DEF FilesOK, LosePower
      <3>2. CASE HelperDies \/ ContainerRestart
        BY <3>2 DEF FilesOK, HelperDies, ContainerRestart, filesVars, Dirs
      <3> QED  BY <1>4, <3>1, <3>2
    <2> QED  BY <2>2, <2>3, <2>4
  <1> QED  BY <1>2, <1>3, <1>4

\* Java starts, stops, crashes and rewrites its keystore.
LEMMA TypedJava ==
    ASSUME Typed, Control, JavaSteps \/ JavaFaults
    PROVE  Typed' /\ Control'
  <1> USE DEF Typed
  <1>1. dir[CANONICAL] \in Inodes /\ collect(CANONICAL) \in Certs \cup {Junk}
    BY DirectoryValues DEF FilesOK, Dirs, collect
  <1>2. KeepExecutor
    BY DEF JavaSteps, JavaFaults
  <1>3. faults' \in 0..MaxFaults
    <2>1. faults \in 0..MaxFaults
      BY DEF Typed, ControlOK
    <2>2. faults' = faults \/ (faults > 0 /\ faults' = faults - 1)
      BY DEF JavaSteps, JavaFaults, Faulty
    <2> QED  BY <2>1, <2>2, MaxFaultsAssumption, SMT
  <1>4. ControlOK' /\ Control'
    BY <1>2, <1>3, SMT DEF ControlOK, Control, KeepExecutor, Recovering
  <1>5. FilesOK' /\ ServiceOK'
    <2>1. CASE \E cert \in Certs : JavaRewrites(cert)
      BY <1>1, <2>1, SMT DEF FilesOK, ServiceOK, JavaRewrites, Store, Dirs
    <2>2. CASE JavaUp(TRUE) \/ JavaUp(FALSE) \/ JavaDown \/ JavaCrash
      BY <1>1, <2>2 DEF FilesOK, ServiceOK, JavaUp, JavaDown, JavaCrash, filesVars,
          Dirs, ServiceStates
    <2> QED  BY <2>1, <2>2 DEF JavaSteps, JavaFaults
  <1> QED  BY <1>4, <1>5

\* The initial state.
LEMMA TypedInit == Init => Typed /\ Control
  <1> SUFFICES ASSUME Init PROVE Typed /\ Control
    OBVIOUS
  <1>1. PICK i \in Inodes, cert \in Certs :
          /\ dir = [name \in Names |-> IF name = CANONICAL THEN i ELSE None]
          /\ content = [j \in Inodes |-> IF j = i THEN cert ELSE Junk]
          /\ svc \in {"up", "down"}
          /\ serving = IF svc = "up" THEN cert ELSE None
    BY DEF Init
  <1>2. dir \in Directories
    BY <1>1 DEF Directories
  <1>3. FilesOK /\ ServiceOK
    BY <1>1, <1>2 DEF Init, FilesOK, ServiceOK, Dirs, ServiceStates
  <1>4. ControlOK
    <2>1. /\ op = "none" /\ pc = "idle" /\ w = "none" /\ jm = None
          /\ expect = FALSE /\ outcome = "none" /\ lock = "free" /\ keytool = None
          /\ booted = TRUE /\ faults = MaxFaults
      BY DEF Init
    <2>2. faults \in 0..MaxFaults
      BY <2>1, MaxFaultsAssumption, SMT
    <2>3. expect \in BOOLEAN /\ booted \in BOOLEAN
      BY <2>1
    <2> QED  BY <2>1, <2>2, <2>3 DEF ControlOK, Labels
  <1>5. Control
    BY DEF Init, Control, Recovering, InstallLabels, DecidedLabels, StagingLabels
  <1> QED  BY <1>3, <1>4, <1>5 DEF Typed

\* Every step keeps the types and the control.
LEMMA TypedNext == Typed /\ Control /\ [Next]_vars => Typed' /\ Control'
  <1> SUFFICES ASSUME Typed, Control, [Next]_vars PROVE Typed' /\ Control'
    OBVIOUS
  <1>1. CASE UNCHANGED vars
    <2>1. FilesOK' /\ ServiceOK'
      BY <1>1 DEF vars, filesVars, serviceVars, Typed, FilesOK, ServiceOK, Dirs
    <2>2. ControlOK'
      BY <1>1 DEF vars, filesVars, serviceVars, Typed, ControlOK
    <2>3. Control'
      BY <1>1 DEF vars, filesVars, serviceVars, Control, Recovering
    <2> QED  BY <2>1, <2>2, <2>3 DEF Typed
  <1>2. CASE Next
    BY <1>2, TypedWriteJournal, TypedCheckFails, TypedPhases, TypedBeginInstall,
        TypedStopAndChecks, TypedCopyStage, TypedImport, TypedFileSyncs,
        TypedNamespace, TypedResume, TypedCleanup, TypedBegin, TypedDecide,
        TypedRelease, TypedFaults, TypedJava
    DEF Next, Step, Fault
  <1> QED  BY <1>1, <1>2

\* Type correctness of the executor: the directory that processes see, and every
\* directory a power loss may leave, always has a canonical keystore, and every
\* journal in it has the fields _validate_journal asks for.
THEOREM TypeCorrect == Spec => []TypeOK
  <1>1. Typed /\ Control => TypeOK
    BY TypedIsTypeOK
  <1> QED  BY <1>1, TypedInit, TypedNext, PTL DEF Spec

-----------------------------------------------------------------------------
(* Inductive: the steps that change no keystore name, and when a journal    *)
(* still fits the directories after a step.                                *)

\* The part of the invariant about files and journals, and the part about the
\* control point.
OnDisk == Paired /\ OneTransaction /\ Clean

AtPoint == Writing /\ Installing /\ Deciding /\ Cleaning /\ Orphan

-----------------------------------------------------------------------------
(* What the operations of _Files do to the names of a directory.           *)

\* Directories d and e differ at most in the named entry, or in two.
Agree(d, e, names) == \A n \in Names \ names : e[n] = d[n]

\* Binding a name changes no other name.
LEMMA BindEffect ==
    ASSUME NEW d \in Directories, NEW name \in Names, NEW v
    PROVE  Bind(d, name, v)[name] = v /\ Agree(d, Bind(d, name, v), {name})
  BY DEF Directories, Bind, Agree

\* Moving a name changes no other name than the two.
LEMMA MoveEffect ==
    ASSUME NEW d \in Directories, NEW s \in Names, NEW t \in Names \ {s}, NEW v
    PROVE  /\ Move(d, s, t, v)[t] = v /\ Move(d, s, t, v)[s] = None
           /\ Agree(d, Move(d, s, t, v), {s, t})
  BY DEF Directories, Move, Agree

\* A put reaches the visible directory, and any directory of the disk or none.
LEMMA PutEffect ==
    ASSUME Dirs, NEW name \in Names, NEW v, Put(name, v)
    PROVE  /\ dir'[name] = v /\ Agree(dir, dir', {name})
           /\ \A e \in disk' : \E d \in disk :
                  e = d \/ (e[name] = v /\ Agree(d, e, {name}))
  <1>1. dir \in Directories /\ dir' = Bind(dir, name, v)
    BY DEF Dirs, Put
  <1>2. \A e \in disk' : e \in disk \/ \E d \in disk : e = Bind(d, name, v)
    BY DEF Put
  <1>3. \A d \in disk : d \in Directories
    BY DEF Dirs
  <1>4. dir'[name] = v /\ Agree(dir, dir', {name})
    BY <1>1, BindEffect
  <1>5. \A d \in disk : Bind(d, name, v)[name] = v /\ Agree(d, Bind(d, name, v), {name})
    BY <1>3, BindEffect
  <1> QED  BY <1>2, <1>4, <1>5

\* A removal is a put of None when there is something to remove.
LEMMA RemoveEffect ==
    ASSUME Dirs, NEW name \in Names, remove(name)
    PROVE  /\ dir'[name] = None /\ Agree(dir, dir', {name})
           /\ \A e \in disk' : \E d \in disk :
                  e = d \/ (e[name] = None /\ Agree(d, e, {name}))
  <1>1. CASE exists(name)
    BY <1>1, PutEffect DEF remove
  <1>2. CASE ~exists(name)
    BY <1>2 DEF remove, exists, Agree, Dirs
  <1> QED  BY <1>1, <1>2

\* A rename between two files reaches any directory of the disk or none.
LEMMA ReplaceEffect ==
    ASSUME Dirs, NEW s \in Names, NEW t \in Names \ {s}, replace(s, t),
           s \in Keystores => dir[s] # dir[t]
    PROVE  /\ dir'[t] = dir[s] /\ dir'[s] = None /\ Agree(dir, dir', {s, t})
           /\ \A e \in disk' : \E d \in disk :
                  \/ e = d
                  \/ e[t] = dir[s] /\ e[s] = None /\ Agree(d, e, {s, t})
  <1>1. dir \in Directories /\ dir' = Move(dir, s, t, dir[s])
    BY DEF Dirs, replace
  <1>2. \A e \in disk' : e \in disk \/ \E d \in disk : e = Move(d, s, t, dir[s])
    BY DEF replace
  <1>3. \A d \in disk : d \in Directories
    BY DEF Dirs
  <1>4. dir'[t] = dir[s] /\ dir'[s] = None /\ Agree(dir, dir', {s, t})
    <2>1. LET e == Move(dir, s, t, dir[s]) IN
              e[t] = dir[s] /\ e[s] = None /\ Agree(dir, e, {s, t})
      BY <1>1, MoveEffect
    <2> QED  BY <1>1, <2>1
  <1>5. \A d \in disk : LET e == Move(d, s, t, dir[s]) IN
            e[t] = dir[s] /\ e[s] = None /\ Agree(d, e, {s, t})
    BY <1>3, MoveEffect
  <1> QED  BY <1>2, <1>4, <1>5

-----------------------------------------------------------------------------
(* Journals and the directories beside them.                               *)

UnchangedStores == UNCHANGED <<content, synced, rewritten>>

\* Files and journal unchanged: nothing on disk is disturbed.
LEMMA StableOnDisk ==
    ASSUME OnDisk, UNCHANGED <<dir, disk, jm>>, UnchangedStores
    PROVE  OnDisk'
  BY SMT DEF OnDisk, UnchangedStores, Paired, OneTransaction, Clean, LiveJournals,
      ReadableJournals, Fits, Kept, Survives

\* Whether a journal fits is a matter of the canonical and the rollback name.
LEMMA FitsByName ==
    ASSUME NEW d, NEW e, NEW j, Fits(d, j),
           e[CANONICAL] = d[CANONICAL], e[ROLLBACK] = d[ROLLBACK]
    PROVE  Fits(e, j)
  BY DEF Fits

\* A journal that expects no rollback asks only for the old keystore's name.
LEMMA Unobliged ==
    ASSUME NEW d, NEW j, SoundJournal(j), ~j.rollback_expected
    PROVE  /\ Fits(d, j) <=> d[CANONICAL] = j.old_inode
           /\ Fits(d, j)' <=> d[CANONICAL] = j.old_inode
  BY DEF Fits, SoundJournal, ValidJournal

\* Fits does not depend on stores that did not change.
LEMMA FitsStable ==
    ASSUME UnchangedStores, NEW d, NEW j
    PROVE  Fits(d, j)' <=> Fits(d, j)
  BY DEF UnchangedStores, Fits, Kept, Survives

\* The journal in memory moves to its next phase while the files rest or the
\* directory is synced.
LEMMA NextJournalOnDisk ==
    ASSUME OnDisk, dir' = dir, disk' \subseteq disk, UnchangedStores,
           NEW j, j # None, jm' = j, SoundJournal(j), \A d \in disk' : Fits(d, j),
           jm # None, SameTransaction(j, jm),
           j.rollback_expected =>
               \/ jm.rollback_expected
                  /\ (jm.phase = "live_verified" => j.phase = "live_verified")
               \/ \A k \in ReadableJournals' :
                      SameTransaction(k, j) /\ k.phase # "live_verified"
    PROVE  OnDisk'
  <1>1. /\ LiveJournals' \subseteq LiveJournals \cup {j}
        /\ LiveJournals' = ReadableJournals' \cup {j}
        /\ ReadableJournals' \subseteq ReadableJournals
    BY DEF LiveJournals, ReadableJournals
  <1>2. Paired'
    BY <1>1, FitsStable DEF OnDisk, Paired
  <1>3. OneTransaction'
    BY <1>1, SMT DEF OnDisk, OneTransaction, SameTransaction, LiveJournals
  <1>4. Clean'
    BY DEF OnDisk, Clean
  <1> QED  BY <1>2, <1>3, <1>4 DEF OnDisk

\* A sync of the directory with the journal at rest, or given up.
LEMMA SyncOnDisk ==
    ASSUME OnDisk, dir' = dir, disk' \subseteq disk, UnchangedStores,
           jm' = jm \/ jm' = None \/ (jm' = dir[JOURNAL] /\ dir \in disk)
    PROVE  OnDisk'
  <1>1. /\ LiveJournals' \subseteq LiveJournals
        /\ ReadableJournals' \subseteq ReadableJournals
    BY DEF LiveJournals, ReadableJournals
  <1>2. Paired'
    BY <1>1, FitsStable DEF OnDisk, Paired
  <1>3. OneTransaction'
    BY <1>1 DEF OnDisk, OneTransaction
  <1>4. Clean'
    BY DEF OnDisk, Clean
  <1> QED  BY <1>2, <1>3, <1>4 DEF OnDisk

\* Directories d and e hold the same keystore names.
SameKeystores(d, e) == \A n \in Keystores : e[n] = d[n]

\* write_journal: the journal in memory replaces the one on file.
LEMMA WrittenOnDisk ==
    ASSUME OnDisk, UnchangedStores, jm' = jm, jm # None,
           SameKeystores(dir, dir'), dir'[JOURNAL] \in {dir[JOURNAL], jm},
           \A e \in disk' : \E d \in disk :
               /\ SameKeystores(d, e)
               /\ e[JOURNAL] = d[JOURNAL] \/ (e[JOURNAL] = jm /\ dir'[JOURNAL] = jm)
    PROVE  OnDisk'
  <1>1. /\ LiveJournals' \subseteq LiveJournals
        /\ ReadableJournals' \subseteq ReadableJournals \cup {jm}
        /\ dir'[JOURNAL] # jm => ReadableJournals' \subseteq ReadableJournals
    BY DEF LiveJournals, ReadableJournals
  <1>2. Paired'
    <2> SUFFICES ASSUME NEW j \in LiveJournals', NEW e \in disk'
                 PROVE  Fits(e, j)'
      BY <1>1 DEF OnDisk, Paired
    <2>1. PICK d \in disk : SameKeystores(d, e)
      OBVIOUS
    <2>2. Fits(d, j)
      BY <1>1 DEF OnDisk, Paired
    <2> QED  BY <2>1, <2>2, FitsByName, FitsStable DEF SameKeystores
  <1>3. OneTransaction'
    BY <1>1 DEF OnDisk, OneTransaction, LiveJournals
  <1>4. Clean'
    <2>1. ASSUME NEW e \in disk', e[JOURNAL] = None
          PROVE  Bare(e)
      BY <2>1 DEF OnDisk, Clean, Bare, SameKeystores
    <2>2. ASSUME NEW e \in disk', dir'[JOURNAL] = None
          PROVE  /\ Bare(e) /\ e[CANONICAL] = dir'[CANONICAL]
                 /\ e[JOURNAL] # None => Settled(e, e[JOURNAL])
      BY <2>2, SMT DEF OnDisk, Clean, Bare, SameKeystores, Settled
    <2> QED  BY <2>1, <2>2 DEF Clean
  <1> QED  BY <1>2, <1>3, <1>4 DEF OnDisk

-----------------------------------------------------------------------------
(* The steps that write the journal.                                       *)

\* The three steps of write_journal.
LEMMA WriteJournalKeeps ==
    ASSUME Typed, Control, OnDisk, AtPoint, WriteJournal
    PROVE  OnDisk' /\ AtPoint'
  <1> USE DEF AtPoint
  <1>1. jm \in Journals /\ jm # None /\ Dirs
    BY NullJournal DEF Typed, FilesOK, ControlOK, Control, WriteJournal
  <1>2. UnchangedStores /\ jm' = jm /\ pc' = pc /\ op' = op /\ expect' = expect
        /\ outcome' = outcome /\ keytool' = keytool
    BY DEF WriteJournal, Keep, KeepService, serviceVars, UnchangedStores
  <1>3. /\ SameKeystores(dir, dir')
        /\ dir'[JOURNAL] = dir[JOURNAL] \/ dir'[JOURNAL] = jm
        /\ \A e \in disk' : \E d \in disk :
               /\ SameKeystores(d, e)
               /\ e[JOURNAL] = d[JOURNAL] \/ (e[JOURNAL] = jm /\ dir'[JOURNAL] = jm)
        /\ w' = "rename" => dir'[JOURNAL_NEW] = jm
        /\ w' = "sync" => dir'[JOURNAL] = jm
        /\ w' = "none" => dir'[JOURNAL] = jm /\ disk' = {dir'} /\ w = "sync"
        /\ w' \in {"none", "rename", "sync"} /\ w \in {"create", "rename", "sync"}
    <2>1. CASE w = "create"
      BY <1>1, <2>1, PutEffect, SMT DEF WriteJournal, SameKeystores, Agree
    <2>2. CASE w = "rename"
      BY <1>1, <2>2, ReplaceEffect, SMT DEF WriteJournal, SameKeystores, Agree, Writing
    <2>3. CASE w = "sync"
      BY <1>1, <2>3 DEF WriteJournal, SameKeystores, sync_directory, Writing, Dirs
    <2> QED  BY <2>1, <2>2, <2>3 DEF WriteJournal
  <1>4. OnDisk'
    BY <1>1, <1>2, <1>3, WrittenOnDisk
  <1>5. Writing'
    BY <1>2, <1>3 DEF Writing, Control
  <1>6. /\ \A i, c : Kept(i, c)' <=> Kept(i, c)
        /\ ReadableJournals' \subseteq ReadableJournals \cup {jm}
    BY <1>2, <1>3 DEF Kept, Survives, UnchangedStores, ReadableJournals
  <1>7. Installing'
    BY <1>1, <1>2, <1>3, <1>6, SMT DEF Installing, SameKeystores
  <1>8. Deciding'
    BY <1>2, <1>3, <1>6 DEF Deciding, SameKeystores, Recovering
  <1>9. Cleaning'
    BY <1>2, <1>3 DEF Cleaning, SameKeystores
  <1>10. Orphan'
    BY <1>1, <1>2, <1>3 DEF Orphan, Installing, Control, InstallLabels, Unlinked
  <1> QED  BY <1>4, <1>5, <1>7, <1>8, <1>9, <1>10

-----------------------------------------------------------------------------
(* Steps that leave the files alone.                                       *)

UnchangedFiles == UNCHANGED <<dir, disk>> /\ UnchangedStores

\* A new phase of a journal, other than the settled ones, fits where the
\* journal did.
LEMMA NewPhase ==
    ASSUME NEW j \in Journals, SoundJournal(j),
           j.phase \notin {"live_verified", "recovered_old"},
           NEW p \in Phases \ {"live_verified"},
           p \in CommitPhases => j.commit_possible
    PROVE  /\ SoundJournal([j EXCEPT !.phase = p])
           /\ SameTransaction([j EXCEPT !.phase = p], j)
           /\ \A d : Fits(d, j) => Fits(d, [j EXCEPT !.phase = p])
           /\ [j EXCEPT !.phase = p] \in Journals
           /\ [j EXCEPT !.phase = p].rollback_expected = j.rollback_expected
  <1> DEFINE k == [j EXCEPT !.phase = p]
  <1>1. /\ k \in Journals /\ k.phase = p /\ k.old = j.old /\ k.old_inode = j.old_inode
        /\ k.issued = j.issued /\ k.stage_inode = j.stage_inode /\ k.resume = j.resume
        /\ k.rollback_expected = j.rollback_expected
        /\ k.commit_possible = j.commit_possible
    BY DEF Journals, Phases
  <1> HIDE DEF k
  <1>2. SoundJournal(k) /\ SameTransaction(k, j)
    BY <1>1 DEF SoundJournal, ValidJournal, SameTransaction
  <1>3. \A d : Fits(d, j) => Fits(d, k)
    BY <1>1 DEF Fits
  <1> QED  BY <1>1, <1>2, <1>3 DEF k

\* An exception: the handler of an installation journals recovery_required.
LEMMA FailKeeps ==
    ASSUME Typed, Control, OnDisk, AtPoint, Fail, op # "none", UnchangedFiles,
           pc \notin {"returned", "raised"} \/ w # "none",
           op' = op, keytool' = None,
           expect' = expect \/ (pc = "stop" /\ w = "none")
    PROVE  OnDisk' /\ AtPoint'
  <1> USE DEF AtPoint
  <1>1. jm \in Journals /\ jm # None
    BY NullJournal DEF Typed, ControlOK, Control
  <1>2. CASE op = "install" /\ pc # "handler" /\ ~(pc = "stop" /\ w # "none")
    <2> DEFINE j == [jm EXCEPT !.phase = "recovery_required"]
    <2>1. SoundJournal(jm) /\ \A d \in disk : Fits(d, jm)
      BY <1>1 DEF OnDisk, Paired, LiveJournals
    <2>2. jm.phase \notin {"live_verified", "recovered_old"}
      BY <1>2 DEF Installing
    <2>3. /\ SoundJournal(j) /\ SameTransaction(j, jm) /\ \A d \in disk : Fits(d, j)
          /\ j \in Journals /\ j.rollback_expected = jm.rollback_expected
          /\ j.phase = "recovery_required"
      BY <1>1, <2>1, <2>2, NewPhase DEF Phases, CommitPhases, PENDING, Journals
    <2>4. jm' = j /\ pc' = "handler" /\ w' = "create"
      BY <1>2, <2>3 DEF Fail, _phase, SoundJournal
    <2> HIDE DEF j
    <2>5. OnDisk'
      BY <1>1, <2>1, <2>2, <2>3, <2>4, NullJournal, NextJournalOnDisk DEF UnchangedFiles
    <2>6. expect' => \A d \in disk : d[JOURNAL] # None
      BY <1>1, <1>2 DEF Installing
    <2>7. Installing'
      BY <1>2, <2>3, <2>4, <2>6 DEF Installing, UnchangedFiles, Unlinked, Linked, Staged,
          Committed
    <2>8. Writing' /\ Deciding' /\ Cleaning' /\ Orphan'
      BY <2>4 DEF Writing, Deciding, Cleaning, Orphan
    <2> QED  BY <2>5, <2>7, <2>8
  <1>3. CASE ~(op = "install" /\ pc # "handler" /\ ~(pc = "stop" /\ w # "none"))
    <2>1. pc' = "raised" /\ w' = "none" /\ jm' = jm
      BY <1>3 DEF Fail
    <2>2. OnDisk'
      BY <2>1, StableOnDisk DEF UnchangedFiles
    <2>3. op = "install" => (expect' <=> expect)
      BY <1>3 DEF Control
    <2>4. Installing'
      BY <2>1, <2>3 DEF Installing, UnchangedFiles, Unlinked, Linked, Staged, Committed
    <2>5. Writing' /\ Deciding' /\ Cleaning' /\ Orphan'
      BY <2>1 DEF Writing, Deciding, Cleaning, Orphan
    <2> QED  BY <2>2, <2>4, <2>5
  <1> QED  BY <1>2, <1>3

\* A failed check, and an exception from anywhere.
LEMMA ExceptionsKeep ==
    ASSUME Typed, Control, OnDisk, AtPoint, CheckFails \/ Raise
    PROVE  OnDisk' /\ AtPoint'
  <1>1. CASE CheckFails
    <2>1. pc \notin {"returned", "raised", "importing"}
      BY <1>1 DEF CheckFails, Checks
    <2>2. keytool = None
      BY <1>1, <2>1 DEF AtPoint, Orphan, CheckFails, Control
    <2>3. UnchangedFiles /\ op' = op /\ keytool' = None /\ expect' = expect
      BY <1>1, <2>2 DEF CheckFails, OnlyControl, Keep, KeepService, UnchangedFiles,
          UnchangedStores, filesVars, serviceVars
    <2> QED  BY <1>1, <2>1, <2>3, FailKeeps DEF CheckFails
  <1>2. CASE Raise
    <2>1. UnchangedFiles /\ op' = op /\ keytool' = None
      BY <1>2 DEF Raise, UnchangedFiles, UnchangedStores, filesVars, serviceVars
    <2>2. expect' = expect \/ (pc = "stop" /\ w = "none")
      <3>1. expect \in BOOLEAN
        BY DEF Typed, ControlOK
      <3>2. ASSUME ~(pc = "stop" /\ w = "none")
            PROVE  (expect \/ (pc = "stop" /\ w = "none")) = expect
        BY <3>1, <3>2
      <3> QED  BY <1>2, <3>2, SMT DEF Raise
    <2> QED  BY <1>2, <2>1, <2>2, FailKeeps DEF Raise
  <1> QED  BY <1>1, <1>2

\* What the step that begins phase p of an installation takes from the state.
LEMMA PhaseKeeps ==
    ASSUME Typed, Control, OnDisk, AtPoint, UnchangedFiles, jm # None,
           NEW p \in Phases \ {"live_verified"},
           jm.phase \notin {"live_verified", "recovered_old"},
           p \in CommitPhases => jm.commit_possible,
           jm' = [jm EXCEPT !.phase = p]
    PROVE  OnDisk' /\ SoundJournal(jm')
  <1>1. jm \in Journals /\ SoundJournal(jm) /\ \A d \in disk : Fits(d, jm)
    BY DEF Typed, ControlOK, OnDisk, Paired, LiveJournals
  <1>2. /\ SoundJournal(jm') /\ SameTransaction(jm', jm) /\ \A d \in disk : Fits(d, jm')
        /\ jm' \in Journals /\ jm'.rollback_expected = jm.rollback_expected
    BY <1>1, NewPhase
  <1> QED  BY <1>1, <1>2, NullJournal, NextJournalOnDisk DEF UnchangedFiles

\* Commands to s6, the observation of live TLS and the end of an operation.
LEMMA ControlKeeps ==
    ASSUME Typed, Control, OnDisk, AtPoint, Stop \/ Observe \/ Resume \/ AwaitUp \/ Release
    PROVE  OnDisk' /\ AtPoint'
  <1> USE DEF AtPoint
  <1>1. UnchangedFiles /\ keytool' = keytool /\ outcome' = outcome
    BY DEF Stop, Observe, Resume, AwaitUp, Release, Keep, OnlyControl, KeepService,
        UnchangedFiles, UnchangedStores, filesVars, serviceVars
  <1>2. \A i, c : Kept(i, c)' <=> Kept(i, c)
    BY <1>1 DEF Kept, Survives, UnchangedFiles, UnchangedStores
  <1>3. keytool = None /\ w = "none" /\ w' = "none"
    BY DEF Stop, Observe, Resume, AwaitUp, Release, At, Orphan, Goto
  <1>4. Orphan'
    BY <1>1, <1>3 DEF Orphan
  <1>5. CASE Stop
    <2>1. /\ pc = "stop" /\ jm' = jm /\ op' = op
          /\ pc' = IF op = "install" THEN "quiesce" ELSE "decide"
      BY <1>5 DEF Stop, At, Goto, Keep
    <2>2. OnDisk' /\ Writing'
      BY <1>1, <1>3, <2>1, StableOnDisk DEF UnchangedFiles, Writing
    <2>3. ReadableJournals' = ReadableJournals
      BY <1>1, SMT DEF ReadableJournals, UnchangedFiles
    <2>4. Installing'
      BY <1>1, <1>3, <2>1, <2>3
         DEF Installing, UnchangedFiles, Unlinked, Linked, Staged,
          Committed, ReadableJournals, Control
    <2>5. Deciding' /\ Cleaning'
      BY <1>1, <2>1 DEF Deciding, Cleaning, UnchangedFiles, Recovering
    <2> QED  BY <1>4, <2>2, <2>4, <2>5
  <1>6. CASE Observe
    <2>1. pc = "observe" /\ jm' = jm /\ op' = op /\ pc' = "recheck" /\ op = "verify"
      BY <1>6 DEF Observe, At, Goto, Keep, OnlyControl, Control
    <2>2. OnDisk' /\ Writing'
      BY <1>1, <1>3, <2>1, StableOnDisk, SMT DEF UnchangedFiles, Writing
    <2>3. Installing' /\ Deciding' /\ Cleaning'
      BY <2>1 DEF Installing, Deciding, Cleaning, Recovering
    <2> QED  BY <1>4, <2>2, <2>3
  <1>7. CASE Resume \/ AwaitUp
    <2>1. /\ pc \in {"resume", "recover_resume", "await_up"} /\ jm' = jm /\ op' = op
          /\ pc' \in {"await_up", "resumed"}
          /\ op \in {"install", "recover", "startup"}
      BY <1>7 DEF Resume, AwaitUp, At, Goto, Keep, Control, InstallLabels, Recovering,
          DecidedLabels
    <2>2. OnDisk' /\ Writing'
      BY <1>1, <1>3, <2>1, StableOnDisk DEF UnchangedFiles, Writing
    <2>3. op = "install" => pc \in {"resume", "await_up"}
      BY <2>1, SMT DEF Control, DecidedLabels, Recovering
    <2>4. Installing'
      BY <1>1, <1>3, <2>1, <2>3 DEF Installing, UnchangedFiles, Unlinked, Linked, Staged,
          Committed
    <2>5. Recovering => pc \in {"recover_resume", "await_up"}
      BY <2>1 DEF Control, InstallLabels, Recovering
    <2>6. Deciding' /\ Cleaning'
      BY <1>1, <1>2, <2>1, <2>5 DEF Deciding, Cleaning, UnchangedFiles, Recovering
    <2> QED  BY <1>4, <2>2, <2>4, <2>6
  <1>8. CASE Release
    <2>1. \/ pc = "handler" /\ pc' = "raised" /\ jm' = jm /\ op' = op /\ expect' = expect
          \/ pc' = "idle" /\ jm' = None /\ op' = "none"
      BY <1>8 DEF Release, Goto
    <2>2. OnDisk' /\ Writing'
      BY <1>1, <1>3, <2>1, SyncOnDisk, SMT DEF UnchangedFiles, Writing
    <2>3. Installing'
      BY <1>1, <2>1
         DEF Installing, UnchangedFiles, Unlinked, Linked, Staged, Committed
    <2>4. Deciding' /\ Cleaning'
      BY <2>1 DEF Deciding, Cleaning
    <2> QED  BY <1>4, <2>2, <2>3, <2>4
  <1> QED  BY <1>5, <1>6, <1>7, <1>8

\* The phases of an installation that change no file.
LEMMA InstallPhasesKeep ==
    ASSUME Typed, Control, OnDisk, AtPoint,
           Quiesce \/ ImportChecks \/ Committable \/ VerifyCommit
           \/ (Resumed /\ op = "install")
    PROVE  OnDisk' /\ AtPoint'
  <1> USE DEF AtPoint
  <1>1. /\ UnchangedFiles /\ keytool' = keytool /\ op' = op /\ op = "install"
        /\ expect' = expect
    BY DEF Quiesce, ImportChecks, Committable, VerifyCommit, Resumed, Keep, OnlyControl,
        KeepService, UnchangedFiles, UnchangedStores, filesVars, serviceVars, At, Control,
        InstallLabels
  <1>2. /\ jm \in Journals /\ jm # None /\ SoundJournal(jm)
        /\ \A d \in disk : Fits(d, jm)
        /\ jm.phase \notin {"live_verified", "recovered_old"}
    BY <1>1, NullJournal
       DEF Typed, ControlOK, Control, OnDisk, Paired, LiveJournals,
        Installing
  <1>3. /\ pc \in {"quiesce", "import_checks", "committable", "verify_commit", "resumed"}
        /\ w = "none" /\ keytool = None
    BY DEF Quiesce, ImportChecks, Committable, VerifyCommit, Resumed, At, Orphan
  <1>4. \A d \in disk : d[JOURNAL] = jm
    BY <1>1, <1>3 DEF Installing, Unlinked, Linked, Committed
  <1>5. /\ jm' \in Journals /\ jm'.phase \notin {"live_verified", "recovered_old"}
        /\ SoundJournal(jm') /\ OnDisk' /\ jm'.rollback_expected = jm.rollback_expected
        /\ jm'.stage_inode = jm.stage_inode /\ jm'.old_inode = jm.old_inode
        /\ pc \notin {"import_checks", "committable"} =>
               jm'.commit_possible = jm.commit_possible
        /\ pc # "import_checks" => jm'.issued = jm.issued
        /\ pc = "committable" => jm'.commit_possible
    <2>1. CASE Quiesce \/ VerifyCommit \/ Resumed
      <3>1. PICK p \in {"quiesced", "canonical_verified", PENDING} :
                /\ jm' = [jm EXCEPT !.phase = p]
                /\ p # "quiesced" => jm.commit_possible
                /\ pc \notin {"import_checks", "committable"}
        BY <1>1, <2>1
           DEF Quiesce, VerifyCommit, Resumed, _phase, At, Installing, Committed
      <3>2. p \in Phases \ {"live_verified"} /\ p # "recovered_old"
        BY DEF Phases, PENDING
      <3>3. p \in CommitPhases => jm.commit_possible
        BY <3>1 DEF CommitPhases, PENDING
      <3>4. OnDisk' /\ SoundJournal(jm')
        BY <1>1, <1>2, <3>1, <3>2, <3>3, PhaseKeeps, SMT
      <3> QED  BY <1>2, <3>1, <3>2, <3>4 DEF Journals
    <2>2. CASE ImportChecks
      <3>1. PICK c \in Certs : jm' = [jm EXCEPT !.phase = "staging", !.issued = c]
        BY <2>2 DEF ImportChecks, _phase
      <3>2. pc = "import_checks" /\ ~jm.rollback_expected
        BY <1>1, <2>2 DEF ImportChecks, At, Installing, Unlinked
      <3>3. /\ jm' \in Journals /\ jm'.phase = "staging" /\ ~jm'.rollback_expected
            /\ jm'.stage_inode = jm.stage_inode /\ jm'.old_inode = jm.old_inode
            /\ jm'.old = jm.old /\ jm'.commit_possible = jm.commit_possible
            /\ jm'.rollback_expected = jm.rollback_expected
        BY <1>2, <3>1, <3>2 DEF Journals, Phases
      <3>4. SoundJournal(jm') /\ \A d \in disk : Fits(d, jm')
        BY <1>2, <3>2, <3>3
        DEF SoundJournal, ValidJournal, CommitPhases, PENDING, Fits
      <3>5. OnDisk'
        BY <1>1, <1>2, <3>2, <3>3, <3>4, NullJournal, NextJournalOnDisk
        DEF UnchangedFiles, SameTransaction
      <3> QED  BY <3>2, <3>3, <3>4, <3>5
    <2>3. CASE Committable
      <3>1. jm' = [jm EXCEPT !.phase = "commit_possible", !.commit_possible = TRUE]
        BY <2>3 DEF Committable, _phase
      <3>2. /\ pc = "committable" /\ jm.rollback_expected /\ jm.issued # None
            /\ jm.stage_inode \notin {jm.old_inode, None}
            /\ \A d \in disk : d[CANONICAL] = jm.old_inode
        BY <1>1, <2>3 DEF Committable, At, Installing, Linked
      <3>3. /\ jm' \in Journals /\ jm'.phase = "commit_possible" /\ jm'.commit_possible
            /\ jm'.rollback_expected /\ jm'.issued = jm.issued
            /\ jm'.stage_inode = jm.stage_inode /\ jm'.old_inode = jm.old_inode
            /\ jm'.old = jm.old /\ jm'.rollback_expected = jm.rollback_expected
        BY <1>2, <3>1, <3>2 DEF Journals, Phases
      <3>4. SoundJournal(jm')
        BY <3>2, <3>3, SMT DEF SoundJournal, ValidJournal
      <3>5. \A d \in disk : Fits(d, jm')
        BY <1>2, <3>2, <3>3 DEF Fits
      <3>6. OnDisk'
        BY <1>1, <1>2, <3>2, <3>3, <3>4, <3>5, NullJournal, NextJournalOnDisk
        DEF UnchangedFiles, SameTransaction
      <3> QED  BY <3>2, <3>3, <3>4, <3>6
    <2> QED  BY <2>1, <2>2, <2>3
  <1>6. /\ w' = "create"
        /\ \/ pc = "quiesce" /\ pc' = "import_checks"
           \/ pc = "import_checks" /\ pc' = "create_stage"
           \/ pc = "committable" /\ pc' = "commit"
           \/ pc = "verify_commit" /\ pc' = "resume"
           \/ pc = "resumed" /\ pc' = "returned"
    BY <1>1, <1>5
       DEF Quiesce, ImportChecks, Committable, VerifyCommit, Resumed, _phase,
        At, SoundJournal
  <1>7. Writing' /\ Deciding' /\ Cleaning' /\ Orphan'
    BY <1>1, <1>3, <1>6 DEF Writing, Deciding, Cleaning, Orphan, Recovering
  <1>8. /\ \A i, c : Kept(i, c)' <=> Kept(i, c)
        /\ ReadableJournals' = ReadableJournals
    BY <1>1
       DEF Kept, Survives, UnchangedFiles, UnchangedStores, ReadableJournals
  <1>9. Installing'
    BY <1>1, <1>2, <1>3, <1>4, <1>5, <1>6, <1>8 DEF Installing, UnchangedFiles, Unlinked,
        Linked, Staged, Committed
  <1> QED  BY <1>5, <1>7, <1>9, SMT

\* The journal of a verification and of a recovery.
LEMMA OtherPhasesKeep ==
    ASSUME Typed, Control, OnDisk, AtPoint, Recheck \/ (Resumed /\ op # "install")
    PROVE  OnDisk' /\ AtPoint'
  <1> USE DEF AtPoint
  <1>1. UnchangedFiles /\ keytool' = None /\ op' = op /\ outcome' = outcome
    BY DEF Recheck, Resumed, Keep, OnlyControl, KeepService, UnchangedFiles,
        UnchangedStores, filesVars, serviceVars, At, Orphan
  <1>2. /\ jm \in Journals /\ jm # None /\ SoundJournal(jm)
        /\ \A d \in disk : Fits(d, jm)
    BY NullJournal DEF Typed, ControlOK, Control, OnDisk, Paired, LiveJournals, Recheck,
        Resumed, At
  <1>3. CASE Recheck
    <2>1. jm' = [jm EXCEPT !.phase = "live_verified"]
      BY <1>3 DEF Recheck, _phase
    <2>2. /\ op = "verify" /\ jm.phase = PENDING /\ jm.resume
          /\ dir[CANONICAL] = jm.stage_inode /\ dir[STAGE] = None
      BY <1>3 DEF Recheck, At, Checks, LiveVerifiedFiles, CanonicalIs, exists, Control,
          Deciding
    <2>3. jm.commit_possible /\ jm.rollback_expected /\ jm.stage_inode # jm.old_inode
      BY <1>2, <2>2 DEF SoundJournal, ValidJournal, CommitPhases
    <2>4. /\ jm' \in Journals /\ jm'.phase = "live_verified" /\ jm'.old = jm.old
          /\ jm'.old_inode = jm.old_inode /\ jm'.stage_inode = jm.stage_inode
          /\ jm'.issued = jm.issued /\ jm'.resume = jm.resume
          /\ jm'.rollback_expected = jm.rollback_expected
          /\ jm'.commit_possible = jm.commit_possible
      BY <1>2, <2>1 DEF Journals, Phases
    <2>5. SoundJournal(jm')
      BY <1>2, <2>2, <2>3, <2>4
         DEF SoundJournal, ValidJournal, CommitPhases, PENDING
    <2>6. \A d \in disk : Fits(d, jm')
      BY <1>2, <2>2, <2>3, <2>4 DEF Fits, PENDING
    <2>7. OnDisk'
      BY <1>1, <1>2, <2>3, <2>4, <2>5, <2>6, NullJournal, NextJournalOnDisk
      DEF UnchangedFiles, SameTransaction
    <2>8. w' = "create" /\ pc' = "establish"
      BY <1>3, <2>1, <2>5 DEF Recheck, _phase, SoundJournal
    <2>9. Writing' /\ Installing' /\ Deciding' /\ Cleaning' /\ Orphan'
      BY <1>1, <2>2, <2>4, <2>8 DEF Writing, Installing, Deciding, Cleaning, Orphan,
          Recovering, UnchangedFiles
    <2> QED  BY <2>7, <2>9
  <1>4. CASE Resumed /\ op # "install"
    <2>1. jm' = [jm EXCEPT !.phase = outcome]
      BY <1>4 DEF Resumed, _phase
    <2>2. /\ Recovering /\ pc = "resumed" /\ jm.phase # "live_verified"
          /\ \/ outcome = "recovered_old" /\ dir[CANONICAL] = jm.old_inode
             \/ outcome = PENDING /\ jm.commit_possible /\ Kept(jm.old_inode, jm.old)
      BY <1>4 DEF Resumed, At, Control, Deciding
    <2>3. outcome \in Phases
      BY <2>2 DEF Phases, PENDING
    <2>4. /\ jm' \in Journals /\ jm'.phase = outcome /\ jm'.old = jm.old
          /\ jm'.old_inode = jm.old_inode /\ jm'.stage_inode = jm.stage_inode
          /\ jm'.issued = jm.issued /\ jm'.rollback_expected = jm.rollback_expected
          /\ jm'.commit_possible = jm.commit_possible
      BY <1>2, <2>1, <2>3, SMT DEF Journals
    <2>5. SoundJournal(jm')
      BY <1>2, <2>2, <2>4 DEF SoundJournal, ValidJournal, CommitPhases, PENDING
    <2>6. \A d \in disk : Fits(d, jm')
      BY <1>2, <2>2, <2>4 DEF Fits, PENDING
    <2>7. OnDisk'
      BY <1>1, <1>2, <2>2, <2>4, <2>5, <2>6, NullJournal, NextJournalOnDisk
      DEF UnchangedFiles, SameTransaction
    <2>8. /\ w' = "create"
          /\ pc' = IF outcome = "recovered_old" THEN "remove_stage" ELSE "returned"
      BY <1>4, <2>1, <2>5 DEF Resumed, _phase, SoundJournal
    <2>9. outcome = "recovered_old" => dir[CANONICAL] = jm.old_inode
      BY <2>2, SMT DEF PENDING
    <2>10. Writing' /\ Installing' /\ Deciding' /\ Cleaning' /\ Orphan'
      BY <1>1, <2>2, <2>4, <2>8, <2>9
         DEF Writing, Installing, Deciding, Cleaning, Orphan,
          Recovering, UnchangedFiles
    <2> QED  BY <2>7, <2>10
  <1> QED  BY <1>3, <1>4

-----------------------------------------------------------------------------
(* Inductive: the steps that change the files.                             *)

-----------------------------------------------------------------------------
(* Staging: no journal yet relies on anything but the canonical name.      *)

\* Before the rollback link is recorded the stage and the stores are free.
LEMMA StagingOnDisk ==
    ASSUME Typed, OnDisk, AtPoint, op = "install", pc \in Unlinked, w = "none",
           jm \in Journals, jm # None,
           dir' \in disk', NEW j \in Journals, jm' = j, SoundJournal(j),
           ~j.rollback_expected, j.old_inode = jm.old_inode,
           \A e \in disk' : \E d \in disk :
               e[CANONICAL] = d[CANONICAL] /\ e[JOURNAL] = d[JOURNAL]
    PROVE  /\ OnDisk'
           /\ \A e \in disk' : e[CANONICAL] = j.old_inode /\ e[JOURNAL] = jm
           /\ \A k \in ReadableJournals' : ~k.rollback_expected
  <1>1. /\ \A d \in disk : d[CANONICAL] = jm.old_inode /\ d[JOURNAL] = jm
        /\ ~jm.rollback_expected
    BY DEF AtPoint, Installing
  <1>2. SoundJournal(jm)
    BY DEF OnDisk, Paired, LiveJournals
  <1>3. \A e \in disk' : e[CANONICAL] = jm.old_inode /\ e[JOURNAL] = jm
    BY <1>1
  <1>4. ReadableJournals' \subseteq {jm} /\ LiveJournals' \subseteq {jm, j}
    BY <1>3 DEF ReadableJournals, LiveJournals
  <1>5. \A k \in {jm, j} : SoundJournal(k) /\ \A e \in disk' : Fits(e, k)'
    BY <1>1, <1>2, <1>3, Unobliged
  <1>6. Paired'
    BY <1>4, <1>5 DEF Paired
  <1>7. OneTransaction'
    BY <1>1, <1>3 DEF OneTransaction
  <1>8. Clean'
    BY <1>3 DEF Clean
  <1> QED  BY <1>1, <1>3, <1>4, <1>6, <1>7, <1>8 DEF OnDisk

\* copy_stage: the creation, the fchown and the copy of the stage.
LEMMA CopyStageKeeps ==
    ASSUME Typed, Control, OnDisk, AtPoint, CopyStage
    PROVE  OnDisk' /\ AtPoint'
  <1> USE DEF AtPoint
  <1>1. /\ op = "install" /\ op' = op /\ expect' = expect /\ keytool' = None /\ w = "none"
        /\ pc \in {"create_stage", "chown_stage", "copy_stage"}
    BY DEF CopyStage, Keep, KeepService, At, Control, InstallLabels, Orphan
  <1>2. /\ jm \in Journals /\ jm # None /\ SoundJournal(jm) /\ jm.issued # None
        /\ ~jm.rollback_expected /\ jm.phase \notin {"live_verified", "recovered_old"}
        /\ Dirs
        /\ \A d \in disk : d[CANONICAL] = jm.old_inode /\ d[JOURNAL] = jm
    BY <1>1, NullJournal DEF Typed, FilesOK, ControlOK, Control, OnDisk, Paired,
        LiveJournals, StagingLabels, Installing, Unlinked
  <1>3. pc \in Unlinked
    BY <1>1 DEF Unlinked
  <1>4. CASE pc # "copy_stage"
    <2>1. /\ jm' = jm /\ w' = "none" /\ pc' \in {"chown_stage", "copy_stage"}
      BY <1>1, <1>4 DEF CopyStage, At, Goto
    <2>2. /\ dir' \in disk'
          /\ \A e \in disk' : \E d \in disk :
                 e[CANONICAL] = d[CANONICAL] /\ e[JOURNAL] = d[JOURNAL]
      <3>1. CASE At("create_stage")
        <4>1. PICK i \in Inodes : Put(STAGE, i)
          BY <3>1 DEF CopyStage, At, CreateStage
        <4>2. dir' \in disk'
          BY <1>2, <4>1, PutKeystore DEF Dirs
        <4> QED  BY <1>2, <4>1, <4>2, PutEffect, SMT DEF Agree
      <3>2. CASE At("chown_stage")
        BY <1>2, <3>2 DEF CopyStage, At, ChownStage, Dirs
      <3> QED  BY <1>1, <1>4, <3>1, <3>2 DEF CopyStage, At
    <2>3. /\ OnDisk' /\ \A e \in disk' : e[CANONICAL] = jm.old_inode /\ e[JOURNAL] = jm
          /\ \A k \in ReadableJournals' : ~k.rollback_expected
      BY <1>1, <1>2, <1>3, <2>1, <2>2, StagingOnDisk
    <2>4. Installing' /\ Writing'
      BY <1>1, <1>2, <2>1, <2>2, <2>3 DEF Installing, Unlinked, Linked, Staged, Committed,
          Writing
    <2>5. Deciding' /\ Cleaning' /\ Orphan'
      BY <1>1, <2>1 DEF Deciding, Cleaning, Orphan, Recovering
    <2> QED  BY <2>3, <2>4, <2>5
  <1>5. CASE pc = "copy_stage"
    <2>1. jm' = [jm EXCEPT !.stage_inode = dir[STAGE]] /\ pc' = "import"
          /\ dir' = dir /\ disk' = disk
      BY <1>5 DEF CopyStage, At, _phase, copy_stage
    <2>2. dir[STAGE] # None /\ dir[STAGE] # dir[CANONICAL]
      BY <1>5 DEF CopyStage, At, Checks, status, exists, LinkedOnce
    <2>3. dir[STAGE] \in Inodes /\ dir[CANONICAL] = jm.old_inode
      BY <1>2, <2>2, DirectoryValues DEF Dirs
    <2>4. /\ jm' \in Journals /\ jm'.stage_inode = dir[STAGE] /\ jm'.issued = jm.issued
          /\ jm'.old_inode = jm.old_inode /\ ~jm'.rollback_expected
          /\ jm'.phase = jm.phase /\ jm'.commit_possible = jm.commit_possible
      BY <1>2, <2>1, <2>3 DEF Journals
    <2>5. SoundJournal(jm')
      BY <1>2, <2>4 DEF SoundJournal, ValidJournal
    <2>6. /\ OnDisk' /\ \A e \in disk' : e[CANONICAL] = jm.old_inode /\ e[JOURNAL] = jm
          /\ \A k \in ReadableJournals' : ~k.rollback_expected
      BY <1>1, <1>2, <1>3, <2>1, <2>4, <2>5, StagingOnDisk DEF Dirs
    <2>7. w' = "create"
      BY <1>5, <2>1, <2>5 DEF CopyStage, At, _phase, SoundJournal
    <2>8. Installing' /\ Writing'
      BY <1>1, <1>2, <2>1, <2>2, <2>3, <2>4, <2>6, <2>7 DEF Installing, Unlinked, Linked,
          Staged, Committed, Writing
    <2>9. Deciding' /\ Cleaning' /\ Orphan'
      BY <1>1, <2>1 DEF Deciding, Cleaning, Orphan, Recovering
    <2> QED  BY <2>6, <2>8, <2>9
  <1> QED  BY <1>4, <1>5

\* keytool -importcert writes the stage only.
LEMMA ImportKeeps ==
    ASSUME Typed, Control, OnDisk, AtPoint, Import
    PROVE  OnDisk' /\ AtPoint'
  <1> USE DEF AtPoint
  <1>1. /\ op = "install" /\ op' = op /\ expect' = expect /\ w = "none" /\ w' = "none"
        /\ jm' = jm /\ dir' = dir /\ disk' = disk
        /\ \/ pc = "import" /\ pc' = "importing"
           \/ pc = "importing" /\ pc' = "sync_stage" /\ keytool' = None
    BY DEF Import, Keep, KeepService, At, Goto, Control, InstallLabels
  <1>2. /\ jm \in Journals /\ jm # None /\ SoundJournal(jm) /\ Dirs
        /\ ~jm.rollback_expected /\ jm.phase \notin {"live_verified", "recovered_old"}
        /\ jm.stage_inode \notin {jm.old_inode, None} /\ jm.issued # None
        /\ dir[STAGE] = jm.stage_inode
    BY <1>1, NullJournal DEF Typed, FilesOK, ControlOK, Control, OnDisk, Paired,
        LiveJournals, Installing, Unlinked, Staged
  <1>3. pc \in Unlinked
    BY <1>1 DEF Unlinked
  <1>4. /\ OnDisk' /\ \A e \in disk' : e[CANONICAL] = jm.old_inode /\ e[JOURNAL] = jm
        /\ \A k \in ReadableJournals' : ~k.rollback_expected
    BY <1>1, <1>2, <1>3, StagingOnDisk DEF Dirs
  <1>5. dir'[JOURNAL] = jm
    BY <1>1, <1>2, <1>4 DEF Dirs
  <1>6. Installing' /\ Writing'
    BY <1>1, <1>2, <1>4, <1>5, SMT DEF Installing, Unlinked, Linked, Staged, Committed, Writing
  <1>7. Deciding' /\ Cleaning' /\ Orphan'
    BY <1>1, <1>2, <1>4 DEF Deciding, Cleaning, Orphan, Recovering
  <1> QED  BY <1>4, <1>6, <1>7

\* The fsyncs of the imported stage and of the old keystore.
LEMMA FileSyncsKeep ==
    ASSUME Typed, Control, OnDisk, AtPoint, SyncStage \/ SyncCanonical
    PROVE  OnDisk' /\ AtPoint'
  <1> USE DEF AtPoint
  <1>1. /\ op = "install" /\ op' = op /\ expect' = expect /\ w = "none" /\ keytool' = None
        /\ dir' = dir /\ disk' = disk /\ content' = content /\ rewritten' = rewritten
        /\ \/ pc = "sync_stage" /\ pc' = "sync_canonical"
           \/ pc = "sync_canonical" /\ pc' = "link"
    BY DEF SyncStage, SyncCanonical, Keep, KeepService, serviceVars, At, Goto, Control,
        InstallLabels, _phase, Orphan
  <1>2. /\ jm \in Journals /\ jm # None /\ SoundJournal(jm) /\ Dirs
        /\ ~jm.rollback_expected /\ jm.phase \notin {"live_verified", "recovered_old"}
        /\ jm.stage_inode \notin {jm.old_inode, None} /\ jm.issued # None
        /\ dir[STAGE] = jm.stage_inode /\ dir[CANONICAL] = jm.old_inode
    BY <1>1, NullJournal DEF Typed, FilesOK, ControlOK, Control, OnDisk, Paired,
        LiveJournals, Installing, Unlinked, Staged, Dirs
  <1>3. pc \in Unlinked
    BY <1>1 DEF Unlinked
  <1>4. synced \subseteq synced'
    BY DEF SyncStage, SyncCanonical, sync_file
  <1>5. \A i, c : Kept(i, c) => Kept(i, c)'
    BY <1>1, <1>4 DEF Kept, Survives
  <1>6. CASE pc = "sync_stage"
    <2>1. /\ jm' = [jm EXCEPT !.phase = "staged_validated"]
          /\ content[dir[STAGE]] = jm.issued /\ dir[STAGE] \in synced'
      BY <1>6 DEF SyncStage, SyncCanonical, At, Checks, collect, _phase, sync_file
    <2>2. /\ jm' \in Journals /\ SoundJournal(jm') /\ ~jm'.rollback_expected
          /\ jm'.old_inode = jm.old_inode /\ jm'.stage_inode = jm.stage_inode
          /\ jm'.issued = jm.issued /\ jm'.phase = "staged_validated"
      <3>1. "staged_validated" \in Phases \ {"live_verified"}
            /\ "staged_validated" \notin CommitPhases
        BY DEF Phases, CommitPhases, PENDING
      <3> QED  BY <1>2, <2>1, <3>1, NewPhase DEF Journals
    <2>3. /\ OnDisk' /\ \A e \in disk' : e[CANONICAL] = jm.old_inode /\ e[JOURNAL] = jm
          /\ \A k \in ReadableJournals' : ~k.rollback_expected
      BY <1>1, <1>2, <1>3, <2>2, StagingOnDisk DEF Dirs
    <2>4. Kept(jm.stage_inode, jm.issued)'
      BY <1>1, <1>2, <2>1, <2>2 DEF Kept, Survives
    <2>5. w' = "create" /\ pc' = "sync_canonical"
      BY <1>1, <1>6, <2>1, <2>2 DEF SyncStage, SyncCanonical, At, _phase, SoundJournal
    <2>6. Installing' /\ Writing'
      BY <1>1, <1>2, <2>2, <2>3, <2>4, <2>5, SMT DEF Installing, Unlinked, Linked, Staged,
          Committed, Writing
    <2>7. Deciding' /\ Cleaning' /\ Orphan'
      BY <1>1, <2>5 DEF Deciding, Cleaning, Orphan, Recovering
    <2> QED  BY <2>3, <2>6, <2>7
  <1>7. CASE pc = "sync_canonical"
    <2>1. /\ jm' = jm /\ w' = "none" /\ pc' = "link"
          /\ content[dir[CANONICAL]] = jm.old /\ dir[CANONICAL] \in synced'
      BY <1>7 DEF SyncStage, SyncCanonical, At, Checks, CanonicalIs, collect, Goto,
          sync_file
    <2>2. /\ OnDisk' /\ \A e \in disk' : e[CANONICAL] = jm.old_inode /\ e[JOURNAL] = jm
          /\ \A k \in ReadableJournals' : ~k.rollback_expected
      BY <1>1, <1>2, <1>3, <2>1, StagingOnDisk DEF Dirs
    <2>3. Kept(jm.stage_inode, jm.issued)' /\ Kept(jm.old_inode, jm.old)'
      <3>1. Kept(jm.stage_inode, jm.issued)
        BY <1>1, <1>7 DEF Installing
      <3> QED  BY <1>1, <1>2, <1>4, <2>1, <3>1 DEF Kept, Survives
    <2>4. dir'[JOURNAL] = jm
      BY <1>1, <1>2, <2>2 DEF Dirs
    <2>5. Installing' /\ Writing'
      BY <1>1, <1>2, <2>1, <2>2, <2>3, <2>4
         DEF Installing, Unlinked, Linked, Staged,
          Committed, Writing
    <2>6. Deciding' /\ Cleaning' /\ Orphan'
      BY <1>1, <2>1 DEF Deciding, Cleaning, Orphan, Recovering
    <2> QED  BY <2>2, <2>5, <2>6
  <1> QED  BY <1>1, <1>6, <1>7

-----------------------------------------------------------------------------
(* The rollback link and the commit.                                       *)

\* The rollback link is made durable before a journal speaks of it.
LEMMA LinkRollbackKeeps ==
    ASSUME Typed, Control, OnDisk, AtPoint, LinkRollback
    PROVE  OnDisk' /\ AtPoint'
  <1> USE DEF AtPoint
  <1>1. /\ op = "install" /\ op' = op /\ expect' = expect /\ w = "none" /\ keytool' = None
        /\ UnchangedStores
        /\ \/ pc = "link" /\ pc' = "sync_link"
           \/ pc = "sync_link" /\ pc' = "committable"
    BY SMT DEF LinkRollback, Keep, KeepService, serviceVars, At, Goto, Control,
        InstallLabels, _phase, Orphan, UnchangedStores
  <1>2. /\ jm \in Journals /\ jm # None /\ SoundJournal(jm) /\ Dirs
        /\ ~jm.rollback_expected /\ jm.phase \notin {"live_verified", "recovered_old"}
        /\ jm.stage_inode \notin {jm.old_inode, None} /\ jm.issued # None
        /\ dir[STAGE] = jm.stage_inode /\ dir[CANONICAL] = jm.old_inode
        /\ Kept(jm.stage_inode, jm.issued) /\ Kept(jm.old_inode, jm.old)
        /\ \A d \in disk : d[JOURNAL] = jm /\ d[CANONICAL] = jm.old_inode
    BY <1>1, NullJournal DEF Typed, FilesOK, ControlOK, Control, OnDisk, Paired,
        LiveJournals, Installing, Unlinked, Staged, Dirs
  <1>3. \A i, c : Kept(i, c)' <=> Kept(i, c)
    BY <1>1 DEF Kept, Survives, UnchangedStores
  <1>4. CASE pc = "link"
    <2>1. jm' = jm /\ w' = "none" /\ pc' = "sync_link" /\ Put(ROLLBACK, dir[CANONICAL])
      BY <1>4 DEF LinkRollback, At, Goto, link_rollback
    <2>2. dir' \in disk'
      BY <1>2, <2>1, PutKeystore, DirectoryValues, SMT DEF Dirs
    <2>3. /\ dir'[ROLLBACK] = jm.old_inode /\ dir'[STAGE] = jm.stage_inode
          /\ \A e \in disk' : \E d \in disk :
                 e[CANONICAL] = d[CANONICAL] /\ e[JOURNAL] = d[JOURNAL]
      BY <1>2, <2>1, PutEffect, SMT DEF Agree
    <2>4. pc \in Unlinked
      BY <1>4, SMT DEF Unlinked
    <2>5. /\ OnDisk' /\ \A e \in disk' : e[CANONICAL] = jm.old_inode /\ e[JOURNAL] = jm
          /\ \A k \in ReadableJournals' : ~k.rollback_expected
      BY <1>1, <1>2, <2>1, <2>2, <2>3, <2>4, StagingOnDisk
    <2>6. Kept(jm.stage_inode, jm.issued)' /\ Kept(jm.old_inode, jm.old)'
      BY <1>1, <1>2, <2>1, SMT DEF Kept, Survives, UnchangedStores
    <2>7. Installing' /\ Writing'
      BY <1>1, <1>2, <2>1, <2>2, <2>3, <2>5, <2>6
         DEF Installing, Unlinked, Linked, Staged,
          Committed, Writing
    <2>8. Deciding' /\ Cleaning' /\ Orphan'
      BY <1>1, <2>1 DEF Deciding, Cleaning, Orphan, Recovering
    <2> QED  BY <2>5, <2>7, <2>8
  <1>5. CASE pc = "sync_link"
    <2>1. /\ jm' = [jm EXCEPT !.phase = "rollback_durable", !.rollback_expected = TRUE]
          /\ dir' = dir /\ disk' = {dir} /\ pc' = "committable"
      BY <1>5, SMT DEF LinkRollback, At, _phase, sync_directory
    <2>2. dir[ROLLBACK] = jm.old_inode
      BY <1>1, <1>5 DEF Installing
    <2>3. /\ jm' \in Journals /\ jm'.phase = "rollback_durable" /\ jm'.rollback_expected
          /\ jm'.old = jm.old /\ jm'.old_inode = jm.old_inode /\ jm'.issued = jm.issued
          /\ jm'.stage_inode = jm.stage_inode /\ jm'.commit_possible = jm.commit_possible
      BY <1>2, <2>1 DEF Journals, Phases
    <2>4. SoundJournal(jm') /\ Fits(dir, jm')
      BY <1>2, <2>3 DEF SoundJournal, ValidJournal, CommitPhases, PENDING, Fits
    <2>5. OnDisk'
      <3>1. disk' \subseteq disk /\ jm' # None /\ SameTransaction(jm', jm)
        BY <1>2, <2>1, <2>3, NullJournal DEF Dirs, SameTransaction
      <3>2. \A k \in ReadableJournals' :
                SameTransaction(k, jm') /\ k.phase # "live_verified"
        BY <1>2, <2>1, <2>3, SMT DEF ReadableJournals, Dirs, SameTransaction
      <3>3. \A d \in disk' : Fits(d, jm')
        BY <2>1, <2>4
      <3> QED  BY <1>1, <1>2, <2>1, <2>4, <3>1, <3>2, <3>3, NextJournalOnDisk
    <2>6. w' = "create"
      BY <1>5, <2>1, <2>4 DEF LinkRollback, At, _phase, SoundJournal
    <2>7. Kept(jm.stage_inode, jm.issued)'
      BY <1>1, <1>2, <2>3 DEF Kept, Survives, UnchangedStores
    <2>8. dir[JOURNAL] = jm
      BY <1>2 DEF Dirs
    <2>9. Installing' /\ Writing'
      BY <1>1, <1>2, <2>1, <2>2, <2>3, <2>6, <2>7, <2>8, SMT
         DEF Installing, Unlinked, Linked,
          Staged, Committed, Writing
    <2>10. Deciding' /\ Cleaning' /\ Orphan'
      BY <1>1, <2>1 DEF Deciding, Cleaning, Orphan, Recovering
    <2> QED  BY <2>5, <2>9, <2>10
  <1> QED  BY <1>1, <1>4, <1>5

\* The rename that commits, and its directory sync.
LEMMA CommitKeeps ==
    ASSUME Typed, Control, OnDisk, AtPoint, Commit
    PROVE  OnDisk' /\ AtPoint'
  <1> USE DEF AtPoint
  <1>1. /\ op = "install" /\ op' = op /\ expect' = expect /\ w = "none" /\ keytool' = None
        /\ UnchangedStores
        /\ \/ pc = "commit" /\ pc' = "sync_commit"
           \/ pc = "sync_commit" /\ pc' = "verify_commit"
    BY DEF Commit, Keep, KeepService, serviceVars, At, Goto, Control,
        InstallLabels, _phase, Orphan, UnchangedStores
  <1>2. /\ jm \in Journals /\ jm # None /\ SoundJournal(jm) /\ Dirs
        /\ jm.phase \notin {"live_verified", "recovered_old"} /\ jm.commit_possible
        /\ \A d \in disk : d[JOURNAL] = jm /\ Fits(d, jm)
    BY <1>1, NullJournal DEF Typed, FilesOK, ControlOK, Control, OnDisk, Paired,
        LiveJournals, Installing, Linked, Committed
  <1>3. CASE pc = "commit"
    <2>1. jm' = jm /\ w' = "none" /\ pc' = "sync_commit" /\ replace(STAGE, CANONICAL)
      BY <1>3 DEF Commit, At, Goto
    <2>2. /\ jm.rollback_expected /\ jm.stage_inode \notin {jm.old_inode, None}
          /\ \A d \in disk : /\ d[CANONICAL] = jm.old_inode /\ d[STAGE] = jm.stage_inode
                             /\ d[ROLLBACK] = jm.old_inode
          /\ Kept(jm.stage_inode, jm.issued)
      BY <1>1, <1>3 DEF Installing, Linked
    <2>3. Kept(jm.old_inode, jm.old)
      BY <1>2, <2>2 DEF Fits, Dirs
    <2>4. \A e \in disk' : \E d \in disk :
              \/ e = d
              \/ /\ e[CANONICAL] = jm.stage_inode /\ e[ROLLBACK] = jm.old_inode
                 /\ e[JOURNAL] = jm
      BY <1>2, <2>1, <2>2, ReplaceEffect, SMT DEF Dirs, Agree
    <2>5. dir' \in disk'
      BY <1>2, <2>1, <2>2, ReplaceCanonical DEF Dirs, exists
    <2>6. \A e \in disk' : Fits(e, jm) /\ e[JOURNAL] = jm
      BY <1>2, <2>2, <2>3, <2>4 DEF Fits
    <2>7. LiveJournals' \subseteq {jm} /\ ReadableJournals' \subseteq {jm}
      BY <2>1, <2>6 DEF LiveJournals, ReadableJournals
    <2>8. Paired'
      BY <1>1, <1>2, <2>6, <2>7, FitsStable DEF Paired
    <2>9. OneTransaction'
      BY <1>2, <2>1, <2>5, <2>6, <2>7 DEF OneTransaction, SameTransaction
    <2>10. Clean'
      BY <1>2, <2>5, <2>6, SMT DEF Clean
    <2>11. Installing' /\ Writing'
      BY <1>1, <1>2, <2>1, <2>5, <2>6 DEF Installing, Unlinked, Linked,
          Staged, Committed, Writing
    <2>12. Deciding' /\ Cleaning' /\ Orphan'
      BY <1>1, <2>1 DEF Deciding, Cleaning, Orphan, Recovering
    <2> QED  BY <2>8, <2>9, <2>10, <2>11, <2>12 DEF OnDisk
  <1>4. CASE pc = "sync_commit"
    <2>1. /\ jm' = [jm EXCEPT !.phase = "committed"] /\ pc' = "verify_commit"
          /\ dir' = dir /\ disk' = {dir}
      BY <1>4 DEF Commit, At, _phase, sync_directory
    <2>2. "committed" \in Phases \ {"live_verified"}
      BY DEF Phases, PENDING
    <2>3. /\ jm' \in Journals /\ SoundJournal(jm') /\ SameTransaction(jm', jm)
          /\ jm'.rollback_expected = jm.rollback_expected
          /\ \A d \in disk : Fits(d, jm')
      BY <1>2, <2>1, <2>2, NewPhase
    <2>4. jm'.commit_possible /\ jm'.phase = "committed"
      BY <1>2, <2>1 DEF Journals
    <2>5. disk' \subseteq disk /\ jm' # None
      BY <1>2, <2>1, <2>3, NullJournal DEF Dirs
    <2>6. OnDisk'
      BY <1>1, <1>2, <2>1, <2>3, <2>5, NextJournalOnDisk
    <2>7. w' = "create"
      BY <1>4, <2>1, <2>3 DEF Commit, At, _phase, SoundJournal
    <2>8. Installing' /\ Writing'
      BY <1>1, <1>2, <2>1, <2>4, <2>5, <2>7 DEF Installing, Unlinked, Linked,
          Staged, Committed, Writing
    <2>9. Deciding' /\ Cleaning' /\ Orphan'
      BY <1>1, <2>1 DEF Deciding, Cleaning, Orphan, Recovering
    <2> QED  BY <2>6, <2>8, <2>9
  <1> QED  BY <1>1, <1>3, <1>4

-----------------------------------------------------------------------------
(* Recovery and cleanup.                                                   *)

\* recover's decision.
LEMMA DecideKeeps ==
    ASSUME Typed, Control, OnDisk, AtPoint, Decide
    PROVE  OnDisk' /\ AtPoint'
  <1> USE DEF AtPoint
  <1>1. /\ UnchangedFiles /\ op' = op /\ keytool' = None /\ expect' = expect
        /\ pc = "decide" /\ w = "none" /\ op # "none" /\ Recovering
    BY DEF Decide, KeepService, filesVars, serviceVars, UnchangedFiles, UnchangedStores,
        At, Orphan, Control, Recovering
  <1>2. /\ jm \in Journals /\ jm # None /\ SoundJournal(jm) /\ Fits(dir, jm)
        /\ jm.phase # "live_verified" /\ dir[JOURNAL] = jm
    BY <1>1, NullJournal DEF Typed, FilesOK, ControlOK, Control, OnDisk, Paired,
        LiveJournals, Deciding, Dirs, Writing
  <1>3. \A i, c : Kept(i, c)' <=> Kept(i, c)
    BY <1>1 DEF Kept, Survives, UnchangedFiles, UnchangedStores
  <1>4. CASE Fail
    BY <1>1, <1>4, FailKeeps
  <1>5. CASE Goto("recover_resume") \/ Goto("restore")
    <2>1. jm' = jm /\ w' = "none" /\ pc' \in {"recover_resume", "restore"}
      BY <1>1, <1>5 DEF Goto
    <2>2. OnDisk'
      BY <1>1, <2>1, StableOnDisk DEF UnchangedFiles
    <2>3. /\ pc' = "restore" =>
                 /\ dir[ROLLBACK] = jm.old_inode /\ jm.commit_possible
                 /\ outcome' = "recovered_old"
          /\ pc' = "recover_resume" =>
                 \/ outcome' = "recovered_old" /\ dir[CANONICAL] = jm.old_inode
                 \/ /\ outcome' = PENDING /\ jm.commit_possible
                    /\ dir[CANONICAL] = jm.stage_inode
      <3>1. RollbackAcceptable
        BY DEF Decide, At, Checks
      <3>2. PICK found : \/ IsOld(found) /\ outcome' = "recovered_old"
                            /\ Goto("recover_resume")
                         \/ IsIssued(found) /\ outcome' = PENDING
                            /\ Goto("recover_resume")
                         \/ IsLost(found) /\ outcome' = "recovered_old"
                            /\ Goto("restore")
                         \/ Fail
        BY DEF Decide
      <3>3. ~Fail
        BY <1>1, <2>1 DEF Fail, Recovering
      <3> QED  BY <3>1, <3>2, <3>3
                  DEF IsOld, IsIssued, IsLost, RollbackAcceptable, Goto
    <2>4. dir[CANONICAL] = jm.stage_inode /\ jm.commit_possible
          => Kept(jm.old_inode, jm.old)
      BY <1>2, SMT DEF Fits, SoundJournal
    <2>5. Deciding'
      BY <1>1, <1>2, <1>3, <2>1, <2>3, <2>4 DEF Deciding, UnchangedFiles, Recovering
    <2>6. Writing' /\ Installing' /\ Cleaning' /\ Orphan'
      BY <1>1, <1>2, <2>1 DEF Writing, Installing, Cleaning, Orphan, UnchangedFiles,
          Recovering
    <2> QED  BY <2>2, <2>5, <2>6
  <1> QED  BY <1>4, <1>5, SMT DEF Decide

\* The restoration of the rollback.
LEMMA RestoreKeeps ==
    ASSUME Typed, Control, OnDisk, AtPoint, Restore
    PROVE  OnDisk' /\ AtPoint'
  <1> USE DEF AtPoint
  <1>1. /\ op' = op /\ keytool' = None /\ UnchangedStores /\ outcome' = outcome
        /\ jm' = jm /\ w = "none" /\ w' = "none" /\ Recovering
        /\ \/ pc = "restore" /\ pc' = "sync_restore"
           \/ pc = "sync_restore" /\ pc' = "restored"
           \/ pc = "restored" /\ pc' = "recover_resume" /\ dir' = dir /\ disk' = disk
    BY DEF Restore, Keep, KeepService, serviceVars, UnchangedStores, At, Goto, Orphan,
        Control, DecidedLabels
  <1>2. /\ jm \in Journals /\ jm # None /\ SoundJournal(jm) /\ Dirs
        /\ jm.phase # "live_verified" /\ dir[JOURNAL] = jm /\ jm \in LiveJournals
        /\ outcome = "recovered_old"
    BY <1>1, NullJournal DEF Typed, FilesOK, ControlOK, Control, OnDisk, Paired,
        LiveJournals, Deciding, Writing
  <1>3. OnDisk' /\ dir'[JOURNAL] = jm
    <2>1. CASE pc = "restore"
      <3>1. /\ replace(ROLLBACK, CANONICAL) /\ dir[ROLLBACK] = jm.old_inode
            /\ jm.commit_possible /\ jm.rollback_expected
        BY <1>2, <2>1 DEF Restore, At, Deciding, SoundJournal, ValidJournal
      <3>2. CASE dir[ROLLBACK] = dir[CANONICAL]
        BY <1>1, <1>2, <3>1, <3>2, StableOnDisk DEF replace
      <3>3. CASE dir[ROLLBACK] # dir[CANONICAL]
        <4>1. /\ dir'[JOURNAL] = jm
              /\ \A e \in disk' : \E d \in disk :
                     \/ e = d
                     \/ /\ e[CANONICAL] = jm.old_inode /\ e[ROLLBACK] = None
                        /\ e[JOURNAL] = d[JOURNAL] /\ e[STAGE] = d[STAGE]
          BY <1>2, <3>1, <3>3, ReplaceEffect, SMT DEF Agree
        <4>2. ReadableJournals' \subseteq ReadableJournals
              /\ LiveJournals' \subseteq LiveJournals
          BY <1>1, <4>1 DEF ReadableJournals, LiveJournals
        <4>3. \A k \in LiveJournals :
                  k.old_inode = jm.old_inode /\ k.phase # "live_verified"
          BY <1>2, <3>1 DEF OnDisk, OneTransaction, SameTransaction, LiveJournals
        <4>4. \A k \in LiveJournals : Kept(k.old_inode, k.old)
          BY <1>2, <3>1, <3>3, <4>3, SMT DEF OnDisk, Paired, Fits, Dirs
        <4>5. \A k \in LiveJournals, e \in disk' : Fits(e, k)
          BY <4>1, <4>3, <4>4, SMT DEF OnDisk, Paired, Fits
        <4>6. Paired'
          BY <1>1, <4>2, <4>5, FitsStable, SMT DEF OnDisk, Paired
        <4>7. OneTransaction'
          BY <1>1, <1>2, <4>1, <4>2 DEF OnDisk, OneTransaction
        <4>8. Clean'
          BY <1>2, <4>1 DEF OnDisk, Clean, Bare
        <4> QED  BY <4>1, <4>6, <4>7, <4>8, SMT DEF OnDisk
      <3> QED  BY <3>2, <3>3, SMT
    <2>2. CASE pc = "sync_restore"
      <3>1. dir' = dir /\ disk' \subseteq disk
        BY <1>2, <2>2 DEF Restore, At, sync_directory, Dirs
      <3> QED  BY <1>1, <1>2, <3>1, SyncOnDisk
    <2>3. CASE pc = "restored"
      BY <1>1, <1>2, <2>3, StableOnDisk
    <2> QED  BY <1>1, <2>1, <2>2, <2>3
  <1>4. Deciding'
    <2>1. pc = "restored" => dir[CANONICAL] = jm.old_inode
      BY DEF Restore, At, Checks, CanonicalIs
    <2> QED  BY <1>1, <1>2, <2>1, SMT DEF Deciding, Recovering
  <1>5. Writing' /\ Installing' /\ Cleaning' /\ Orphan'
    BY <1>1, <1>2, <1>3 DEF Writing, Installing, Cleaning, Orphan, Recovering
  <1> QED  BY <1>3, <1>4, <1>5

\* A directory whose journal is settled.
LEMMA SettledOnDisk ==
    ASSUME jm' = jm, jm # None, SoundJournal(jm), UnchangedStores, dir' \in disk',
           \A e \in disk' : e[JOURNAL] = jm /\ Settled(e, jm)
    PROVE  OnDisk'
  <1>1. LiveJournals' \subseteq {jm} /\ ReadableJournals' \subseteq {jm}
    BY SMT DEF LiveJournals, ReadableJournals
  <1>2. \A e \in disk' : Fits(e, jm)
    BY DEF Settled, Fits
  <1>3. Paired'
    BY <1>1, <1>2, FitsStable DEF Paired
  <1>4. OneTransaction'
    BY <1>1 DEF OneTransaction, SameTransaction
  <1>5. Clean'
    BY DEF Clean
  <1> QED  BY <1>3, <1>4, <1>5 DEF OnDisk

\* The removal of the transaction files, the journal last.
LEMMA CleanupKeeps ==
    ASSUME Typed, Control, OnDisk, AtPoint, Cleanup
    PROVE  OnDisk' /\ AtPoint'
  <1> USE DEF AtPoint
  <1>1. /\ op' = op /\ keytool' = None /\ UnchangedStores /\ expect' = expect
        /\ jm' = jm /\ w = "none" /\ w' = "none"
        /\ pc \in {"establish", "remove_rollback", "remove_stage", "remove_old_rollback",
                   "remove_new", "sync_cleanup", "remove_journal", "sync_journal"}
    BY SMT
       DEF Cleanup, Keep, KeepService, serviceVars, UnchangedStores, At, Goto, Orphan
  <1>2. /\ jm \in Journals /\ jm # None /\ SoundJournal(jm) /\ Dirs
        /\ pc # "sync_journal" => dir[JOURNAL] = jm
        /\ pc # "sync_journal" => op # "install"
    BY <1>1, NullJournal DEF Typed, FilesOK, ControlOK, Control, OnDisk, Paired,
        LiveJournals, Writing, Installing, Cleaning, Settled, Dirs
  <1>3. Orphan'
    BY <1>1 DEF Orphan
  <1>4. CASE pc \in {"establish", "sync_cleanup", "sync_journal"}
    <2>1. /\ dir' = dir /\ disk' = {dir}
          /\ \/ pc = "establish" /\ pc' = "remove_rollback"
             \/ pc = "sync_cleanup" /\ pc' = "remove_journal"
             \/ pc = "sync_journal" /\ pc' = "returned"
      BY <1>1, <1>4 DEF Cleanup, At, Goto, sync_directory
    <2>2. OnDisk'
      BY <1>1, <1>2, <2>1, SyncOnDisk, SMT DEF Dirs
    <2>3. Installing'
      BY <1>1, <1>2, <2>1
         DEF Installing, Unlinked, Linked, Staged, Committed, Dirs
    <2>4. Writing' /\ Deciding' /\ Cleaning'
      BY <1>1, <1>2, <2>1 DEF Writing, Deciding, Cleaning, Recovering, Dirs
    <2> QED  BY <1>3, <2>2, <2>3, <2>4
  <1>5. CASE pc \in {"remove_rollback", "remove_stage", "remove_old_rollback", "remove_new"}
    <2>1. PICK name \in {ROLLBACK, STAGE, JOURNAL_NEW} :
            /\ remove(name)
            /\ \/ pc = "remove_rollback" /\ pc' = "sync_cleanup" /\ name = ROLLBACK
               \/ pc = "remove_stage" /\ pc' = "remove_old_rollback" /\ name = STAGE
               \/ pc = "remove_old_rollback" /\ pc' = "remove_new" /\ name = ROLLBACK
               \/ pc = "remove_new" /\ pc' = "sync_cleanup" /\ name = JOURNAL_NEW
      BY <1>5 DEF Cleanup, At, Goto
    <2>2. /\ \A d \in disk : d[JOURNAL] = jm /\ d[CANONICAL] = dir[CANONICAL]
          /\ Settled(dir, jm)
          /\ pc = "remove_rollback" => dir[STAGE] = None
      <3>1. CASE pc = "remove_rollback"
        <4>1. /\ disk = {dir} /\ jm.phase = "live_verified" /\ jm.commit_possible
          BY <1>2, <3>1 DEF Cleaning, SoundJournal, ValidJournal
        <4>2. dir[CANONICAL] = jm.stage_inode /\ dir[STAGE] = None
          BY <3>1
             DEF Cleanup, At, Checks, LiveVerifiedFiles, CanonicalIs, exists,
              Cleaning
        <4> QED  BY <1>2, <3>1, <4>1, <4>2, SMT DEF Settled
      <3>2. CASE pc # "remove_rollback"
        BY <1>1, <1>2, <1>5, <3>2 DEF Cleaning, Settled, Dirs
      <3> QED  BY <3>1, <3>2
    <2>3. \A d \in disk : Settled(d, jm)
      BY <2>2 DEF Settled
    <2>4. dir' \in disk'
      BY <1>2, <2>1, RemoveTyped, SMT DEF Dirs
    <2>5. /\ dir'[name] = None
          /\ dir'[STAGE] \in {dir[STAGE], None} /\ dir'[ROLLBACK] \in {dir[ROLLBACK], None}
          /\ dir'[CANONICAL] = dir[CANONICAL]
          /\ \A e \in disk' : \E d \in disk :
                 e[JOURNAL] = d[JOURNAL] /\ e[CANONICAL] = d[CANONICAL]
      BY <1>2, <2>1, RemoveEffect, SMT DEF Agree
    <2>6. \A e \in disk' : /\ e[JOURNAL] = jm /\ e[CANONICAL] = dir[CANONICAL]
                           /\ Settled(e, jm)
      BY <2>2, <2>3, <2>5, SMT DEF Settled
    <2>7. OnDisk'
      BY <1>1, <1>2, <2>4, <2>6, SettledOnDisk, SMT
    <2>8. Cleaning'
      BY <1>1, <1>2, <2>1, <2>2, <2>4, <2>5, <2>6 DEF Cleaning, Settled
    <2>9. Writing' /\ Deciding' /\ Installing'
      BY <1>1, <1>2, <1>5, <2>1, <2>4, <2>6
         DEF Writing, Deciding, Installing, Recovering
    <2> QED  BY <1>3, <2>7, <2>8, <2>9
  <1>6. CASE pc = "remove_journal"
    <2>1. remove(JOURNAL) /\ pc' = "sync_journal"
      BY <1>6 DEF Cleanup, At, Goto
    <2>2. disk = {dir} /\ Bare(dir) /\ Settled(dir, jm)
      BY <1>6, SMT DEF Cleaning, Bare, Dirs
    <2>3. /\ dir'[JOURNAL] = None /\ Bare(dir') /\ dir'[CANONICAL] = dir[CANONICAL]
          /\ \A e \in disk' : /\ Bare(e) /\ e[CANONICAL] = dir[CANONICAL]
                              /\ e[JOURNAL] \in {jm, None}
      BY <1>2, <1>6, <2>1, <2>2, RemoveEffect, SMT DEF Agree, Bare
    <2>4. \A e \in disk' : Settled(e, jm)
      BY <2>2, <2>3 DEF Settled
    <2>5. LiveJournals' \subseteq {jm} /\ ReadableJournals' \subseteq {jm}
      BY <1>1, <2>3 DEF LiveJournals, ReadableJournals
    <2>6. \A e \in disk' : Fits(e, jm)
      BY <2>4 DEF Settled, Fits
    <2>7. Paired'
      BY <1>1, <1>2, <2>5, <2>6, FitsStable, SMT DEF Paired
    <2>8. OneTransaction'
      BY <1>1, <2>3, <2>5, SMT DEF OneTransaction, SameTransaction
    <2>9. Clean'
      BY <1>1, <2>3, <2>4, SMT DEF Clean
    <2>10. Writing' /\ Deciding' /\ Installing' /\ Cleaning'
      BY <1>1, <1>2, <1>6, <2>1
         DEF Writing, Deciding, Installing, Cleaning, Recovering
    <2> QED  BY <1>3, <2>7, <2>8, <2>9, <2>10 DEF OnDisk
  <1> QED  BY <1>1, <1>4, <1>5, <1>6, SMT

-----------------------------------------------------------------------------
(* The beginnings of the operations.                                       *)

\* A new installation starts from files that no journal relies on any more.
LEMMA BeginInstallKeeps ==
    ASSUME Typed, Control, OnDisk, AtPoint, BeginInstall
    PROVE  OnDisk' /\ AtPoint'
  <1> USE DEF AtPoint
  <1>1. /\ dir' = dir /\ disk' = disk /\ content' = content /\ synced' = synced
        /\ op' = "install" /\ pc' = "stop" /\ expect' = FALSE /\ keytool' = None
        /\ dir[JOURNAL] = None
    BY SMT DEF BeginInstall, Acquire, filesVars, NoTransaction, exists, _phase
  <1>2. /\ jm'.phase = "quiescing" /\ jm'.old_inode = dir[CANONICAL]
        /\ jm'.rollback_expected = FALSE /\ jm'.commit_possible = FALSE
    BY DEF BeginInstall, _phase
  <1>3. SoundJournal(jm') /\ ValidJournal(jm')
    BY <1>2 DEF SoundJournal, ValidJournal, CommitPhases, PENDING
  <1>4. \A d \in disk : /\ Bare(d) /\ d[CANONICAL] = dir[CANONICAL]
                        /\ d[JOURNAL] # None => Settled(d, d[JOURNAL])
    BY <1>1, SMT DEF OnDisk, Clean
  <1>5. LiveJournals' \subseteq ReadableJournals \cup {jm'}
        /\ ReadableJournals' = ReadableJournals
    BY <1>1, SMT DEF LiveJournals, ReadableJournals
  <1>6. \A k \in ReadableJournals : SoundJournal(k) /\ \A d \in disk : Settled(d, k)
    BY <1>4, SMT DEF OnDisk, Paired, LiveJournals, ReadableJournals, Settled
  <1>7. \A k \in ReadableJournals, d \in disk : Fits(d, k)'
    BY <1>6 DEF Fits, Settled
  <1>8. \A d \in disk : Fits(d, jm)'
    BY <1>2, <1>4 DEF Fits
  <1>9. Paired'
    BY <1>1, <1>3, <1>5, <1>6, <1>7, <1>8 DEF Paired
  <1>10. OneTransaction' /\ Clean'
    BY <1>1, <1>2 DEF OnDisk, OneTransaction, Clean
  <1>11. w' = "create"
    BY <1>3, SMT DEF BeginInstall, _phase
  <1>12. Writing' /\ Installing' /\ Deciding' /\ Cleaning' /\ Orphan'
    BY <1>1, <1>2, <1>4, <1>11
       DEF Writing, Installing, Deciding, Cleaning, Orphan,
        Recovering, Unlinked, Linked, Staged, Committed
  <1> QED  BY <1>9, <1>10, <1>12, SMT DEF OnDisk

\* A verification and a recovery read the journal that is there.
LEMMA BeginOthersKeep ==
    ASSUME Typed, Control, OnDisk, AtPoint, BeginVerify \/ BeginRecovery
    PROVE  OnDisk' /\ AtPoint'
  <1> USE DEF AtPoint
  <1>1. /\ dir' = dir /\ disk' \subseteq disk /\ UnchangedStores /\ keytool' = None
        /\ w' = "none" /\ expect' = FALSE
        /\ op' \in {"verify", "recover", "startup"}
    BY DEF Typed, FilesOK, Dirs, BeginVerify, BeginRecovery, BeginRecover,
        BeginRecoverClean, Acquire, filesVars, serviceVars, sync_directory, Control,
        UnchangedStores
  <1>2. /\ jm' = dir[JOURNAL] \/ jm' = None
        /\ \/ /\ op' = "verify" /\ pc' = "observe" /\ jm' = dir[JOURNAL]
              /\ jm'.phase = PENDING /\ jm'.resume
           \/ pc' = "returned"
           \/ pc' = "stop" /\ op' # "verify" /\ jm'.phase # "live_verified"
              /\ jm' = dir[JOURNAL]
           \/ pc' = "establish" /\ op' # "verify" /\ jm'.phase = "live_verified"
              /\ jm' = dir[JOURNAL]
    BY DEF BeginVerify, BeginRecovery, BeginRecover, BeginRecoverClean, Acquire
  <1>3. OnDisk'
    BY <1>1, <1>2, SyncOnDisk DEF Typed, FilesOK, Dirs
  <1>4. Writing' /\ Installing' /\ Deciding' /\ Cleaning' /\ Orphan'
    BY <1>1, <1>2
       DEF Writing, Installing, Deciding, Cleaning, Orphan, Recovering
  <1> QED  BY <1>3, <1>4, SMT

-----------------------------------------------------------------------------
(* Faults and Java.                                                        *)

\* The death of the helper and a restart of the container leave the files.
LEMMA DeathsKeep ==
    ASSUME Typed, Control, OnDisk, AtPoint, HelperDies \/ ContainerRestart
    PROVE  OnDisk' /\ AtPoint'
  <1> USE DEF AtPoint
  <1>1. /\ HelperGone /\ keytool' \in {keytool, None} /\ UnchangedFiles
    BY DEF HelperDies, ContainerRestart, ContainerStops, filesVars, serviceVars,
        UnchangedFiles, UnchangedStores
  <1>2. OnDisk'
    BY <1>1, SyncOnDisk, SMT DEF HelperGone, UnchangedFiles
  <1>3. Writing' /\ Installing' /\ Deciding' /\ Cleaning' /\ Orphan'
    BY <1>1
       DEF Writing, Installing, Deciding, Cleaning, Orphan, Recovering, HelperGone,
        UnchangedFiles
  <1> QED  BY <1>2, <1>3

\* The end of an orphaned import: no journal relies on the stage it wrote.
LEMMA OrphanKeeps ==
    ASSUME Typed, Control, OnDisk, AtPoint, OrphanEnds
    PROVE  OnDisk' /\ AtPoint'
  <1> USE DEF AtPoint
  <1>1. /\ pc' = "idle" /\ pc = "idle" /\ w' = w /\ jm' = None /\ op' = "none"
        /\ keytool' = None /\ keytool # None /\ dir' = dir /\ disk' = disk /\ w = "none"
        /\ Dirs
    BY DEF OrphanEnds, Control, Writing, Typed, FilesOK
  <1>2. \A d \in disk : d[JOURNAL] # None /\ ~d[JOURNAL].rollback_expected
    BY <1>1 DEF Orphan
  <1>3. LiveJournals' \subseteq ReadableJournals /\ ReadableJournals' = ReadableJournals
    BY <1>1 DEF LiveJournals, ReadableJournals
  <1>4. \A k \in ReadableJournals : /\ SoundJournal(k) /\ ~k.rollback_expected
                                    /\ \A d \in disk : Fits(d, k)
    BY <1>2 DEF OnDisk, Paired, LiveJournals, ReadableJournals
  <1>5. \A k \in ReadableJournals, d \in disk : Fits(d, k)'
    BY <1>4, Unobliged
  <1>6. Paired'
    BY <1>1, <1>3, <1>4, <1>5, SMT DEF Paired
  <1>7. OneTransaction' /\ Clean'
    BY <1>1, <1>2 DEF OneTransaction, OnDisk, Clean, Dirs
  <1>8. Writing' /\ Installing' /\ Deciding' /\ Cleaning' /\ Orphan'
    BY <1>1 DEF Writing, Installing, Deciding, Cleaning, Orphan, Recovering
  <1> QED  BY <1>6, <1>7, <1>8 DEF OnDisk

\* A power loss leaves one of the directories, and what was fsynced.
LEMMA PowerLossKeeps ==
    ASSUME Typed, Control, OnDisk, AtPoint, PowerLoss
    PROVE  OnDisk' /\ AtPoint'
  <1> USE DEF AtPoint
  <1>1. /\ HelperGone /\ keytool' = None /\ rewritten' = rewritten
        /\ dir' \in disk /\ disk' = {dir'} /\ synced' = Inodes
        /\ \A i \in synced : content'[i] = content[i]
        /\ synced \subseteq Inodes
    BY SMT DEF PowerLoss, ContainerStops, LosePower, Typed, FilesOK
  <1>2. LiveJournals' \subseteq ReadableJournals
        /\ ReadableJournals' \subseteq ReadableJournals
        /\ jm' = None
    BY <1>1 DEF LiveJournals, ReadableJournals, HelperGone
  <1>3. \A i, c : Kept(i, c) => Kept(i, c)'
    BY <1>1 DEF Kept, Survives
  <1>4. \A k \in ReadableJournals : SoundJournal(k) /\ Fits(dir', k)
    BY <1>1, SMT DEF OnDisk, Paired, LiveJournals
  <1>5. \A d, k : Fits(d, k) => Fits(d, k)'
    BY <1>3 DEF Fits
  <1>6. Paired'
    BY <1>1, <1>2, <1>4, <1>5 DEF Paired
  <1>7. OneTransaction'
    BY <1>1, <1>2, SMT
       DEF OneTransaction, SameTransaction, LiveJournals, ReadableJournals
  <1>8. Clean'
    BY <1>1 DEF OnDisk, Clean
  <1>9. Writing' /\ Installing' /\ Deciding' /\ Cleaning' /\ Orphan'
    BY <1>1 DEF Writing, Installing, Deciding, Cleaning, Orphan, Recovering, HelperGone
  <1> QED  BY <1>6, <1>7, <1>8, <1>9 DEF OnDisk

\* Java: what it rewrites is recorded, and nothing else changes on disk.
LEMMA JavaKeeps ==
    ASSUME Typed, Control, OnDisk, AtPoint, JavaSteps \/ JavaFaults
    PROVE  OnDisk' /\ AtPoint'
  <1> USE DEF AtPoint
  <1>1. /\ KeepExecutor /\ dir' = dir /\ disk' = disk
        /\ \A i, c : Kept(i, c) => Kept(i, c)'
    <2>1. CASE \E cert \in Certs : JavaRewrites(cert)
      BY <2>1
         DEF JavaRewrites, Store, Kept, Survives, JavaSteps, JavaFaults, Typed,
          FilesOK
    <2>2. CASE JavaUp(TRUE) \/ JavaUp(FALSE) \/ JavaDown \/ JavaCrash
      BY <2>2 DEF JavaUp, JavaDown, JavaCrash, filesVars, Kept, Survives, JavaSteps,
          JavaFaults
    <2> QED  BY <2>1, <2>2 DEF JavaSteps, JavaFaults
  <1>2. \A d, k : Fits(d, k) => Fits(d, k)'
    BY <1>1 DEF Fits
  <1>3. LiveJournals' = LiveJournals /\ ReadableJournals' = ReadableJournals
    BY <1>1 DEF LiveJournals, ReadableJournals, KeepExecutor
  <1>4. Paired'
    BY <1>1, <1>2, <1>3, SMT DEF OnDisk, Paired
  <1>5. OneTransaction' /\ Clean'
    BY <1>1, <1>3 DEF OnDisk, OneTransaction, Clean, KeepExecutor
  <1>6. /\ Kept(jm.old_inode, jm.old) => Kept(jm.old_inode, jm.old)'
        /\ Kept(jm.stage_inode, jm.issued) => Kept(jm.stage_inode, jm.issued)'
    BY <1>1 DEF KeepExecutor, Kept, Survives
  <1>7. Installing'
    BY <1>1, <1>3, <1>6 DEF Installing, KeepExecutor
  <1>8. Deciding'
    BY <1>1, <1>6 DEF Deciding, KeepExecutor, Recovering
  <1>9. Writing' /\ Cleaning' /\ Orphan'
    BY <1>1 DEF Writing, Cleaning, Orphan, KeepExecutor
  <1> QED  BY <1>4, <1>5, <1>7, <1>8, <1>9 DEF OnDisk

-----------------------------------------------------------------------------
(* Consistent, initially and after every step.                             *)

\* The initial state: one canonical keystore and nothing else.
LEMMA ConsistentInit == Init => OnDisk /\ AtPoint
  <1> SUFFICES ASSUME Init PROVE OnDisk /\ AtPoint
    OBVIOUS
  <1>1. /\ disk = {dir} /\ dir[JOURNAL] = None /\ dir[STAGE] = None
        /\ dir[ROLLBACK] = None /\ jm = None /\ pc = "idle" /\ op = "none"
        /\ w = "none" /\ keytool = None
    BY SMT DEF Init
  <1>2. OnDisk
    BY <1>1
       DEF OnDisk, Paired, OneTransaction, Clean, LiveJournals, ReadableJournals,
        Bare
  <1>3. AtPoint
    BY <1>1 DEF AtPoint, Writing, Installing, Deciding, Cleaning, Orphan, Recovering
  <1> QED  BY <1>2, <1>3

\* Every step keeps the invariant.
LEMMA ConsistentNext ==
    Typed /\ Control /\ OnDisk /\ AtPoint /\ [Next]_vars => OnDisk' /\ AtPoint'
  <1> SUFFICES ASSUME Typed, Control, OnDisk, AtPoint, [Next]_vars
               PROVE  OnDisk' /\ AtPoint'
    OBVIOUS
  <1>1. CASE UNCHANGED vars
    <2>1. OnDisk'
      BY <1>1, StableOnDisk DEF vars, filesVars, serviceVars, UnchangedStores
    <2>2. \A i, c : Kept(i, c)' <=> Kept(i, c)
      BY <1>1 DEF vars, filesVars, serviceVars, Kept, Survives
    <2>3. Writing' /\ Cleaning' /\ Orphan'
      BY <1>1 DEF vars, filesVars, AtPoint, Writing, Cleaning, Orphan
    <2>4. /\ op' = op /\ pc' = pc /\ w' = w /\ jm' = jm /\ expect' = expect
          /\ outcome' = outcome /\ dir' = dir /\ disk' = disk
      BY <1>1 DEF vars, filesVars
    <2>5. ReadableJournals' = ReadableJournals
      BY <2>4, SMT DEF ReadableJournals
    <2>6. Installing'
      BY <2>2, <2>4, <2>5 DEF AtPoint, Installing
    <2>7. Deciding'
      BY <2>2, <2>4 DEF AtPoint, Deciding, Recovering
    <2> QED  BY <2>1, <2>3, <2>6, <2>7, SMT DEF AtPoint
  <1>2. CASE Next
    BY <1>2, WriteJournalKeeps, ExceptionsKeep, ControlKeeps, InstallPhasesKeep,
        OtherPhasesKeep, CopyStageKeeps, ImportKeeps, FileSyncsKeep, LinkRollbackKeeps,
        CommitKeeps, DecideKeeps, RestoreKeeps, CleanupKeeps, BeginInstallKeeps,
        BeginOthersKeep, DeathsKeep, OrphanKeeps, PowerLossKeeps, JavaKeeps
    DEF Next, Step, Fault
  <1> QED  BY <1>1, <1>2

-----------------------------------------------------------------------------
(* Reported and Usable: which inodes the names hold.                       *)

\* The part of the invariant that is proved so far.
Known == Typed /\ Control /\ OnDisk /\ AtPoint

\* The control points of an installation before it links the rollback.
Early == {"stop"} \cup (Unlinked \ {"sync_link"})

\* Journal j promises no more about the names of keystores than journal k.
Descends(j, k) ==
    /\ j.old_inode = k.old_inode
    /\ j.commit_possible => k.commit_possible /\ j.stage_inode = k.stage_inode

\* No keystore name changes, and no journal appears but the one in memory.
SameNames ==
    \A e \in disk' : \E d \in disk :
        SameKeystores(d, e) /\ e[JOURNAL] \in {d[JOURNAL], jm}

\* The journal in memory is dropped, read from the file, or goes on.
SameJournal ==
    \/ jm' \in {None, dir[JOURNAL]}
    \/ jm # None /\ Descends(jm', jm)

\* What a running operation knows of its journal.
LEMMA InMemory ==
    ASSUME Known, jm # None
    PROVE  /\ jm \in Journals /\ SoundJournal(jm) /\ jm \in LiveJournals
           /\ \A d \in disk : Fits(d, jm)
  BY DEF Known, Typed, ControlOK, OnDisk, Paired, LiveJournals

\* What each update of a journal promises.
LEMMA Updates ==
    ASSUME NEW j \in Journals
    PROVE  /\ \A p \in Phases :
                  /\ [j EXCEPT !.phase = p].phase = p
                  /\ [j EXCEPT !.phase = p].issued = j.issued
                  /\ [j EXCEPT !.phase = p].stage_inode = j.stage_inode
                  /\ [j EXCEPT !.phase = p].commit_possible = j.commit_possible
                  /\ Descends([j EXCEPT !.phase = p], j)
           /\ \A i : Descends([j EXCEPT !.phase = "staging", !.issued = i], j)
           /\ \A i : ~j.commit_possible => Descends([j EXCEPT !.stage_inode = i], j)
           /\ Descends([j EXCEPT !.phase = "rollback_durable",
                                 !.rollback_expected = TRUE], j)
  BY SMT DEF Journals, Descends

\* Every journal of the next state descends from one of this state.
LEMMA LiveDescend ==
    ASSUME SameNames, SameJournal, dir \in disk
    PROVE  \A j \in LiveJournals' : \E k \in LiveJournals : Descends(j, k)
  <1> SUFFICES ASSUME NEW j \in LiveJournals'
               PROVE  \E k \in LiveJournals : Descends(j, k)
    OBVIOUS
  <1>1. \A k : Descends(k, k)
    BY DEF Descends
  <1>2. \A d \in disk : d[JOURNAL] # None => d[JOURNAL] \in LiveJournals
    BY DEF LiveJournals, ReadableJournals
  <1>3. jm # None => jm \in LiveJournals
    BY DEF LiveJournals
  <1>4. CASE j = jm' /\ j # None
    BY <1>1, <1>2, <1>3, <1>4 DEF SameJournal
  <1>5. CASE \E e \in disk' : j = e[JOURNAL] /\ j # None
    BY <1>1, <1>2, <1>3, <1>5 DEF SameNames
  <1> QED  BY <1>4, <1>5 DEF LiveJournals, ReadableJournals

\* Steps that change no keystore name.
LEMMA LinkingRests ==
    ASSUME Linking, SameNames, SameJournal, dir \in disk,
           op' = "install" /\ pc' \in Early => op = "install" /\ pc \in Early,
           keytool' \in {None, keytool}
    PROVE  Linking'
  <1>1. \A j \in LiveJournals', e \in disk' :
            /\ e[ROLLBACK] \in {None, j.old_inode}
            /\ j.commit_possible => e[STAGE] \in {None, j.stage_inode}
    <2> SUFFICES ASSUME NEW j \in LiveJournals', NEW e \in disk'
                 PROVE  /\ e[ROLLBACK] \in {None, j.old_inode}
                        /\ j.commit_possible => e[STAGE] \in {None, j.stage_inode}
      OBVIOUS
    <2>1. PICK k \in LiveJournals : Descends(j, k)
      BY LiveDescend
    <2>2. PICK d \in disk : e[ROLLBACK] = d[ROLLBACK] /\ e[STAGE] = d[STAGE]
      BY DEF SameNames, SameKeystores
    <2> QED  BY <2>1, <2>2 DEF Linking, Descends
  <1>2. \A e \in disk' : e[STAGE] # None => e[STAGE] \notin {e[CANONICAL], e[ROLLBACK]}
    BY DEF Linking, SameNames, SameKeystores
  <1>3. op' = "install" /\ pc' \in Early => \A e \in disk' : e[ROLLBACK] = None
    BY DEF Linking, SameNames, SameKeystores, Early
  <1>4. keytool' # None => \A e \in disk' : keytool' # e[CANONICAL]
    BY DEF Linking, SameNames, SameKeystores
  <1> QED  BY <1>1, <1>2, <1>3, <1>4 DEF Linking, Early

\* They keep Usable when no file becomes unsafe.
LEMMA UsableRests ==
    ASSUME Usable, SameNames, unsafe' \subseteq unsafe
    PROVE  Usable'
  BY DEF Usable, SameNames, SameKeystores

\* A step after which Linking holds because it did before.
LinksRest ==
    /\ SameNames /\ SameJournal
    /\ op' = "install" /\ pc' \in Early => op = "install" /\ pc \in Early
    /\ keytool' \in {None, keytool}

\* An unchanged directory, a synced one and one that a power loss leaves.
LEMMA FewerNames ==
    ASSUME disk' \subseteq disk
    PROVE  SameNames
  BY DEF SameNames, SameKeystores

\* write_journal changes the journal names only.
LEMMA WriteJournalNames ==
    ASSUME Known, WriteJournal
    PROVE  LinksRest /\ unsafe' \subseteq unsafe
  <1>1. /\ UNCHANGED <<op, pc, jm, keytool, unsafe>> /\ jm # None /\ Dirs
        /\ w \in {"create", "rename", "sync"}
    BY DEF Known, Control, Typed, FilesOK, WriteJournal, Keep
  <1>2. CASE w = "create"
    <2>1. Put(JOURNAL_NEW, jm)
      BY <1>2 DEF WriteJournal
    <2>2. \A e \in disk' : \E d \in disk : e = d \/ Agree(d, e, {JOURNAL_NEW})
      BY <1>1, <2>1, PutEffect
    <2> QED  BY <1>1, <2>2 DEF LinksRest, SameNames, SameKeystores, SameJournal, Descends, Agree
  <1>3. CASE w = "rename"
    <2>1. replace(JOURNAL_NEW, JOURNAL) /\ dir[JOURNAL_NEW] = jm
      BY <1>3 DEF WriteJournal, Known, AtPoint, Writing
    <2>2. \A e \in disk' : \E d \in disk :
              \/ e = d
              \/ e[JOURNAL] = dir[JOURNAL_NEW] /\ Agree(d, e, {JOURNAL_NEW, JOURNAL})
      <3>1. /\ JOURNAL_NEW \in Names /\ JOURNAL \in Names \ {JOURNAL_NEW}
            /\ JOURNAL_NEW \notin Keystores
        OBVIOUS
      <3> QED  BY <1>1, <2>1, <3>1, ReplaceEffect
    <2> QED  BY <1>1, <2>1, <2>2
             DEF LinksRest, SameNames, SameKeystores, SameJournal, Descends, Agree
  <1>4. CASE w = "sync"
    <2>1. disk' \subseteq disk
      BY <1>1, <1>4, SMT DEF WriteJournal, sync_directory, Dirs
    <2> QED  BY <1>1, <2>1, FewerNames DEF LinksRest, SameJournal, Descends
  <1> QED  BY <1>1, <1>2, <1>3, <1>4

\* An exception may write recovery_required and changes no file.
LEMMA FailNames ==
    ASSUME Known, Fail, op # "none", op' = op, keytool' \in {None, keytool},
           UNCHANGED <<dir, disk>>, pc \notin {"returned", "raised"} \/ w # "none"
    PROVE  LinksRest
  <1>1. SameNames
    BY FewerNames
  <1>2. jm # None /\ jm \in Journals
    BY InMemory DEF Known, Control
  <1>3. /\ pc' \in {"handler", "raised"}
        /\ jm' = jm \/ jm' = [jm EXCEPT !.phase = "recovery_required"]
    BY DEF Fail, _phase
  <1>4. Descends(jm', jm)
    <2>1. "recovery_required" \in Phases /\ Descends(jm, jm)
      BY DEF Phases, Descends
    <2> QED  BY <1>2, <1>3, <2>1, Updates
  <1> QED  BY <1>1, <1>2, <1>3, <1>4 DEF LinksRest, SameJournal, Early, Unlinked

\* Steps that only move the control point, and the end of an operation.
LEMMA ControlNames ==
    ASSUME Known, Stop \/ Observe \/ Resume \/ AwaitUp \/ Release
    PROVE  LinksRest /\ unsafe' \subseteq unsafe
  <1>1. UNCHANGED <<dir, disk, unsafe, keytool>> /\ jm' \in {jm, None}
    BY DEF Stop, Observe, Resume, AwaitUp, Release, Keep, OnlyControl, Goto, filesVars
  <1>2. op' = "install" /\ pc' \in Early => op = "install" /\ pc \in Early
    BY DEF Stop, Observe, Resume, AwaitUp, Release, Keep, OnlyControl, Goto, At, Early, Unlinked
  <1>3. SameNames
    BY <1>1, FewerNames
  <1> QED  BY <1>1, <1>2, <1>3 DEF LinksRest, SameJournal, Descends

\* A journal that the running operation moves to its next phase.
LEMMA PhaseNames ==
    ASSUME Known, Quiesce \/ ImportChecks \/ VerifyCommit \/ Resumed \/ Recheck \/ SyncStage
    PROVE  LinksRest /\ unsafe' \subseteq unsafe
  <1>1. UNCHANGED <<dir, disk, unsafe, keytool, op>>
    BY DEF Quiesce, ImportChecks, VerifyCommit, Resumed, Recheck, SyncStage, Keep, OnlyControl,
        filesVars
  <1>2. jm # None /\ jm \in Journals /\ outcome \in Phases \cup {"none"}
    <2>1. pc \in {"quiesce", "import_checks", "verify_commit", "resumed", "recheck", "sync_stage"}
      BY DEF Quiesce, ImportChecks, VerifyCommit, Resumed, Recheck, SyncStage, At
    <2>2. jm # None
      BY <2>1 DEF Known, Control
    <2>3. outcome \in Phases \cup {"none"}
      BY DEF Known, Typed, ControlOK, Phases
    <2> QED  BY <2>2, <2>3, InMemory
  <1>3. \/ \E p \in Phases : jm' = [jm EXCEPT !.phase = p]
        \/ \E i : jm' = [jm EXCEPT !.phase = "staging", !.issued = i]
    <2>1. Resumed /\ op # "install" => outcome \in Phases
      BY <1>2 DEF Resumed, At, Known, Control
    <2>2. {"quiesced", "canonical_verified", PENDING, "live_verified", "staged_validated"}
          \subseteq Phases
      BY DEF Phases, PENDING
    <2> QED  BY <2>1, <2>2 DEF Quiesce, ImportChecks, VerifyCommit, Resumed, Recheck, SyncStage,
                 _phase
  <1>4. Descends(jm', jm)
    <2>1. CASE \E p \in Phases : jm' = [jm EXCEPT !.phase = p]
      BY <1>2, <2>1, Updates
    <2>2. CASE \E i : jm' = [jm EXCEPT !.phase = "staging", !.issued = i]
      <3>1. PICK i : jm' = [jm EXCEPT !.phase = "staging", !.issued = i]
        BY <2>2
      <3>2. Descends([jm EXCEPT !.phase = "staging", !.issued = i], jm)
        BY <1>2, Updates
      <3> QED  BY <3>1, <3>2
    <2> QED  BY <1>3, <2>1, <2>2
  <1>5. pc' \in Early => op = "install" /\ pc \in Early
    <2>1. \/ pc = "quiesce" /\ pc' = "import_checks"
          \/ pc = "import_checks" /\ pc' = "create_stage"
          \/ pc = "sync_stage" /\ pc' = "sync_canonical"
          \/ pc' \in {"resume", "returned", "remove_stage", "establish"}
      BY DEF Quiesce, ImportChecks, VerifyCommit, Resumed, Recheck, SyncStage, _phase, At
    <2> QED  BY <2>1 DEF Early, Unlinked, Known, Control, InstallLabels
  <1>6. SameNames
    BY <1>1, FewerNames
  <1> QED  BY <1>1, <1>2, <1>4, <1>5, <1>6 DEF LinksRest, SameJournal

\* fsync of the canonical keystore, recover's decision, Java and an orphan.
LEMMA OtherNames ==
    ASSUME Known, SyncCanonical \/ Decide \/ JavaSteps \/ JavaFaults \/ OrphanEnds
    PROVE  LinksRest /\ unsafe' \subseteq unsafe
  <1>1. UNCHANGED <<dir, disk, unsafe>> /\ keytool' \in {None, keytool} /\ op' = op
    BY DEF SyncCanonical, Decide, JavaSteps, JavaFaults, OrphanEnds, Keep, filesVars,
        KeepExecutor, JavaUp, JavaDown, JavaCrash, JavaRewrites
  <1>2. SameNames
    BY <1>1, FewerNames
  <1>3. CASE SyncCanonical
    BY <1>1, <1>2, <1>3 DEF SyncCanonical, At, Goto, LinksRest, SameJournal, Descends, Early,
        Unlinked, Known, Control, InstallLabels
  <1>4. CASE Decide
    <2>1. op # "none" /\ pc = "decide" /\ w = "none"
      BY <1>4 DEF Decide, At, Known, Control
    <2>2. CASE Fail
      BY <1>1, <2>1, <2>2, FailNames
    <2>3. CASE Goto("recover_resume") \/ Goto("restore")
      BY <1>1, <1>2, <2>3 DEF Goto, LinksRest, SameJournal, Descends, Early, Unlinked
    <2> QED  BY <1>4, <2>2, <2>3, <1>1 DEF Decide
  <1>5. CASE JavaSteps \/ JavaFaults \/ OrphanEnds
    <2>1. jm' = jm /\ pc' = pc
      BY <1>5 DEF JavaSteps, JavaFaults, OrphanEnds, KeepExecutor
    <2> QED  BY <1>1, <1>2, <2>1 DEF LinksRest, SameJournal, Descends
  <1> QED  BY <1>3, <1>4, <1>5

\* A failed check, and any call that raises.
LEMMA ExceptionNames ==
    ASSUME Known, CheckFails \/ Raise
    PROVE  LinksRest /\ unsafe' \subseteq unsafe
  <1>1. /\ UNCHANGED <<dir, disk, unsafe, op>> /\ keytool' \in {None, keytool} /\ Fail
        /\ op # "none"
    BY DEF CheckFails, Raise, OnlyControl, Keep, filesVars
  <1>2. pc \notin {"returned", "raised"} \/ w # "none"
    BY DEF CheckFails, Raise, Checks
  <1> QED  BY <1>1, <1>2, FailNames

\* The beginnings other than that of an installation, and the end of processes.
LEMMA BeginNames ==
    ASSUME Known, BeginVerify \/ BeginRecovery \/ HelperDies \/ ContainerRestart \/ PowerLoss
    PROVE  LinksRest
  <1>1. disk' \subseteq disk /\ op' # "install" /\ keytool' \in {None, keytool}
        /\ jm' \in {None, dir[JOURNAL]}
    BY DEF BeginVerify, BeginRecovery, BeginRecover, BeginRecoverClean, Acquire, HelperDies,
        ContainerRestart, PowerLoss, ContainerStops, HelperGone, LosePower, sync_directory,
        filesVars, Known, Typed, FilesOK, Dirs
  <1> QED  BY <1>1, FewerNames DEF LinksRest, SameJournal


\* The stage is created, given to its owner and filled.
LEMMA CopyStageLinks ==
    ASSUME Known, Linking, CopyStage
    PROVE  Linking' /\ (Usable => Usable')
  <1>1. /\ op = "install" /\ op' = op /\ keytool' = keytool /\ w = "none" /\ Dirs
        /\ pc \in {"create_stage", "chown_stage", "copy_stage"}
        /\ pc' \in {"chown_stage", "copy_stage", "import"}
    BY DEF CopyStage, Keep, At, Known, Control, InstallLabels, Goto, _phase, Typed, FilesOK
  <1>2. /\ jm # None /\ jm \in Journals /\ ~jm.commit_possible
        /\ \A d \in disk : d[JOURNAL] = jm /\ d[ROLLBACK] = None
        /\ pc \in Early /\ pc \in Unlinked /\ keytool = None
    <2>1. pc \in Early /\ pc \in Unlinked
      BY <1>1 DEF Early, Unlinked
    <2>2. jm # None /\ ~jm.rollback_expected /\ \A d \in disk : d[JOURNAL] = jm
      BY <1>1, <2>1 DEF Known, Control, AtPoint, Installing
    <2>3. jm \in Journals /\ ~jm.commit_possible
      BY <2>2, InMemory DEF SoundJournal, ValidJournal
    <2>4. \A d \in disk : d[ROLLBACK] = None
      BY <1>1, <2>1 DEF Linking, Early
    <2>5. keytool = None
      BY <1>1 DEF Known, AtPoint, Orphan
    <2> QED  BY <2>1, <2>2, <2>3, <2>4, <2>5
  <1>3. CASE pc # "create_stage"
    <2>1. UNCHANGED <<dir, disk>> /\ unsafe' \subseteq unsafe
          /\ jm' \in {jm, [jm EXCEPT !.stage_inode = dir[STAGE]]}
      BY <1>1, <1>3 DEF CopyStage, At, ChownStage, copy_stage, Goto, _phase
    <2>2. SameNames
      BY <2>1, FewerNames
    <2>3. Descends(jm', jm)
      <3>1. Descends(jm, jm)
        BY DEF Descends
      <3>2. Descends([jm EXCEPT !.stage_inode = dir[STAGE]], jm)
        BY <1>2, Updates
      <3> QED  BY <2>1, <3>1, <3>2
    <2>4. Linking'
      BY <1>1, <1>2, <2>2, <2>3, LinkingRests DEF SameJournal, Dirs
    <2> QED  BY <2>1, <2>2, <2>4, UsableRests
  <1>4. CASE pc = "create_stage"
    <2>1. PICK i \in Inodes : Free(i) /\ Put(STAGE, i) /\ unsafe' = unsafe \cup {i}
      BY <1>1, <1>4 DEF CopyStage, At, CreateStage
    <2>2. jm' = jm
      BY <1>1, <1>4 DEF CopyStage, At, Goto
    <2>3. \A e \in disk' : \E d \in disk :
              /\ e[CANONICAL] = d[CANONICAL] /\ e[ROLLBACK] = None /\ e[JOURNAL] = jm
              /\ e[STAGE] \in {d[STAGE], i}
      <3>1. \A e \in disk' : \E d \in disk :
                e = d \/ (e[STAGE] = i /\ Agree(d, e, {STAGE}))
        BY <1>1, <2>1, PutEffect
      <3> QED  BY <1>2, <3>1, SMT DEF Agree
    <2>4. LiveJournals' \subseteq {jm}
      BY <2>2, <2>3 DEF LiveJournals, ReadableJournals
    <2>5. \A d \in disk : d[CANONICAL] # i
      BY <2>1 DEF Free
    <2>6. i # None
      BY ModelValues
    <2>7. Linking'
      BY <1>1, <1>2, <2>2, <2>3, <2>4, <2>5, <2>6 DEF Linking
    <2>8. Usable => Usable'
      <3>1. None \notin unsafe
        BY ModelValues DEF Known, Typed, FilesOK
      <3> QED  BY <2>1, <2>3, <2>5, <2>6, <3>1 DEF Usable
    <2> QED  BY <2>7, <2>8
  <1> QED  BY <1>1, <1>3, <1>4

\* keytool starts on the stage, which is not the canonical keystore.
LEMMA ImportLinks ==
    ASSUME Known, Linking, Import
    PROVE  Linking' /\ (Usable => Usable')
  <1>1. /\ op = "install" /\ op' = op /\ UNCHANGED <<dir, disk, unsafe, jm>> /\ Dirs
        /\ pc \in {"import", "importing"} /\ pc' \in {"importing", "sync_stage"}
        /\ keytool' \in {None, dir[STAGE]}
    BY DEF Import, Keep, At, Known, Control, InstallLabels, Goto, Typed, FilesOK
  <1>2. \A d \in disk : d[CANONICAL] = jm.old_inode /\ d[ROLLBACK] = None
    BY <1>1 DEF Known, AtPoint, Installing, Linking, Unlinked
  <1>3. dir[STAGE] # jm.old_inode
    BY <1>1 DEF Known, AtPoint, Installing, Staged
  <1>4. LiveJournals' = LiveJournals
    BY <1>1 DEF LiveJournals, ReadableJournals
  <1>5. Linking'
    BY <1>1, <1>2, <1>3, <1>4 DEF Linking
  <1> QED  BY <1>1, <1>5 DEF Usable

\* The rollback is a second link to the canonical keystore.
LEMMA LinkRollbackLinks ==
    ASSUME Known, Linking, LinkRollback
    PROVE  Linking' /\ (Usable => Usable')
  <1>1. /\ op = "install" /\ op' = op /\ UNCHANGED <<unsafe, keytool>> /\ Dirs /\ w = "none"
        /\ \/ pc = "link" /\ pc' = "sync_link"
           \/ pc = "sync_link" /\ pc' = "committable"
    BY DEF LinkRollback, Keep, At, Known, Control, InstallLabels, Goto, _phase, Typed, FilesOK
  <1>2. /\ jm # None /\ jm \in Journals
        /\ \A d \in disk : d[CANONICAL] = jm.old_inode /\ d[JOURNAL] = jm
    BY <1>1, InMemory DEF Known, Control, AtPoint, Installing, Unlinked
  <1>3. CASE pc = "sync_link"
    <2>1. /\ disk' \subseteq disk
          /\ jm' = [jm EXCEPT !.phase = "rollback_durable", !.rollback_expected = TRUE]
      BY <1>1, <1>3 DEF LinkRollback, At, sync_directory, Dirs, _phase
    <2>2. SameNames
      BY <2>1, FewerNames
    <2>3. Descends(jm', jm)
      <3>1. Descends([jm EXCEPT !.phase = "rollback_durable", !.rollback_expected = TRUE], jm)
        BY <1>2, Updates
      <3> QED  BY <2>1, <3>1
    <2>4. pc' \notin Early
      BY <1>1, <1>3 DEF Early, Unlinked
    <2>5. Linking'
      BY <1>1, <1>2, <2>2, <2>3, <2>4, LinkingRests DEF SameJournal, Dirs
    <2> QED  BY <1>1, <2>2, <2>5, UsableRests
  <1>4. CASE pc = "link"
    <2>1. Put(ROLLBACK, dir[CANONICAL]) /\ jm' = jm
      BY <1>1, <1>4 DEF LinkRollback, At, link_rollback, Goto
    <2>2. \A e \in disk' : \E d \in disk :
              /\ e[CANONICAL] = jm.old_inode /\ e[JOURNAL] = jm
              /\ e[STAGE] = d[STAGE] /\ e[ROLLBACK] \in {d[ROLLBACK], jm.old_inode}
              /\ d[CANONICAL] = jm.old_inode
      <3>1. \A e \in disk' : \E d \in disk :
                e = d \/ (e[ROLLBACK] = dir[CANONICAL] /\ Agree(d, e, {ROLLBACK}))
        BY <1>1, <2>1, PutEffect
      <3> QED  BY <1>1, <1>2, <3>1, SMT DEF Agree, Dirs
    <2>3. LiveJournals' \subseteq {jm}
      BY <2>1, <2>2 DEF LiveJournals, ReadableJournals
    <2>4. jm \in LiveJournals
      BY <1>2 DEF LiveJournals
    <2>5. pc' \notin Early /\ keytool' = None
      BY <1>1, <1>4 DEF Early, Unlinked, Known, AtPoint, Orphan
    <2>6. Linking'
      <3>1. \A j \in LiveJournals', e \in disk' :
                /\ e[ROLLBACK] \in {None, j.old_inode}
                /\ j.commit_possible => e[STAGE] \in {None, j.stage_inode}
        <4> SUFFICES ASSUME NEW e \in disk'
                     PROVE  /\ e[ROLLBACK] \in {None, jm.old_inode}
                            /\ jm.commit_possible => e[STAGE] \in {None, jm.stage_inode}
          BY <2>3
        <4>1. PICK d \in disk :
                  e[STAGE] = d[STAGE] /\ e[ROLLBACK] \in {d[ROLLBACK], jm.old_inode}
          BY <2>2
        <4> QED  BY <2>4, <4>1 DEF Linking
      <3>2. \A e \in disk' : e[STAGE] # None => e[STAGE] \notin {e[CANONICAL], e[ROLLBACK]}
        <4> SUFFICES ASSUME NEW e \in disk', e[STAGE] # None
                     PROVE  e[STAGE] \notin {e[CANONICAL], e[ROLLBACK]}
          OBVIOUS
        <4>1. PICK d \in disk :
                  /\ e[CANONICAL] = jm.old_inode /\ e[STAGE] = d[STAGE]
                  /\ e[ROLLBACK] \in {d[ROLLBACK], jm.old_inode}
                  /\ d[CANONICAL] = jm.old_inode
          BY <2>2
        <4> QED  BY <4>1 DEF Linking
      <3> QED  BY <2>5, <3>1, <3>2 DEF Linking, Early
    <2>7. Usable => Usable'
      <3> SUFFICES ASSUME Usable, NEW e \in disk'
                   PROVE  e[CANONICAL] \notin unsafe /\ e[ROLLBACK] \notin unsafe
        BY <1>1 DEF Usable
      <3>1. PICK d \in disk :
                /\ e[CANONICAL] = jm.old_inode /\ d[CANONICAL] = jm.old_inode
                /\ e[ROLLBACK] \in {d[ROLLBACK], jm.old_inode}
        BY <2>2
      <3> QED  BY <3>1 DEF Usable
    <2> QED  BY <2>6, <2>7
  <1> QED  BY <1>1, <1>3, <1>4

\* The stage becomes the canonical keystore, everywhere or not at all.
LEMMA CommitLinks ==
    ASSUME Known, Linking, Commit
    PROVE  Linking' /\ (Usable => Usable')
  <1>1. /\ op = "install" /\ op' = op /\ UNCHANGED <<unsafe, keytool>> /\ Dirs /\ w = "none"
        /\ \/ pc = "commit" /\ pc' = "sync_commit"
           \/ pc = "sync_commit" /\ pc' = "verify_commit"
        /\ pc' \notin Early /\ keytool = None
    BY DEF Commit, Keep, At, Known, Control, InstallLabels, Goto, _phase, Typed, FilesOK,
        Early, Unlinked, AtPoint, Orphan
  <1>2. /\ jm # None /\ jm \in Journals /\ jm \in LiveJournals
        /\ \A d \in disk : d[JOURNAL] = jm
    BY <1>1, InMemory DEF Known, Control, AtPoint, Installing, Linked, Committed
  <1>3. CASE pc = "sync_commit"
    <2>1. disk' \subseteq disk /\ jm' = [jm EXCEPT !.phase = "committed"]
      BY <1>1, <1>3 DEF Commit, At, sync_directory, Dirs, _phase
    <2>2. SameNames
      BY <2>1, FewerNames
    <2>3. Descends(jm', jm)
      <3>1. Descends([jm EXCEPT !.phase = "committed"], jm)
        BY <1>2, Updates DEF Phases
      <3> QED  BY <2>1, <3>1
    <2>4. Linking'
      BY <1>1, <1>2, <2>2, <2>3, LinkingRests DEF SameJournal, Dirs
    <2> QED  BY <1>1, <2>2, <2>4, UsableRests
  <1>4. CASE pc = "commit"
    <2>1. /\ replace(STAGE, CANONICAL) /\ jm' = jm
          /\ dir[STAGE] \notin unsafe /\ dir[STAGE] # dir[CANONICAL]
      BY <1>1, <1>4 DEF Commit, At, Goto, Checks, status, LinkedOnce
    <2>2. dir[STAGE] = jm.stage_inode /\ dir[STAGE] # None
      BY <1>1, <1>4 DEF Known, AtPoint, Installing, Linked
    <2>3. \A e \in disk' :
              \/ e \in disk
              \/ /\ e[CANONICAL] = jm.stage_inode /\ e[STAGE] = None /\ e[JOURNAL] = jm
                 /\ \E d \in disk : e[ROLLBACK] = d[ROLLBACK]
      <3>1. STAGE \in Names /\ CANONICAL \in Names \ {STAGE}
        OBVIOUS
      <3>2. \A e \in disk' : \E d \in disk :
                \/ e = d
                \/ /\ e[CANONICAL] = dir[STAGE] /\ e[STAGE] = None
                   /\ Agree(d, e, {STAGE, CANONICAL})
        BY <1>1, <2>1, <3>1, ReplaceEffect
      <3> QED  BY <1>2, <2>2, <3>2, SMT DEF Agree
    <2>4. LiveJournals' \subseteq {jm}
      BY <1>2, <2>1, <2>3 DEF LiveJournals, ReadableJournals
    <2>5. Linking'
      <3>1. \A e \in disk' :
                /\ e[ROLLBACK] \in {None, jm.old_inode}
                /\ jm.commit_possible => e[STAGE] \in {None, jm.stage_inode}
                /\ e[STAGE] # None => e[STAGE] \notin {e[CANONICAL], e[ROLLBACK]}
        BY <1>2, <2>3 DEF Linking
      <3> QED  BY <1>1, <2>4, <3>1 DEF Linking, Early
    <2>6. Usable => Usable'
      BY <1>1, <2>1, <2>2, <2>3 DEF Usable
    <2> QED  BY <2>5, <2>6
  <1> QED  BY <1>1, <1>3, <1>4

\* The journal that announces the commit: the stage is the one it names.
LEMMA CommittableLinks ==
    ASSUME Known, Linking, Committable
    PROVE  Linking' /\ (Usable => Usable')
  <1>1. /\ op = "install" /\ op' = op /\ UNCHANGED <<dir, disk, unsafe, keytool>> /\ w = "none"
        /\ pc = "committable" /\ pc' = "commit" /\ keytool = None
        /\ jm' = [jm EXCEPT !.phase = "commit_possible", !.commit_possible = TRUE]
    BY DEF Committable, OnlyControl, Keep, At, Known, Control, InstallLabels, _phase, filesVars,
        AtPoint, Orphan
  <1>2. /\ jm # None /\ jm \in Journals /\ jm \in LiveJournals
        /\ \A d \in disk : d[JOURNAL] = jm /\ d[STAGE] = jm.stage_inode
    BY <1>1, InMemory DEF Known, Control, AtPoint, Installing, Linked
  <1>3. jm'.old_inode = jm.old_inode /\ jm'.stage_inode = jm.stage_inode
    BY <1>1, <1>2, SMT DEF Journals
  <1>4. LiveJournals' \subseteq {jm, jm'}
    BY <1>1, <1>2 DEF LiveJournals, ReadableJournals
  <1>5. \A d \in disk' :
            /\ d[ROLLBACK] \in {None, jm.old_inode} /\ d[STAGE] = jm.stage_inode
            /\ d[STAGE] # None => d[STAGE] \notin {d[CANONICAL], d[ROLLBACK]}
    BY <1>1, <1>2 DEF Linking
  <1>6. pc' \notin Early
    BY <1>1 DEF Early, Unlinked
  <1>7. Linking'
    BY <1>1, <1>3, <1>4, <1>5, <1>6 DEF Linking, Early
  <1> QED  BY <1>1, <1>7 DEF Usable

\* The rollback becomes the canonical keystore again.
LEMMA RestoreLinks ==
    ASSUME Known, Linking, Restore
    PROVE  Linking' /\ (Usable => Usable')
  <1>1. /\ op' = op /\ op # "install" /\ UNCHANGED <<unsafe, keytool, jm>> /\ Dirs /\ w = "none"
        /\ keytool = None /\ pc \in {"restore", "sync_restore", "restored"}
    BY DEF Restore, Keep, At, Known, Control, DecidedLabels, Recovering, Goto, Typed, FilesOK,
        AtPoint, Orphan
  <1>2. jm # None /\ jm \in LiveJournals /\ SoundJournal(jm)
    BY <1>1, InMemory DEF Known, Control
  <1>3. CASE disk' \subseteq disk
    <2>1. SameNames /\ SameJournal
      BY <1>1, <1>2, <1>3, FewerNames DEF SameJournal, Descends
    <2>2. Linking'
      BY <1>1, <2>1, LinkingRests DEF Dirs
    <2> QED  BY <1>1, <2>1, <2>2, UsableRests
  <1>4. CASE pc = "restore" /\ dir[ROLLBACK] # dir[CANONICAL]
    <2>1. /\ replace(ROLLBACK, CANONICAL) /\ dir[ROLLBACK] = jm.old_inode
          /\ jm.commit_possible /\ jm.stage_inode # jm.old_inode
      BY <1>2, <1>4 DEF Restore, At, Known, AtPoint, Deciding, SoundJournal
    <2>2. \A e \in disk' :
              \/ e \in disk
              \/ /\ e[CANONICAL] = jm.old_inode /\ e[ROLLBACK] = None
                 /\ \E d \in disk : e[STAGE] = d[STAGE] /\ e[JOURNAL] = d[JOURNAL]
      <3>1. ROLLBACK \in Names /\ CANONICAL \in Names \ {ROLLBACK}
        OBVIOUS
      <3>2. \A e \in disk' : \E d \in disk :
                \/ e = d
                \/ /\ e[CANONICAL] = dir[ROLLBACK] /\ e[ROLLBACK] = None
                   /\ Agree(d, e, {ROLLBACK, CANONICAL})
        BY <1>1, <1>4, <2>1, <3>1, ReplaceEffect
      <3> QED  BY <2>1, <3>2, SMT DEF Agree
    <2>3. LiveJournals' \subseteq LiveJournals
      BY <1>1, <2>2 DEF LiveJournals, ReadableJournals
    <2>4. \A e \in disk' : e[STAGE] # None => e[STAGE] \notin {e[CANONICAL], e[ROLLBACK]}
      <3> SUFFICES ASSUME NEW e \in disk', e[STAGE] # None, e \notin disk
                   PROVE  e[STAGE] \notin {e[CANONICAL], e[ROLLBACK]}
        BY DEF Linking
      <3>1. e[STAGE] = jm.stage_inode
        BY <1>2, <2>1, <2>2 DEF Linking
      <3> QED  BY <2>1, <2>2, <3>1
    <2>5. \A j \in LiveJournals', e \in disk' :
              /\ e[ROLLBACK] \in {None, j.old_inode}
              /\ j.commit_possible => e[STAGE] \in {None, j.stage_inode}
      BY <2>2, <2>3 DEF Linking
    <2>6. Linking'
      BY <1>1, <2>4, <2>5 DEF Linking
    <2>7. Usable => Usable'
      <3>1. None \notin unsafe /\ (Usable => jm.old_inode \notin unsafe)
        BY <1>1, <2>1, ModelValues DEF Usable, Known, Typed, FilesOK, Dirs
      <3> QED  BY <1>1, <2>2, <3>1 DEF Usable
    <2> QED  BY <2>6, <2>7
  <1> QED  BY <1>1, <1>3, <1>4 DEF Restore, replace, sync_directory, Dirs, At

\* Names disappear, except the canonical one.
Withdraws ==
    \A e \in disk' : \E d \in disk :
        /\ e[CANONICAL] = d[CANONICAL]
        /\ e[STAGE] \in {None, d[STAGE]} /\ e[ROLLBACK] \in {None, d[ROLLBACK]}
        /\ e[JOURNAL] \in {None, d[JOURNAL]}

\* A cleanup does so, and no journal appears.
LEMMA CleanupWithdraws ==
    ASSUME Known, Cleanup
    PROVE  Withdraws /\ LiveJournals' \subseteq LiveJournals
  <1>1. Dirs /\ jm' = jm
    BY DEF Cleanup, Goto, Known, Typed, FilesOK
  <1>2. sync_directory => Withdraws
    BY <1>1 DEF sync_directory, Dirs, Withdraws
  <1>3. ASSUME NEW name \in {STAGE, ROLLBACK, JOURNAL, JOURNAL_NEW}, remove(name)
        PROVE  Withdraws
    <2>1. \A e \in disk' : \E d \in disk :
              e = d \/ (e[name] = None /\ Agree(d, e, {name}))
      BY <1>1, <1>3, RemoveEffect
    <2> QED  BY <2>1, SMT DEF Agree, Withdraws
  <1>4. \/ sync_directory
        \/ \E name \in {STAGE, ROLLBACK, JOURNAL, JOURNAL_NEW} : remove(name)
    BY DEF Cleanup
  <1>5. Withdraws
    BY <1>2, <1>3, <1>4
  <1> QED  BY <1>1, <1>5 DEF LiveJournals, ReadableJournals, Withdraws

\* The names of a settled transaction go.
LEMMA CleanupLinks ==
    ASSUME Known, Linking, Cleanup
    PROVE  Linking' /\ (Usable => Usable')
  <1>1. /\ op' = op /\ UNCHANGED <<unsafe, keytool, jm>> /\ Dirs
        /\ pc' \notin Early
    BY DEF Cleanup, Keep, Goto, Known, Typed, FilesOK, Early, Unlinked
  <1>2. Withdraws /\ LiveJournals' \subseteq LiveJournals
    BY CleanupWithdraws
  <1>3. None \notin unsafe
    BY ModelValues DEF Known, Typed, FilesOK
  <1>4. \A j \in LiveJournals', e \in disk' :
            /\ e[ROLLBACK] \in {None, j.old_inode}
            /\ j.commit_possible => e[STAGE] \in {None, j.stage_inode}
    <2> SUFFICES ASSUME NEW j \in LiveJournals', NEW e \in disk'
                 PROVE  /\ e[ROLLBACK] \in {None, j.old_inode}
                        /\ j.commit_possible => e[STAGE] \in {None, j.stage_inode}
      OBVIOUS
    <2>1. PICK d \in disk :
              e[STAGE] \in {None, d[STAGE]} /\ e[ROLLBACK] \in {None, d[ROLLBACK]}
      BY <1>2 DEF Withdraws
    <2> QED  BY <1>2, <2>1 DEF Linking
  <1>5. \A e \in disk' : e[STAGE] # None => e[STAGE] \notin {e[CANONICAL], e[ROLLBACK]}
    BY <1>2 DEF Linking, Withdraws
  <1>6. keytool' # None => \A e \in disk' : keytool' # e[CANONICAL]
    BY <1>1 DEF Known, AtPoint, Orphan, Cleanup, At
  <1>7. Linking'
    BY <1>1, <1>4, <1>5, <1>6 DEF Linking, Early
  <1>8. Usable => Usable'
    BY <1>1, <1>2, <1>3 DEF Usable, Withdraws
  <1> QED  BY <1>7, <1>8

\* A new transaction begins where no file of another is left.
LEMMA BeginInstallLinks ==
    ASSUME Known, Linking, BeginInstall
    PROVE  Linking' /\ (Usable => Usable')
  <1>1. UNCHANGED <<dir, disk, unsafe, keytool>> /\ dir[JOURNAL] = None /\ keytool = None
    BY DEF BeginInstall, filesVars, Acquire, NoTransaction, exists
  <1>2. \A d \in disk : d[STAGE] = None /\ d[ROLLBACK] = None
    BY <1>1 DEF Known, OnDisk, Clean, Bare
  <1>3. Linking'
    BY <1>1, <1>2 DEF Linking
  <1> QED  BY <1>1, <1>3 DEF Usable

\* A power loss leaves at most a stage that status() refuses.
LEMMA PowerLossUsable ==
    ASSUME Known, Linking, Usable, PowerLoss
    PROVE  Usable'
  <1>1. /\ dir' \in disk /\ disk' = {dir'}
        /\ unsafe' \subseteq unsafe \cup ({dir'[STAGE]} \cap Inodes)
    BY DEF PowerLoss, LosePower
  <1>2. /\ dir'[CANONICAL] \notin unsafe /\ dir'[ROLLBACK] \notin unsafe
        /\ dir'[STAGE] # None => dir'[STAGE] \notin {dir'[CANONICAL], dir'[ROLLBACK]}
    BY <1>1 DEF Usable, Linking
  <1> QED  BY <1>1, <1>2, ModelValues DEF Usable

\* Where LinksRest holds, Linking goes on.
LEMMA LinksRestLinking ==
    ASSUME Known, Linking, LinksRest
    PROVE  Linking'
  BY LinkingRests DEF LinksRest, Known, Typed, FilesOK, Dirs

\* Every step keeps the names in order.
LEMMA LinkingNext ==
    ASSUME Known, Linking, Next
    PROVE  Linking' /\ (Usable => Usable')
  <1> DEFINE Quiet == LinksRest /\ unsafe' \subseteq unsafe
  <1>1. CASE Quiet
    BY <1>1, LinksRestLinking, UsableRests DEF LinksRest
  <1>2. CASE BeginVerify \/ BeginRecovery \/ HelperDies \/ ContainerRestart
    <2>1. unsafe' = unsafe
      BY <1>2 DEF BeginVerify, BeginRecovery, BeginRecover, BeginRecoverClean, HelperDies,
          ContainerRestart, filesVars
    <2> QED  BY <1>1, <1>2, <2>1, BeginNames
  <1>3. CASE PowerLoss
    BY <1>3, BeginNames, LinksRestLinking, PowerLossUsable
  <1>4. CASE WriteJournal \/ CheckFails \/ Raise \/ Stop \/ Observe \/ Resume \/ AwaitUp \/ Release
    BY <1>1, <1>4, WriteJournalNames, ExceptionNames, ControlNames
  <1>5. CASE Quiesce \/ ImportChecks \/ VerifyCommit \/ Resumed \/ Recheck \/ SyncStage
    BY <1>1, <1>5, PhaseNames
  <1>6. CASE SyncCanonical \/ Decide \/ JavaSteps \/ JavaFaults \/ OrphanEnds
    BY <1>1, <1>6, OtherNames
  <1>7. CASE CopyStage \/ Import \/ LinkRollback \/ Commit \/ Committable \/ Restore \/ Cleanup
             \/ BeginInstall
    BY <1>7, CopyStageLinks, ImportLinks, LinkRollbackLinks, CommitLinks, CommittableLinks,
        RestoreLinks, CleanupLinks, BeginInstallLinks
  <1> QED  BY <1>2, <1>3, <1>4, <1>5, <1>6, <1>7 DEF Next, Step, Fault

-----------------------------------------------------------------------------
(* Reported: what Java does and presents.                                  *)

Silent == (Unlinked \ {"quiesce"}) \cup Linked

\* A step of the executor that Java does not notice, within the same part of an
\* installation.
Unnoticed ==
    /\ UNCHANGED <<svc, rewritten, touched, op>>
    /\ pc' \in {"stop", "quiesce"} => pc' = pc
    /\ pc' \in Silent => pc \in Silent

\* A failure ends the part of the installation that Quieted is about.
LEMMA FailUnnoticed ==
    ASSUME Fail, UNCHANGED <<serviceVars, op>>
    PROVE  Unnoticed
  BY DEF Fail, _phase, Unnoticed, serviceVars, Silent, Unlinked, Linked

\* Every other step of an installation but four.
LEMMA StepsUnnoticed ==
    ASSUME WriteJournal \/ CheckFails \/ Raise \/ CopyStage \/ Import \/ SyncStage
           \/ SyncCanonical \/ LinkRollback \/ Committable \/ Commit \/ VerifyCommit
           \/ Resumed \/ Observe \/ Recheck \/ Cleanup \/ Decide \/ Restore
    PROVE  Unnoticed
  <1>1. UNCHANGED <<serviceVars, op>>
    BY DEF WriteJournal, CheckFails, Raise, CopyStage, Import, SyncStage, SyncCanonical,
        LinkRollback, Committable, Commit, VerifyCommit, Resumed, Observe, Recheck, Cleanup,
        Decide, Restore, Keep, KeepService, OnlyControl
  <1>2. CASE WriteJournal
    BY <1>1, <1>2 DEF WriteJournal, Unnoticed, serviceVars
  <1>3. CASE CheckFails \/ Raise
    BY <1>1, <1>3, FailUnnoticed DEF CheckFails, Raise
  <1>4. CASE CopyStage \/ Import \/ SyncStage \/ SyncCanonical \/ LinkRollback \/ Committable
    BY <1>1, <1>4 DEF CopyStage, Import, SyncStage, SyncCanonical, LinkRollback, Committable,
        At, Goto, _phase, Unnoticed, serviceVars, Silent, Unlinked, Linked
  <1>5. CASE Commit \/ VerifyCommit \/ Resumed \/ Observe \/ Recheck \/ Cleanup \/ Restore
    <2>1. pc' \notin Silent \cup {"stop", "quiesce"}
      BY <1>5 DEF Commit, VerifyCommit, Resumed, Observe, Recheck, Cleanup, Restore, Goto, _phase,
          Silent, Unlinked, Linked
    <2> QED  BY <1>1, <2>1 DEF Unnoticed, serviceVars
  <1>6. CASE Decide
    <2>1. Fail \/ pc' \in {"recover_resume", "restore"}
      BY <1>6 DEF Decide, Goto
    <2> QED  BY <1>1, <2>1, FailUnnoticed DEF Unnoticed, serviceVars, Silent, Unlinked, Linked
  <1> QED  BY <1>2, <1>3, <1>4, <1>5, <1>6

\* Java is down, and has changed nothing, while the stage is made and committed.
LEMMA QuietedNext ==
    ASSUME Known, Quieted, Next
    PROVE  Quieted'
  <1>1. CASE Unnoticed
    BY <1>1 DEF Quieted, Unnoticed, Silent
  <1>2. CASE op' # "install"
    BY <1>2 DEF Quieted
  <1>3. CASE BeginInstall
    BY <1>3 DEF BeginInstall, _phase, Quieted, Unlinked, Linked
  <1>4. CASE Stop
    BY <1>4 DEF Stop, At, Goto, Keep, Quieted, Unlinked, Linked
  <1>5. CASE Quiesce
    <2>1. svc = "down" /\ ~touched /\ pc = "quiesce" /\ pc' = "import_checks"
      BY <1>5 DEF Quiesce, At, Checks, stopped, same, _phase
    <2>2. UNCHANGED <<svc, rewritten, touched, op>>
      BY <1>5 DEF Quiesce, OnlyControl, Keep, KeepService, serviceVars
    <2> QED  BY <2>1, <2>2 DEF Quieted
  <1>6. CASE ImportChecks
    <2>1. /\ pc = "import_checks" /\ pc' = "create_stage"
          /\ UNCHANGED <<svc, rewritten, op>>
      BY <1>6 DEF ImportChecks, At, _phase, Keep
    <2> QED  BY <2>1 DEF Quieted, Unlinked, Linked
  <1>7. CASE Resume \/ AwaitUp \/ (Release /\ op' = "install")
    <2>1. pc' \in {"await_up", "resumed", "raised", "idle"}
      BY <1>7 DEF Resume, AwaitUp, Release, Goto
    <2> QED  BY <2>1 DEF Quieted, Unlinked, Linked
  <1>8. CASE JavaSteps \/ JavaFaults
    <2>1. /\ op' = op /\ pc' = pc /\ svc # "down"
          /\ (rewritten' = rewritten /\ touched' = touched) \/ touched'
      BY <1>8 DEF JavaSteps, JavaFaults, KeepExecutor, JavaUp, JavaDown, JavaCrash, JavaRewrites
    <2> SUFFICES ASSUME op = "install"
                 PROVE  /\ pc \in {"stop", "quiesce"} /\ ~touched' => rewritten' = {}
                        /\ pc \notin Silent
      BY <2>1 DEF Quieted, Silent
    <2>2. pc \notin Silent
      BY <2>1 DEF Quieted, Silent
    <2>3. CASE touched'
      BY <2>2, <2>3
    <2>4. CASE rewritten' = rewritten /\ touched' = touched
      BY <2>2, <2>4 DEF Quieted
    <2> QED  BY <2>1, <2>3, <2>4
  <1>9. CASE BeginVerify \/ BeginRecovery \/ HelperDies \/ ContainerRestart \/ PowerLoss \/ OrphanEnds
    BY <1>2, <1>9 DEF BeginVerify, BeginRecovery, BeginRecover, BeginRecoverClean, Acquire,
        HelperDies, ContainerRestart, PowerLoss, ContainerStops, HelperGone, OrphanEnds
  <1> QED  BY <1>1, <1>2, <1>3, <1>4, <1>5, <1>6, <1>7, <1>8, <1>9, StepsUnnoticed
           DEF Next, Step, Fault

VerifiedLabels == {"recheck", "establish", "remove_rollback"}

\* A step after which Presented holds because it did before.
PresentsRest ==
    /\ serving' = serving /\ served' = served
    /\ svc' = "down" => svc = "down"
    /\ dir'[JOURNAL] \in {None, dir[JOURNAL], jm} /\ SameJournal
    /\ \A e \in disk' : \E d \in disk :
           /\ e[JOURNAL] \in {None, d[JOURNAL]}
           /\ e[ROLLBACK] # None => d[ROLLBACK] # None
    /\ op' = "verify" /\ pc' \in VerifiedLabels =>
           op = "verify" /\ pc \in VerifiedLabels /\ jm'.issued = jm.issued
    /\ w' # "none" /\ jm'.phase = "live_verified" =>
           \/ op' \in {"none", "install"}
           \/ op' = "verify" /\ pc' = "establish"

\* Such a step keeps Presented.
LEMMA PresentedRests ==
    ASSUME Known', Presented, PresentsRest
    PROVE  Presented'
  <1>1. svc' = "down" => serving' = None
    BY DEF Presented, PresentsRest
  <1>2. \A j \in {dir'[JOURNAL], jm'} \ {None} :
            j.commit_possible => serving' \in served' \cup {None}
    BY DEF Presented, PresentsRest, SameJournal, Descends
  <1>3. op' = "verify" /\ pc' \in VerifiedLabels => jm'.issued \in served'
    BY DEF Presented, PresentsRest, VerifiedLabels
  <1>4. w' # "none" /\ jm'.phase = "live_verified" => op' = "verify" /\ pc' = "establish"
    <2>1. op' = "install" => jm'.phase # "live_verified"
      BY DEF Known, AtPoint, Installing
    <2>2. op' = "none" => w' = "none"
      BY DEF Known, Control
    <2> QED  BY <2>1, <2>2 DEF PresentsRest
  <1>5. \A e \in disk' :
            e[JOURNAL] # None /\ e[ROLLBACK] # None /\ e[JOURNAL].phase = "live_verified"
            => e[JOURNAL].issued \in served'
    BY DEF Presented, PresentsRest
  <1> QED  BY <1>1, <1>2, <1>3, <1>4, <1>5 DEF Presented, VerifiedLabels

\* Files, operation and Java stay as they are.
Still ==
    /\ dir' = dir /\ disk' = disk /\ op' = op
    /\ serving' = serving /\ served' = served /\ (svc' = "down" => svc = "down")

\* Then the journal may go on, unless it becomes live_verified.
LEMMA StillPresents ==
    ASSUME Known, Still, LinksRest,
           pc' \in VerifiedLabels => pc \in VerifiedLabels /\ jm'.issued = jm.issued,
           \/ w' = "none" \/ jm'.phase # "live_verified" \/ op = "install"
           \/ op = "verify" /\ pc' = "establish"
    PROVE  PresentsRest
  BY DEF PresentsRest, LinksRest, Still

\* An exception.
LEMMA FailPresents ==
    ASSUME Known, CheckFails \/ Raise \/ (Decide /\ Fail)
    PROVE  PresentsRest
  <1>1. LinksRest
    BY ExceptionNames, OtherNames
  <1>2. Still /\ Fail
    BY DEF CheckFails, Raise, Decide, OnlyControl, Keep, KeepService, filesVars, serviceVars, Still
  <1>3. pc' \in {"handler", "raised"} /\ (w' = "none" \/ op = "install")
    BY <1>2 DEF Fail, _phase
  <1>4. pc' \notin VerifiedLabels
    BY <1>3 DEF VerifiedLabels
  <1> QED  BY <1>1, <1>2, <1>3, <1>4, StillPresents

\* Steps within an installation that change no name.
LEMMA InstallPresents ==
    ASSUME Known,
           Quiesce \/ ImportChecks \/ VerifyCommit \/ SyncStage \/ SyncCanonical
    PROVE  PresentsRest
  <1>1. LinksRest
    BY PhaseNames, OtherNames
  <1>2. Still
    BY DEF Quiesce, ImportChecks, VerifyCommit, SyncStage, SyncCanonical, OnlyControl, Keep,
        KeepService, filesVars, serviceVars, Still
  <1>3. /\ pc \in {"quiesce", "import_checks", "verify_commit", "sync_stage", "sync_canonical"}
        /\ pc' \in {"import_checks", "create_stage", "resume", "sync_canonical", "link"}
    BY DEF Quiesce, ImportChecks, VerifyCommit, SyncStage, SyncCanonical, At, Goto, _phase
  <1>4. pc' \notin VerifiedLabels /\ op = "install"
    BY <1>3 DEF VerifiedLabels, Known, Control, InstallLabels
  <1> QED  BY <1>1, <1>2, <1>4, StillPresents

\* A recovery, or an installation, that records its outcome; a verification that
\* records live_verified.
LEMMA OutcomePresents ==
    ASSUME Known, Resumed \/ Recheck
    PROVE  PresentsRest
  <1>1. LinksRest
    BY PhaseNames
  <1>2. Still
    BY DEF Resumed, Recheck, OnlyControl, Keep, KeepService, filesVars, serviceVars, Still
  <1>3. jm \in Journals
    BY InMemory DEF Resumed, Recheck, At, Known, Control
  <1>4. CASE Recheck
    <2>1. /\ pc = "recheck" /\ pc' = "establish" /\ op = "verify"
          /\ jm' = [jm EXCEPT !.phase = "live_verified"]
      BY <1>4 DEF Recheck, At, _phase, Known, Control
    <2>2. jm'.issued = jm.issued
      BY <1>3, <2>1, SMT DEF Journals
    <2> QED  BY <1>1, <1>2, <2>1, <2>2, StillPresents DEF VerifiedLabels
  <1>5. CASE Resumed
    <2>1. pc' \notin VerifiedLabels
      BY <1>5 DEF Resumed, _phase, VerifiedLabels
    <2>2. op = "install" \/ jm'.phase # "live_verified"
      <3>1. ASSUME op # "install"
            PROVE  jm' = [jm EXCEPT !.phase = outcome] /\ outcome # "live_verified"
        BY <1>5, <3>1 DEF Resumed, _phase, Known, Typed, ControlOK, PENDING
      <3> QED  BY <1>3, <3>1, SMT DEF Journals
    <2> QED  BY <1>1, <1>2, <2>1, <2>2, StillPresents
  <1> QED  BY <1>4, <1>5

\* No journal and no rollback appears.
JournalsStay ==
    /\ dir'[JOURNAL] \in {None, dir[JOURNAL]}
    /\ \A e \in disk' : \E d \in disk :
           /\ e[JOURNAL] \in {None, d[JOURNAL]}
           /\ e[ROLLBACK] # None => d[ROLLBACK] # None

\* Most operations of _Files are such.
LEMMA FilesStay ==
    ASSUME Dirs,
           \/ UNCHANGED <<dir, disk>> \/ sync_directory
           \/ \E v : Put(STAGE, v)
           \/ \E name \in {STAGE, ROLLBACK, JOURNAL, JOURNAL_NEW} : remove(name)
           \/ \E name \in {STAGE, ROLLBACK} : replace(name, CANONICAL)
    PROVE  JournalsStay
  <1>1. CASE UNCHANGED <<dir, disk>> \/ sync_directory
    BY <1>1 DEF JournalsStay, sync_directory, Dirs
  <1>2. ASSUME NEW v, Put(STAGE, v)
        PROVE  JournalsStay
    <2>1. /\ Agree(dir, dir', {STAGE})
          /\ \A e \in disk' : \E d \in disk : e = d \/ Agree(d, e, {STAGE})
      BY <1>2, PutEffect
    <2> QED  BY <2>1, SMT DEF Agree, JournalsStay
  <1>3. ASSUME NEW name \in {STAGE, ROLLBACK, JOURNAL, JOURNAL_NEW}, remove(name)
        PROVE  JournalsStay
    <2>1. /\ dir'[name] = None /\ Agree(dir, dir', {name})
          /\ \A e \in disk' : \E d \in disk : e = d \/ (e[name] = None /\ Agree(d, e, {name}))
      BY <1>3, RemoveEffect
    <2> QED  BY <2>1, SMT DEF Agree, JournalsStay
  <1>4. ASSUME NEW name \in {STAGE, ROLLBACK}, replace(name, CANONICAL)
        PROVE  JournalsStay
    <2>1. CASE dir[name] = dir[CANONICAL]
      BY <1>1, <1>4, <2>1 DEF replace
    <2>2. CASE dir[name] # dir[CANONICAL]
      <3>1. name \in Names /\ CANONICAL \in Names \ {name}
        OBVIOUS
      <3>2. /\ Agree(dir, dir', {name, CANONICAL})
            /\ \A e \in disk' : \E d \in disk :
                   e = d \/ (e[name] = None /\ Agree(d, e, {name, CANONICAL}))
        BY <1>4, <2>2, <3>1, ReplaceEffect
      <3> QED  BY <3>2, SMT DEF Agree, JournalsStay
    <2> QED  BY <2>1, <2>2
  <1> QED  BY <1>1, <1>2, <1>3, <1>4

\* Java stays as it is.
SameJava ==
    serving' = serving /\ served' = served /\ (svc' = "down" => svc = "down")

\* A step that writes no journal and verifies nothing.
LEMMA StayPresents ==
    ASSUME JournalsStay, SameJava, SameJournal, w' = "none" \/ op' = "install",
           op' = "verify" /\ pc' \in VerifiedLabels =>
               op = "verify" /\ pc \in VerifiedLabels /\ jm' = jm
    PROVE  PresentsRest
  BY DEF PresentsRest, JournalsStay, SameJava

\* Steps of an installation that change files, but for the link.
LEMMA InstallFilesPresent ==
    ASSUME Known, CopyStage \/ Import \/ Commit \/ (LinkRollback /\ pc = "sync_link")
    PROVE  PresentsRest
  <1>1. op = "install" /\ op' = "install" /\ SameJava /\ Dirs /\ jm # None /\ jm \in Journals
    <2>1. op = "install" /\ op' = op /\ SameJava /\ Dirs
      BY DEF CopyStage, Import, Commit, LinkRollback, Keep, KeepService, serviceVars, SameJava, At,
          Known, Control, InstallLabels, Typed, FilesOK
    <2> QED  BY <2>1, InMemory DEF Known, Control
  <1>2. JournalsStay
    <2>1. CASE CopyStage
      BY <1>1, <2>1, FilesStay DEF CopyStage, CreateStage, ChownStage, copy_stage
    <2>2. CASE Import
      BY <1>1, <2>2, FilesStay DEF Import
    <2>3. CASE Commit \/ (LinkRollback /\ pc = "sync_link")
      <3>1. sync_directory \/ replace(STAGE, CANONICAL)
        BY <2>3 DEF Commit, LinkRollback, At
      <3> QED  BY <1>1, <3>1, FilesStay
    <2> QED  BY <2>1, <2>2, <2>3
  <1>3. SameJournal
    <2>1. CASE jm' = jm
      BY <1>1, <2>1 DEF SameJournal, Descends
    <2>2. CASE LinkRollback /\ pc = "sync_link"
      <3>1. jm' = [jm EXCEPT !.phase = "rollback_durable", !.rollback_expected = TRUE]
        BY <2>2 DEF LinkRollback, At, _phase
      <3>2. Descends([jm EXCEPT !.phase = "rollback_durable", !.rollback_expected = TRUE], jm)
        BY <1>1, Updates
      <3> QED  BY <1>1, <3>1, <3>2 DEF SameJournal
    <2>3. CASE jm' = [jm EXCEPT !.phase = "committed"]
      <3>1. Descends([jm EXCEPT !.phase = "committed"], jm)
        BY <1>1, Updates DEF Phases
      <3> QED  BY <1>1, <2>3, <3>1 DEF SameJournal
    <2>4. CASE pc = "copy_stage" /\ jm' = [jm EXCEPT !.stage_inode = dir[STAGE]]
      <3>1. ~jm.commit_possible
        <4>1. ~jm.rollback_expected
          BY <1>1, <2>4 DEF Known, AtPoint, Installing, Unlinked
        <4> QED  BY <1>1, <4>1, InMemory DEF SoundJournal, ValidJournal
      <3>2. Descends([jm EXCEPT !.stage_inode = dir[STAGE]], jm)
        BY <1>1, <3>1, Updates
      <3> QED  BY <1>1, <2>4, <3>2 DEF SameJournal
    <2> QED  BY <2>1, <2>2, <2>3, <2>4 DEF CopyStage, Import, Commit, Goto, _phase, At
  <1> QED  BY <1>1, <1>2, <1>3, StayPresents

\* Cleanup, recovery and the steps around Java.
LEMMA OthersPresent ==
    ASSUME Known, Cleanup \/ Restore \/ (Decide /\ ~Fail) \/ Stop \/ Resume \/ AwaitUp \/ Release
    PROVE  PresentsRest
  <1>1. SameJava /\ Dirs /\ w' = "none" /\ jm' \in {jm, None}
    BY DEF Cleanup, Restore, Decide, Stop, Resume, AwaitUp, Release, Keep, KeepService,
        serviceVars, SameJava, At, Goto, Known, Typed, FilesOK, s6_down, s6_up
  <1>2. JournalsStay
    <2>1. CASE Cleanup
      <3>1. \/ sync_directory
            \/ \E name \in {STAGE, ROLLBACK, JOURNAL, JOURNAL_NEW} : remove(name)
        BY <2>1 DEF Cleanup
      <3> QED  BY <1>1, <3>1, FilesStay
    <2>2. CASE Restore
      <3>1. UNCHANGED <<dir, disk>> \/ sync_directory \/ replace(ROLLBACK, CANONICAL)
        BY <2>2 DEF Restore
      <3> QED  BY <1>1, <3>1, FilesStay
    <2>3. CASE Decide \/ Stop \/ Resume \/ AwaitUp \/ Release
      <3>1. dir' = dir /\ disk' = disk
        BY <2>3 DEF Decide, Stop, Resume, AwaitUp, Release, filesVars
      <3> QED  BY <1>1, <3>1, FilesStay
    <2> QED  BY <2>1, <2>2, <2>3
  <1>3. SameJournal
    BY <1>1 DEF SameJournal, Descends
  <1>4. op' = "verify" /\ pc' \in VerifiedLabels =>
            op = "verify" /\ pc \in VerifiedLabels /\ jm' = jm
    <2>1. CASE Cleanup
      BY <2>1 DEF Cleanup, Keep, At, Goto, VerifiedLabels
    <2>2. CASE Restore \/ (Decide /\ ~Fail) \/ Stop \/ Resume \/ AwaitUp \/ Release
      BY <2>2 DEF Restore, Decide, Stop, Resume, AwaitUp, Release, Goto, VerifiedLabels
    <2> QED  BY <2>1, <2>2
  <1> QED  BY <1>1, <1>2, <1>3, <1>4, StayPresents

\* The beginnings of a verification and of a recovery, the death of the helper
\* and the end of an orphan.
LEMMA BeginsPresent ==
    ASSUME Known, BeginVerify \/ BeginRecovery \/ HelperDies \/ OrphanEnds
    PROVE  PresentsRest
  <1>1. SameJava /\ Dirs /\ JournalsStay
    <2>1. Dirs
      BY DEF Known, Typed, FilesOK
    <2>2. SameJava /\ (UNCHANGED <<dir, disk>> \/ sync_directory)
      BY DEF BeginVerify, BeginRecovery, BeginRecover, BeginRecoverClean, HelperDies, OrphanEnds,
          SameJava, serviceVars, filesVars
    <2> QED  BY <2>1, <2>2, FilesStay
  <1>2. w' = "none" /\ jm' \in {None, dir[JOURNAL]}
    BY DEF BeginVerify, BeginRecovery, BeginRecover, BeginRecoverClean, HelperDies, OrphanEnds,
        Acquire, HelperGone, Known, Control, AtPoint, Writing
  <1>3. ~(op' = "verify" /\ pc' \in VerifiedLabels)
    BY DEF BeginVerify, BeginRecovery, BeginRecover, BeginRecoverClean, HelperDies, OrphanEnds,
        Acquire, HelperGone, VerifiedLabels
  <1> QED  BY <1>1, <1>2, <1>3, StayPresents DEF SameJournal

\* A new transaction begins: nothing that Java presented counts for it.
LEMMA BeginInstallPresents ==
    ASSUME Known, Presented, BeginInstall
    PROVE  Presented'
  <1>1. /\ dir' = dir /\ disk' = disk /\ svc' = svc /\ serving' = serving
        /\ op' = "install" /\ dir[JOURNAL] = None
    BY DEF BeginInstall, filesVars, Acquire, NoTransaction, exists
  <1>2. \A d \in disk : d[ROLLBACK] = None
    BY <1>1 DEF Known, OnDisk, Clean, Bare
  <1>3. ~jm'.commit_possible /\ jm'.phase = "quiescing"
    BY DEF BeginInstall, _phase
  <1> QED  BY <1>1, <1>2, <1>3 DEF Presented

\* A journal is written.
LEMMA WriteJournalPresents ==
    ASSUME Known, Presented, WriteJournal
    PROVE  Presented'
  <1>1. /\ op' = op /\ pc' = pc /\ jm' = jm /\ svc' = svc /\ serving' = serving
        /\ served' = served /\ w \in {"create", "rename", "sync"} /\ Dirs /\ jm # None
    BY DEF WriteJournal, Keep, KeepService, serviceVars, Known, Control, Typed, FilesOK
  <1>2. /\ dir'[JOURNAL] \in {None, dir[JOURNAL], jm}
        /\ \A e \in disk' : \E d \in disk :
               e[JOURNAL] \in {None, d[JOURNAL], jm} /\ e[ROLLBACK] = d[ROLLBACK]
    <2>1. CASE w = "create"
      <3>1. Put(JOURNAL_NEW, jm)
        BY <2>1 DEF WriteJournal
      <3>2. /\ Agree(dir, dir', {JOURNAL_NEW})
            /\ \A e \in disk' : \E d \in disk : e = d \/ Agree(d, e, {JOURNAL_NEW})
        BY <1>1, <3>1, PutEffect
      <3> QED  BY <3>2, SMT DEF Agree
    <2>2. CASE w = "rename"
      <3>1. replace(JOURNAL_NEW, JOURNAL) /\ dir[JOURNAL_NEW] = jm
        BY <2>2 DEF WriteJournal, Known, AtPoint, Writing
      <3>2. /\ JOURNAL_NEW \in Names /\ JOURNAL \in Names \ {JOURNAL_NEW}
            /\ JOURNAL_NEW \notin Keystores
        OBVIOUS
      <3>3. /\ dir'[JOURNAL] = jm
            /\ \A e \in disk' : \E d \in disk :
                   e = d \/ (e[JOURNAL] = jm /\ Agree(d, e, {JOURNAL_NEW, JOURNAL}))
        BY <1>1, <3>1, <3>2, ReplaceEffect
      <3> QED  BY <3>3, SMT DEF Agree
    <2>3. CASE w = "sync"
      BY <1>1, <2>3 DEF WriteJournal, sync_directory, Dirs
    <2> QED  BY <1>1, <2>1, <2>2, <2>3
  <1>3. jm.phase = "live_verified" => op = "verify" /\ pc = "establish" /\ jm.issued \in served
    BY <1>1 DEF Presented
  <1>4. \A e \in disk' :
            e[JOURNAL] # None /\ e[ROLLBACK] # None /\ e[JOURNAL].phase = "live_verified"
            => e[JOURNAL].issued \in served
    <2> SUFFICES ASSUME NEW e \in disk', e[JOURNAL] # None, e[ROLLBACK] # None,
                        e[JOURNAL].phase = "live_verified"
                 PROVE  e[JOURNAL].issued \in served
      OBVIOUS
    <2>1. PICK d \in disk : e[JOURNAL] \in {d[JOURNAL], jm} /\ e[ROLLBACK] = d[ROLLBACK]
      BY <1>2
    <2> QED  BY <1>3, <2>1 DEF Presented
  <1>5. \A j \in {dir'[JOURNAL], jm'} \ {None} :
            j.commit_possible => serving' \in served' \cup {None}
    BY <1>1, <1>2 DEF Presented
  <1> QED  BY <1>1, <1>3, <1>4, <1>5 DEF Presented

\* The live certificate is the issued one: Java has presented it in this
\* transaction, which may be committed.
LEMMA ObservePresents ==
    ASSUME Known, Presented, Observe
    PROVE  Presented'
  <1>1. /\ Still /\ w' = w /\ jm' = jm /\ svc' = svc /\ w = "none"
        /\ op = "verify" /\ pc = "observe" /\ pc' = "recheck" /\ serving = jm.issued
    BY DEF Observe, At, Goto, Checks, LiveCertificate, OnlyControl, Keep, KeepService, filesVars,
        serviceVars, Still, Known, Control
  <1>2. jm # None /\ jm.commit_possible /\ jm.issued # None
    <2>1. jm # None /\ jm.phase = PENDING
      BY <1>1 DEF Known, Control, AtPoint, Deciding
    <2> QED  BY <2>1, InMemory DEF SoundJournal, ValidJournal, CommitPhases
  <1>3. jm.issued \in served
    BY <1>1, <1>2 DEF Presented
  <1> QED  BY <1>1, <1>3 DEF Presented, Still

\* The rollback appears beside the journal of an installation.
LEMMA LinkPresents ==
    ASSUME Known, Presented, LinkRollback, pc # "sync_link"
    PROVE  Presented'
  <1>1. /\ op = "install" /\ op' = op /\ SameJava /\ Dirs /\ pc = "link" /\ w = "none" /\ w' = w
        /\ jm' = jm /\ Put(ROLLBACK, dir[CANONICAL]) /\ svc' = svc
    BY DEF LinkRollback, Keep, KeepService, serviceVars, SameJava, At, Goto, link_rollback,
        Known, Control, InstallLabels, Typed, FilesOK
  <1>2. jm.phase # "live_verified" /\ \A d \in disk : d[JOURNAL] = jm
    BY <1>1 DEF Known, AtPoint, Installing, Unlinked
  <1>3. dir'[JOURNAL] = dir[JOURNAL] /\ \A e \in disk' : e[JOURNAL] = jm
    <2>1. /\ Agree(dir, dir', {ROLLBACK})
          /\ \A e \in disk' : \E d \in disk : e = d \/ Agree(d, e, {ROLLBACK})
      BY <1>1, PutEffect
    <2> QED  BY <1>2, <2>1, SMT DEF Agree
  <1> QED  BY <1>1, <1>2, <1>3 DEF Presented, SameJava

\* The journal announces the commit while Java is down.
LEMMA CommittablePresents ==
    ASSUME Known, Quieted, Presented, Committable
    PROVE  Presented'
  <1>1. /\ op = "install" /\ Still /\ svc' = svc /\ pc = "committable" /\ pc' = "commit"
        /\ jm' = [jm EXCEPT !.phase = "commit_possible", !.commit_possible = TRUE]
    BY DEF Committable, At, _phase, OnlyControl, Keep, KeepService, filesVars, serviceVars, Still,
        Known, Control, InstallLabels
  <1>2. serving = None
    BY <1>1 DEF Quieted, Linked, Presented
  <1>3. jm'.phase = "commit_possible"
    <2>1. jm \in Journals
      BY <1>1, InMemory DEF Known, Control
    <2> QED  BY <1>1, <2>1, SMT DEF Journals
  <1> QED  BY <1>1, <1>2, <1>3 DEF Presented, Still

\* Java runs, stops, crashes or rewrites its keystore.
LEMMA JavaPresents ==
    ASSUME Presented, JavaSteps \/ JavaFaults
    PROVE  Presented'
  <1>1. dir' = dir /\ disk' = disk /\ op' = op /\ pc' = pc /\ w' = w /\ jm' = jm
    BY DEF JavaSteps, JavaFaults, KeepExecutor, JavaUp, JavaDown, JavaCrash, JavaRewrites, filesVars
  <1>2. /\ served \subseteq served' /\ (svc' = "down" => serving' = None)
        /\ serving' \in served' \cup {None} \/ (serving' = serving /\ served' = served)
    BY DEF JavaSteps, JavaFaults, JavaUp, JavaDown, JavaCrash, JavaRewrites
  <1> QED  BY <1>1, <1>2 DEF Presented

\* Every process ends, and with it what Java presents.
LEMMA DeathsPresent ==
    ASSUME Known, Presented, ContainerRestart \/ PowerLoss
    PROVE  Presented'
  <1>1. /\ serving' = None /\ served' = served /\ op' = "none" /\ w' = "none"
        /\ disk' \subseteq disk
    BY DEF ContainerRestart, PowerLoss, ContainerStops, HelperGone, filesVars, LosePower
  <1> QED  BY <1>1 DEF Presented

\* Every step keeps what Java has presented.
LEMMA PresentedNext ==
    ASSUME Known, Known', Quieted, Presented, Next
    PROVE  Presented'
  <1>1. CASE PresentsRest
    BY <1>1, PresentedRests
  <1>2. CASE BeginInstall \/ BeginVerify \/ BeginRecovery \/ OrphanEnds \/ HelperDies
             \/ ContainerRestart \/ PowerLoss \/ JavaSteps \/ JavaFaults
    BY <1>1, <1>2, BeginInstallPresents, BeginsPresent, DeathsPresent, JavaPresents
  <1>3. CASE WriteJournal \/ CheckFails \/ Raise \/ Observe \/ Committable
             \/ Quiesce \/ ImportChecks \/ VerifyCommit \/ SyncStage \/ SyncCanonical
             \/ Resumed \/ Recheck
    BY <1>1, <1>3, WriteJournalPresents, FailPresents, ObservePresents, CommittablePresents,
        InstallPresents, OutcomePresents
  <1>4. CASE CopyStage \/ Import \/ Commit \/ LinkRollback
    BY <1>1, <1>4, InstallFilesPresent, LinkPresents
  <1>5. CASE Cleanup \/ Restore \/ Decide \/ Stop \/ Resume \/ AwaitUp \/ Release
    BY <1>1, <1>5, OthersPresent, FailPresents
  <1> QED  BY <1>2, <1>3, <1>4, <1>5 DEF Next, Step, Fault

-----------------------------------------------------------------------------
(* Reported: what results rest on.                                         *)

ResumeLabels == {"recover_resume", "await_up", "resumed"}

CleanupLabels == {"sync_cleanup", "remove_journal", "sync_journal"}

EstablishedLabels ==
    {"establish", "remove_rollback", "sync_cleanup", "remove_journal", "sync_journal", "returned"}

\* The transaction is about to be pending.
AboutToCommit ==
    \/ op = "install" /\ pc \in Committed
    \/ Recovering /\ outcome = PENDING /\ pc \in ResumeLabels

Results == Committing /\ Verified /\ Closing /\ Returning

\* Nothing is committed, verified, closed or returned.
Inactive ==
    /\ ~AboutToCommit
    /\ ~(op = "verify" /\ pc \in EstablishedLabels)
    /\ pc \notin CleanupLabels \cup {"returned"} /\ w # "sync"

\* Then there is nothing to show.
LEMMA InactiveResults ==
    ASSUME Inactive
    PROVE  Results
  <1>1. Committing
    BY DEF Inactive, AboutToCommit, ResumeLabels, Committing
  <1>2. Verified
    BY DEF Inactive, EstablishedLabels, Verified
  <1>3. Closing
    BY DEF Inactive, EstablishedLabels, CleanupLabels, Closing
  <1>4. Returning
    BY DEF Inactive, Returning
  <1> QED  BY <1>1, <1>2, <1>3, <1>4 DEF Results

\* The same after a step.
LEMMA InactiveResultsNext ==
    ASSUME Inactive'
    PROVE  Results'
  <1>1. Committing'
    BY DEF Inactive, AboutToCommit, ResumeLabels, Committing
  <1>2. Verified'
    BY DEF Inactive, EstablishedLabels, Verified
  <1>3. Closing'
    BY DEF Inactive, EstablishedLabels, CleanupLabels, Closing
  <1>4. Returning'
    BY DEF Inactive, Returning
  <1> QED  BY <1>1, <1>2, <1>3, <1>4 DEF Results

\* A failure shows nothing.
LEMMA FailInactive ==
    ASSUME Fail
    PROVE  Inactive'
  <1>1. pc' \in {"handler", "raised"} /\ w' \in {"none", "create", "invalid"}
    BY DEF Fail, _phase
  <1> QED  BY <1>1 DEF Inactive, AboutToCommit, Committed, ResumeLabels, EstablishedLabels,
               CleanupLabels

\* Where a verification or an installation is before its commit.
BeforeResults ==
    {"idle", "stop", "quiesce", "import_checks", "create_stage", "chown_stage", "copy_stage",
     "import", "importing", "sync_stage", "sync_canonical", "link", "sync_link", "committable",
     "commit", "observe", "recheck", "decide", "restore", "sync_restore", "restored", "handler",
     "raised", "remove_stage", "remove_old_rollback", "remove_new"}

\* There is nothing to show there either.
LEMMA BeforeInactive ==
    ASSUME pc' \in BeforeResults, w' # "sync"
    PROVE  Inactive'
  BY DEF BeforeResults, Inactive, AboutToCommit, Committed, ResumeLabels, EstablishedLabels,
     CleanupLabels

\* Most steps end at such a place.
LEMMA InactiveSteps ==
    ASSUME Known,
           \/ CheckFails \/ Raise \/ Release \/ Stop \/ Quiesce \/ ImportChecks \/ CopyStage
           \/ Import \/ SyncStage \/ SyncCanonical \/ LinkRollback \/ Committable \/ Observe
           \/ BeginInstall \/ BeginVerify \/ HelperDies \/ ContainerRestart \/ PowerLoss
    PROVE  Inactive'
  <1>1. CASE CheckFails \/ Raise
    BY <1>1, FailInactive DEF CheckFails, Raise
  <1>2. CASE Release \/ Stop \/ Quiesce \/ ImportChecks \/ CopyStage \/ Import \/ SyncStage
             \/ SyncCanonical \/ LinkRollback \/ Committable \/ Observe
    <2>1. pc' \in BeforeResults
      BY <1>2 DEF Release, Stop, Quiesce, ImportChecks, CopyStage, Import, SyncStage,
          SyncCanonical, LinkRollback, Committable, Observe, Goto, _phase, BeforeResults
    <2>2. w' # "sync"
      BY <1>2 DEF Release, Stop, Quiesce, ImportChecks, CopyStage, Import, SyncStage,
          SyncCanonical, LinkRollback, Committable, Observe, Goto, _phase, At
    <2> QED  BY <2>1, <2>2, BeforeInactive
  <1>3. CASE BeginInstall \/ BeginVerify \/ HelperDies \/ ContainerRestart \/ PowerLoss
    <2>1. pc' \in {"stop", "observe", "idle"} /\ w' # "sync"
      BY <1>3 DEF BeginInstall, BeginVerify, HelperDies, ContainerRestart, PowerLoss, _phase,
          ContainerStops, HelperGone, Acquire, Known, Control
    <2> QED  BY <2>1, BeforeInactive DEF BeforeResults
  <1> QED  BY <1>1, <1>2, <1>3

\* Java and an orphan leave the results alone, except for what Java rewrites.
LEMMA JavaResults ==
    ASSUME Known, Results, JavaSteps \/ JavaFaults \/ OrphanEnds
    PROVE  Results'
  <1>1. /\ dir' = dir /\ disk' = disk /\ op' = op /\ pc' = pc /\ w' = w /\ jm' = jm
        /\ outcome' = outcome
    BY DEF JavaSteps, JavaFaults, KeepExecutor, JavaUp, JavaDown, JavaCrash, JavaRewrites, OrphanEnds,
        filesVars
  <1>2. Committing' /\ Closing' /\ Returning'
    BY <1>1 DEF Results, Committing, Closing, Returning, Recovering
  <1>3. Verified'
    <2>1. CASE OrphanEnds
      BY <1>1, <2>1 DEF OrphanEnds, Verified
    <2>2. CASE UNCHANGED <<content, synced, rewritten>>
      BY <1>1, <2>2 DEF Results, Verified, Kept, Survives
    <2>3. CASE dir[CANONICAL] \in rewritten'
      BY <1>1, <2>3 DEF Results, Verified, Kept
    <2> QED  BY <2>1, <2>2, <2>3 DEF JavaSteps, JavaFaults, JavaUp, JavaDown, JavaCrash, JavaRewrites,
                 filesVars
  <1> QED  BY <1>2, <1>3 DEF Results

\* A step shows at most that a transaction is about to be pending.
LEMMA CommittingResults ==
    ASSUME pc' \in Committed \cup ResumeLabels \cup BeforeResults, w' # "sync",
           AboutToCommit' => dir'[CANONICAL] = jm'.stage_inode
    PROVE  Results'
  <1>1. pc' \notin EstablishedLabels \cup CleanupLabels \cup {"returned"}
    BY DEF Committed, ResumeLabels, BeforeResults, EstablishedLabels, CleanupLabels
  <1>2. Committing'
    BY DEF Committing, AboutToCommit, ResumeLabels
  <1>3. Verified' /\ Closing' /\ Returning'
    BY <1>1 DEF Verified, Closing, Returning, EstablishedLabels, CleanupLabels
  <1> QED  BY <1>2, <1>3 DEF Results

\* The commit, and the way from it to the pending transaction.
LEMMA CommitResults ==
    ASSUME Known, Results, Commit \/ VerifyCommit \/ Resume \/ AwaitUp
    PROVE  Results'
  <1>1. /\ w' # "sync" /\ pc' \in Committed \cup ResumeLabels \cup BeforeResults
        /\ op' = op /\ outcome' = outcome /\ w = "none" /\ Dirs
    BY DEF Commit, VerifyCommit, Resume, AwaitUp, At, Goto, _phase, Committed, ResumeLabels, Keep,
        OnlyControl, Known, Typed, FilesOK
  <1>2. CASE Commit /\ pc = "commit"
    <2>1. /\ replace(STAGE, CANONICAL) /\ jm' = jm /\ dir[STAGE] # dir[CANONICAL]
          /\ op = "install"
      BY <1>2 DEF Commit, At, Goto, Checks, status, LinkedOnce, Known, Control, InstallLabels
    <2>2. dir[STAGE] = jm.stage_inode
      BY <1>2, <2>1 DEF Known, AtPoint, Installing, Linked
    <2>3. STAGE \in Names /\ CANONICAL \in Names \ {STAGE}
      OBVIOUS
    <2>4. dir'[CANONICAL] = jm'.stage_inode
      BY <1>1, <2>1, <2>2, <2>3, ReplaceEffect
    <2> QED  BY <1>1, <2>4, CommittingResults
  <1>3. CASE ~(Commit /\ pc = "commit")
    <2>1. dir' = dir
      BY <1>3 DEF Commit, VerifyCommit, Resume, AwaitUp, At, OnlyControl, filesVars, sync_directory
    <2>2. \/ op = "install" /\ pc \in Committed
          \/ Recovering /\ pc \in ResumeLabels
      BY <1>3 DEF Commit, VerifyCommit, Resume, AwaitUp, At, Known, Control, InstallLabels,
          DecidedLabels, Committed, ResumeLabels
    <2>3. AboutToCommit' => AboutToCommit
      BY <1>1, <2>2 DEF AboutToCommit, Recovering, Committed, ResumeLabels
    <2>4. AboutToCommit => dir[CANONICAL] = jm.stage_inode
      BY DEF Results, Committing, AboutToCommit, ResumeLabels
    <2>5. jm'.stage_inode = jm.stage_inode
      <3>1. \/ jm' = jm
            \/ jm' = [jm EXCEPT !.phase = "committed"]
            \/ jm' = [jm EXCEPT !.phase = "canonical_verified"]
        BY DEF Commit, VerifyCommit, Resume, AwaitUp, Goto, _phase
      <3>2. jm \in Journals
        BY InMemory DEF Commit, VerifyCommit, Resume, AwaitUp, At, Known, Control
      <3> QED  BY <3>1, <3>2, SMT DEF Journals
    <2> QED  BY <1>1, <2>1, <2>3, <2>4, <2>5, CommittingResults
  <1> QED  BY <1>2, <1>3

\* recover's decision, and the return of the old keystore.
LEMMA DecideResults ==
    ASSUME Known, Decide \/ Restore
    PROVE  Results'
  <1>1. CASE Fail
    BY <1>1, FailInactive, InactiveResultsNext
  <1>2. CASE Decide /\ ~Fail
    <2>1. /\ pc' \in {"recover_resume", "restore"} /\ w' = "none" /\ jm' = jm /\ dir' = dir
          /\ outcome' = PENDING => dir[CANONICAL] = jm.stage_inode
          /\ op' = op /\ op # "install"
      BY <1>2 DEF Decide, At, Goto, IsIssued, PENDING, filesVars, Known, Control, Recovering
    <2>2. AboutToCommit' => dir'[CANONICAL] = jm'.stage_inode
      BY <2>1 DEF AboutToCommit
    <2> QED  BY <2>1, <2>2, CommittingResults DEF ResumeLabels, BeforeResults
  <1>3. CASE Restore
    <2>1. /\ pc' \in {"sync_restore", "restored", "recover_resume"} /\ w' = "none"
          /\ op' = op /\ op # "install" /\ outcome' = outcome /\ outcome = "recovered_old"
      BY <1>3 DEF Restore, At, Goto, Keep, Known, Control, DecidedLabels, Recovering, AtPoint,
          Deciding
    <2>2. ~AboutToCommit'
      BY <2>1 DEF AboutToCommit, PENDING
    <2> QED  BY <2>1, <2>2, CommittingResults DEF ResumeLabels, BeforeResults
  <1> QED  BY <1>1, <1>2, <1>3

\* The outcome is recorded: a pending transaction is about to be returned.
LEMMA ResumedResults ==
    ASSUME Known, Known', Results, Resumed
    PROVE  Results'
  <1>1. /\ pc = "resumed" /\ dir' = dir /\ op' = op /\ pc' \in {"returned", "remove_stage"}
        /\ w' = "create" /\ op # "verify"
    BY DEF Resumed, At, OnlyControl, Keep, filesVars, _phase, Known, Control, Recovering, AtPoint,
        Writing
  <1>2. jm # None /\ jm \in Journals
    BY <1>1, InMemory DEF Known, Control
  <1>3. CASE pc' = "remove_stage"
    BY <1>1, <1>3, BeforeInactive, InactiveResultsNext DEF BeforeResults
  <1>4. CASE pc' = "returned"
    <2>1. jm' = [jm EXCEPT !.phase = PENDING] /\ AboutToCommit
      BY <1>1, <1>4 DEF Resumed, _phase, AboutToCommit, Committed, ResumeLabels, Known, Control,
          Typed, ControlOK
    <2>2. jm' # None /\ jm'.phase = PENDING /\ jm'.stage_inode = jm.stage_inode
      <3>1. PENDING \in Phases
        BY DEF Phases
      <3>2. /\ [jm EXCEPT !.phase = PENDING].phase = PENDING
            /\ [jm EXCEPT !.phase = PENDING].stage_inode = jm.stage_inode
        BY <1>2, <3>1, Updates
      <3>3. jm' # None
        BY <1>1 DEF Known, Control
      <3> QED  BY <2>1, <3>2, <3>3
    <2>3. dir[CANONICAL] = jm.stage_inode
      BY <2>1 DEF Results, Committing, AboutToCommit, ResumeLabels
    <2>4. Returning'
      BY <1>1, <1>4, <2>2, <2>3 DEF Returning
    <2>5. Committing' /\ Verified' /\ Closing'
      BY <1>1, <1>4 DEF Committing, Verified, Closing, Committed
    <2> QED  BY <2>4, <2>5 DEF Results
  <1> QED  BY <1>1, <1>3, <1>4

\* The recheck: the canonical keystore is the issued one, durably.
LEMMA RecheckResults ==
    ASSUME Known, Known', Recheck
    PROVE  Results'
  <1>1. /\ pc = "recheck" /\ op = "verify" /\ op' = op /\ pc' = "establish"
        /\ w' \in {"create", "invalid"} /\ dir[CANONICAL] = jm.stage_inode /\ dir' = dir
        /\ jm' = [jm EXCEPT !.phase = "live_verified"]
    BY DEF Recheck, At, _phase, Checks, LiveVerifiedFiles, CanonicalIs, OnlyControl, Keep,
        filesVars, Known, Control
  <1>2. UNCHANGED <<content, synced, rewritten>>
    BY DEF Recheck, OnlyControl, KeepService, filesVars, serviceVars
  <1>3. jm # None /\ jm \in Journals /\ jm.phase = PENDING
    BY <1>1, InMemory DEF Known, Control, AtPoint, Deciding
  <1>4. /\ jm'.stage_inode = jm.stage_inode /\ jm'.issued = jm.issued
        /\ jm' # None
    <2>1. jm'.stage_inode = jm.stage_inode /\ jm'.issued = jm.issued
      BY <1>1, <1>3, SMT DEF Journals
    <2>2. jm' # None
      BY <1>1 DEF Known, Control
    <2> QED  BY <2>1, <2>2
  <1>5. Kept(jm.stage_inode, jm.issued)
    <2>1. jm.stage_inode # jm.old_inode /\ jm.phase # "live_verified"
      BY <1>3, InMemory DEF SoundJournal, CommitPhases, PENDING
    <2>2. Fits(dir, jm)
      BY <1>3, InMemory DEF Known, Typed, FilesOK, Dirs
    <2> QED  BY <1>1, <2>1, <2>2 DEF Fits
  <1>6. Verified'
    <2>1. Kept(jm.stage_inode, jm.issued)'
      BY <1>2, <1>4, <1>5, SMT DEF Kept, Survives
    <2> QED  BY <1>1, <1>4, <2>1 DEF Verified
  <1>7. Committing' /\ Closing' /\ Returning'
    BY <1>1 DEF Committing, Closing, Returning, Committed, Recovering
  <1> QED  BY <1>6, <1>7 DEF Results

\* A recovery begins; without a transaction it is over.
LEMMA BeginRecoveryResults ==
    ASSUME Known, BeginRecovery
    PROVE  Results'
  <1>1. op' \in {"recover", "startup"} /\ outcome' = "none" /\ w' = "none"
    BY DEF BeginRecovery, BeginRecover, BeginRecoverClean, Acquire, Known, Control
  <1>2. CASE pc' \in {"establish", "stop"}
    BY <1>1, <1>2, InactiveResultsNext DEF Inactive, AboutToCommit, PENDING, EstablishedLabels,
        CleanupLabels
  <1>3. CASE pc' = "returned"
    <2>1. disk' = {dir'} /\ dir'[JOURNAL] = None /\ dir'[JOURNAL_NEW] = None
      BY <1>3 DEF BeginRecovery, BeginRecover, BeginRecoverClean, NoTransaction, exists,
          sync_directory
    <2>2. Returning'
      BY <1>1, <2>1 DEF Returning
    <2>3. Committing' /\ Verified' /\ Closing'
      BY <1>1, <1>3 DEF Committing, Verified, Closing, PENDING
    <2> QED  BY <2>2, <2>3 DEF Results
  <1> QED  BY <1>2, <1>3 DEF BeginRecovery, BeginRecover, BeginRecoverClean

\* The journal is written: the pending one is then what is returned.
LEMMA WriteJournalResults ==
    ASSUME Known, Results, WriteJournal
    PROVE  Results'
  <1>1. /\ op' = op /\ pc' = pc /\ jm' = jm /\ outcome' = outcome /\ Dirs
        /\ w \in {"create", "rename", "sync"} /\ jm # None
        /\ content' = content /\ synced' = synced /\ rewritten' = rewritten
    BY DEF WriteJournal, Keep, KeepService, serviceVars, Known, Control, Typed, FilesOK
  <1>2. /\ dir'[CANONICAL] = dir[CANONICAL]
        /\ w' = "sync" => dir'[JOURNAL_NEW] = None
        /\ w' = "none" => /\ w = "sync" /\ dir' = dir /\ disk' = {dir'}
    <2>1. CASE w = "create"
      <3>1. Put(JOURNAL_NEW, jm) /\ w' = "rename"
        BY <2>1 DEF WriteJournal
      <3>2. Agree(dir, dir', {JOURNAL_NEW})
        BY <1>1, <3>1, PutEffect
      <3> QED  BY <3>1, <3>2, SMT DEF Agree
    <2>2. CASE w = "rename"
      <3>1. replace(JOURNAL_NEW, JOURNAL) /\ w' = "sync"
        BY <2>2 DEF WriteJournal
      <3>2. /\ JOURNAL_NEW \in Names /\ JOURNAL \in Names \ {JOURNAL_NEW}
            /\ JOURNAL_NEW \notin Keystores
        OBVIOUS
      <3>3. Agree(dir, dir', {JOURNAL_NEW, JOURNAL}) /\ dir'[JOURNAL_NEW] = None
        BY <1>1, <3>1, <3>2, ReplaceEffect
      <3> QED  BY <3>1, <3>3, SMT DEF Agree
    <2>3. CASE w = "sync"
      BY <2>3 DEF WriteJournal, sync_directory
    <2> QED  BY <1>1, <2>1, <2>2, <2>3
  <1>3. w' \in {"rename", "sync", "none"}
    BY DEF WriteJournal
  <1>4. Committing'
    BY <1>1, <1>2 DEF Results, Committing, Recovering
  <1>5. Verified'
    BY <1>1, <1>2 DEF Results, Verified, Kept, Survives
  <1>6. Closing'
    <2>1. pc \notin CleanupLabels
      BY <1>1 DEF Results, Closing, Known, AtPoint, Cleaning, CleanupLabels
    <2>2. w' = "none" => dir'[JOURNAL_NEW] = None
      BY <1>2 DEF Results, Closing
    <2> QED  BY <1>1, <1>2, <1>3, <2>1, <2>2 DEF Closing, CleanupLabels
  <1>7. Returning'
    <2>1. w' = "none" => dir[JOURNAL] = jm
      BY <1>2 DEF Known, AtPoint, Writing
    <2> QED  BY <1>1, <1>2, <2>1 DEF Results, Returning
  <1> QED  BY <1>4, <1>5, <1>6, <1>7 DEF Results

\* The cleanup changes neither the canonical keystore nor what is in it.
LEMMA CleanupCanonical ==
    ASSUME Known, Cleanup
    PROVE  dir'[CANONICAL] = dir[CANONICAL]
  <1>1. Dirs
    BY DEF Known, Typed, FilesOK
  <1>2. ASSUME NEW name \in {STAGE, ROLLBACK, JOURNAL, JOURNAL_NEW}, remove(name)
        PROVE  dir'[CANONICAL] = dir[CANONICAL]
    <2>1. Agree(dir, dir', {name})
      BY <1>1, <1>2, RemoveEffect
    <2> QED  BY <2>1, SMT DEF Agree
  <1> QED  BY <1>2 DEF Cleanup, sync_directory

\* The cleanup, step by step.
LEMMA CleanupResults ==
    ASSUME Known, Results, Cleanup
    PROVE  Results'
  <1>1. /\ op' = op /\ jm' = jm /\ w = "none" /\ w' = "none" /\ Dirs
        /\ content' = content /\ synced' = synced /\ rewritten' = rewritten
        /\ dir'[CANONICAL] = dir[CANONICAL]
        /\ pc' \in {"remove_rollback", "sync_cleanup", "remove_old_rollback", "remove_new",
                    "remove_journal", "sync_journal", "returned"}
    BY CleanupCanonical DEF Cleanup, Keep, KeepService, serviceVars, At, Goto, Known, Typed, FilesOK
  <1>2. Committing'
    BY <1>1 DEF Committing, Committed
  <1>3. Verified'
    <2>1. op = "verify" /\ pc' \in EstablishedLabels => pc \in EstablishedLabels
      BY DEF Cleanup, At, Goto, EstablishedLabels, Known, Control, DecidedLabels, Recovering
    <2> QED  BY <1>1, <2>1 DEF Results, Verified, Kept, Survives, EstablishedLabels
  <1>4. ASSUME NEW name \in {ROLLBACK, JOURNAL, JOURNAL_NEW}, remove(name)
        PROVE  /\ dir[JOURNAL_NEW] = None => dir'[JOURNAL_NEW] = None
               /\ name \in {JOURNAL, JOURNAL_NEW} => dir'[name] = None
    <2>1. dir'[name] = None /\ Agree(dir, dir', {name})
      BY <1>1, <1>4, RemoveEffect
    <2> QED  BY <2>1, SMT DEF Agree
  <1>5. Closing'
    <2>1. CASE pc' = "remove_rollback"
      <3>1. pc = "establish" /\ dir' = dir
        BY <2>1 DEF Cleanup, At, Goto, sync_directory
      <3> QED  BY <1>1, <2>1, <3>1 DEF Results, Closing
    <2>2. CASE pc' = "sync_cleanup"
      <3>1. dir'[JOURNAL_NEW] = None
        <4>1. CASE pc = "remove_rollback" /\ remove(ROLLBACK)
          <5>1. dir[JOURNAL_NEW] = None
            BY <1>1, <4>1 DEF Cleanup, At, Checks, LiveVerifiedFiles, exists, Results, Closing
          <5> QED  BY <1>4, <4>1, <5>1
        <4>2. CASE remove(JOURNAL_NEW)
          BY <1>4, <4>2
        <4> QED  BY <2>2, <4>1, <4>2 DEF Cleanup, At, Goto
      <3> QED  BY <1>1, <2>2, <3>1 DEF Closing
    <2>3. CASE pc' = "remove_journal"
      <3>1. pc = "sync_cleanup" /\ dir' = dir
        BY <2>3 DEF Cleanup, At, Goto, sync_directory
      <3> QED  BY <1>1, <2>3, <3>1 DEF Results, Closing
    <2>4. CASE pc' = "sync_journal"
      <3>1. pc = "remove_journal" /\ remove(JOURNAL)
        BY <2>4 DEF Cleanup, At, Goto
      <3>2. dir[JOURNAL_NEW] = None
        BY <3>1 DEF Results, Closing
      <3> QED  BY <1>1, <1>4, <3>1, <3>2 DEF Closing
    <2>5. CASE pc' \in {"remove_old_rollback", "remove_new", "returned"}
      BY <1>1, <2>5 DEF Closing
    <2> QED  BY <1>1, <2>1, <2>2, <2>3, <2>4, <2>5
  <1>6. Returning'
    <2>1. CASE pc' = "returned"
      <3>1. pc = "sync_journal" /\ dir' = dir /\ disk' = {dir}
        BY <2>1 DEF Cleanup, At, Goto, sync_directory
      <3>2. dir[JOURNAL] = None /\ dir[JOURNAL_NEW] = None
        BY <3>1 DEF Results, Closing
      <3> QED  BY <1>1, <3>1, <3>2 DEF Returning
    <2> QED  BY <2>1 DEF Returning
  <1> QED  BY <1>2, <1>3, <1>5, <1>6 DEF Results

\* Every step keeps what results rest on.
LEMMA ResultsNext ==
    ASSUME Known, Known', Results, Next
    PROVE  Results'
  <1>1. CASE Inactive'
    BY <1>1, InactiveResultsNext
  <1>2. CASE BeginInstall \/ BeginVerify \/ HelperDies \/ ContainerRestart \/ PowerLoss
             \/ CheckFails \/ Raise \/ Release \/ Stop
    BY <1>1, <1>2, InactiveSteps
  <1>3. CASE Quiesce \/ ImportChecks \/ CopyStage \/ Import \/ SyncStage \/ SyncCanonical
             \/ LinkRollback \/ Committable \/ Observe
    BY <1>1, <1>3, InactiveSteps
  <1>4. CASE JavaSteps \/ JavaFaults \/ OrphanEnds \/ BeginRecovery \/ WriteJournal
    BY <1>4, JavaResults, BeginRecoveryResults, WriteJournalResults
  <1>5. CASE Commit \/ VerifyCommit \/ Resume \/ AwaitUp \/ Resumed \/ Recheck \/ Cleanup
             \/ Decide \/ Restore
    BY <1>5, CommitResults, ResumedResults, RecheckResults, CleanupResults, DecideResults
  <1> QED  BY <1>2, <1>3, <1>4, <1>5 DEF Next, Step, Fault

-----------------------------------------------------------------------------
(* The inductive invariant.                                                *)

\* Nothing is reported, served or rewritten initially.
LEMMA ReportedInit == Init => Reported /\ Usable
  <1> SUFFICES ASSUME Init PROVE Reported /\ Usable
    OBVIOUS
  <1>1. /\ disk = {dir} /\ dir[JOURNAL] = None /\ dir[STAGE] = None /\ dir[ROLLBACK] = None
        /\ svc = "down" => serving = None
    BY SMT DEF Init
  <1>2. /\ jm = None /\ pc = "idle" /\ op = "none" /\ w = "none" /\ keytool = None
        /\ unsafe = {}
    BY DEF Init
  <1>3. Results
    BY <1>2, InactiveResults DEF Inactive, AboutToCommit, Recovering, CleanupLabels
  <1>4. Quieted /\ Presented
    BY <1>1, <1>2 DEF Quieted, Presented
  <1>5. Linking /\ Usable
    BY <1>1, <1>2 DEF Linking, Usable, LiveJournals, ReadableJournals
  <1> QED  BY <1>3, <1>4, <1>5 DEF Reported, Results

\* What is proved before holds after every step.
LEMMA KnownNext == Known /\ [Next]_vars => Known'
  BY TypedNext, ConsistentNext DEF Known

\* Every step keeps what is reported.
LEMMA ReportedNext ==
    ASSUME Known, Known', Reported, [Next]_vars
    PROVE  Reported' /\ (Usable => Usable')
  <1>1. CASE Next
    <2>1. Results'
      BY <1>1, ResultsNext DEF Reported, Results
    <2>2. Quieted' /\ Presented' /\ Linking' /\ (Usable => Usable')
      BY <1>1, QuietedNext, PresentedNext, LinkingNext DEF Reported
    <2> QED  BY <2>1, <2>2 DEF Reported, Results
  <1>2. CASE UNCHANGED vars
    <2>1. /\ op' = op /\ pc' = pc /\ w' = w /\ jm' = jm /\ outcome' = outcome
          /\ dir' = dir /\ disk' = disk /\ unsafe' = unsafe /\ keytool' = keytool
          /\ svc' = svc /\ serving' = serving /\ served' = served
      BY <1>2 DEF vars, filesVars, serviceVars
    <2>2. \A i, c : Kept(i, c)' <=> Kept(i, c)
      BY <1>2 DEF vars, filesVars, serviceVars, Kept, Survives
    <2>3. LiveJournals' = LiveJournals
      BY <2>1 DEF LiveJournals, ReadableJournals
    <2>4. Committing' /\ Verified' /\ Closing' /\ Returning'
      BY <2>1, <2>2 DEF Reported, Committing, Verified, Closing, Returning, Recovering
    <2>5. Quieted'
      BY <1>2 DEF vars, serviceVars, Reported, Quieted
    <2>6. Presented'
      BY <2>1 DEF Reported, Presented
    <2>7. Linking' /\ (Usable => Usable')
      BY <2>1, <2>3 DEF Reported, Linking, Usable
    <2> QED  BY <2>4, <2>5, <2>6, <2>7 DEF Reported
  <1> QED  BY <1>1, <1>2

\* The invariant and the types together, in every reachable state.
LEMMA KnownHolds == Spec => [](Known /\ Reported /\ Usable)
  <1>1. Init => Known /\ Reported /\ Usable
    BY TypedInit, ConsistentInit, ReportedInit DEF Known
  <1>2. Known /\ Reported /\ Usable /\ [Next]_vars => (Known /\ Reported /\ Usable)'
    BY KnownNext, ReportedNext
  <1> QED  BY <1>1, <1>2, PTL DEF Spec

-----------------------------------------------------------------------------
(* The theorems.                                                           *)

\* The inductive invariant holds in every reachable state: every journal that
\* recover() may ever read fits every directory a power loss may leave, and what
\* an operation is about to report it has seen and made durable.
THEOREM InductiveHolds == Spec => []Inductive
  <1>1. Known /\ Reported /\ Usable => Inductive
    BY DEF Known, Inductive, Consistent, OnDisk, AtPoint
  <1> QED  BY <1>1, KnownHolds, PTL

\* Every journal that fits every directory stands beside a keystore it names.
LEMMA ConsistentRecoverable == Consistent => Recoverable
  <1> SUFFICES ASSUME Consistent, NEW d \in disk, d[JOURNAL] # None
               PROVE  LET j == d[JOURNAL] IN
                      \/ /\ d[CANONICAL] = j.old_inode
                         /\ /\ j.rollback_expected /\ j.phase # "recovered_old"
                            /\ j.old_inode \notin rewritten
                            => Survives(j.old_inode, j.old)
                      \/ /\ d[CANONICAL] = j.stage_inode /\ j.commit_possible
                         /\ \/ j.phase = "live_verified"
                            \/ /\ d[ROLLBACK] = j.old_inode
                               /\ j.old_inode \notin rewritten
                                  => Survives(j.old_inode, j.old)
                               /\ j.stage_inode \notin rewritten
                                  => Survives(j.stage_inode, j.issued)
    BY DEF Recoverable
  <1>1. Fits(d, d[JOURNAL])
    BY SMT DEF Consistent, Paired, LiveJournals, ReadableJournals
  <1> QED  BY <1>1 DEF Fits, Kept

\* Without a journal there is nothing that needs one.
LEMMA ConsistentAttributed == Consistent => Attributed
  BY DEF Consistent, Clean, Bare, Installing, Attributed

\* Every journal that is written or read is a valid one.
LEMMA ConsistentAccepted == Consistent => JournalAccepted
  BY DEF Consistent, Writing, Paired, SoundJournal, LiveJournals, ReadableJournals,
      JournalAccepted

\* What an operation returns rests on what it has made durable.
LEMMA ReportedDurable ==
    ASSUME Known, Reported
    PROVE  ReturnsDurably
  <1> SUFFICES ASSUME pc = "returned", w = "none"
               PROVE  /\ disk = {dir}
                      /\ exists(JOURNAL) =>
                             /\ op # "verify" /\ dir[JOURNAL] = jm /\ jm.phase = PENDING
                             /\ dir[CANONICAL] = jm.stage_inode
                             /\ dir[ROLLBACK] = jm.old_inode
                      /\ ~exists(JOURNAL) => NoTransaction
                      /\ op = "verify" =>
                             /\ dir[CANONICAL] = jm.stage_inode
                             /\ jm.stage_inode \notin rewritten
                                => Survives(jm.stage_inode, jm.issued)
    BY DEF ReturnsDurably
  <1>1. Returning /\ Verified
    BY DEF Reported
  <1>2. op = "verify" => /\ dir[CANONICAL] = jm.stage_inode
                         /\ jm.stage_inode \notin rewritten => Survives(jm.stage_inode, jm.issued)
    BY <1>1 DEF Verified, Kept
  <1>3. CASE dir[JOURNAL] = None /\ dir[JOURNAL_NEW] = None /\ disk = {dir}
    <2>1. dir[STAGE] = None /\ dir[ROLLBACK] = None
      BY <1>3 DEF Known, OnDisk, Clean, Bare
    <2>2. NoTransaction /\ ~exists(JOURNAL)
      BY <1>3, <2>1 DEF NoTransaction, exists
    <2> QED  BY <1>2, <1>3, <2>2
  <1>4. CASE /\ op # "verify" /\ jm # None /\ jm.phase = PENDING
             /\ dir[CANONICAL] = jm.stage_inode /\ disk = {dir} /\ dir[JOURNAL] = jm
    <2>1. jm.stage_inode # jm.old_inode /\ Fits(dir, jm) /\ jm.phase # "live_verified"
      BY <1>4, InMemory DEF SoundJournal, CommitPhases, PENDING
    <2>2. dir[ROLLBACK] = jm.old_inode
      BY <1>4, <2>1 DEF Fits
    <2> QED  BY <1>4, <2>2 DEF exists
  <1> QED  BY <1>1, <1>3, <1>4 DEF Returning

\* Wherever a power loss, a death or a restart strikes, the journal it leaves
\* stands beside the old keystore, or beside the issued one and its rollback.
THEOREM AlwaysRecoverable == Spec => []Recoverable
  BY ConsistentRecoverable, InductiveHolds, PTL DEF Inductive

\* No stage, rollback or stopped UniFi is ever left without a journal.
THEOREM AlwaysAttributed == Spec => []Attributed
  BY ConsistentAttributed, InductiveHolds, PTL DEF Inductive

\* _validate_journal refuses no journal that the executor writes or recovers.
THEOREM JournalsAccepted == Spec => []JournalAccepted
  BY ConsistentAccepted, InductiveHolds, PTL DEF Inductive

\* What an operation returns is durable: a pending transaction with its rollback,
\* or no transaction; a verification has made the issued keystore the canonical one.
THEOREM ResultsAreDurable == Spec => []ReturnsDurably
  BY ReportedDurable, KnownHolds, PTL

\* Which steps change the directory that processes see.
LEMMA DirectoryMoves ==
    ASSUME Next, dir' # dir
    PROVE  \/ WriteJournal \/ CopyStage \/ LinkRollback \/ Commit \/ Cleanup \/ Restore
           \/ PowerLoss
  <1>1. ~(CheckFails \/ Release \/ Stop \/ Quiesce \/ ImportChecks \/ Import \/ SyncStage
          \/ SyncCanonical \/ Committable \/ VerifyCommit \/ Resume \/ AwaitUp \/ Resumed
          \/ Observe \/ Recheck \/ Decide)
    BY DEF CheckFails, Release, Stop, Quiesce, ImportChecks, Import, SyncStage, SyncCanonical,
       Committable, VerifyCommit, Resume, AwaitUp, Resumed, Observe, Recheck, Decide, OnlyControl,
       filesVars
  <1>2. ~(BeginInstall \/ BeginVerify \/ BeginRecovery \/ OrphanEnds \/ JavaSteps \/ JavaFaults
          \/ Raise \/ HelperDies \/ ContainerRestart)
    BY DEF BeginInstall, BeginVerify, BeginRecovery, BeginRecover, BeginRecoverClean,
       sync_directory, OrphanEnds, JavaSteps, JavaFaults, JavaUp, JavaDown, JavaCrash, JavaRewrites,
       Raise, HelperDies, ContainerRestart, filesVars
  <1> QED  BY <1>1, <1>2 DEF Next, Step, Fault

\* Neither a journal that is written nor a stage that is made changes the name of
\* another keystore.
LEMMA OtherKeystores ==
    ASSUME Known, WriteJournal \/ CopyStage
    PROVE  dir'[CANONICAL] = dir[CANONICAL] /\ dir'[ROLLBACK] = dir[ROLLBACK]
  <1>1. Dirs
    BY DEF Known, Typed, FilesOK
  <1>2. ASSUME NEW name \in {STAGE, JOURNAL_NEW}, NEW v, Put(name, v)
        PROVE  dir'[CANONICAL] = dir[CANONICAL] /\ dir'[ROLLBACK] = dir[ROLLBACK]
    <2>1. Agree(dir, dir', {name})
      BY <1>1, <1>2, PutEffect
    <2> QED  BY <2>1, SMT DEF Agree
  <1>3. ASSUME replace(JOURNAL_NEW, JOURNAL)
        PROVE  dir'[CANONICAL] = dir[CANONICAL] /\ dir'[ROLLBACK] = dir[ROLLBACK]
    <2>1. /\ JOURNAL_NEW \in Names /\ JOURNAL \in Names \ {JOURNAL_NEW}
          /\ JOURNAL_NEW \notin Keystores
      OBVIOUS
    <2>2. Agree(dir, dir', {JOURNAL_NEW, JOURNAL})
      BY <1>1, <1>3, <2>1, ReplaceEffect
    <2> QED  BY <2>2, SMT DEF Agree
  <1> QED  BY <1>2, <1>3 DEF WriteJournal, CopyStage, CreateStage, ChownStage, copy_stage,
               sync_directory

\* Which steps move the canonical name.
LEMMA CanonicalMoves ==
    ASSUME Known, Next, dir'[CANONICAL] # dir[CANONICAL]
    PROVE  \/ Commit /\ pc = "commit"
           \/ Restore /\ pc = "restore"
           \/ PowerLoss
  <1>1. dir' # dir
    OBVIOUS
  <1>2. ~LinkRollback
    <2> SUFFICES ASSUME LinkRollback PROVE FALSE
      OBVIOUS
    <2>1. Put(ROLLBACK, dir[CANONICAL]) /\ Dirs
      BY <1>1 DEF LinkRollback, link_rollback, sync_directory, Known, Typed, FilesOK
    <2>2. Agree(dir, dir', {ROLLBACK})
      BY <2>1, PutEffect
    <2> QED  BY <2>2, SMT DEF Agree
  <1>3. (Commit => pc = "commit") /\ (Restore => pc = "restore")
    BY <1>1 DEF Commit, Restore, At, sync_directory
  <1> QED  BY <1>1, <1>2, <1>3, DirectoryMoves, OtherKeystores, CleanupCanonical

\* The rename that commits discards no change of Java's, and no Java runs across it.
THEOREM UpdatesAreKept == Spec => NoLostUpdate
  <1> DEFINE Kind == op = "install" /\ booted' /\ dir'[CANONICAL] # dir[CANONICAL] =>
                         svc = "down" /\ dir[CANONICAL] \notin rewritten
  <1>1. Known /\ Reported /\ [Next]_vars => [Kind]_vars
    <2> SUFFICES ASSUME Known, Reported, Next, op = "install", booted',
                        dir'[CANONICAL] # dir[CANONICAL]
                 PROVE  svc = "down" /\ dir[CANONICAL] \notin rewritten
      OBVIOUS
    <2>1. ~PowerLoss
      BY DEF PowerLoss, ContainerStops
    <2>2. ~(Restore /\ pc = "restore")
      BY DEF Known, Control, DecidedLabels, Recovering
    <2>3. pc = "commit"
      BY <2>1, <2>2, CanonicalMoves
    <2> QED  BY <2>3 DEF Reported, Quieted, Linked
  <1> QED  BY <1>1, KnownHolds, PTL DEF Spec, NoLostUpdate

\* Writing one inode changes no other.
LEMMA StoreElsewhere ==
    ASSUME Known, NEW i, NEW value, Store(i, value), i # dir[CANONICAL]
    PROVE  content'[dir[CANONICAL]] = content[dir[CANONICAL]]
  <1>1. dir[CANONICAL] \in Inodes /\ content \in [Inodes -> Certs \cup {Junk}]
    BY DEF Known, Typed, FilesOK, Dirs, Directories
  <1> QED  BY <1>1, SMT DEF Store

\* While Java is down nothing writes into the canonical keystore.
THEOREM CanonicalStaysWhole == Spec => CanonicalUntouched
  <1> DEFINE Kind == LET i == dir[CANONICAL] IN
                     svc = "down" /\ content'[i] # content[i] => i \notin synced /\ ~booted'
  <1>1. Known /\ Reported /\ [Next]_vars => [Kind]_vars
    <2> SUFFICES ASSUME Known, Reported, Next, svc = "down",
                        content'[dir[CANONICAL]] # content[dir[CANONICAL]]
                 PROVE  dir[CANONICAL] \notin synced /\ ~booted'
      OBVIOUS
    <2>1. content' # content /\ Linking
      BY DEF Reported
    <2>2. PowerLoss
      <3>1. ~(WriteJournal \/ CheckFails \/ Release \/ Stop \/ Quiesce \/ ImportChecks \/ SyncStage
              \/ SyncCanonical \/ LinkRollback \/ Committable \/ Commit \/ VerifyCommit)
        BY <2>1 DEF WriteJournal, CheckFails, Release, Stop, Quiesce, ImportChecks, SyncStage,
            SyncCanonical, LinkRollback, Committable, Commit, VerifyCommit, OnlyControl, filesVars
      <3>2. ~(Resume \/ AwaitUp \/ Resumed \/ Observe \/ Recheck \/ Cleanup \/ Decide \/ Restore)
        BY <2>1 DEF Resume, AwaitUp, Resumed, Observe, Recheck, Cleanup, Decide, Restore,
            OnlyControl, filesVars
      <3>3. ~(BeginInstall \/ BeginVerify \/ BeginRecovery \/ Raise \/ HelperDies
              \/ ContainerRestart)
        BY <2>1 DEF BeginInstall, BeginVerify, BeginRecovery, BeginRecover, BeginRecoverClean,
            Raise, HelperDies, ContainerRestart, filesVars
      <3>4. ~(JavaSteps \/ JavaFaults)
        BY <2>1 DEF JavaSteps, JavaFaults, JavaUp, JavaDown, JavaCrash, JavaRewrites, filesVars
      <3>5. ASSUME NEW i, NEW value, Store(i, value)
            PROVE  i = dir[CANONICAL]
        BY <3>5, StoreElsewhere
      <3>6. Dirs
        BY DEF Known, Typed, FilesOK
      <3>7. ~OrphanEnds
        <4>1. keytool # None => keytool # dir[CANONICAL]
          BY <2>1, <3>6 DEF Linking, Dirs
        <4> QED  BY <3>5, <4>1 DEF OrphanEnds
      <3>8. dir[STAGE] # None => dir[STAGE] # dir[CANONICAL]
        BY <2>1, <3>6 DEF Linking, Dirs
      <3>9. ~Import
        <4> SUFFICES ASSUME Import PROVE FALSE
          OBVIOUS
        <4>1. pc \in {"import", "importing"} /\ \E value : Store(dir[STAGE], value)
          BY DEF Import, At
        <4>2. dir[STAGE] # None
          BY <4>1 DEF Known, Control, InstallLabels, AtPoint, Installing, Staged
        <4> QED  BY <3>5, <3>8, <4>1, <4>2
      <3>10. ~CopyStage
        <4> SUFFICES ASSUME CopyStage PROVE FALSE
          OBVIOUS
        <4>1. CASE At("create_stage")
          <5>1. PICK i \in Inodes : Free(i) /\ Store(i, Junk)
            BY <2>1, <4>1 DEF CopyStage, CreateStage, At
          <5>2. i # dir[CANONICAL]
            BY <3>6, <5>1 DEF Free, Dirs
          <5> QED  BY <3>5, <5>1, <5>2
        <4>2. CASE At("copy_stage")
          <5>1. Store(dir[STAGE], collect(CANONICAL)) /\ dir[STAGE] # None
            BY <4>2 DEF CopyStage, copy_stage, At, Checks, status, exists
          <5> QED  BY <3>5, <3>8, <5>1
        <4> QED  BY <2>1, <4>1, <4>2 DEF CopyStage, ChownStage
      <3> QED  BY <3>1, <3>2, <3>3, <3>4, <3>7, <3>9, <3>10 DEF Next, Step, Fault
    <2>3. ~booted'
      BY <2>2 DEF PowerLoss, ContainerStops
    <2>4. dir[CANONICAL] \in Inodes
      BY DEF Known, Typed, FilesOK, Dirs, Directories
    <2>5. dir[CANONICAL] \notin synced
      BY <2>2, <2>4, SMT DEF PowerLoss, LosePower
    <2> QED  BY <2>3, <2>5
  <1> QED  BY <1>1, KnownHolds, PTL DEF Spec, CanonicalUntouched

\* Which steps take the rollback away.
LEMMA RollbackMoves ==
    ASSUME Known, Reported, Next, dir[ROLLBACK] # None, dir'[ROLLBACK] # dir[ROLLBACK]
    PROVE  \/ Cleanup /\ pc \in {"remove_rollback", "remove_old_rollback"}
           \/ Restore /\ pc = "restore"
           \/ PowerLoss
  <1>1. Dirs
    BY DEF Known, Typed, FilesOK
  <1>2. dir' # dir
    OBVIOUS
  <1>3. ~Commit
    <2> SUFFICES ASSUME Commit PROVE FALSE
      OBVIOUS
    <2>1. replace(STAGE, CANONICAL) /\ dir[STAGE] # dir[CANONICAL]
      BY <1>2 DEF Commit, At, Checks, status, LinkedOnce, sync_directory
    <2>2. STAGE \in Names /\ CANONICAL \in Names \ {STAGE}
      OBVIOUS
    <2>3. Agree(dir, dir', {STAGE, CANONICAL})
      BY <1>1, <2>1, <2>2, ReplaceEffect
    <2> QED  BY <2>3, SMT DEF Agree
  <1>4. ~LinkRollback
    <2> SUFFICES ASSUME LinkRollback PROVE FALSE
      OBVIOUS
    <2>1. op = "install" /\ pc = "link"
      BY <1>2 DEF LinkRollback, At, sync_directory, Known, Control, InstallLabels
    <2> QED  BY <1>1, <2>1 DEF Reported, Linking, Unlinked, Dirs
  <1>5. Restore => pc = "restore"
    BY <1>2 DEF Restore, At, sync_directory
  <1>6. Cleanup => pc \in {"remove_rollback", "remove_old_rollback"}
    <2> SUFFICES ASSUME Cleanup, pc \notin {"remove_rollback", "remove_old_rollback"} PROVE FALSE
      OBVIOUS
    <2>1. PICK name \in {STAGE, JOURNAL, JOURNAL_NEW} : remove(name)
      BY <1>2 DEF Cleanup, At, sync_directory
    <2>2. Agree(dir, dir', {name})
      BY <1>1, <2>1, RemoveEffect
    <2> QED  BY <2>2, SMT DEF Agree
  <1> QED  BY <1>2, <1>3, <1>4, <1>5, <1>6, DirectoryMoves, OtherKeystores

\* The last link to the old keystore disappears only after Java has presented the
\* certificate that replaces it.
THEOREM RollbackIsKept == Spec => RollbackGivenUp
  <1> DEFINE Kind == LET i == dir[ROLLBACK] IN
                     i # None /\ dir'[ROLLBACK] # i /\ dir'[CANONICAL] # i =>
                         dir[JOURNAL].issued \in served
  <1>1. Known /\ Reported /\ [Next]_vars => [Kind]_vars
    <2> SUFFICES ASSUME Known, Reported, Next, dir[ROLLBACK] # None,
                        dir'[ROLLBACK] # dir[ROLLBACK], dir'[CANONICAL] # dir[ROLLBACK]
                 PROVE  dir[JOURNAL].issued \in served
      OBVIOUS
    <2>1. Dirs /\ Linking /\ Presented
      BY DEF Known, Typed, FilesOK, Reported
    <2>2. /\ dir[JOURNAL] # None /\ dir[JOURNAL] \in LiveJournals
          /\ dir[ROLLBACK] = dir[JOURNAL].old_inode
      <3>1. dir[JOURNAL] # None
        BY <2>1 DEF Known, OnDisk, Clean, Bare, Dirs
      <3>2. dir[JOURNAL] \in LiveJournals
        BY <2>1, <3>1 DEF LiveJournals, ReadableJournals, Dirs
      <3> QED  BY <2>1, <3>1, <3>2 DEF Linking, Dirs
    <2>3. SUFFICES dir[JOURNAL].phase = "live_verified"
      BY <2>1, <2>2 DEF Presented, Dirs
    <2>4. CASE Cleanup /\ pc = "remove_rollback"
      <3>1. jm.phase = "live_verified" /\ dir[JOURNAL] = jm
        BY <2>4 DEF Cleanup, At, Known, AtPoint, Cleaning, Writing
      <3> QED  BY <3>1
    <2>5. CASE Cleanup /\ pc = "remove_old_rollback"
      <3>1. dir[CANONICAL] = jm.old_inode /\ dir[JOURNAL] = jm
        BY <2>5 DEF Cleanup, At, Known, AtPoint, Cleaning, Writing
      <3>2. dir'[CANONICAL] = dir[CANONICAL]
        BY <2>5, CleanupCanonical
      <3> QED  BY <2>2, <3>1, <3>2
    <2>6. CASE Restore /\ pc = "restore"
      <3>1. replace(ROLLBACK, CANONICAL)
        BY <2>6 DEF Restore, At
      <3>2. dir[ROLLBACK] # dir[CANONICAL]
        BY <3>1 DEF replace
      <3>3. ROLLBACK \in Names /\ CANONICAL \in Names \ {ROLLBACK}
        OBVIOUS
      <3> QED  BY <2>1, <3>1, <3>2, <3>3, ReplaceEffect
    <2>7. CASE PowerLoss
      <3>1. dir' \in disk
        BY <2>7 DEF PowerLoss, LosePower
      <3>2. Fits(dir', dir[JOURNAL])
        BY <2>2, <3>1 DEF Known, OnDisk, Paired
      <3> QED  BY <2>2, <3>2 DEF Fits
    <2> QED  BY <2>4, <2>5, <2>6, <2>7, RollbackMoves
  <1> QED  BY <1>1, KnownHolds, PTL DEF Spec, RollbackGivenUp

-----------------------------------------------------------------------------
(* UnifiExecutor implements KeystoreTransaction: each lemma about a kind  *)
(* of step shows that it keeps Recorded, and that it is a step of the      *)
(* transaction or leaves it alone.                                         *)

\* A step of the transaction, or none.
Implements == [Transaction!Next]_Transaction!vars

-----------------------------------------------------------------------------
(* The transaction a journal stands for.                                   *)

\* The four states and the phases they stand for.
LEMMA States ==
    ASSUME NEW j
    PROVE  /\ StateOf(j) \in TransactionStates
           /\ StateOf(j) = "pending" <=> j.phase = PENDING
           /\ StateOf(j) = "verified" <=> j.phase = "live_verified"
           /\ StateOf(j) = "undone" <=> j.phase = "recovered_old"
  BY DEF StateOf, PENDING, TransactionStates

\* The issued keystore of a journal's transaction.
New(j) == IF j.commit_possible THEN j.stage_inode ELSE None

\* The fields of the transaction of a journal.
LEMMA Fields ==
    ASSUME NEW j \in Journals, SoundJournal(j)
    PROVE  /\ TransactionOf(j) # None /\ TransactionOf(j) \in Transactions
           /\ TransactionOf(j) =
                [old |-> j.old_inode, new |-> New(j), state |-> StateOf(j)]
           /\ TransactionOf(j).old = j.old_inode
           /\ TransactionOf(j).new = New(j)
           /\ TransactionOf(j).state = StateOf(j)
           /\ j.commit_possible <=> New(j) # None
           /\ j.old_inode \in Inodes /\ New(j) \in Inodes \cup {None}
           /\ New(j) # j.old_inode
  <1>1. j # None
    BY NullJournal
  <1>2. TransactionOf(j) = [old |-> j.old_inode, new |-> New(j), state |-> StateOf(j)]
    BY <1>1 DEF TransactionOf, New
  <1>3. /\ j.old_inode \in Inodes /\ New(j) \in Inodes \cup {None}
        /\ j.commit_possible <=> New(j) # None
        /\ New(j) # j.old_inode
    BY ModelValues DEF Journals, New, SoundJournal, ValidJournal
  <1>4. TransactionOf(j) \in Transactions
    BY <1>2, <1>3, States, SMT DEF Transactions
  <1>5. TransactionOf(j) # None
    BY <1>4, NullTransaction
  <1> QED  BY <1>2, <1>3, <1>4, <1>5, SMT

-----------------------------------------------------------------------------
(* Steps of the transaction.                                               *)

\* The journal and the canonical keystore stay as they are.
LEMMA Quiet ==
    ASSUME dir'[CANONICAL] = dir[CANONICAL], dir'[JOURNAL] = dir[JOURNAL],
           faults' = faults \/ Faulty
    PROVE  Implements
  BY DEF Implements, Faulty, Transaction!Next, Transaction!vars, Transaction!Fault

\* The first journal of a transaction.
LEMMA BeginImplements ==
    ASSUME NEW j \in Journals, SoundJournal(j), Follows(None, j),
           dir[JOURNAL] = None, dir'[JOURNAL] = j, dir'[CANONICAL] = dir[CANONICAL],
           faults' = faults
    PROVE  Implements
  <1>1. New(j) = None /\ StateOf(j) = "open"
    BY States DEF New, Follows, PENDING, TransactionStates
  <1>2. j.old_inode = dir[CANONICAL]
    BY DEF Follows
  <1>3. /\ TransactionOf(dir[JOURNAL]) = None
        /\ TransactionOf(dir'[JOURNAL]) =
              [old |-> dir[CANONICAL], new |-> None, state |-> "open"]
    BY <1>1, <1>2, Fields DEF TransactionOf
  <1> QED  BY <1>3 DEF Implements, Transaction!Next, Transaction!Begin

\* A later journal of a transaction: an offer, a record of its state, or nothing
\* that the transaction knows of.
LEMMA RecordImplements ==
    ASSUME NEW k \in Journals, SoundJournal(k), NEW j \in Journals, SoundJournal(j),
           Follows(k, j), dir[JOURNAL] = k, dir'[JOURNAL] = j,
           dir'[CANONICAL] = dir[CANONICAL], faults' = faults
    PROVE  Implements
  <1> DEFINE t == TransactionOf(k)
             u == TransactionOf(j)
  <1>1. /\ t # None /\ t.old = k.old_inode /\ t.new = New(k) /\ t.state = StateOf(k)
        /\ t = [old |-> k.old_inode, new |-> New(k), state |-> StateOf(k)]
        /\ u = [old |-> j.old_inode, new |-> New(j), state |-> StateOf(j)]
        /\ StateOf(j) \in TransactionStates /\ New(j) \in Inodes \cup {None}
        /\ New(j) # j.old_inode
    BY Fields, States
  <1>2. j.old_inode = k.old_inode /\ k # None
    BY NullJournal DEF Follows
  <1>3. CASE ~k.commit_possible /\ j.commit_possible
    <2>1. /\ New(k) = None /\ New(j) \in Inodes
          /\ StateOf(k) = "open" /\ StateOf(j) = "open"
          /\ dir[CANONICAL] = j.old_inode
      BY <1>1, <1>2, <1>3, Fields DEF New, Follows
    <2>2. u = [t EXCEPT !.new = New(j)]
      BY <1>1, <1>2, <2>1, SMT
    <2>3. Transaction!Offer(New(j))
      BY <1>1, <1>2, <2>1, <2>2 DEF Transaction!Offer
    <2> QED  BY <2>1, <2>3 DEF Implements, Transaction!Next
  <1>4. CASE k.commit_possible \/ ~j.commit_possible
    <2>1. New(j) = New(k)
      BY <1>2, <1>4 DEF New, Follows
    <2>2. u = [t EXCEPT !.state = StateOf(j)]
      BY <1>1, <1>2, <2>1, SMT
    <2>3. t.state # "verified"
      BY <1>1, <1>2, States DEF Follows
    <2>4. /\ StateOf(j) = "pending" => dir[CANONICAL] = t.new
          /\ StateOf(j) = "verified" => dir[CANONICAL] = t.new /\ t.state = "pending"
          /\ StateOf(j) = "undone" => dir[CANONICAL] = t.old
      BY <1>1, <1>2, <2>1, States DEF Follows, SoundJournal, ValidJournal, CommitPhases, New
    <2>5. Transaction!Record(StateOf(j))
      BY <1>1, <2>2, <2>3, <2>4 DEF Transaction!Record
    <2> QED  BY <1>1, <2>5 DEF Implements, Transaction!Next, Transaction!States,
             TransactionStates
  <1> QED  BY <1>3, <1>4

\* The rename of the stage, and that of the rollback.
LEMMA RenameImplements ==
    ASSUME NEW k \in Journals, SoundJournal(k), k.commit_possible,
           dir[JOURNAL] = k, dir'[JOURNAL] = k, faults' = faults,
           \/ /\ dir[CANONICAL] = k.old_inode /\ dir'[CANONICAL] = k.stage_inode
              /\ StateOf(k) = "open"
           \/ /\ dir[CANONICAL] = k.stage_inode /\ dir'[CANONICAL] = k.old_inode
              /\ k.phase # "live_verified"
    PROVE  Implements
  <1>1. /\ TransactionOf(k) # None /\ TransactionOf(k).old = k.old_inode
        /\ TransactionOf(k).new = k.stage_inode /\ TransactionOf(k).new # None
        /\ TransactionOf(k).state = StateOf(k)
    BY Fields DEF New
  <1>2. StateOf(k) = "verified" <=> k.phase = "live_verified"
    BY States
  <1> QED  BY <1>1, <1>2 DEF Implements, Transaction!Next, Transaction!Commit,
             Transaction!Restore

\* The unlink of the journal.
LEMMA EndImplements ==
    ASSUME NEW k \in Journals, SoundJournal(k), Settled(dir, k),
           dir[JOURNAL] = k, dir'[JOURNAL] = None, dir'[CANONICAL] = dir[CANONICAL],
           faults' = faults
    PROVE  Implements
  <1>1. /\ TransactionOf(k) # None /\ TransactionOf(k).old = k.old_inode
        /\ TransactionOf(k).new = New(k)
        /\ k.commit_possible <=> New(k) # None
        /\ TransactionOf(k).state = StateOf(k) /\ TransactionOf(None) = None
    BY Fields DEF TransactionOf
  <1>2. /\ StateOf(k) = "verified" <=> k.phase = "live_verified"
        /\ StateOf(k) = "undone" <=> k.phase = "recovered_old"
    BY States
  <1>3. Transaction!Settled(TransactionOf(k), dir[CANONICAL])
    BY <1>1, <1>2 DEF Settled, Transaction!Settled, New
  <1> QED  BY <1>1, <1>3 DEF Implements, Transaction!Next, Transaction!End

\* A journal that fits a directory knows its canonical keystore.
LEMMA FitsPossible ==
    ASSUME NEW j \in Journals, SoundJournal(j), NEW d, Fits(d, j)
    PROVE  d[CANONICAL] \in Transaction!Possible(TransactionOf(j))
  BY Fields DEF Fits, Transaction!Possible, New

\* A power loss brings back a directory of the disk.
LEMMA PowerLossImplements ==
    ASSUME Known, Recorded, PowerLoss
    PROVE  Implements
  <1> DEFINE k == dir[JOURNAL]
             j == dir'[JOURNAL]
             t == TransactionOf(k)
             u == TransactionOf(j)
             v == dir'[CANONICAL]
  <1>1. dir \in disk /\ dir' \in disk /\ Faulty /\ disk \subseteq Directories
    BY DEF PowerLoss, LosePower, ContainerStops, Known, Typed, FilesOK, Dirs
  <1>2. k \in Journals \cup {None} /\ j \in Journals \cup {None}
    BY <1>1, DirectoryValues
  <1>3. \A i \in {k, j} \ {None} : i \in Journals /\ SoundJournal(i) /\ Fits(dir', i)
    BY <1>1, <1>2 DEF Known, OnDisk, Paired, LiveJournals, ReadableJournals
  <1>4. TransactionOf(None) = None
    BY DEF TransactionOf
  <1>5. Transaction!Fault
    BY <1>1 DEF Faulty, Transaction!Fault
  <1>6. j # None =>
            /\ u \in Transactions /\ v \in Transaction!Possible(u)
            /\ u \in [old : Inodes, new : Inodes \cup {None}, state : Transaction!States]
            /\ u # None /\ u.old = j.old_inode /\ u.new = New(j) /\ u.state = StateOf(j)
            /\ Settled(dir', j) => Transaction!Settled(u, v)
    <2> SUFFICES ASSUME j # None
                 PROVE  /\ u \in Transactions /\ v \in Transaction!Possible(u)
                        /\ u \in [old : Inodes, new : Inodes \cup {None},
                                 state : Transaction!States]
                        /\ u # None /\ u.old = j.old_inode /\ u.new = New(j)
                        /\ u.state = StateOf(j)
                        /\ Settled(dir', j) => Transaction!Settled(u, v)
      OBVIOUS
    <2>1. j \in Journals /\ SoundJournal(j) /\ Fits(dir', j)
      BY <1>3
    <2>2. /\ u \in Transactions /\ v \in Transaction!Possible(u)
          /\ u # None /\ u.old = j.old_inode /\ u.new = New(j) /\ u.state = StateOf(j)
          /\ j.commit_possible <=> New(j) # None
      BY <2>1, Fields, FitsPossible
    <2>3. Settled(dir', j) => Transaction!Settled(u, v)
      BY <2>2, States DEF Settled, Transaction!Settled, New
    <2>4. u \in [old : Inodes, new : Inodes \cup {None}, state : Transaction!States]
      BY <2>2 DEF Transactions, TransactionStates, Transaction!States
    <2> QED  BY <2>2, <2>3, <2>4
  <1>7. CASE k = None
    <2>1. v = dir[CANONICAL] /\ (j # None => Settled(dir', j))
      BY <1>1, <1>7 DEF Known, OnDisk, Clean
    <2>2. Transaction!PowerLoss
      BY <1>4, <1>5, <1>6, <1>7, <2>1
         DEF Transaction!PowerLoss
    <2> QED  BY <2>2 DEF Implements, Transaction!Next
  <1>8. CASE k # None
    <2>1. k \in Journals /\ SoundJournal(k) /\ Fits(dir', k) /\ Precedes(dir', k)
      BY <1>1, <1>3, <1>8 DEF Recorded, Preceding
    <2>2. /\ t # None /\ t.old = k.old_inode /\ t.new = New(k) /\ t.state = StateOf(k)
          /\ v \in Transaction!Possible(t)
          /\ k.commit_possible <=> New(k) # None
      BY <2>1, Fields, FitsPossible
    <2>3. CASE k.commit_possible
      <3>1. j # None /\ (j.commit_possible => j.stage_inode = k.stage_inode)
        BY <2>1, <2>3 DEF Precedes
      <3>2. k.rollback_expected /\ j \in ReadableJournals /\ k # None
        BY <1>1, <1>8, <2>1, <2>3, <3>1 DEF SoundJournal, ValidJournal, ReadableJournals
      <3>3. /\ j.old_inode = k.old_inode
            /\ j.phase = "live_verified" => k.phase = "live_verified"
        BY <3>2 DEF Known, OnDisk, OneTransaction, LiveJournals, SameTransaction
      <3>4. /\ u.old = t.old /\ u.new \in {t.new, None}
            /\ u.state = "verified" => t.state = "verified"
        BY <1>6, <2>2, <2>3, <3>1, <3>3, States DEF New
      <3>5. Transaction!PowerLoss
        BY <1>5, <1>6, <2>2, <3>1, <3>4
           DEF Transaction!PowerLoss
      <3> QED  BY <3>5 DEF Implements, Transaction!Next
    <2>4. CASE ~k.commit_possible
      <3>1. t.new = None
        BY <2>2, <2>4
      <3>2. CASE j = None
        <4>1. Transaction!PowerLoss
          BY <1>4, <1>5, <2>2, <3>1, <3>2 DEF Transaction!PowerLoss
        <4> QED  BY <4>1 DEF Implements, Transaction!Next
      <3>3. CASE j # None /\ Settled(dir', j)
        <4>1. Transaction!PowerLoss
          BY <1>5, <1>6, <2>2, <3>1, <3>3 DEF Transaction!PowerLoss
        <4> QED  BY <4>1 DEF Implements, Transaction!Next
      <3>4. CASE j # None /\ j.old_inode = k.old_inode /\ ~j.commit_possible
        <4>1. j.phase # "live_verified"
          BY <1>3, <3>4 DEF SoundJournal, ValidJournal
        <4>2. u.old = t.old /\ u.new = None /\ u.state # "verified"
          BY <1>6, <2>2, <3>4, <4>1, States DEF New
        <4>3. Transaction!PowerLoss
          BY <1>5, <1>6, <2>2, <3>1, <3>4, <4>2
             DEF Transaction!PowerLoss
        <4> QED  BY <4>3 DEF Implements, Transaction!Next
      <3> QED  BY <2>1, <2>4, <3>2, <3>3, <3>4 DEF Precedes
    <2> QED  BY <2>3, <2>4
  <1> QED  BY <1>7, <1>8

-----------------------------------------------------------------------------
(* What steps keep of Recorded.                                            *)

\* Directories d and e hold the same canonical keystore and journal.
SameRecord(d, e) == e[CANONICAL] = d[CANONICAL] /\ e[JOURNAL] = d[JOURNAL]

SameRecords ==
    SameRecord(dir, dir') /\ \A e \in disk' : \E d \in disk : SameRecord(d, e)

\* Whether a journal may come back depends on the two names only.
LEMMA PrecedesByName ==
    ASSUME NEW d, NEW e, NEW k, SameRecord(d, e), Precedes(d, k)
    PROVE  Precedes(e, k)
  BY DEF SameRecord, Precedes, Settled

\* No journal is about to be written, or still the same.
LEMMA Resting ==
    ASSUME Following, Preceding, SameRecords,
           w' \notin {"create", "rename"} \/ (jm' = jm /\ w \in {"create", "rename"})
    PROVE  Following' /\ Preceding'
  <1>1. BeingWritten' \subseteq BeingWritten
    BY DEF BeingWritten
  <1>2. dir'[CANONICAL] = dir[CANONICAL] /\ dir'[JOURNAL] = dir[JOURNAL]
    BY DEF SameRecords, SameRecord
  <1>3. Following'
    BY <1>1, <1>2 DEF Following, Follows
  <1>4. ASSUME NEW k \in ({dir'[JOURNAL]} \cup BeingWritten') \ {None}, NEW e \in disk'
        PROVE  Precedes(e, k)
    <2>1. PICK d \in disk : SameRecord(d, e)
      BY DEF SameRecords
    <2>2. Precedes(d, k)
      BY <1>1, <1>2 DEF Preceding
    <2> QED  BY <2>1, <2>2, PrecedesByName
  <1> QED  BY <1>3, <1>4 DEF Preceding

\* A journal that may follow the one on file is about to be written.
LEMMA Rewriting ==
    ASSUME NEW k, dir[JOURNAL] = k, NEW j, jm' = j, Follows(k, j), UNCHANGED <<dir, disk>>,
           \A d \in disk : Precedes(d, k) /\ Precedes(d, j)
    PROVE  Following' /\ Preceding'
  <1>1. BeingWritten' \subseteq {j} /\ dir'[JOURNAL] = k
    BY DEF BeingWritten
  <1>2. Follows(k, j)'
    BY DEF Follows
  <1> QED  BY <1>1, <1>2 DEF Following, Preceding

\* A journal that only moves the transaction on is about to be written.
LEMMA MovingOn ==
    ASSUME Preceding, SameRecords, NEW k \in Journals, dir[JOURNAL] = k,
           NEW j \in Journals, jm' = j, j.old_inode = k.old_inode,
           j.commit_possible = k.commit_possible,
           j.commit_possible => j.stage_inode = k.stage_inode,
           k.phase # "live_verified",
           j.phase = PENDING => dir[CANONICAL] = j.stage_inode,
           j.phase = "live_verified" =>
               k.phase = PENDING /\ dir[CANONICAL] = j.stage_inode,
           j.phase = "recovered_old" => dir[CANONICAL] = j.old_inode
    PROVE  Following' /\ Preceding'
  <1>1. BeingWritten' \subseteq {j} /\ k # None /\ j # None
    BY NullJournal DEF BeingWritten
  <1>2. dir'[CANONICAL] = dir[CANONICAL] /\ dir'[JOURNAL] = k
    BY DEF SameRecords, SameRecord
  <1>3. Follows(k, j)'
    BY <1>1, <1>2 DEF Follows
  <1>4. Following'
    BY <1>1, <1>2, <1>3 DEF Following
  <1>5. ASSUME NEW e \in disk'
        PROVE  Precedes(e, k) /\ Precedes(e, j)
    <2>1. PICK d \in disk : SameRecord(d, e)
      BY DEF SameRecords
    <2>2. Precedes(e, k)
      BY <1>1, <2>1, PrecedesByName DEF Preceding
    <2> QED  BY <2>2 DEF Precedes
  <1> QED  BY <1>1, <1>2, <1>4, <1>5 DEF Preceding

-----------------------------------------------------------------------------
(* The steps.                                                              *)

\* Steps that leave the directory alone and write no journal.
LEMMA QuietSteps ==
    ASSUME Known, Recorded,
           \/ Stop \/ Observe \/ Resume \/ AwaitUp \/ Release \/ Import \/ SyncCanonical
           \/ HelperDies \/ ContainerRestart \/ OrphanEnds \/ JavaSteps \/ JavaFaults
    PROVE  Recorded' /\ Implements
  <1>1. UNCHANGED <<dir, disk>> /\ (faults' = faults \/ Faulty)
    BY DEF Stop, Observe, Resume, AwaitUp, Release, Import, SyncCanonical, HelperDies,
        ContainerRestart, ContainerStops, OrphanEnds, JavaSteps, JavaFaults, JavaUp,
        JavaDown, JavaCrash, JavaRewrites, Keep, OnlyControl, filesVars
  <1>2. Implements
    BY <1>1, Quiet
  <1>3. SameRecords
    BY <1>1 DEF SameRecords, SameRecord
  <1>4. w' = "none" \/ (w' = w /\ jm' = jm)
    <2>1. CASE Stop \/ Observe \/ Resume \/ AwaitUp \/ Import \/ SyncCanonical
      BY <2>1, SMT DEF Stop, Observe, Resume, AwaitUp, Import, SyncCanonical, Goto
    <2>2. CASE Release
      BY <2>2 DEF Release, Goto
    <2>3. CASE HelperDies \/ ContainerRestart
      BY <2>3 DEF HelperDies, ContainerRestart, ContainerStops, HelperGone
    <2>4. CASE OrphanEnds \/ JavaSteps \/ JavaFaults
      BY <2>4 DEF OrphanEnds, JavaSteps, JavaFaults, KeepExecutor
    <2> QED  BY <2>1, <2>2, <2>3, <2>4
  <1>5. Following' /\ Preceding'
    BY <1>3, <1>4, Resting DEF Recorded
  <1>6. Points'
    <2>1. CASE Stop \/ Observe \/ Import \/ SyncCanonical
      <3>1. /\ op' = op /\ jm' = jm /\ outcome' = outcome /\ w' = "none"
            /\ pc' \in {"quiesce", "decide", "recheck", "importing", "sync_stage", "link"}
            /\ pc' \in {"decide", "recheck"} => op # "install"
            /\ pc \in {"stop", "observe", "import", "importing", "sync_canonical"}
        BY <2>1
           DEF Stop, Observe, Import, SyncCanonical, Keep, OnlyControl, Goto, At, Known,
            Control
      <3> QED  BY <3>1 DEF Points, Recorded, InstallLabels
    <2>2. CASE Resume \/ AwaitUp
      <3>1. /\ op' = op /\ jm' = jm /\ outcome' = outcome /\ dir' = dir /\ w' = "none"
            /\ pc' \in {"await_up", "resumed"}
            /\ pc \in {"resume", "recover_resume", "await_up"}
            /\ pc = "resume" => dir[CANONICAL] = jm.stage_inode
        <4>1. CASE Resume
          BY <1>1, <4>1 DEF Resume, Keep, Goto, At, Checks, CanonicalIs
        <4>2. CASE AwaitUp
          BY <1>1, <4>2 DEF AwaitUp, Keep, Goto, At
        <4> QED  BY <2>2, <4>1, <4>2
      <3>2. pc = "recover_resume" => op # "install"
        BY SMT DEF Known, Control, DecidedLabels, Recovering
      <3> QED  BY <3>1, <3>2 DEF Points, Recorded
    <2>3. CASE Release
      <3>1. \/ pc = "handler" /\ pc' = "raised" /\ jm' = jm /\ op' = op /\ w' = "none"
            \/ pc' = "idle" /\ op' = "none" /\ w' = "none"
        BY <2>3 DEF Release, Goto
      <3> QED  BY <3>1 DEF Points
    <2>4. CASE HelperDies \/ ContainerRestart
      BY <2>4 DEF HelperDies, ContainerRestart, ContainerStops, HelperGone, Points
    <2>5. CASE OrphanEnds \/ JavaSteps \/ JavaFaults
      <3>1. UNCHANGED <<op, pc, w, jm, outcome, dir>>
        BY <1>1, <2>5 DEF OrphanEnds, JavaSteps, JavaFaults, KeepExecutor
      <3> QED  BY <3>1 DEF Points, Recorded
    <2> QED  BY <2>1, <2>2, <2>3, <2>4, <2>5
  <1> QED  BY <1>2, <1>5, <1>6 DEF Recorded

\* A verification and a recovery begin; a recovery may sync the directory.
LEMMA BeginSteps ==
    ASSUME Known, Recorded, BeginVerify \/ BeginRecovery
    PROVE  Recorded' /\ Implements
  <1>1. /\ dir' = dir /\ disk' \subseteq disk /\ faults' = faults /\ w' = "none"
        /\ op' # "install" /\ outcome' = "none"
        /\ pc' \in {"observe", "returned", "establish", "stop"}
    BY ZenonT(60)
       DEF Known, Typed, FilesOK, Dirs, Control, BeginVerify, BeginRecovery, BeginRecover,
        BeginRecoverClean, Acquire, filesVars, sync_directory
  <1>2. Implements
    BY <1>1, Quiet
  <1>3. SameRecords
    BY <1>1 DEF SameRecords, SameRecord
  <1>4. Following' /\ Preceding'
    BY <1>1, <1>3, Resting DEF Recorded
  <1>5. Points'
    BY <1>1 DEF Points, PENDING
  <1> QED  BY <1>2, <1>4, <1>5 DEF Recorded

\* The first journal is about to be written.
LEMMA BeginInstallStep ==
    ASSUME Known, Recorded, BeginInstall
    PROVE  Recorded' /\ Implements
  <1>1. /\ UNCHANGED <<dir, disk>> /\ faults' = faults /\ dir[JOURNAL] = None
        /\ op' = "install" /\ pc' = "stop" /\ outcome' = "none"
        /\ w' \in {"create", "invalid"}
    BY SMT DEF BeginInstall, Acquire, filesVars, NoTransaction, exists, _phase
  <1>2. /\ jm'.phase = "quiescing" /\ ~jm'.commit_possible
        /\ jm'.old_inode = dir[CANONICAL]
    BY SMT DEF BeginInstall, _phase
  <1>3. Implements
    BY <1>1, Quiet
  <1>4. Points'
    BY <1>1, <1>2 DEF Points, PENDING
  <1>5. Following'
    BY <1>1, <1>2 DEF Following, BeingWritten, Follows
  <1>6. \A d \in disk : d[JOURNAL] # None => Settled(d, d[JOURNAL])
    BY <1>1 DEF Known, OnDisk, Clean
  <1>7. Preceding'
    BY <1>1, <1>2, <1>6 DEF Preceding, BeingWritten, Precedes
  <1> QED  BY <1>3, <1>4, <1>5, <1>7 DEF Recorded

\* An exception: the journal that the handler of an installation writes.
LEMMA FailStep ==
    ASSUME Known, Recorded, Fail, op # "none", UNCHANGED <<dir, disk>>, op' = op,
           pc \notin {"returned", "raised"} \/ w # "none",
           faults' = faults \/ Faulty
    PROVE  Recorded' /\ Implements
  <1>1. Implements
    BY Quiet
  <1>2. SameRecords
    BY DEF SameRecords, SameRecord
  <1>3. CASE ~(op = "install" /\ pc # "handler" /\ ~(pc = "stop" /\ w # "none"))
    <2>1. pc' = "raised" /\ w' = "none"
      BY <1>3 DEF Fail
    <2>2. Following' /\ Preceding'
      BY <1>2, <2>1, Resting DEF Recorded
    <2>3. Points'
      BY <2>1 DEF Points
    <2> QED  BY <1>1, <2>2, <2>3 DEF Recorded
  <1>4. CASE op = "install" /\ pc # "handler" /\ ~(pc = "stop" /\ w # "none")
    <2> DEFINE j == [jm EXCEPT !.phase = "recovery_required"]
    <2>1. jm \in Journals /\ jm # None /\ SoundJournal(jm) /\ jm.phase # "live_verified"
      BY <1>4, NullJournal DEF Known, Typed, ControlOK, Control, OnDisk, Paired,
          LiveJournals, AtPoint, Installing
    <2>2. /\ j \in Journals /\ j.phase = "recovery_required"
          /\ j.old_inode = jm.old_inode /\ j.stage_inode = jm.stage_inode
          /\ j.commit_possible = jm.commit_possible
      BY <2>1 DEF Journals, Phases
    <2>3. jm' = j /\ pc' = "handler" /\ w' \in {"create", "invalid"}
      BY <1>4 DEF Fail, _phase
    <2> HIDE DEF j
    <2>4. StateOf(j) = "open"
      BY <2>2, States DEF PENDING, TransactionStates
    <2>5. CASE w \in {"create", "rename"}
      <3> DEFINE k == dir[JOURNAL]
      <3>1. k # None
        BY <1>4, <2>5 DEF Recorded, Points
      <3>2. Follows(k, jm) /\ \A d \in disk : Precedes(d, k) /\ Precedes(d, jm)
        BY <2>1, <2>5, <3>1 DEF Recorded, Following, Preceding, BeingWritten
      <3>3. Follows(k, j)
        BY <2>2, <2>4, <3>1, <3>2 DEF Follows, PENDING
      <3>4. \A d \in disk : Precedes(d, j)
        BY <2>2, <3>2 DEF Precedes
      <3>5. Following' /\ Preceding'
        BY <2>3, <3>2, <3>3, <3>4, Rewriting
      <3>6. Points'
        BY <1>4, <2>2, <2>3, <3>1 DEF Points, InstallLabels, PENDING
      <3> QED  BY <1>1, <3>5, <3>6 DEF Recorded
    <2>6. CASE w \notin {"create", "rename"}
      <3>1. dir[JOURNAL] = jm
        <4>1. w \in {"none", "sync"}
          BY <2>6 DEF Known, Typed, ControlOK, AtPoint, Writing
        <4>2. pc \in InstallLabels \cup {"stop", "await_up", "resumed", "returned", "raised"}
          BY <1>4 DEF Recorded, Points
        <4>3. w = "none" => pc \notin {"idle", "sync_journal", "returned", "raised"}
          BY <4>2 DEF InstallLabels
        <4> QED  BY <4>1, <4>3 DEF Known, AtPoint, Writing
      <3>2. Preceding /\ (j.phase \notin {PENDING, "live_verified", "recovered_old"})
        BY <2>2 DEF Recorded, PENDING
      <3>4. Following' /\ Preceding'
        BY <1>2, <2>1, <2>2, <2>3, <3>1, <3>2, MovingOn
      <3>3. Points'
        BY <1>4, <2>1, <2>2, <2>3, <3>1 DEF Points, InstallLabels, PENDING
      <3> QED  BY <1>1, <3>3, <3>4 DEF Recorded
    <2> QED  BY <2>5, <2>6
  <1> QED  BY <1>3, <1>4

\* A failed check, an exception from anywhere, and recover's decision.
LEMMA ExceptionSteps ==
    ASSUME Known, Recorded, CheckFails \/ Raise \/ Decide
    PROVE  Recorded' /\ Implements
  <1>1. CASE CheckFails
    <2>1. pc \notin {"returned", "raised"}
      BY <1>1 DEF CheckFails, Checks
    <2> QED  BY <1>1, <2>1, FailStep, SMT DEF CheckFails, OnlyControl, Keep, filesVars
  <1>2. CASE Raise
    BY <1>2, FailStep, SMT DEF Raise, filesVars
  <1>3. CASE Decide
    <2>1. /\ UNCHANGED <<dir, disk>> /\ op' = op /\ (faults' = faults \/ Faulty)
          /\ pc = "decide" /\ w = "none" /\ op \notin {"none", "install"}
      BY <1>3, SMT DEF Decide, At, filesVars, Known, Control, Recovering
    <2>2. CASE Fail
      BY <2>1, <2>2, FailStep, SMT
    <2>3. CASE ~Fail
      <3>1. PICK found \in {collect(CANONICAL), Junk} :
               \/ IsOld(found) /\ outcome' = "recovered_old" /\ Goto("recover_resume")
               \/ IsIssued(found) /\ outcome' = PENDING /\ Goto("recover_resume")
               \/ IsLost(found) /\ outcome' = "recovered_old" /\ Goto("restore")
        BY <1>3, <2>3 DEF Decide
      <3>2. /\ jm' = jm /\ w' = "none" /\ pc' \in {"recover_resume", "restore"}
            /\ outcome' = PENDING => dir[CANONICAL] = jm.stage_inode
        <4>1. CASE outcome' = "recovered_old"
          BY <2>1, <3>1, <4>1, SMT DEF Goto, PENDING
        <4>2. CASE IsIssued(found) /\ outcome' = PENDING /\ Goto("recover_resume")
          BY <2>1, <4>2, SMT DEF Goto, IsIssued
        <4> QED  BY <3>1, <4>1, <4>2
      <3>3. Implements /\ SameRecords
        BY <2>1, Quiet DEF SameRecords, SameRecord
      <3>4. Following' /\ Preceding'
        BY <3>2, <3>3, Resting DEF Recorded
      <3>5. Points'
        BY <2>1, <3>2 DEF Points
      <3> QED  BY <3>3, <3>4, <3>5 DEF Recorded
    <2> QED  BY <2>2, <2>3
  <1> QED  BY <1>1, <1>2, <1>3

\* A put of another name leaves canonical keystore and journal alone.
LEMMA OtherName ==
    ASSUME Dirs, NEW name \in {STAGE, ROLLBACK, JOURNAL_NEW}, NEW v,
           Put(name, v) \/ (remove(name) /\ v = None)
    PROVE  SameRecords
  <1>1. /\ Agree(dir, dir', {name})
        /\ \A e \in disk' : \E d \in disk : e = d \/ Agree(d, e, {name})
    BY PutEffect, RemoveEffect
  <1> QED  BY <1>1 DEF Agree, SameRecords, SameRecord

\* write_journal: the rename is the step that the transaction sees.
LEMMA WriteJournalStep ==
    ASSUME Known, Recorded, WriteJournal
    PROVE  Recorded' /\ Implements
  <1>1. /\ UNCHANGED <<op, outcome, faults, pc, jm>>
        /\ Dirs /\ jm \in Journals /\ jm # None /\ w # "none"
    BY DEF WriteJournal, Keep, Known, Typed, FilesOK, ControlOK, Control
  <1>2. CASE w = "create" /\ w' = "rename" /\ Put(JOURNAL_NEW, jm)
    <2>1. SameRecords
      BY <1>1, <1>2, OtherName
    <2>2. Following' /\ Preceding' /\ Implements
      BY <1>1, <1>2, <2>1, Resting, Quiet DEF Recorded, SameRecords, SameRecord
    <2>3. Points'
      BY <1>1, <1>2, <2>1 DEF Recorded, Points, SameRecords, SameRecord
    <2> QED  BY <2>2, <2>3 DEF Recorded
  <1>3. CASE w = "sync" /\ w' = "none" /\ sync_directory
    <2>1. dir' = dir /\ SameRecords
      BY <1>1, <1>3 DEF sync_directory, Dirs, SameRecords, SameRecord
    <2>2. Following' /\ Preceding' /\ Implements
      BY <1>1, <1>3, <2>1, Resting, Quiet DEF Recorded
    <2>3. Points'
      BY <1>1, <1>3, <2>1 DEF Recorded, Points
    <2> QED  BY <2>2, <2>3 DEF Recorded
  <1>4. CASE w = "rename" /\ w' = "sync" /\ replace(JOURNAL_NEW, JOURNAL)
    <2>1. dir[JOURNAL_NEW] = jm
      BY <1>4 DEF Known, AtPoint, Writing
    <2>2. /\ dir'[JOURNAL] = jm /\ dir'[CANONICAL] = dir[CANONICAL]
          /\ \A e \in disk' : e \in disk \/ e[JOURNAL] = jm
      <3>1. /\ dir'[JOURNAL] = dir[JOURNAL_NEW] /\ Agree(dir, dir', {JOURNAL_NEW, JOURNAL})
            /\ \A e \in disk' : e \in disk \/ e[JOURNAL] = dir[JOURNAL_NEW]
        <4>1. /\ JOURNAL_NEW \in Names /\ JOURNAL \in Names \ {JOURNAL_NEW}
              /\ JOURNAL_NEW \notin Keystores
          BY DEF Names, Keystores
        <4>2. /\ dir'[JOURNAL] = dir[JOURNAL_NEW] /\ Agree(dir, dir', {JOURNAL_NEW, JOURNAL})
              /\ \A e \in disk' : \E d \in disk :
                    \/ e = d
                    \/ e[JOURNAL] = dir[JOURNAL_NEW] /\ e[JOURNAL_NEW] = None
                       /\ Agree(d, e, {JOURNAL_NEW, JOURNAL})
          BY <1>1, <1>4, <4>1, ReplaceEffect
        <4> QED  BY <4>2
      <3> QED  BY <2>1, <3>1 DEF Agree
    <2>3. Follows(dir[JOURNAL], jm) /\ \A d \in disk : Precedes(d, jm)
      BY <1>1, <1>4 DEF Recorded, Following, Preceding, BeingWritten
    <2>4. Following' /\ Preceding'
      <3>1. \A e \in disk' : Precedes(e, jm)
        BY <1>1, <2>2, <2>3 DEF Precedes
      <3>2. BeingWritten' = {}
        BY <1>4 DEF BeingWritten
      <3> QED  BY <1>1, <2>2, <3>1, <3>2 DEF Following, Preceding
    <2>5. Points'
      BY <1>1, <1>4, <2>2 DEF Recorded, Points
    <2>6. SoundJournal(jm) /\ (dir[JOURNAL] # None =>
              dir[JOURNAL] \in Journals /\ SoundJournal(dir[JOURNAL]))
      BY <1>1, DirectoryValues DEF Dirs, Known, OnDisk, Paired, LiveJournals,
          ReadableJournals
    <2>7. Implements
      BY <1>1, <2>2, <2>3, <2>6, BeginImplements, RecordImplements
    <2> QED  BY <2>4, <2>5, <2>7 DEF Recorded
  <1> QED  BY <1>2, <1>3, <1>4 DEF WriteJournal

\* What a step at a control point knows of the journal.
LEMMA AtJournal ==
    ASSUME Known, op # "none", w = "none", pc \notin {"sync_journal", "returned", "raised"}
    PROVE  /\ dir[JOURNAL] = jm /\ jm \in Journals /\ SoundJournal(jm) /\ jm # None
           /\ \A d \in disk : Fits(d, jm)
  BY NullJournal DEF Known, Typed, ControlOK, Control, AtPoint, Writing, OnDisk, Paired,
      LiveJournals

\* A new phase in a journal changes nothing else of it.
LEMMA PhaseFields ==
    ASSUME NEW k \in Journals, NEW p \in Phases
    PROVE  LET j == [k EXCEPT !.phase = p] IN
           /\ j \in Journals /\ j.phase = p /\ j.old_inode = k.old_inode
           /\ j.stage_inode = k.stage_inode /\ j.commit_possible = k.commit_possible
  BY DEF Journals, Phases

\* A step that changes other names and goes on with the journal as it is.
LEMMA GoingOn ==
    ASSUME Known, Recorded, SameRecords, faults' = faults, op' = op, jm' = jm,
           w' = "none", outcome' = outcome, op = "install" => pc' \in InstallLabels,
           pc' \notin {"await_up", "resumed"},
           pc' = "recover_resume" => outcome # PENDING,
           op = "install" => pc \notin {"returned", "raised"}
    PROVE  Recorded' /\ Implements
  <1>1. dir'[CANONICAL] = dir[CANONICAL] /\ dir'[JOURNAL] = dir[JOURNAL]
    BY DEF SameRecords, SameRecord
  <1>2. Following' /\ Preceding' /\ Implements
    BY <1>1, Resting, Quiet DEF Recorded
  <1>3. Points'
    BY DEF Recorded, Points
  <1> QED  BY <1>2, <1>3 DEF Recorded

\* A step of an installation that does so with a new journal.
LEMMA InstallGoesOn ==
    ASSUME Known, Recorded, SameRecords, faults' = faults, op' = op, op = "install",
           w = "none", pc \in InstallLabels, pc' \in InstallLabels,
           NEW j \in Journals, jm' = j, j.phase \notin {PENDING, "live_verified", "recovered_old"},
           j.old_inode = jm.old_inode, j.commit_possible = jm.commit_possible,
           jm.commit_possible => j.stage_inode = jm.stage_inode
    PROVE  Recorded' /\ Implements
  <1>1. dir[JOURNAL] = jm /\ jm \in Journals /\ jm # None
    BY AtJournal DEF InstallLabels
  <1>2. jm.phase # "live_verified"
    BY DEF Known, AtPoint, Installing
  <1>3. dir'[CANONICAL] = dir[CANONICAL] /\ dir'[JOURNAL] = jm
    BY <1>1 DEF SameRecords, SameRecord
  <1>4. Following' /\ Preceding'
    BY <1>1, <1>2, MovingOn DEF Recorded
  <1>5. Implements
    BY <1>1, <1>3, Quiet
  <1>6. Points'
    BY <1>1, <1>3 DEF Points, InstallLabels
  <1> QED  BY <1>4, <1>5, <1>6 DEF Recorded

\* The phases of an installation that change no name.
LEMMA InstallPhaseSteps ==
    ASSUME Known, Recorded, Quiesce \/ ImportChecks \/ VerifyCommit \/ SyncStage
    PROVE  Recorded' /\ Implements
  <1>1. /\ UNCHANGED <<dir, disk>> /\ faults' = faults /\ op' = op /\ w = "none"
        /\ pc \in {"quiesce", "import_checks", "verify_commit", "sync_stage"}
    <2>1. CASE Quiesce \/ VerifyCommit
      BY <2>1 DEF Quiesce, VerifyCommit, OnlyControl, Keep, filesVars, At
    <2>2. CASE ImportChecks
      BY <2>2 DEF ImportChecks, Keep, filesVars, At
    <2>3. CASE SyncStage
      BY <2>3 DEF SyncStage, Keep, At
    <2> QED  BY <2>1, <2>2, <2>3
  <1>2. op = "install"
    BY <1>1 DEF Known, Control, InstallLabels
  <1>3. dir[JOURNAL] = jm /\ jm \in Journals /\ jm # None
    BY <1>1, <1>2, AtJournal
  <1>4. /\ jm' \in Journals /\ jm'.old_inode = jm.old_inode
        /\ jm'.commit_possible = jm.commit_possible /\ jm'.stage_inode = jm.stage_inode
        /\ jm'.phase \notin {PENDING, "live_verified", "recovered_old"}
        /\ pc' \in {"import_checks", "create_stage", "resume", "sync_canonical"}
    <2>1. CASE Quiesce
      <3>1. jm' = [jm EXCEPT !.phase = "quiesced"] /\ pc' = "import_checks"
        BY <2>1 DEF Quiesce, _phase
      <3>2. "quiesced" \in Phases \ {PENDING, "live_verified", "recovered_old"}
        BY DEF Phases, PENDING
      <3> QED  BY <1>3, <3>1, <3>2, PhaseFields
    <2>2. CASE ImportChecks
      BY <1>3, <2>2 DEF ImportChecks, _phase, Journals, Phases, PENDING
    <2>3. CASE VerifyCommit
      <3>1. jm' = [jm EXCEPT !.phase = "canonical_verified"] /\ pc' = "resume"
        BY <2>3 DEF VerifyCommit, _phase
      <3>2. "canonical_verified" \in Phases \ {PENDING, "live_verified", "recovered_old"}
        BY DEF Phases, PENDING
      <3> QED  BY <1>3, <3>1, <3>2, PhaseFields
    <2>4. CASE SyncStage
      <3>1. jm' = [jm EXCEPT !.phase = "staged_validated"] /\ pc' = "sync_canonical"
        BY <2>4 DEF SyncStage, _phase
      <3>2. "staged_validated" \in Phases \ {PENDING, "live_verified", "recovered_old"}
        BY DEF Phases, PENDING
      <3> QED  BY <1>3, <3>1, <3>2, PhaseFields
    <2> QED  BY <2>1, <2>2, <2>3, <2>4
  <1> QED  BY <1>1, <1>2, <1>4, InstallGoesOn DEF SameRecords, SameRecord, InstallLabels

\* The end of an installation, of a recovery and of a live verification.
LEMMA OutcomeSteps ==
    ASSUME Known, Recorded, Resumed \/ Recheck
    PROVE  Recorded' /\ Implements
  <1>1. /\ UNCHANGED <<dir, disk>> /\ faults' = faults /\ op' = op /\ w = "none"
        /\ pc \in {"resumed", "recheck"} /\ op # "none"
    BY SMT DEF Resumed, Recheck, OnlyControl, Keep, filesVars, At, Known, Control
  <1>2. dir[JOURNAL] = jm /\ jm \in Journals /\ jm # None
    BY <1>1, AtJournal
  <1>3. Implements /\ SameRecords
    BY <1>1, Quiet DEF SameRecords, SameRecord
  <1>4. PICK p \in Phases :
            /\ jm' = [jm EXCEPT !.phase = p]
            /\ jm.phase # "live_verified"
            /\ p = PENDING => dir[CANONICAL] = jm.stage_inode
            /\ p = "live_verified" => jm.phase = PENDING /\ dir[CANONICAL] = jm.stage_inode
            /\ p = "recovered_old" => dir[CANONICAL] = jm.old_inode
            /\ p # PENDING \/ pc' = "returned"
            /\ pc' \in {"returned", "remove_stage", "establish"}
            /\ op = "install" => pc' = "returned"
    <2>1. CASE Resumed /\ op = "install"
      <3>1. jm' = [jm EXCEPT !.phase = PENDING] /\ pc' = "returned" /\ pc = "resumed"
        BY <2>1 DEF Resumed, _phase, At
      <3>2. dir[CANONICAL] = jm.stage_inode /\ jm.phase # "live_verified"
        BY <2>1, <3>1 DEF Recorded, Points, Known, AtPoint, Installing
      <3> QED  BY <3>1, <3>2 DEF Phases, PENDING
    <2>2. CASE Resumed /\ op # "install"
      <3>1. /\ jm' = [jm EXCEPT !.phase = outcome] /\ pc = "resumed"
            /\ pc' = IF outcome = "recovered_old" THEN "remove_stage" ELSE "returned"
        BY <2>2 DEF Resumed, _phase, At
      <3>2. Recovering /\ outcome \in {PENDING, "recovered_old"}
        BY <2>2, <3>1 DEF Known, Control, Typed, ControlOK
      <3>3. /\ jm.phase # "live_verified"
            /\ outcome = "recovered_old" => dir[CANONICAL] = jm.old_inode
        BY <3>1, <3>2 DEF Known, AtPoint, Deciding, PENDING
      <3>4. outcome = PENDING => dir[CANONICAL] = jm.stage_inode
        BY <3>1 DEF Recorded, Points
      <3> QED  BY <2>2, <3>1, <3>2, <3>3, <3>4 DEF Phases, PENDING
    <2>3. CASE Recheck
      <3>1. /\ jm' = [jm EXCEPT !.phase = "live_verified"] /\ pc' = "establish"
            /\ pc = "recheck" /\ LiveVerifiedFiles(jm, FALSE)
        BY <2>3 DEF Recheck, _phase, At, Checks
      <3>2. dir[CANONICAL] = jm.stage_inode /\ jm.phase = PENDING /\ op # "install"
        BY <3>1 DEF LiveVerifiedFiles, CanonicalIs, Known, AtPoint, Deciding, Control
      <3> QED  BY <3>1, <3>2 DEF Phases, PENDING
    <2> QED  BY <2>1, <2>2, <2>3
  <1>5. /\ jm' \in Journals /\ jm'.old_inode = jm.old_inode /\ jm'.phase = p
        /\ jm'.commit_possible = jm.commit_possible /\ jm'.stage_inode = jm.stage_inode
    BY <1>2, <1>4, PhaseFields
  <1>6. Following' /\ Preceding'
    BY <1>2, <1>3, <1>4, <1>5, MovingOn DEF Recorded
  <1>7. Points'
    BY <1>1, <1>2, <1>4, <1>5 DEF Points, InstallLabels
  <1> QED  BY <1>3, <1>6, <1>7 DEF Recorded

\* The journal that allows the commit is about to be written.
LEMMA CommittableStep ==
    ASSUME Known, Recorded, Committable
    PROVE  Recorded' /\ Implements
  <1> DEFINE j == [jm EXCEPT !.phase = "commit_possible", !.commit_possible = TRUE]
  <1>1. /\ UNCHANGED <<dir, disk>> /\ faults' = faults /\ op' = op /\ w = "none"
        /\ pc = "committable" /\ jm' = j /\ pc' = "commit"
    BY DEF Committable, OnlyControl, Keep, filesVars, At, _phase
  <1>2. op = "install"
    BY <1>1 DEF Known, Control, InstallLabels
  <1>3. dir[JOURNAL] = jm /\ jm \in Journals /\ jm # None /\ SoundJournal(jm)
    BY <1>1, <1>2, AtJournal
  <1>4. /\ jm.phase \notin {PENDING, "live_verified", "recovered_old"}
        /\ \A d \in disk : d[JOURNAL] = jm
        /\ dir[CANONICAL] = jm.old_inode
    BY <1>1, <1>2 DEF Known, AtPoint, Installing, Recorded, Points, Linked, Typed, FilesOK,
        Dirs
  <1>5. /\ j \in Journals /\ j.phase = "commit_possible" /\ j.commit_possible
        /\ j.old_inode = jm.old_inode /\ j.stage_inode = jm.stage_inode
    BY <1>3 DEF Journals, Phases
  <1> HIDE DEF j
  <1>6. StateOf(jm) = "open" /\ StateOf(j) = "open"
    BY <1>4, <1>5, States DEF PENDING, TransactionStates
  <1>7. Follows(jm, j)
    BY <1>3, <1>4, <1>5, <1>6 DEF Follows, PENDING
  <1>8. \A d \in disk : Precedes(d, jm) /\ Precedes(d, j)
    BY <1>3, <1>4, <1>5 DEF Precedes
  <1>9. Following' /\ Preceding'
    BY <1>1, <1>3, <1>7, <1>8, Rewriting
  <1>10. Implements
    BY <1>1, Quiet
  <1>11. Points'
    BY <1>1, <1>2, <1>3, <1>5 DEF Points, InstallLabels, PENDING
  <1> QED  BY <1>9, <1>10, <1>11 DEF Recorded

\* The stage is created, owned and filled, and the rollback linked.
LEMMA StageAndLinkSteps ==
    ASSUME Known, Recorded, CopyStage \/ LinkRollback
    PROVE  Recorded' /\ Implements
  <1>1. /\ faults' = faults /\ op' = op /\ outcome' = outcome /\ w = "none"
        /\ pc \in {"create_stage", "chown_stage", "copy_stage", "link", "sync_link"}
    BY DEF CopyStage, LinkRollback, Keep, At
  <1>2. op = "install" /\ Dirs
    BY <1>1 DEF Known, Control, InstallLabels, Typed, FilesOK
  <1>3. dir[JOURNAL] = jm /\ jm \in Journals /\ SoundJournal(jm)
    BY <1>1, <1>2, AtJournal
  <1>4. ~jm.commit_possible /\ jm.phase \notin {PENDING, "live_verified", "recovered_old"}
    BY <1>1, <1>2, <1>3 DEF Known, AtPoint, Installing, Unlinked, SoundJournal, ValidJournal,
        CommitPhases
  <1>5. CASE Goto("chown_stage") /\ \E i \in Inodes : CreateStage(i)
    <2>1. SameRecords
      BY <1>2, <1>5, OtherName DEF CreateStage
    <2> QED  BY <1>1, <1>2, <1>5, <2>1, GoingOn DEF Goto, InstallLabels
  <1>6. CASE Goto("copy_stage") /\ ChownStage
    BY <1>1, <1>2, <1>6, GoingOn DEF Goto, InstallLabels, ChownStage, SameRecords, SameRecord
  <1>7. CASE copy_stage /\ _phase([jm EXCEPT !.stage_inode = dir[STAGE]], "import")
    <2>1. SameRecords /\ pc' = "import" /\ jm' = [jm EXCEPT !.stage_inode = dir[STAGE]]
      BY <1>7 DEF copy_stage, _phase, SameRecords, SameRecord
    <2>2. dir[STAGE] \in Inodes \cup {None}
      BY <1>2, DirectoryValues DEF Dirs
    <2>3. /\ jm' \in Journals /\ jm'.phase = jm.phase /\ jm'.old_inode = jm.old_inode
          /\ jm'.commit_possible = jm.commit_possible
      BY <1>3, <2>1, <2>2 DEF Journals
    <2> QED  BY <1>1, <1>2, <1>4, <2>1, <2>3, InstallGoesOn DEF InstallLabels
  <1>8. CASE Goto("sync_link") /\ link_rollback
    <2>1. SameRecords
      BY <1>2, <1>8, OtherName DEF link_rollback
    <2> QED  BY <1>1, <1>2, <1>8, <2>1, GoingOn DEF Goto, InstallLabels
  <1>9. CASE /\ sync_directory
             /\ _phase([jm EXCEPT !.phase = "rollback_durable",
                                  !.rollback_expected = TRUE], "committable")
    <2>1. /\ SameRecords /\ pc' = "committable"
          /\ jm' = [jm EXCEPT !.phase = "rollback_durable", !.rollback_expected = TRUE]
      BY <1>2, <1>9 DEF sync_directory, _phase, SameRecords, SameRecord, Dirs
    <2>2. /\ jm' \in Journals /\ jm'.phase = "rollback_durable"
          /\ jm'.old_inode = jm.old_inode /\ jm'.stage_inode = jm.stage_inode
          /\ jm'.commit_possible = jm.commit_possible
      BY <1>3, <2>1 DEF Journals, Phases
    <2> QED  BY <1>1, <1>2, <2>1, <2>2, InstallGoesOn DEF InstallLabels, PENDING
  <1> QED  BY <1>5, <1>6, <1>7, <1>8, <1>9 DEF CopyStage, LinkRollback

\* The rename that commits, and the one that restores: a journal that allows
\* the commit does not look at the canonical keystore of a directory.
LEMMA RenameStep ==
    ASSUME Known, Recorded, NEW s \in {STAGE, ROLLBACK}, replace(s, CANONICAL),
           dir[s] # dir[CANONICAL], dir[JOURNAL] = jm, jm \in Journals, SoundJournal(jm),
           jm.commit_possible, UNCHANGED <<op, outcome, faults, jm>>, w' = "none",
           \/ /\ s = STAGE /\ op = "install" /\ pc' = "sync_commit"
              /\ jm.phase # PENDING /\ StateOf(jm) = "open"
              /\ dir[CANONICAL] = jm.old_inode /\ dir[s] = jm.stage_inode
           \/ /\ s = ROLLBACK /\ op # "install" /\ pc' = "sync_restore"
              /\ jm.phase # "live_verified"
              /\ dir[CANONICAL] = jm.stage_inode /\ dir[s] = jm.old_inode
    PROVE  Recorded' /\ Implements
  <1>1. Dirs /\ jm # None
    BY NullJournal DEF Known, Typed, FilesOK
  <1>2. /\ dir'[CANONICAL] = dir[s] /\ dir'[JOURNAL] = jm
        /\ \A e \in disk' : \E d \in disk : e[JOURNAL] = d[JOURNAL]
    <2>1. /\ dir'[CANONICAL] = dir[s] /\ Agree(dir, dir', {s, CANONICAL})
          /\ \A e \in disk' : \E d \in disk : e = d \/ Agree(d, e, {s, CANONICAL})
      BY <1>1, ReplaceEffect
    <2> QED  BY <2>1 DEF Agree
  <1>3. Implements
    BY <1>2, RenameImplements
  <1>4. Preceding'
    <2>1. \A d \in disk : Precedes(d, jm)
      BY <1>1 DEF Recorded, Preceding
    <2>2. \A e \in disk' : Precedes(e, jm)
      BY <1>2, <2>1 DEF Precedes
    <2>3. BeingWritten' = {}
      BY DEF BeingWritten
    <2> QED  BY <1>2, <2>2, <2>3 DEF Preceding
  <1>5. Following'
    BY DEF Following, BeingWritten
  <1>6. Points'
    BY DEF Points, InstallLabels
  <1> QED  BY <1>3, <1>4, <1>5, <1>6 DEF Recorded

\* The stage becomes canonical, and the journal says so.
LEMMA CommitStep ==
    ASSUME Known, Recorded, Commit
    PROVE  Recorded' /\ Implements
  <1>1. /\ UNCHANGED <<op, outcome, faults>> /\ w = "none"
        /\ pc \in {"commit", "sync_commit"}
    BY DEF Commit, Keep, At
  <1>2. op = "install" /\ Dirs
    BY <1>1 DEF Known, Control, InstallLabels, Typed, FilesOK
  <1>3. dir[JOURNAL] = jm /\ jm \in Journals /\ SoundJournal(jm)
    BY <1>1, <1>2, AtJournal
  <1>4. CASE At("commit") /\ Goto("sync_commit") /\ replace(STAGE, CANONICAL)
    <2>1. pc = "commit" /\ pc' = "sync_commit" /\ w' = "none" /\ jm' = jm
      BY <1>1, <1>4 DEF At, Goto
    <2>2. /\ jm.commit_possible /\ dir[CANONICAL] = jm.old_inode
          /\ dir[STAGE] = jm.stage_inode /\ jm.stage_inode # jm.old_inode
          /\ jm.phase \notin {PENDING, "live_verified", "recovered_old"}
      BY <1>2, <2>1 DEF Known, AtPoint, Installing, Linked, Dirs, Recorded, Points
    <2>3. StateOf(jm) = "open"
      BY <2>2, States DEF TransactionStates
    <2> QED  BY <1>1, <1>2, <1>3, <1>4, <2>1, <2>2, <2>3, RenameStep
  <1>5. CASE sync_directory /\ _phase([jm EXCEPT !.phase = "committed"], "verify_commit")
    <2>1. /\ SameRecords /\ pc' = "verify_commit"
          /\ jm' = [jm EXCEPT !.phase = "committed"]
      BY <1>2, <1>5 DEF sync_directory, _phase, SameRecords, SameRecord, Dirs
    <2>2. "committed" \in Phases \ {PENDING, "live_verified", "recovered_old"}
      BY DEF Phases, PENDING
    <2>3. /\ jm' \in Journals /\ jm'.phase = "committed"
          /\ jm'.old_inode = jm.old_inode /\ jm'.stage_inode = jm.stage_inode
          /\ jm'.commit_possible = jm.commit_possible
      BY <1>3, <2>1, <2>2, PhaseFields
    <2> QED  BY <1>1, <1>2, <2>1, <2>2, <2>3, InstallGoesOn DEF InstallLabels
  <1> QED  BY <1>4, <1>5 DEF Commit

\* The rollback becomes canonical again.
LEMMA RestoreStep ==
    ASSUME Known, Recorded, Restore
    PROVE  Recorded' /\ Implements
  <1>1. /\ UNCHANGED <<op, outcome, faults, jm>> /\ w = "none" /\ w' = "none"
        /\ pc \in {"restore", "sync_restore", "restored"}
        /\ pc' \in {"sync_restore", "restored", "recover_resume"}
    BY DEF Restore, Keep, At, Goto
  <1>2. /\ Recovering /\ op # "install" /\ op # "none" /\ outcome # PENDING /\ Dirs
    BY <1>1 DEF Known, Control, DecidedLabels, Recovering, AtPoint, Deciding, PENDING, Typed,
        FilesOK
  <1>3. CASE SameRecords
    BY <1>1, <1>2, <1>3, GoingOn
  <1>4. CASE At("restore") /\ Goto("sync_restore") /\ replace(ROLLBACK, CANONICAL)
    <2>1. pc = "restore" /\ pc' = "sync_restore"
      BY <1>4 DEF At, Goto
    <2>2. dir[JOURNAL] = jm /\ jm \in Journals /\ SoundJournal(jm) /\ Fits(dir, jm)
      BY <1>1, <1>2, AtJournal DEF Dirs
    <2>3. /\ dir[ROLLBACK] = jm.old_inode /\ jm.commit_possible
          /\ jm.phase # "live_verified"
      BY <1>2, <2>1 DEF Known, AtPoint, Deciding
    <2>4. CASE dir[CANONICAL] = dir[ROLLBACK]
      <3>1. SameRecords
        BY <1>4, <2>4 DEF replace, SameRecords, SameRecord
      <3> QED  BY <1>3, <3>1
    <2>5. CASE dir[CANONICAL] # dir[ROLLBACK]
      <3>1. dir[CANONICAL] = jm.stage_inode
        BY <2>2, <2>3, <2>5 DEF Fits
      <3> QED  BY <1>1, <1>2, <1>4, <2>1, <2>2, <2>3, <2>5, <3>1, RenameStep
    <2> QED  BY <2>4, <2>5
  <1>5. sync_directory \/ UNCHANGED <<dir, disk>> => SameRecords
    BY <1>2 DEF sync_directory, SameRecords, SameRecord, Dirs
  <1> QED  BY <1>3, <1>4, <1>5 DEF Restore

\* The files of a settled transaction go, its journal last.
LEMMA CleanupStep ==
    ASSUME Known, Recorded, Cleanup
    PROVE  Recorded' /\ Implements
  <1>1. /\ UNCHANGED <<op, outcome, faults, jm>> /\ w = "none" /\ w' = "none"
        /\ pc \in {"establish", "remove_rollback", "remove_stage", "remove_old_rollback",
                   "remove_new", "sync_cleanup", "remove_journal", "sync_journal"}
        /\ pc' \in {"remove_rollback", "sync_cleanup", "remove_old_rollback", "remove_new",
                    "remove_journal", "sync_journal", "returned"}
    BY DEF Cleanup, Keep, At, Goto
  <1>2. op \notin {"install", "none"} /\ Dirs
    BY <1>1 DEF Recorded, Points, InstallLabels, Known, Control, Typed, FilesOK
  <1>3. CASE SameRecords
    BY <1>1, <1>2, <1>3, GoingOn
  <1>4. CASE At("remove_journal") /\ Goto("sync_journal") /\ remove(JOURNAL)
    <2>1. pc = "remove_journal"
      BY <1>4 DEF At
    <2>2. dir[JOURNAL] = jm /\ jm \in Journals /\ SoundJournal(jm) /\ Settled(dir, jm)
      BY <1>1, <1>2, <2>1, AtJournal DEF Known, AtPoint, Cleaning, Dirs
    <2>3. dir'[JOURNAL] = None /\ dir'[CANONICAL] = dir[CANONICAL]
      BY <1>2, <1>4, RemoveEffect DEF Agree
    <2>4. Implements
      BY <1>1, <2>2, <2>3, EndImplements
    <2>5. Points' /\ Following' /\ Preceding'
      BY <1>1, <1>2, <2>3 DEF Points, Following, Preceding, BeingWritten
    <2> QED  BY <2>4, <2>5 DEF Recorded
  <1>5. sync_directory => SameRecords
    BY <1>2 DEF sync_directory, SameRecords, SameRecord, Dirs
  <1>6. remove(STAGE) \/ remove(ROLLBACK) \/ remove(JOURNAL_NEW) => SameRecords
    BY <1>2, OtherName
  <1> QED  BY <1>3, <1>4, <1>5, <1>6 DEF Cleanup

\* After a power loss only the directory that came back is left.
LEMMA PowerLossStep ==
    ASSUME Known, Recorded, PowerLoss
    PROVE  Recorded' /\ Implements
  <1>1. disk' = {dir'} /\ op' = "none" /\ pc' = "idle" /\ w' = "none"
    BY DEF PowerLoss, LosePower, ContainerStops, HelperGone
  <1>2. Points' /\ Following'
    BY <1>1 DEF Points, Following, BeingWritten
  <1>3. Preceding'
    BY <1>1 DEF Preceding, BeingWritten, Precedes
  <1> QED  BY <1>2, <1>3, PowerLossImplements DEF Recorded

\* The initial states are initial states of the transaction.
LEMMA RecordedInit == Init => Recorded /\ Transaction!Init
  <1> SUFFICES ASSUME Init PROVE Recorded /\ Transaction!Init
    OBVIOUS
  <1>1. /\ dir[JOURNAL] = None /\ dir[CANONICAL] \in Inodes /\ faults \in Nat
        /\ pc = "idle" /\ op = "none" /\ w = "none"
    BY MaxFaultsAssumption DEF Init
  <1>2. Recorded
    BY <1>1 DEF Recorded, Points, Following, Preceding, BeingWritten
  <1>3. Transaction!Init
    BY <1>1 DEF Transaction!Init, TransactionOf
  <1> QED  BY <1>2, <1>3

\* Every step of the executor is one of the transaction or leaves it alone.
LEMMA RecordedNext == Known /\ Recorded /\ [Next]_vars => Recorded' /\ Implements
  <1> SUFFICES ASSUME Known, Recorded, [Next]_vars PROVE Recorded' /\ Implements
    OBVIOUS
  <1>1. CASE UNCHANGED vars
    <2>1. UNCHANGED <<dir, disk, op, pc, w, jm, outcome, faults>>
      BY <1>1 DEF vars, filesVars
    <2>2. Implements
      BY <2>1, Quiet
    <2>3. Following' /\ Preceding'
      BY <2>1, Resting DEF Recorded, SameRecords, SameRecord
    <2>4. Points'
      BY <2>1 DEF Recorded, Points
    <2> QED  BY <2>2, <2>3, <2>4 DEF Recorded
  <1>2. CASE Next
    BY <1>2, QuietSteps, BeginSteps, BeginInstallStep, ExceptionSteps, WriteJournalStep,
        InstallPhaseSteps, OutcomeSteps, CommittableStep, StageAndLinkSteps, CommitStep,
        RestoreStep, CleanupStep, PowerLossStep
    DEF Next, Step, Fault
  <1> QED  BY <1>1, <1>2

\* The journalled executor, with its faults and power losses, implements the
\* transaction: the canonical keystore changes only by a commit of the keystore
\* on offer or by the return of the old one, and the journal is unlinked only
\* once the outcome it records is canonical.
THEOREM ExecutorImplementsTransaction == Spec => ImplementsTransaction
  <1>1. Init => Known /\ Recorded /\ Transaction!Init
    BY TypedInit, ConsistentInit, RecordedInit DEF Known
  <1>2. Known /\ Recorded /\ [Next]_vars => Recorded' /\ [Transaction!Next]_Transaction!vars
    BY RecordedNext DEF Implements
  <1> QED  BY <1>1, <1>2, KnownNext, PTL DEF Spec, ImplementsTransaction, Transaction!Spec

-----------------------------------------------------------------------------
(* The boot around the executor.                                           *)

\* The executor's invariant with its types.
Sound == Known /\ Reported
=============================================================================

-------------------------- MODULE StartupGateProofs --------------------------
(***************************************************************************)
(* Proofs about StartupGate for every set of inodes and certificates and   *)
(* every number of faults: each conjunct of BootInvariant holds after      *)
(* every step of a boot, from which follow the gate's own promises and     *)
(* those of the executor behind it.                                        *)
(***************************************************************************)
EXTENDS UnifiExecutorProofs, StartupGateInvariant

\* Most leaves are first-order; those that are not name their prover.
USE ZenonT(30)
USE DEF CANONICAL, STAGE, ROLLBACK, JOURNAL, JOURNAL_NEW, Keystores, Names

-----------------------------------------------------------------------------
(* The steps of a boot around the executor.                                *)

\* Between operations, with the files as they were or synced.
AtRest ==
    /\ op' = "none" /\ pc' = "idle" /\ w' = "none" /\ jm' = None
    /\ keytool' = None /\ svc' = "down" /\ serving' = None /\ served' = served
    /\ dir' = dir /\ disk' \subseteq disk /\ dir \in disk'
    /\ content' = content /\ synced' = synced /\ rewritten' = rewritten

\* The files keep fitting the journals.
LEMMA RestOnDisk ==
    ASSUME OnDisk, AtRest
    PROVE  OnDisk'
  <1>1. /\ ReadableJournals' \subseteq ReadableJournals /\ LiveJournals' \subseteq LiveJournals
        /\ LiveJournals' = ReadableJournals'
    BY DEF AtRest, ReadableJournals, LiveJournals
  <1>2. \A d, j : Fits(d, j)' <=> Fits(d, j)
    BY DEF AtRest, Fits, Kept, Survives
  <1>3. Paired'
    BY <1>1, <1>2 DEF OnDisk, Paired, AtRest
  <1>4. OneTransaction'
    BY <1>1 DEF OnDisk, OneTransaction, AtRest
  <1>5. Clean'
    BY DEF OnDisk, Clean, AtRest
  <1> QED  BY <1>3, <1>4, <1>5 DEF OnDisk

\* Where nothing runs, the executor's invariant is about the files alone.
LEMMA RestSound ==
    ASSUME Sound, Typed', AtRest
    PROVE  Sound'
  <1>1. Control'
    BY DEF AtRest, Control, InstallLabels, StagingLabels, DecidedLabels
  <1>2. AtPoint'
    BY DEF AtRest, AtPoint, Writing, Installing, Deciding, Cleaning, Orphan, Recovering
  <1>3. Committing' /\ Verified' /\ Closing' /\ Returning' /\ Quieted'
    BY DEF AtRest, Committing, Verified, Closing, Returning, Quieted, Recovering
  <1>4. Presented'
    BY DEF AtRest, Sound, Reported, Presented
  <1>5. Linking'
    <2>1. LiveJournals' \subseteq LiveJournals
      BY DEF AtRest, ReadableJournals, LiveJournals
    <2> QED  BY <2>1 DEF AtRest, Sound, Reported, Linking
  <1> QED  BY <1>1, <1>2, <1>3, <1>4, <1>5, RestOnDisk DEF Sound, Known, Reported

\* An ownership pass, the return of the first recovery and a start after a power
\* loss.
LEMMA PassesSound ==
    ASSUME Sound, Gated, Check \/ Owned \/ FirstReturns \/ PowerOn
    PROVE  Sound' /\ AtRest
  <1>1. gate # "open" /\ svc = "down" /\ keytool = None /\ serving = None
    BY DEF Check, Owned, FirstReturns, PowerOn, Gated, Sound, Reported, Presented
  <1>2. op' = "none" /\ pc' = "idle" /\ w' = "none" /\ jm' = None
    <2>1. CASE Check \/ Owned \/ PowerOn
      <3>1. op = "none" /\ op' = op /\ pc' = pc /\ w' = w /\ jm' = jm
        BY <2>1 DEF Check, Owned, PowerOn, Gated, KeepBoot
      <3> QED  BY <3>1 DEF Sound, Known, Control, AtPoint, Writing
    <2>2. CASE FirstReturns
      BY <2>2 DEF FirstReturns
    <2> QED  BY <2>1, <2>2
  <1>3. /\ dir' = dir /\ disk' \subseteq disk /\ dir \in disk'
        /\ content' = content /\ synced' = synced
    BY DEF Check, Owned, FirstReturns, PowerOn, sync_directory, filesVars, Sound, Known, Typed,
        FilesOK, Dirs
  <1>4. /\ svc' = svc /\ serving' = serving /\ served' = served /\ rewritten' = rewritten
        /\ touched' = touched /\ keytool' = keytool /\ booted' = booted /\ faults' = faults
        /\ expect' = expect /\ outcome' = outcome /\ lock' \in {lock, "free"}
    BY DEF Check, Owned, FirstReturns, PowerOn, KeepBoot, serviceVars
  <1>5. AtRest
    BY <1>1, <1>2, <1>3, <1>4 DEF AtRest
  <1>6. Typed'
    <2>1. unsafe' \subseteq Inodes
      BY DEF Check, Owned, FirstReturns, PowerOn, _normalize_clean_canonical, filesVars,
          Sound, Known, Typed, FilesOK
    <2>2. FilesOK'
      BY <1>3, <2>1 DEF Sound, Known, Typed, FilesOK, Dirs
    <2>3. ServiceOK'
      BY <1>4 DEF Sound, Known, Typed, ServiceOK
    <2>4. ControlOK'
      BY <1>2, <1>4 DEF Sound, Known, Typed, ControlOK, Labels
    <2> QED  BY <2>2, <2>3, <2>4 DEF Typed
  <1> QED  BY <1>5, <1>6, RestSound

\* The steps of the gate that leave the executor and its files alone.
Aside ==
    \/ Own \/ Fsync \/ CheckRefuses \/ InitChowns \/ InitDone \/ StartupRefuses
    \/ UNCHANGED bootVars

\* They do so.
LEMMA AsideRests ==
    ASSUME Aside
    PROVE  /\ UNCHANGED vars
           /\ dir' = dir /\ disk' = disk /\ content' = content /\ unsafe' = unsafe
           /\ op' = op /\ pc' = pc /\ w' = w /\ jm' = jm /\ outcome' = outcome /\ svc' = svc
           /\ keytool' = keytool /\ booted' = booted /\ faults' = faults /\ lock' = lock
  <1>1. UNCHANGED vars
    BY DEF Aside, Own, Fsync, CheckRefuses, InitChowns, InitDone, StartupRefuses, KeepBoot, vars,
        filesVars, serviceVars, bootVars
  <1> QED  BY <1>1 DEF vars, filesVars, serviceVars

\* The steps that are the executor's own.
LEMMA ExecutorSteps ==
    ASSUME Guarded \/ Restart \/ BootLosesPower \/ Aside
    PROVE  [Next]_vars
  <1>1. CASE Guarded
    BY <1>1 DEF Guarded, Executor, Startup, Next, BeginRecovery, Fault
  <1>2. CASE Restart \/ BootLosesPower
    BY <1>2 DEF Restart, BootLosesPower, Next, Fault
  <1> QED  BY <1>1, <1>2, AsideRests

\* What a step of a boot may be.
LEMMA BootCases ==
    ASSUME [BootNext]_bootVars
    PROVE  Guarded \/ Restart \/ BootLosesPower \/ Aside
           \/ Check \/ Owned \/ FirstReturns \/ PowerOn
  BY DEF BootNext, BootSteps, Aside

\* The executor's invariant holds through a boot.
LEMMA SoundNext ==
    ASSUME Sound, Gated, [BootNext]_bootVars
    PROVE  Sound'
  <1>1. CASE [Next]_vars
    BY <1>1, KnownNext, ReportedNext DEF Sound
  <1> QED  BY <1>1, PassesSound, ExecutorSteps, BootCases

-----------------------------------------------------------------------------
(* Gated.                                                                  *)

\* What can run before the gate opens: a startup recovery.
LEMMA BeforeOpening ==
    ASSUME Sound, Gated, Guarded, ~booted
    PROVE  \/ Startup \/ HelperDies
           \/ /\ op = "startup"
              /\ \/ WriteJournal \/ CheckFails \/ Release \/ Stop \/ Resumed \/ Cleanup \/ Decide
                 \/ Restore \/ Raise
                 \/ Resume /\ pc = "recover_resume"
  <1>1. gate # "open" /\ svc = "down" /\ keytool = None /\ op \in {"none", "startup"}
    BY DEF Gated
  <1>2. ~(BeginInstall \/ BeginVerify \/ BeginRecoverClean("recover") \/ BeginRecover("recover"))
    BY DEF BeginInstall, BeginVerify, BeginRecoverClean, BeginRecover
  <1>3. ~(OrphanEnds \/ JavaSteps \/ JavaFaults)
    BY <1>1 DEF OrphanEnds, JavaSteps, JavaFaults, JavaUp, JavaDown, JavaCrash, JavaRewrites
  <1>4. pc \notin InstallLabels \cup {"observe", "recheck", "await_up"}
    BY <1>1 DEF Gated, Sound, Known, Control, InstallLabels
  <1>5. ~(Quiesce \/ ImportChecks \/ CopyStage \/ Import \/ SyncStage \/ SyncCanonical
          \/ LinkRollback \/ Committable \/ Commit \/ VerifyCommit)
    BY <1>4 DEF Quiesce, ImportChecks, CopyStage, Import, SyncStage, SyncCanonical, LinkRollback,
        Committable, Commit, VerifyCommit, At, InstallLabels
  <1>6. ~(AwaitUp \/ Observe \/ Recheck) /\ (Resume => pc = "recover_resume")
    BY <1>4 DEF AwaitUp, Observe, Recheck, Resume, At, InstallLabels
  <1>7. ASSUME WriteJournal \/ CheckFails \/ Release \/ Stop \/ Resumed \/ Cleanup \/ Decide
               \/ Restore \/ Raise \/ Resume
        PROVE  op = "startup"
    <2>1. op # "none"
      <3>1. CASE WriteJournal \/ CheckFails \/ Release \/ Raise
        BY <3>1 DEF WriteJournal, CheckFails, Release, Raise, Sound, Known, Control
      <3>2. CASE Stop \/ Resumed \/ Cleanup \/ Decide \/ Restore \/ Resume
        BY <3>2 DEF Stop, Resumed, Cleanup, Decide, Restore, Resume, At, Sound, Known, Control
      <3> QED  BY <1>7, <3>1, <3>2
    <2> QED  BY <1>1, <2>1
  <1> QED  BY <1>2, <1>3, <1>5, <1>6, <1>7 DEF Guarded, Executor, Step

\* A step of the startup recovery leaves Java down and nobody else running.
LEMMA StartupSteps ==
    ASSUME Sound, Gated, Guarded, ~booted
    PROVE  /\ keytool' = None /\ op' \in {"none", "startup"}
           /\ booted' => op = "startup" /\ op' = "none"
           /\ ~booted' => svc' = "down"
           /\ op' = "startup" => /\ gate \in {"recover1", "recover2"} /\ pc' # "await_up"
                                 /\ w' # "none" => pc' \in {"remove_stage", "returned"}
  <1>1. svc = "down" /\ keytool = None /\ (op = "startup" => gate \in {"recover1", "recover2"})
    BY DEF Gated
  <1>2. CASE Startup
    <2>1. booted' = booted /\ keytool' = keytool /\ svc' = svc /\ op' = "startup" /\ w' = w
      BY <1>2 DEF Startup, BeginRecoverClean, BeginRecover, Acquire, serviceVars
    <2>2. gate \in {"recover1", "recover2"} /\ pc' \in {"stop", "establish", "returned"}
      BY <1>2 DEF Startup, BeginRecoverClean, BeginRecover
    <2>3. w = "none"
      BY <1>2 DEF Startup, BeginRecoverClean, BeginRecover, Acquire, Sound, Known, Control
    <2> QED  BY <1>1, <2>1, <2>2, <2>3
  <1>3. CASE HelperDies
    <2>1. ~booted' /\ keytool' = None /\ svc' = "down" /\ op' = "none"
      BY <1>1, <1>3 DEF HelperDies, HelperGone, serviceVars
    <2> QED  BY <2>1
  <1>4. CASE op = "startup" /\ Release
    BY <1>1, <1>4 DEF Release, Goto, Sound, Known, Control, InstallLabels
  <1>5. CASE op = "startup" /\ (WriteJournal \/ Resumed \/ Cleanup \/ Restore)
    <2>1. op' = op /\ booted' = booted /\ svc' = svc /\ keytool' = keytool
      BY <1>5 DEF WriteJournal, Resumed, Cleanup, Restore, OnlyControl, Keep, KeepService,
          serviceVars
    <2>2. pc' # "await_up" /\ (w' # "none" => pc' \in {"remove_stage", "returned"})
      <3>1. CASE WriteJournal
        BY <1>5, <3>1 DEF WriteJournal, Gated
      <3>2. CASE Resumed
        BY <1>5, <3>2 DEF Resumed, _phase
      <3>3. CASE Cleanup \/ Restore
        BY <1>5, <3>3 DEF Cleanup, Restore, Goto, At
      <3> QED  BY <1>5, <3>1, <3>2, <3>3
    <2> QED  BY <1>1, <1>5, <2>1, <2>2
  <1>6. CASE op = "startup" /\ (CheckFails \/ Raise)
    <2>1. /\ pc' = "raised" /\ w' = "none" /\ op' = op /\ booted' = booted /\ svc' = svc
          /\ keytool' = None
      BY <1>1, <1>6 DEF CheckFails, Raise, Fail, OnlyControl, Keep, KeepService, serviceVars
    <2> QED  BY <1>1, <1>6, <2>1
  <1>7. CASE op = "startup" /\ (Stop \/ (Resume /\ pc = "recover_resume"))
    <2>1. /\ op' = op /\ booted' = booted /\ svc' = svc /\ keytool' = keytool
          /\ pc' \in {"decide", "resumed"} /\ w' = "none"
      BY <1>1, <1>7 DEF Stop, Resume, Keep, s6_down, Goto, At
    <2> QED  BY <1>1, <1>7, <2>1
  <1>8. CASE op = "startup" /\ Decide
    <2>1. op' = op /\ booted' = booted /\ svc' = svc /\ keytool' = keytool
      BY <1>8 DEF Decide, KeepService, serviceVars
    <2>2. pc' \in {"recover_resume", "restore", "raised"} /\ w' = "none"
      BY <1>8 DEF Decide, Goto, Fail, At
    <2> QED  BY <1>1, <1>8, <2>1, <2>2
  <1> QED  BY <1>2, <1>3, <1>4, <1>5, <1>6, <1>7, <1>8, BeforeOpening

\* Behind the open gate no startup recovery begins, and the gate stays open.
LEMMA OpenSteps ==
    ASSUME Sound, Gated, Executor, booted
    PROVE  op' # "startup" /\ booted'
  <1>1. op # "startup"
    BY DEF Gated
  <1>2. CASE BeginInstall \/ BeginVerify \/ BeginRecoverClean("recover")
             \/ BeginRecover("recover") \/ Startup
    BY <1>2 DEF BeginInstall, BeginVerify, BeginRecoverClean, BeginRecover, Startup, Acquire
  <1>3. CASE OrphanEnds \/ JavaSteps \/ JavaFaults \/ Raise \/ HelperDies
    BY <1>1, <1>3 DEF OrphanEnds, JavaSteps, JavaFaults, KeepExecutor, Raise, HelperDies,
        HelperGone
  <1>4. CASE WriteJournal \/ CheckFails \/ Stop \/ Quiesce \/ ImportChecks \/ CopyStage \/ Import
             \/ SyncStage \/ SyncCanonical \/ LinkRollback \/ Committable \/ Commit
    BY <1>1, <1>4 DEF WriteJournal, CheckFails, Stop, Quiesce, ImportChecks, CopyStage, Import,
        SyncStage, SyncCanonical, LinkRollback, Committable, Commit, Keep, OnlyControl
  <1>5. CASE VerifyCommit \/ Resume \/ AwaitUp \/ Resumed \/ Observe \/ Recheck \/ Cleanup
             \/ Restore
    BY <1>1, <1>5 DEF VerifyCommit, Resume, AwaitUp, Resumed, Observe, Recheck, Cleanup, Restore,
        Keep, OnlyControl
  <1>6. CASE Decide \/ Release
    BY <1>1, <1>6 DEF Decide, Release
  <1> QED  BY <1>2, <1>3, <1>4, <1>5, <1>6 DEF Executor, Step

\* Where a step of the executor leaves the gate.
LEMMA GuardedGate ==
    ASSUME Sound, Gated, Guarded
    PROVE  /\ gate' \in {"open", "blocked", gate}
           /\ gate' = "open" <=> booted'
           /\ gate' = "open" => gate \in {"open", "recover2"}
           /\ gate' = gate /\ gate # "open" /\ gate # "blocked" =>
                  op' = "startup" /\ gate \in {"recover1", "recover2"}
           /\ abc' = abc /\ loose' \subseteq loose
  <1>1. /\ gate' = IF booted' THEN "open" ELSE IF op' = "startup" THEN gate ELSE "blocked"
        /\ gate = "recover1" => ~booted'
        /\ abc' = abc /\ loose' \subseteq loose
    BY DEF Guarded, NextGate, Reachable
  <1>2. CASE booted
    BY <1>1, <1>2, OpenSteps DEF Guarded, Gated
  <1>3. CASE ~booted
    BY <1>1, <1>3, StartupSteps DEF Gated
  <1> QED  BY <1>2, <1>3

\* Nobody runs behind a closed gate but the startup recovery.
LEMMA GatedNext ==
    ASSUME Sound, Gated, [BootNext]_bootVars
    PROVE  Gated'
  <1>1. CASE Aside
    <2>1. /\ svc' = svc /\ keytool' = keytool /\ op' = op /\ pc' = pc /\ w' = w
          /\ booted' = booted /\ lock' = lock
      BY <1>1, AsideRests
    <2>2. CASE gate' = gate
      BY <2>1, <2>2 DEF Gated
    <2>3. CASE gate' # gate
      <3>1. gate' \in {"blocked", "check2"} /\ op = "none" /\ ~booted
        BY <1>1, <2>3 DEF Aside, Own, Fsync, CheckRefuses, InitChowns, InitDone, StartupRefuses,
            bootVars, gateVars, Gated
      <3> QED  BY <2>1, <3>1 DEF Gated, Gates
    <2> QED  BY <2>2, <2>3
  <1>2. CASE Check \/ Owned \/ FirstReturns \/ PowerOn
    <2>1. gate' \in Gates \ {"open", "off"} /\ booted' = booted /\ gate # "open"
      BY <1>2 DEF Check, Owned, FirstReturns, PowerOn, KeepBoot, Gates
    <2>2. op' = "none" /\ svc' = "down" /\ keytool' = None
      BY <1>2, PassesSound DEF AtRest
    <2> QED  BY <2>1, <2>2 DEF Gated
  <1>3. CASE Restart \/ BootLosesPower
    <2>1. /\ ~booted' /\ op' = "none" /\ svc' = "down" /\ keytool' = None
          /\ gate' \in {"check1", "off"} /\ lock' = "free"
      BY <1>3 DEF Restart, BootLosesPower, ContainerRestart, PowerLoss, ContainerStops, HelperGone
    <2> QED  BY <2>1 DEF Gated, Gates
  <1>4. CASE Guarded /\ booted
    BY <1>4, OpenSteps, GuardedGate DEF Guarded, Gated, Gates
  <1>5. CASE Guarded /\ ~booted
    <2>1. gate' \in Gates /\ gate' # "off" /\ (booted' <=> gate' = "open")
      BY <1>5, GuardedGate DEF Gated, Gates
    <2>2. op' = "startup" => ~booted' /\ gate' = gate
      BY <1>5, StartupSteps DEF Guarded, NextGate
    <2> QED  BY <1>5, <2>1, <2>2, StartupSteps DEF Gated
  <1> QED  BY <1>1, <1>2, <1>3, <1>4, <1>5, BootCases

-----------------------------------------------------------------------------
(* Owning and Steady.                                                      *)

\* Before the gate opens, without a startup recovery, files stay as they are.
LEMMA IdleSteps ==
    ASSUME Sound, Gated, Guarded, ~booted, op = "none", gate \notin {"recover1", "recover2"}
    PROVE  /\ dir' = dir /\ disk' = disk /\ unsafe' = unsafe /\ op' = "none" /\ ~booted'
           /\ gate' = "blocked" /\ abc' = abc
  <1>1. HelperDies
    BY BeforeOpening DEF Startup
  <1>2. dir' = dir /\ disk' = disk /\ unsafe' = unsafe /\ op' = "none" /\ booted' = booted
    BY <1>1 DEF HelperDies, HelperGone, filesVars
  <1> QED  BY <1>2 DEF Guarded, NextGate

\* A file of a directory has its name first.
LEMMA FileNames ==
    ASSUME NEW d, NEW f \in Files(d)
    PROVE  f[1] \in {LOCK, JOURNAL, JOURNAL_NEW, CANONICAL} /\ f = File(d, f[1])
  <1>1. PICK name \in {LOCK, JOURNAL, JOURNAL_NEW, CANONICAL} : f = File(d, name)
    BY DEF Files
  <1>2. f[1] = name
    BY <1>1, SMT DEF File
  <1> QED  BY <1>1, <1>2

\* What Owning says of one file that is not durable.
Tracked(f, ds) ==
    /\ f[1] \in {LOCK, JOURNAL, JOURNAL_NEW, CANONICAL}
    /\ f[1] \in {JOURNAL, JOURNAL_NEW} => f[2] # None
    /\ \E d \in ds : f = File(d, f[1])

\* A file of the executor that the visible directory has, and the keystore.
LEMMA OwnTracked ==
    ASSUME NEW name \in AdminFiles \cup {CANONICAL}, dir \in disk
    PROVE  Tracked(File(dir, name), disk) /\ File(dir, name)[1] = name
  <1>1. name \in {LOCK, JOURNAL, JOURNAL_NEW, CANONICAL}
    BY DEF AdminFiles
  <1>2. File(dir, name)[1] = name
    BY <1>1, SMT DEF File
  <1>3. name \in {JOURNAL, JOURNAL_NEW} => File(dir, name)[2] # None
    <2>1. name \in {JOURNAL, JOURNAL_NEW} => exists(name) /\ name # LOCK
      BY DEF AdminFiles, LOCK
    <2>2. name # LOCK => File(dir, name)[2] = dir[name]
      BY SMT DEF File
    <2> QED  BY <2>1, <2>2 DEF exists
  <1> QED  BY <1>1, <1>2, <1>3 DEF Tracked

\* Files that are still reachable stay tracked.
LEMMA ReachableTracked ==
    ASSUME NEW fs, NEW ds, NEW ds2, \A f \in fs : Tracked(f, ds)
    PROVE  \A f \in Reachable(fs, ds2) : Tracked(f, ds2)
  BY FileNames DEF Reachable, Tracked

\* Every file whose owner or mode is not durable is one that may come back.
LEMMA TrackedNext ==
    ASSUME Sound, Gated, Owning, [BootNext]_bootVars
    PROVE  \A f \in loose' : Tracked(f, disk')
  <1>1. dir \in disk /\ \A f \in loose : Tracked(f, disk)
    BY DEF Owning, Tracked, Sound, Known, Typed, FilesOK, Dirs
  <1>2. CASE Own \/ InitChowns
    <2>1. PICK name \in AdminFiles : loose' = loose \cup {File(dir, name)}
      BY <1>2 DEF Own, InitChowns, Owning
    <2>2. disk' = disk
      BY <1>2, AsideRests DEF Aside
    <2> QED  BY <1>1, <2>1, <2>2, OwnTracked
  <1>3. CASE Aside /\ ~(Own \/ InitChowns)
    <2>1. loose' \subseteq loose /\ disk' = disk
      BY <1>3, AsideRests DEF Aside, Fsync, CheckRefuses, InitDone, StartupRefuses, bootVars,
          gateVars
    <2> QED  BY <1>1, <2>1
  <1>4. CASE Check
    <2>1. loose' \subseteq loose \cup {File(dir, CANONICAL)} /\ disk' = disk
      BY <1>4 DEF Check, _normalize_clean_canonical
    <2> QED  BY <1>1, <2>1, OwnTracked
  <1>5. CASE Owned \/ BootLosesPower
    BY <1>1, <1>5, ReachableTracked DEF Owned, BootLosesPower
  <1>6. CASE Guarded
    <2>1. PICK fs \in SUBSET loose : loose' = Reachable(fs, disk')
      BY <1>6 DEF Guarded
    <2> QED  BY <1>1, <2>1, ReachableTracked
  <1>7. CASE FirstReturns \/ Restart
    <2>1. loose' = loose /\ disk' = disk
      BY <1>7 DEF FirstReturns, Restart, ContainerRestart, filesVars
    <2> QED  BY <1>1, <2>1
  <1>8. CASE PowerOn
    BY <1>8 DEF PowerOn
  <1> QED  BY <1>2, <1>3, <1>4, <1>5, <1>6, <1>7, <1>8, BootCases

\* The names that abc owns, behind each gate.
LEMMA OwnersNext ==
    ASSUME Sound, Gated, Owning, [BootNext]_bootVars
    PROVE  /\ gate' # "off" => abc' \subseteq AdminFiles'
           /\ gate' \in {"recover1", "recover2", "open"} => abc' = {}
           /\ gate' = "check2" => abc' = AdminFiles'
  <1>1. ASSUME dir' = dir PROVE AdminFiles' = AdminFiles
    BY <1>1 DEF AdminFiles, exists
  <1>2. CASE Aside
    <2>1. AdminFiles' = AdminFiles
      BY <1>1, <1>2, AsideRests
    <2>2. CASE Own \/ InitChowns
      BY <2>1, <2>2 DEF Own, InitChowns, Owning
    <2>3. CASE Fsync \/ UNCHANGED bootVars
      BY <2>1, <2>3 DEF Fsync, bootVars, gateVars, Owning
    <2>4. CASE CheckRefuses \/ InitDone \/ StartupRefuses
      BY <2>1, <2>4 DEF CheckRefuses, InitDone, StartupRefuses, Owning
    <2> QED  BY <1>2, <2>2, <2>3, <2>4 DEF Aside
  <1>3. CASE Check \/ Owned \/ FirstReturns
    <2>1. AdminFiles' = AdminFiles
      BY <1>1, <1>3, PassesSound DEF AtRest
    <2> QED  BY <1>3, <2>1 DEF Check, Owned, FirstReturns, Owning
  <1>4. CASE PowerOn
    <2>1. AdminFiles' = AdminFiles
      BY <1>1, <1>4, PassesSound DEF AtRest
    <2> QED  BY <1>4, <2>1 DEF PowerOn
  <1>5. CASE Restart
    <2>1. AdminFiles' = AdminFiles
      BY <1>1, <1>5 DEF Restart, ContainerRestart, filesVars
    <2> QED  BY <1>5, <2>1 DEF Restart, Owning
  <1>6. CASE BootLosesPower
    BY <1>6 DEF BootLosesPower
  <1>7. CASE Guarded /\ gate \in {"recover1", "recover2", "open"}
    <2>1. abc' = {} /\ gate' # "check2"
      BY <1>7, GuardedGate DEF Owning
    <2> QED  BY <2>1
  <1>8. CASE Guarded /\ gate \notin {"recover1", "recover2", "open"}
    <2>1. ~booted /\ op = "none"
      BY <1>8 DEF Gated
    <2>2. gate' = "blocked" /\ abc' = abc /\ AdminFiles' = AdminFiles
      BY <1>1, <1>8, <2>1, IdleSteps
    <2>3. gate # "off"
      <3>1. HelperDies
        BY <1>8, <2>1, BeforeOpening DEF Startup
      <3> QED  BY <2>1, <3>1 DEF HelperDies, Gated
    <2> QED  BY <2>2, <2>3 DEF Owning
  <1> QED  BY <1>2, <1>3, <1>4, <1>5, <1>6, <1>7, <1>8, BootCases

\* Once the second ownership pass is through, no file of the executor is left
\* whose owner a power loss may undo.
LEMMA OwningNext ==
    ASSUME Sound, Gated, Owning, Steady, [BootNext]_bootVars
    PROVE  Owning'
  <1>1. ASSUME gate \in {"check2", "own2"}, NEW f \in loose
        PROVE  f = File(dir, f[1]) /\ (f[1] = CANONICAL \/ f[1] \in AdminFiles)
    <2>1. disk = {dir}
      BY <1>1 DEF Steady, Left
    <2>2. /\ f[1] \in {LOCK, JOURNAL, JOURNAL_NEW, CANONICAL}
          /\ f[1] \in {JOURNAL, JOURNAL_NEW} => f[2] # None
          /\ f = File(dir, f[1])
      BY <1>1, <2>1 DEF Owning
    <2>3. f[1] \in {JOURNAL, JOURNAL_NEW} => dir[f[1]] # None
      <3>1. f[1] \in {JOURNAL, JOURNAL_NEW} => f[1] # LOCK
        BY DEF LOCK
      <3>2. f[1] # LOCK => File(dir, f[1])[2] = dir[f[1]]
        BY SMT DEF File
      <3> QED  BY <2>2, <3>1, <3>2
    <2> QED  BY <2>2, <2>3 DEF AdminFiles, exists
  <1>2. gate' = "own2" => \A f \in loose' : f[1] \in abc' \cup {CANONICAL} \/ f \in syncing'
    <2>1. CASE Check
      <3>1. gate' = "own2" =>
                /\ gate = "check2" /\ abc = AdminFiles /\ abc' = abc
                /\ loose' \subseteq loose \cup {File(dir, CANONICAL)}
        BY <2>1 DEF Check, _normalize_clean_canonical, Owning
      <3>2. File(dir, CANONICAL)[1] = CANONICAL
        BY SMT DEF File
      <3> QED  BY <1>1, <3>1, <3>2
    <2>2. CASE Own
      <3>1. PICK name \in abc :
                /\ abc' = abc \ {name} /\ loose' = loose \cup {File(dir, name)}
                /\ syncing' = {File(dir, name)} /\ gate' = gate /\ syncing = {}
        BY <2>2 DEF Own
      <3> QED  BY <1>1, <3>1 DEF Owning
    <2>3. CASE Fsync \/ UNCHANGED bootVars
      BY <2>3 DEF Fsync, bootVars, gateVars, Owning
    <2>4. CASE Guarded
      BY <2>4, GuardedGate
    <2>5. CASE CheckRefuses \/ InitChowns \/ InitDone \/ StartupRefuses \/ Owned \/ FirstReturns
               \/ Restart \/ BootLosesPower \/ PowerOn
      BY <2>5 DEF CheckRefuses, InitChowns, InitDone, StartupRefuses, Owned, FirstReturns, Restart,
          BootLosesPower, PowerOn
    <2> QED  BY <2>1, <2>2, <2>3, <2>4, <2>5, BootCases DEF Aside
  <1>3. gate' \in {"recover2", "open"} => \A f \in loose' : f[1] = CANONICAL
    <2>1. CASE Owned
      BY <2>1 DEF Owned, Owning, Reachable
    <2>2. CASE Guarded
      BY <2>2, GuardedGate DEF Owning
    <2>3. CASE UNCHANGED bootVars \/ Fsync
      BY <2>3 DEF bootVars, gateVars, Owning, Fsync
    <2>4. CASE Own \/ CheckRefuses \/ InitChowns \/ InitDone \/ StartupRefuses \/ Check
               \/ FirstReturns \/ Restart \/ BootLosesPower \/ PowerOn
      BY <2>4 DEF Own, CheckRefuses, InitChowns, InitDone, StartupRefuses, Check, FirstReturns,
          Restart, BootLosesPower, PowerOn
    <2> QED  BY <2>1, <2>2, <2>3, <2>4, BootCases DEF Aside
  <1> QED  BY <1>2, <1>3, TrackedNext, OwnersNext DEF Owning, Tracked

\* What is left stays where the directory does.
LEMMA LeftStays ==
    ASSUME Left, dir' = dir, disk' = {dir}
    PROVE  Left'
  BY DEF Left, NoTransaction, exists

\* The second recovery is undecided only where it was before, and has changed
\* nothing.
LEMMA UndecidedSteps ==
    ASSUME Sound, Gated, Guarded, ~booted, Undecided', op' = "startup"
    PROVE  Undecided /\ dir' = dir /\ disk' = disk /\ content' = content
  <1>1. gate' = gate /\ gate = "recover2" /\ pc' \in {"stop", "decide"}
    <2>1. ~booted'
      BY StartupSteps
    <2> QED  BY <2>1 DEF Undecided, Guarded, NextGate
  <1>2. CASE Startup
    BY <1>1, <1>2 DEF Startup, BeginRecoverClean, BeginRecover, Acquire, filesVars, Undecided
  <1>3. CASE op = "startup" /\ Stop
    BY <1>1, <1>3 DEF Stop, At, filesVars, Undecided
  <1>4. CASE op = "startup" /\ WriteJournal
    <2>1. pc \in {"stop", "decide"} /\ w # "none"
      BY <1>1, <1>4 DEF WriteJournal
    <2> QED  BY <1>4, <2>1 DEF Gated
  <1>5. ~(op = "startup" /\ (Resumed \/ Cleanup \/ Restore \/ Resume))
    BY <1>1 DEF Resumed, Cleanup, Restore, Resume, Goto, _phase
  <1>6. ~(op = "startup" /\ (CheckFails \/ Raise \/ Decide))
    BY <1>1 DEF CheckFails, Raise, Decide, Fail, Goto
  <1>7. ~(Release \/ HelperDies)
    BY <1>1 DEF Release, HelperDies, HelperGone, Goto
  <1> QED  BY <1>2, <1>3, <1>4, <1>5, <1>6, <1>7, BeforeOpening

\* The first recovery returns with a pending transaction whole, or with none.
LEMMA FirstLeaves ==
    ASSUME Sound, FirstReturns
    PROVE  Left /\ (exists(JOURNAL) => dir[JOURNAL] = jm)
  <1>1. ReturnsDurably /\ Linking /\ Dirs
    BY ReportedDurable DEF Sound, Reported, Known, Typed, FilesOK
  <1>2. CASE ~exists(JOURNAL)
    BY <1>1, <1>2 DEF ReturnsDurably, FirstReturns, Left
  <1>3. CASE exists(JOURNAL)
    <2>1. /\ disk = {dir} /\ dir[JOURNAL] = jm /\ jm # None /\ jm.phase = PENDING
          /\ dir[CANONICAL] = jm.stage_inode /\ dir[ROLLBACK] = jm.old_inode
      BY <1>1, <1>3 DEF ReturnsDurably, FirstReturns, exists
    <2>2. jm \in LiveJournals /\ jm.commit_possible
      BY <1>1, <2>1, InMemory DEF Sound, SoundJournal, CommitPhases
    <2>3. dir[STAGE] = None
      BY <1>1, <2>1, <2>2 DEF Linking, Dirs
    <2> QED  BY <1>3, <2>1, <2>3 DEF Left, exists
  <1> QED  BY <1>2, <1>3

\* What the first recovery leaves stays until the second decides.
LEMMA SteadyNext ==
    ASSUME Sound, Gated, Steady, [BootNext]_bootVars
    PROVE  Steady'
  <1>1. CASE Aside
    <2>1. dir' = dir /\ disk' = disk /\ op' = op /\ pc' = pc
      BY <1>1, AsideRests
    <2>2. Left => Left'
      BY <2>1, LeftStays DEF Left
    <2>3. gate' = gate \/ gate' = "blocked" \/ (gate = "init" /\ gate' = "check2")
      BY <1>1 DEF Aside, Own, Fsync, CheckRefuses, InitChowns, InitDone, StartupRefuses, bootVars,
          gateVars
    <2> QED  BY <2>1, <2>2, <2>3 DEF Steady, Undecided
  <1>2. CASE Check \/ Owned
    <2>1. dir' = dir /\ (disk' = disk \/ disk' = {dir})
      BY <1>2 DEF Check, Owned, sync_directory, filesVars
    <2>2. gate' \in {"init", "check2", "own2", "recover2"} => gate \in {"check2", "own2"}
      BY <1>2 DEF Check, Owned
    <2>3. Left => Left'
      BY <2>1, LeftStays DEF Left
    <2>4. gate' = "recover1" => disk' = {dir'}
      BY <1>2 DEF Check, Owned, sync_directory
    <2> QED  BY <2>2, <2>3, <2>4 DEF Steady, Undecided
  <1>3. CASE FirstReturns
    <2>1. dir' = dir /\ disk' = disk /\ gate' = "init"
      BY <1>3 DEF FirstReturns, filesVars
    <2> QED  BY <1>3, <2>1, FirstLeaves, LeftStays DEF Steady, Left
  <1>4. CASE Restart \/ BootLosesPower \/ PowerOn
    BY <1>4 DEF Restart, BootLosesPower, PowerOn, Steady, Undecided
  <1>5. CASE Guarded /\ booted
    BY <1>5, OpenSteps DEF Guarded, NextGate, Steady, Undecided
  <1>6. CASE Guarded /\ ~booted /\ op' = "startup"
    <2>1. gate' \in {"recover1", "recover2"}
      BY <1>6, StartupSteps DEF Guarded, NextGate
    <2>2. Undecided' => Left'
      BY <1>6, UndecidedSteps, LeftStays DEF Steady, Left
    <2> QED  BY <1>6, <2>1, <2>2 DEF Steady
  <1>7. CASE Guarded /\ ~booted /\ op' # "startup"
    BY <1>7 DEF Guarded, NextGate, Steady, Undecided
  <1> QED  BY <1>1, <1>2, <1>3, <1>4, <1>5, <1>6, <1>7, BootCases

-----------------------------------------------------------------------------
(* Agreed.                                                                 *)

\* A startup recovery that has decided for the issued keystore.
Chosen ==
    /\ op = "startup"
    /\ \/ pc \in {"recover_resume", "resumed"} /\ outcome = PENDING
       \/ pc = "returned" /\ (w # "none" \/ exists(JOURNAL))

\* It decides so when it has read both keystores.
LEMMA DecideReads ==
    ASSUME Sound, Decide, op = "startup", Chosen'
    PROVE  Holds(jm)'
  <1>1. jm' = jm /\ content' = content
    BY DEF Chosen, Decide, Goto, Fail, filesVars
  <1>2. PICK found \in {collect(CANONICAL), Junk} : IsIssued(found)
    BY DEF Chosen, Decide, Goto, Fail, PENDING
  <1>3. jm \in Journals /\ jm.issued # Junk
    <2>1. jm \in LiveJournals /\ jm \in Journals
      <3>1. jm # None
        BY DEF Sound, Known, Control, Decide, At
      <3> QED  BY <3>1 DEF LiveJournals, Sound, Known, Typed, ControlOK
    <2>2. jm.issued \in Certs \cup {None}
      BY <2>1, SMT DEF Journals
    <2> QED  BY <2>1, <2>2, ModelValues
  <1>4. found = collect(CANONICAL) /\ found = jm.issued /\ dir[CANONICAL] = jm.stage_inode
    BY <1>2, <1>3 DEF IsIssued
  <1>5. exists(ROLLBACK) /\ RollbackAcceptable
    BY <1>2 DEF IsIssued, Decide, At, Checks
  <1>6. dir[ROLLBACK] = jm.old_inode /\ collect(ROLLBACK) = jm.old
    BY <1>5 DEF RollbackAcceptable
  <1> QED  BY <1>1, <1>4, <1>6 DEF Holds, collect

\* What it has read stays until it returns.
LEMMA ChosenNext ==
    ASSUME Sound, Gated, Guarded, ~booted, Chosen', Chosen => Holds(jm)
    PROVE  Holds(jm)'
  <1>1. op' = "startup" /\ pc' \in {"recover_resume", "resumed", "returned"}
    BY DEF Chosen
  <1>2. CASE Startup
    <2>1. ~BeginRecover("startup")
      BY <1>1 DEF BeginRecover
    <2>2. BeginRecoverClean("startup")
      BY <1>2, <2>1 DEF Startup
    <2>3. op = "none" /\ w' = w /\ pc' = "returned" /\ dir' = dir /\ dir[JOURNAL] = None
      BY <2>2 DEF BeginRecoverClean, Acquire, sync_directory, NoTransaction, exists
    <2>4. w = "none"
      BY <2>3 DEF Sound, Known, Control
    <2> QED  BY <2>3, <2>4 DEF Chosen, exists
  <1>3. CASE op = "startup" /\ WriteJournal
    <2>1. jm' = jm /\ content' = content /\ pc' = pc /\ outcome' = outcome /\ w # "none"
      BY <1>3 DEF WriteJournal, Keep
    <2>2. Chosen
      BY <1>3, <2>1 DEF Chosen
    <2> QED  BY <2>1, <2>2 DEF Holds
  <1>4. CASE op = "startup" /\ Resumed
    <2>1. outcome = PENDING /\ pc = "resumed"
      BY <1>1, <1>4 DEF Resumed, At, _phase, Sound, Known, Control, Typed, ControlOK
    <2>2. jm \in Journals /\ jm' = [jm EXCEPT !.phase = outcome] /\ content' = content
      BY <1>4 DEF Resumed, At, _phase, OnlyControl, filesVars, Sound, Known, Control, Typed,
          ControlOK
    <2>3. /\ jm'.issued = jm.issued /\ jm'.stage_inode = jm.stage_inode
          /\ jm'.old = jm.old /\ jm'.old_inode = jm.old_inode
      BY <2>2, SMT DEF Journals
    <2> QED  BY <1>4, <2>1, <2>2, <2>3 DEF Chosen, Holds
  <1>5. CASE op = "startup" /\ Cleanup
    <2>1. pc = "sync_journal" /\ w' = "none" /\ dir'[JOURNAL] = None
      BY <1>1, <1>5 DEF Cleanup, At, Goto, sync_directory, Sound, Reported, Closing
    <2>2. pc' = "returned"
      BY <1>5, <2>1 DEF Cleanup, At, Goto
    <2> QED  BY <2>1, <2>2 DEF Chosen, exists
  <1>6. CASE op = "startup" /\ Decide
    BY <1>6, DecideReads
  <1>7. CASE op = "startup" /\ Restore
    <2>1. pc = "restored" /\ outcome' = outcome /\ pc' = "recover_resume"
      BY <1>1, <1>7 DEF Restore, At, Goto, Keep
    <2>2. outcome = "recovered_old"
      BY <2>1 DEF Sound, Known, AtPoint, Deciding
    <2> QED  BY <2>1, <2>2 DEF Chosen, PENDING
  <1>8. CASE op = "startup" /\ Resume /\ pc = "recover_resume"
    <2>1. jm' = jm /\ content' = content /\ outcome' = outcome /\ pc' = "resumed"
      BY <1>8 DEF Resume, Goto, Keep, filesVars
    <2>2. Chosen
      BY <1>8, <2>1 DEF Chosen
    <2> QED  BY <2>1, <2>2 DEF Holds
  <1>9. ~(Release \/ HelperDies)
    BY <1>1 DEF Release, HelperDies, HelperGone, Goto
  <1>10. ~(op = "startup" /\ (CheckFails \/ Raise \/ Stop))
    BY <1>1 DEF CheckFails, Raise, Stop, Fail, Goto
  <1> QED  BY <1>2, <1>3, <1>4, <1>5, <1>6, <1>7, <1>8, <1>9, <1>10, BeforeOpening

\* The pending transaction that the first recovery leaves, or none.
Remembered == exists(JOURNAL) => Holds(dir[JOURNAL])

\* What the first recovery has read the second one will read.
LEMMA AgreedNext ==
    ASSUME Sound, Gated, Gated', Agreed, [BootNext]_bootVars
    PROVE  Agreed'
  <1>1. (Chosen => Holds(jm)) /\ (gate \in {"init", "check2", "own2"} \/ Undecided => Remembered)
    BY DEF Agreed, Chosen, Remembered
  <1> SUFFICES /\ Chosen' => Holds(jm)'
               /\ gate' \in {"init", "check2", "own2"} \/ Undecided' => Remembered'
    BY DEF Agreed, Chosen, Remembered
  <1>2. ASSUME dir' = dir, content' = content, Remembered
        PROVE  Remembered'
    BY <1>2 DEF Remembered, Holds, exists
  <1>3. CASE Aside
    <2>1. /\ dir' = dir /\ content' = content /\ op' = op /\ pc' = pc /\ w' = w /\ jm' = jm
          /\ outcome' = outcome
      BY <1>3, AsideRests
    <2>2. gate' = gate \/ gate' = "blocked" \/ (gate = "init" /\ gate' = "check2")
      BY <1>3 DEF Aside, Own, Fsync, CheckRefuses, InitChowns, InitDone, StartupRefuses, bootVars,
          gateVars
    <2>3. (Chosen' => Chosen) /\ (Holds(jm) => Holds(jm)')
      BY <2>1 DEF Chosen, Holds, exists
    <2> QED  BY <1>1, <1>2, <2>1, <2>2, <2>3 DEF Undecided
  <1>4. CASE Check \/ Owned
    <2>1. dir' = dir /\ content' = content /\ op' = "none"
      BY <1>4, PassesSound DEF AtRest
    <2>2. gate' \in {"init", "check2", "own2", "recover2"} => gate \in {"init", "check2", "own2"}
      BY <1>4 DEF Check, Owned
    <2> QED  BY <1>1, <1>2, <2>1, <2>2 DEF Chosen, Undecided
  <1>5. CASE FirstReturns
    <2>1. dir' = dir /\ content' = content /\ op' = "none" /\ pc = "returned"
      BY <1>5 DEF FirstReturns, filesVars
    <2>2. op = "startup"
      BY <1>5, <2>1 DEF FirstReturns, Gated, Sound, Known, Control
    <2>3. Remembered
      BY <1>1, <1>5, <2>1, <2>2, FirstLeaves DEF Chosen, Remembered
    <2> QED  BY <1>2, <2>1, <2>3 DEF Chosen
  <1>6. CASE Restart \/ BootLosesPower \/ PowerOn
    <2>1. gate' \in {"check1", "off"}
      BY <1>6 DEF Restart, BootLosesPower, PowerOn
    <2> QED  BY <2>1 DEF Chosen, Undecided, Gated
  <1>7. CASE Guarded /\ booted
    BY <1>7, OpenSteps DEF Guarded, NextGate, Chosen, Undecided
  <1>8. CASE Guarded /\ ~booted /\ op' # "startup"
    BY <1>8 DEF Guarded, NextGate, Chosen, Undecided
  <1>9. CASE Guarded /\ ~booted /\ op' = "startup"
    <2>1. Chosen' => Holds(jm)'
      BY <1>1, <1>9, ChosenNext
    <2>2. gate' \in {"recover1", "recover2"}
      BY <1>9 DEF Gated
    <2>3. Undecided' => Remembered'
      BY <1>1, <1>2, <1>9, UndecidedSteps
    <2> QED  BY <2>1, <2>2, <2>3
  <1> QED  BY <1>3, <1>4, <1>5, <1>6, <1>7, <1>8, <1>9, BootCases

-----------------------------------------------------------------------------
(* Private.                                                                *)

\* A mode that is durable stays so.
LEMMA FirmNext ==
    ASSUME Sound, Sound', Gated, Owning, Firm, [BootNext]_bootVars
    PROVE  Firm'
  <1>1. CASE Guarded \/ Restart \/ BootLosesPower
    <2>1. Usable'
      BY <1>1, ExecutorSteps, ReportedNext DEF Sound, Firm
    <2>2. loose' \subseteq loose
      BY <1>1 DEF Guarded, Restart, BootLosesPower, Reachable
    <2> QED  BY <2>1, <2>2 DEF Firm
  <1>2. CASE Aside
    <2>1. Usable'
      BY <1>2, AsideRests DEF Firm, Usable
    <2>2. CASE Own \/ InitChowns
      <3>1. PICK name \in AdminFiles : loose' = loose \cup {File(dir, name)}
        BY <2>2 DEF Own, InitChowns, Owning
      <3>2. File(dir, name)[1] = name
        BY SMT DEF File
      <3>3. name # CANONICAL
        BY DEF AdminFiles, LOCK
      <3> QED  BY <2>1, <3>1, <3>2, <3>3 DEF Firm
    <2>3. CASE ~(Own \/ InitChowns)
      <3>1. loose' \subseteq loose
        BY <1>2, <2>3 DEF Aside, Fsync, CheckRefuses, InitDone, StartupRefuses, bootVars, gateVars
      <3> QED  BY <2>1, <3>1 DEF Firm
    <2> QED  BY <2>2, <2>3
  <1>3. CASE Check
    <2>1. dir[CANONICAL] \notin unsafe
      BY DEF Firm, Usable, Sound, Known, Typed, FilesOK, Dirs
    <2>2. unsafe' = unsafe /\ loose' = loose /\ disk' = disk
      BY <1>3, <2>1 DEF Check, _normalize_clean_canonical
    <2> QED  BY <2>2 DEF Firm, Usable
  <1>4. CASE Owned \/ FirstReturns
    <2>1. disk' \subseteq disk
      BY <1>4, PassesSound DEF AtRest
    <2>2. unsafe' = unsafe /\ loose' \subseteq loose
      BY <1>4 DEF Owned, FirstReturns, filesVars, Reachable
    <2> QED  BY <2>1, <2>2 DEF Firm, Usable
  <1>5. CASE PowerOn
    <2>1. PICK kept \in SUBSET loose :
              unsafe' = unsafe \cup {i \in Inodes : <<CANONICAL, i>> \in kept}
      BY <1>5 DEF PowerOn
    <2>2. \A i : <<CANONICAL, i>>[1] = CANONICAL
      BY SMT
    <2>3. unsafe' \subseteq unsafe
      BY <2>1, <2>2 DEF Firm
    <2>4. disk' = disk /\ loose' = {}
      BY <1>5 DEF PowerOn
    <2> QED  BY <2>3, <2>4 DEF Firm, Usable
  <1> QED  BY <1>1, <1>2, <1>3, <1>4, <1>5, BootCases

\* Steps that change no keystore name link no rollback.
LEMMA UntriedRests ==
    ASSUME Untried, SameNames, SameJournal, dir \in disk, pc' # "link"
    PROVE  Untried'
  <1>1. \A j \in LiveJournals' : ~j.commit_possible
    BY LiveDescend DEF Untried, Descends
  <1>2. \A e \in disk' : e[ROLLBACK] = None
    BY DEF Untried, SameNames, SameKeystores
  <1> QED  BY <1>1, <1>2 DEF Untried

\* The fsync of the canonical keystore makes its mode durable.
LEMMA SyncCanonicalFirm ==
    ASSUME Sound, Untried, Guarded, SyncCanonical
    PROVE  Firm'
  <1>1. /\ pc = "sync_canonical" /\ pc' = "link" /\ op = "install"
        /\ disk' = disk /\ unsafe' = unsafe /\ dir \in disk
    BY DEF SyncCanonical, At, Goto, Sound, Known, Control, InstallLabels, Typed, FilesOK, Dirs
  <1>2. dir[CANONICAL] \notin unsafe
    BY <1>1 DEF SyncCanonical, At, Checks, CanonicalIs, status
  <1>3. \A d \in disk : d[CANONICAL] = dir[CANONICAL]
    BY <1>1 DEF Sound, Known, AtPoint, Installing, Unlinked
  <1>4. None \notin unsafe
    BY ModelValues DEF Sound, Known, Typed, FilesOK
  <1>5. Usable'
    BY <1>1, <1>2, <1>3, <1>4 DEF Usable, Untried
  <1>6. \A f \in loose' : f[1] # CANONICAL
    BY <1>1 DEF Guarded, Reachable, Resynced
  <1> QED  BY <1>5, <1>6 DEF Firm

\* Where no rollback was linked, none is, or the mode has become durable.
LEMMA UntriedInstall ==
    ASSUME Sound, Untried,
           BeginInstall \/ CopyStage \/ Import \/ LinkRollback \/ Committable \/ Commit
    PROVE  Untried'
  <1>1. dir \in disk /\ Dirs
    BY DEF Sound, Known, Typed, FilesOK, Dirs
  <1>2. CASE BeginInstall
    <2>1. disk' = disk /\ pc' = "stop" /\ jm'.commit_possible = FALSE
      BY <1>2 DEF BeginInstall, _phase, filesVars
    <2> QED  BY <2>1 DEF Untried, LiveJournals, ReadableJournals
  <1>3. CASE CopyStage
    <2>1. /\ pc \in {"create_stage", "chown_stage", "copy_stage"} /\ w = "none"
          /\ pc' \in {"chown_stage", "copy_stage", "import"} /\ op = "install"
      BY <1>3 DEF CopyStage, At, Goto, _phase, Sound, Known, Control, InstallLabels
    <2>2. jm # None /\ jm \in Journals /\ jm \in LiveJournals
      BY <2>1, InMemory DEF Sound, Known, Control
    <2>3. jm' = jm \/ jm' = [jm EXCEPT !.stage_inode = dir[STAGE]]
      BY <1>3 DEF CopyStage, Goto, _phase
    <2>4. Descends(jm', jm)
      <3>1. ~jm.commit_possible /\ Descends(jm, jm)
        BY <2>2 DEF Untried, Descends
      <3>2. Descends([jm EXCEPT !.stage_inode = dir[STAGE]], jm)
        BY <2>2, <3>1, Updates
      <3> QED  BY <2>3, <3>1, <3>2
    <2>5. CASE pc # "create_stage"
      <3>1. disk' = disk
        BY <1>3, <2>5 DEF CopyStage, At, ChownStage, copy_stage
      <3> QED  BY <1>1, <2>1, <2>2, <2>4, <3>1, FewerNames, UntriedRests DEF SameJournal
    <2>6. CASE pc = "create_stage"
      <3>1. jm' = jm /\ \E i \in Inodes : Put(STAGE, i)
        BY <1>3, <2>6 DEF CopyStage, At, Goto, CreateStage
      <3>2. \A e \in disk' : \E d \in disk : e = d \/ Agree(d, e, {STAGE})
        BY <1>1, <3>1, PutEffect
      <3>3. \A e \in disk' : \E d \in disk : e[ROLLBACK] = d[ROLLBACK] /\ e[JOURNAL] = d[JOURNAL]
        BY <3>2, SMT DEF Agree
      <3>4. LiveJournals' \subseteq LiveJournals
        BY <3>1, <3>3 DEF LiveJournals, ReadableJournals
      <3> QED  BY <2>1, <3>3, <3>4 DEF Untried
    <2> QED  BY <2>5, <2>6
  <1>4. CASE Import
    <2>1. disk' = disk /\ jm' = jm /\ pc' # "link"
      BY <1>4 DEF Import, Goto
    <2> QED  BY <2>1 DEF Untried, LiveJournals, ReadableJournals
  <1>5. ~(LinkRollback \/ Committable \/ Commit)
    <2>1. ASSUME pc \in {"sync_link", "committable"} PROVE FALSE
      <3>1. op = "install" /\ jm # None
        BY <2>1 DEF Sound, Known, Control, InstallLabels
      <3>2. dir[ROLLBACK] = jm.old_inode
        BY <1>1, <2>1, <3>1 DEF Sound, Known, AtPoint, Installing, Linked
      <3>3. jm.old_inode \in Inodes
        BY <3>1, InMemory, SMT DEF Sound, Journals
      <3> QED  BY <1>1, <3>2, <3>3, ModelValues DEF Untried
    <2>2. ASSUME pc \in {"commit", "sync_commit"} PROVE FALSE
      <3>1. op = "install" /\ jm # None /\ jm.commit_possible
        BY <2>2 DEF Sound, Known, Control, InstallLabels, AtPoint, Installing, Committed
      <3> QED  BY <3>1 DEF Untried, LiveJournals
    <2> QED  BY <2>1, <2>2 DEF LinkRollback, Committable, Commit, At, Untried
  <1> QED  BY <1>2, <1>3, <1>4, <1>5

\* Likewise in a recovery, a verification and at rest.
LEMMA UntriedOthers ==
    ASSUME Sound, Untried, Executor, ~SyncCanonical,
           ~(BeginInstall \/ CopyStage \/ Import \/ LinkRollback \/ Committable \/ Commit)
    PROVE  Untried'
  <1>1. dir \in disk /\ Known
    BY DEF Sound, Known, Typed, FilesOK, Dirs
  <1>2. CASE WriteJournal
    BY <1>1, <1>2, WriteJournalNames, UntriedRests DEF LinksRest, WriteJournal, Untried
  <1>3. CASE CheckFails \/ Raise
    BY <1>1, <1>3, ExceptionNames, UntriedRests DEF LinksRest, CheckFails, Raise, Fail, _phase
  <1>4. CASE Stop \/ Observe \/ Resume \/ AwaitUp \/ Release
    <2>1. pc' # "link"
      BY <1>4 DEF Stop, Observe, Resume, AwaitUp, Release, Goto
    <2> QED  BY <1>1, <1>4, <2>1, ControlNames, UntriedRests DEF LinksRest
  <1>5. CASE Quiesce \/ ImportChecks \/ VerifyCommit \/ Resumed \/ Recheck \/ SyncStage
    <2>1. pc' # "link"
      BY <1>5 DEF Quiesce, ImportChecks, VerifyCommit, Resumed, Recheck, SyncStage, _phase
    <2> QED  BY <1>1, <1>5, <2>1, PhaseNames, UntriedRests DEF LinksRest
  <1>6. CASE Decide \/ JavaSteps \/ JavaFaults \/ OrphanEnds
    <2>1. pc' # "link"
      BY <1>6 DEF Decide, JavaSteps, JavaFaults, OrphanEnds, KeepExecutor, Goto, Fail, _phase,
          Untried
    <2> QED  BY <1>1, <1>6, <2>1, OtherNames, UntriedRests DEF LinksRest
  <1>7. CASE BeginVerify \/ BeginRecovery \/ HelperDies
    <2>1. pc' # "link"
      BY <1>7 DEF BeginVerify, BeginRecovery, BeginRecover, BeginRecoverClean, HelperDies,
          HelperGone
    <2> QED  BY <1>1, <1>7, <2>1, BeginNames, UntriedRests DEF LinksRest
  <1>8. CASE Restore
    <2>1. jm' = jm /\ pc' # "link" /\ jm # None
      BY <1>8 DEF Restore, Goto, At, Sound, Known, Control
    <2>2. pc # "restore"
      BY <2>1 DEF Untried, LiveJournals, Sound, Known, AtPoint, Deciding
    <2>3. disk' = {dir} \/ disk' = disk
      BY <1>8, <2>2 DEF Restore, At, sync_directory
    <2>4. disk' \subseteq disk
      BY <1>1, <2>3
    <2> QED  BY <1>1, <2>1, <2>4, FewerNames, UntriedRests DEF SameJournal, Descends
  <1>9. CASE Cleanup
    BY <1>1, <1>9, CleanupWithdraws DEF Withdraws, Untried, Cleanup, Goto
  <1> QED  BY <1>2, <1>3, <1>4, <1>5, <1>6, <1>7, <1>8, <1>9
           DEF Executor, Startup, BeginRecovery, Step

\* The mode of the canonical keystore is durable before a rollback is linked.
LEMMA PrivateNext ==
    ASSUME Sound, Sound', Gated, Owning, Private, [BootNext]_bootVars
    PROVE  Private'
  <1>1. CASE Firm
    BY <1>1, FirmNext DEF Private
  <1>2. CASE Untried /\ Guarded
    BY <1>2, SyncCanonicalFirm, UntriedInstall, UntriedOthers DEF Private, Guarded
  <1>3. CASE Untried /\ (Restart \/ BootLosesPower)
    <2>1. SameNames /\ SameJournal /\ pc' = "idle"
      BY <1>3, BeginNames DEF Sound, LinksRest, Restart, BootLosesPower, ContainerRestart,
          PowerLoss, ContainerStops, HelperGone
    <2>2. dir \in disk
      BY DEF Sound, Known, Typed, FilesOK, Dirs
    <2> QED  BY <1>3, <2>1, <2>2, UntriedRests DEF Private
  <1>4. CASE Untried /\ Aside
    <2>1. disk' = disk /\ jm' = jm /\ pc' = pc
      BY <1>4, AsideRests
    <2>2. LiveJournals' = LiveJournals
      BY <2>1 DEF LiveJournals, ReadableJournals
    <2> QED  BY <1>4, <2>1, <2>2 DEF Private, Untried
  <1>5. CASE Untried /\ (Check \/ Owned \/ FirstReturns \/ PowerOn)
    <2>1. disk' \subseteq disk /\ jm' = None /\ pc' = "idle"
      BY <1>5, PassesSound DEF AtRest
    <2>2. dir \in disk
      BY DEF Sound, Known, Typed, FilesOK, Dirs
    <2> QED  BY <1>5, <2>1, <2>2, FewerNames, UntriedRests DEF Private, SameJournal
  <1> QED  BY <1>1, <1>2, <1>3, <1>4, <1>5, BootCases DEF Private

-----------------------------------------------------------------------------
(* Exposed.                                                                *)

\* A file of the executor is abc's, or may be, only where one was before, or
\* because LinuxServer's init has just given it away.
LEMMA LoosenedBefore ==
    ASSUME Gated, Owning, Loosened', [BootNext]_bootVars
    PROVE  Loosened \/ InitChowns
  <1>1. \A name : File(dir, name)[1] = name
    BY SMT DEF File
  <1>2. CASE abc' \subseteq abc /\ loose' \subseteq loose \cup {File(dir, CANONICAL)}
    BY <1>1, <1>2 DEF Loosened
  <1>3. CASE Guarded \/ Restart \/ BootLosesPower \/ Check \/ Owned \/ FirstReturns \/ Fsync
             \/ CheckRefuses \/ InitDone \/ StartupRefuses \/ UNCHANGED bootVars
    <2>1. abc' = abc
      BY <1>3 DEF Guarded, Restart, BootLosesPower, Check, Owned, FirstReturns, Fsync,
          CheckRefuses, InitDone, StartupRefuses, bootVars, gateVars
    <2>2. loose' \subseteq loose \cup {File(dir, CANONICAL)}
      BY <1>3 DEF Guarded, Restart, BootLosesPower, Check, _normalize_clean_canonical, Owned,
          FirstReturns, Fsync, CheckRefuses, InitDone, StartupRefuses, bootVars, gateVars,
          Reachable
    <2> QED  BY <1>2, <2>1, <2>2
  <1>4. CASE Own
    BY <1>4 DEF Own, Loosened
  <1>5. CASE PowerOn
    <2>1. PICK kept \in SUBSET loose :
              abc' = {name \in AdminFiles : \/ File(dir, name) \in kept
                                            \/ name \in abc /\ File(dir, name) \notin loose}
      BY <1>5 DEF PowerOn
    <2>2. \A name \in AdminFiles : name # CANONICAL
      BY DEF AdminFiles, LOCK
    <2>3. loose' = {}
      BY <1>5 DEF PowerOn
    <2> QED  BY <1>1, <2>1, <2>2, <2>3 DEF Loosened
  <1> QED  BY <1>3, <1>4, <1>5, BootCases DEF Aside

\* What the first recovery leaves may be given away.
LEMMA LeftExposable ==
    ASSUME Sound, Left
    PROVE  \A d \in disk : Exposable(d)
  <1>1. CASE NoTransaction
    <2>1. /\ dir[STAGE] = None /\ dir[ROLLBACK] = None
          /\ dir[JOURNAL] = None /\ dir[JOURNAL_NEW] = None
      BY <1>1 DEF NoTransaction, exists
    <2> QED  BY <2>1 DEF Left, Exposable
  <1>2. CASE exists(JOURNAL)
    <2>1. dir[JOURNAL] \in LiveJournals
      BY <1>2 DEF Left, LiveJournals, ReadableJournals, exists
    <2>2. dir[JOURNAL].phase = PENDING => dir[JOURNAL].commit_possible
      BY <2>1 DEF Sound, Known, OnDisk, Paired, SoundJournal, CommitPhases
    <2>3. ~NoTransaction
      BY <1>2 DEF NoTransaction
    <2> QED  BY <1>2, <2>2, <2>3 DEF Left, exists, Exposable
  <1> QED  BY <1>1, <1>2 DEF Left

\* Beside a journal, the temporary journal does not matter.
LEMMA ExposableSame ==
    ASSUME NEW d, NEW e, Exposable(d), d[JOURNAL] # None,
           e[CANONICAL] = d[CANONICAL], e[ROLLBACK] = d[ROLLBACK],
           e[STAGE] = d[STAGE], e[JOURNAL] = d[JOURNAL]
    PROVE  Exposable(e) /\ e[JOURNAL] # None
  BY DEF Exposable

\* What a step of the recovery shows.
LEMMA ExposedBy ==
    ASSUME \A e \in disk' : Exposable(e),
           op' = "startup" =>
               /\ pc' \notin {"sync_restore", "raised"} =>
                      \A e \in disk' : /\ e[CANONICAL] = dir'[CANONICAL]
                                       /\ e[ROLLBACK] = dir'[ROLLBACK]
               /\ jm' # None =>
                      /\ jm'.commit_possible
                      /\ \/ pc' \in {"sync_journal", "raised"} \/ (pc' = "returned" /\ w' = "none")
                         \/ \A e \in disk' : e[JOURNAL] # None
    PROVE  Exposed'
  BY DEF Exposed, Aligned, Ended

\* A startup recovery over a directory that was given away.
Overlooked == op = "startup" /\ Loosened /\ Sound /\ Gated /\ Exposed

\* What it knows of the journals that a power loss may bring back.
LEMMA OverlookedJournals ==
    ASSUME Overlooked, jm # None, ~Ended
    PROVE  /\ jm \in Journals /\ SoundJournal(jm) /\ jm.commit_possible
           /\ jm.stage_inode # jm.old_inode /\ jm.old_inode # None
           /\ \A d \in disk : /\ Exposable(d) /\ d[JOURNAL] # None
                              /\ d[JOURNAL].old_inode = jm.old_inode
                              /\ d[JOURNAL].stage_inode # jm.old_inode
           /\ dir \in disk /\ Dirs
  <1>1. jm \in Journals /\ SoundJournal(jm) /\ jm \in LiveJournals /\ jm.commit_possible
    BY InMemory DEF Overlooked, Sound, Exposed
  <1>2. jm.rollback_expected /\ jm.stage_inode # jm.old_inode
    BY <1>1 DEF SoundJournal, ValidJournal
  <1>3. jm.old_inode # None
    <2>1. jm.old_inode \in Inodes
      BY <1>1, SMT DEF Journals
    <2> QED  BY <2>1, ModelValues
  <1>4. ASSUME NEW d \in disk
        PROVE  /\ Exposable(d) /\ d[JOURNAL] # None
               /\ d[JOURNAL].old_inode = jm.old_inode /\ d[JOURNAL].stage_inode # jm.old_inode
    <2>1. Exposable(d) /\ d[JOURNAL] # None /\ d[JOURNAL].commit_possible
      BY DEF Overlooked, Exposed, Exposable
    <2>2. d[JOURNAL] \in LiveJournals
      BY <2>1 DEF LiveJournals, ReadableJournals
    <2>3. SameTransaction(d[JOURNAL], jm)
      BY <1>2, <2>2 DEF Overlooked, Sound, Known, OnDisk, OneTransaction
    <2>4. d[JOURNAL].stage_inode # d[JOURNAL].old_inode
      BY <2>1, <2>2 DEF Overlooked, Sound, Known, OnDisk, Paired, SoundJournal
    <2> QED  BY <2>1, <2>3, <2>4 DEF SameTransaction
  <1>5. dir \in disk /\ Dirs
    BY DEF Overlooked, Sound, Known, Typed, FilesOK, Dirs
  <1> QED  BY <1>1, <1>2, <1>3, <1>4, <1>5

\* The recovery begins with what is durable.
LEMMA StartupExposed ==
    ASSUME Sound, Gated, Steady, Loosened, Exposed, Startup, gate = "recover1"
    PROVE  Exposed'
  <1>1. op = "none" /\ disk = {dir} /\ Exposable(dir)
    BY DEF Startup, BeginRecover, BeginRecoverClean, Acquire, Steady, Exposed
  <1>2. dir' = dir /\ disk' = {dir}
    BY <1>1 DEF Startup, BeginRecover, BeginRecoverClean, sync_directory, filesVars
  <1>3. jm' = None \/ (jm' = dir[JOURNAL] /\ dir[JOURNAL] # None)
    BY DEF Startup, BeginRecover, BeginRecoverClean, exists
  <1>4. dir[JOURNAL] # None => dir[JOURNAL].commit_possible
    BY <1>1 DEF Exposable
  <1> QED  BY <1>1, <1>2, <1>3, <1>4, ExposedBy

\* Steps of the recovery that change no file.
LEMMA QuietExposed ==
    ASSUME Overlooked, CheckFails \/ Raise \/ Stop \/ Decide \/ Resume \/ Resumed \/ Release
    PROVE  Exposed'
  <1>1. dir' = dir /\ disk' = disk
    BY DEF CheckFails, Raise, Stop, Decide, Resume, Resumed, Release, OnlyControl, filesVars
  <1>2. \A e \in disk' : Exposable(e)
    BY <1>1 DEF Overlooked, Exposed
  <1>3. CASE Release
    <2>1. op' = "none"
      BY <1>3 DEF Release, Overlooked, Sound, Known, Control, InstallLabels
    <2> QED  BY <1>2, <2>1, ExposedBy
  <1>4. CASE CheckFails \/ Raise \/ (Decide /\ Fail)
    <2>1. pc' = "raised" /\ jm' = jm
      BY <1>4 DEF CheckFails, Raise, Fail, Overlooked
    <2> QED  BY <1>2, <2>1, ExposedBy DEF Overlooked, Exposed
  <1>5. CASE Stop \/ (Decide /\ ~Fail) \/ Resume \/ Resumed
    <2>1. pc \in {"stop", "decide", "resume", "recover_resume", "resumed"} /\ w = "none"
      BY <1>5 DEF Stop, Decide, Resume, Resumed, At
    <2>2. jm # None /\ ~Ended
      BY <2>1 DEF Overlooked, Sound, Known, Control, Ended
    <2>3. Aligned
      BY <2>1 DEF Overlooked, Exposed
    <2>4. jm'.commit_possible
      <3>1. jm \in Journals /\ jm.commit_possible
        BY <2>2, OverlookedJournals
      <3>2. jm' = jm \/ \E p \in {PENDING, outcome} : jm' = [jm EXCEPT !.phase = p]
        BY <1>5 DEF Stop, Decide, Resume, Resumed, Goto, _phase
      <3>3. Resumed => outcome # "none"
        BY DEF Resumed, At, Overlooked, Sound, Known, Control
      <3>4. outcome # "none" => {PENDING, outcome} \subseteq Phases
        BY DEF Overlooked, Sound, Known, Typed, ControlOK, Phases
      <3>5. ~Resumed => jm' = jm
        BY <1>5 DEF Stop, Decide, Resume, Goto
      <3>6. \A p \in Phases : [jm EXCEPT !.phase = p].commit_possible = jm.commit_possible
        BY <3>1, Updates
      <3>7. jm' = jm \/ \E p \in Phases : jm' = [jm EXCEPT !.phase = p]
        BY <3>2, <3>3, <3>4, <3>5
      <3> QED  BY <3>1, <3>6, <3>7
    <2>5. \A d \in disk : d[JOURNAL] # None
      BY <2>2, OverlookedJournals
    <2> QED  BY <1>1, <1>2, <2>3, <2>4, <2>5, ExposedBy DEF Aligned
  <1> QED  BY <1>3, <1>4, <1>5

\* A journal is replaced: the new one fits every directory.
LEMMA WriteJournalExposed ==
    ASSUME Overlooked, WriteJournal
    PROVE  Exposed'
  <1>1. /\ w \in {"create", "rename", "sync"} /\ pc' = pc /\ jm' = jm /\ op' = op
        /\ pc \in {"remove_stage", "returned"} /\ jm # None /\ ~Ended
    BY DEF WriteJournal, Keep, Overlooked, Gated, Sound, Known, Control, Ended
  <1>2. Aligned
    BY <1>1 DEF Overlooked, Exposed
  <1>3. /\ jm.commit_possible /\ jm.stage_inode # jm.old_inode /\ dir \in disk /\ Dirs
        /\ \A d \in disk : /\ Exposable(d) /\ d[JOURNAL] # None
                           /\ d[JOURNAL].old_inode = jm.old_inode
                           /\ d[JOURNAL].stage_inode # jm.old_inode
    BY <1>1, OverlookedJournals
  <1>4. CASE w = "create"
    <2>1. Put(JOURNAL_NEW, jm)
      BY <1>4 DEF WriteJournal
    <2>2. /\ Agree(dir, dir', {JOURNAL_NEW})
          /\ \A e \in disk' : \E d \in disk : e = d \/ Agree(d, e, {JOURNAL_NEW})
      BY <1>3, <2>1, PutEffect
    <2>3. dir'[CANONICAL] = dir[CANONICAL] /\ dir'[ROLLBACK] = dir[ROLLBACK]
      BY <2>2 DEF Agree
    <2>4. \A e \in disk' : \E d \in disk :
              /\ e[CANONICAL] = d[CANONICAL] /\ e[ROLLBACK] = d[ROLLBACK]
              /\ e[STAGE] = d[STAGE] /\ e[JOURNAL] = d[JOURNAL]
      BY <2>2, SMT DEF Agree
    <2>5. \A e \in disk' : Exposable(e) /\ e[JOURNAL] # None
      BY <1>3, <2>4, ExposableSame
    <2>6. \A e \in disk' : e[CANONICAL] = dir'[CANONICAL] /\ e[ROLLBACK] = dir'[ROLLBACK]
      BY <1>2, <2>3, <2>4 DEF Aligned
    <2> QED  BY <1>1, <1>3, <2>5, <2>6, ExposedBy
  <1>5. CASE w = "rename"
    <2>1. replace(JOURNAL_NEW, JOURNAL) /\ dir[JOURNAL_NEW] = jm
      BY <1>5 DEF WriteJournal, Overlooked, Sound, Known, AtPoint, Writing
    <2>2. /\ Agree(dir, dir', {JOURNAL_NEW, JOURNAL})
          /\ \A e \in disk' : \E d \in disk :
                 \/ e = d
                 \/ e[JOURNAL] = dir[JOURNAL_NEW] /\ Agree(d, e, {JOURNAL_NEW, JOURNAL})
      <3>1. /\ JOURNAL_NEW \in Names /\ JOURNAL \in Names \ {JOURNAL_NEW}
            /\ JOURNAL_NEW \notin Keystores
        OBVIOUS
      <3>2. Dirs
        BY <1>3
      <3>3. Agree(dir, dir', {JOURNAL_NEW, JOURNAL})
        BY <2>1, <3>1, <3>2, ReplaceEffect
      <3>4. \A e \in disk' : \E d \in disk :
                \/ e = d
                \/ e[JOURNAL] = dir[JOURNAL_NEW] /\ Agree(d, e, {JOURNAL_NEW, JOURNAL})
        BY <2>1, <3>1, <3>2, ReplaceEffect
      <3> QED  BY <3>3, <3>4
    <2>3. dir'[CANONICAL] = dir[CANONICAL] /\ dir'[ROLLBACK] = dir[ROLLBACK]
      BY <2>2 DEF Agree
    <2>4. \A e \in disk' : \E d \in disk :
              /\ e[CANONICAL] = d[CANONICAL] /\ e[ROLLBACK] = d[ROLLBACK] /\ e[STAGE] = d[STAGE]
              /\ e = d \/ e[JOURNAL] = jm
      BY <2>1, <2>2, SMT DEF Agree
    <2>5. ASSUME NEW d \in disk
          PROVE  \/ /\ d[CANONICAL] = jm.stage_inode /\ d[ROLLBACK] = jm.old_inode
                    /\ jm.phase = PENDING
                 \/ /\ d[CANONICAL] = jm.old_inode /\ d[ROLLBACK] = None
                    /\ jm.phase \in {PENDING, "recovered_old"}
      <3>1. CASE pc = "returned"
        <4>1. jm.phase = PENDING /\ d[CANONICAL] = jm.stage_inode
          BY <1>2, <1>5, <3>1 DEF Overlooked, Sound, Reported, Returning, Aligned
        <4>2. Fits(d, jm)
          BY <1>1, InMemory DEF Overlooked, Sound
        <4> QED  BY <1>3, <4>1, <4>2 DEF Fits, PENDING
      <3>2. CASE pc = "remove_stage"
        <4>1. jm.phase = "recovered_old" /\ d[CANONICAL] = jm.old_inode
          BY <1>2, <3>2 DEF Overlooked, Sound, Known, AtPoint, Cleaning, Aligned
        <4>2. d[ROLLBACK] = None
          BY <1>3, <4>1 DEF Exposable
        <4> QED  BY <4>1, <4>2
      <3> QED  BY <1>1, <3>1, <3>2
    <2>6. \A e \in disk' : Exposable(e) /\ e[JOURNAL] # None
      <3> SUFFICES ASSUME NEW e \in disk' PROVE Exposable(e) /\ e[JOURNAL] # None
        OBVIOUS
      <3>1. PICK d \in disk :
                /\ e[CANONICAL] = d[CANONICAL] /\ e[ROLLBACK] = d[ROLLBACK] /\ e[STAGE] = d[STAGE]
                /\ e = d \/ e[JOURNAL] = jm
        BY <2>4
      <3>2. CASE e = d
        BY <1>3, <3>2
      <3>3. CASE e[JOURNAL] = jm
        <4>1. d[STAGE] = None
          BY <1>3 DEF Exposable
        <4> QED  BY <1>1, <1>3, <2>5, <3>1, <3>3, <4>1 DEF Exposable
      <3> QED  BY <3>1, <3>2, <3>3
    <2>7. \A e \in disk' : e[CANONICAL] = dir'[CANONICAL] /\ e[ROLLBACK] = dir'[ROLLBACK]
      BY <1>2, <2>3, <2>4 DEF Aligned
    <2> QED  BY <1>1, <1>3, <2>6, <2>7, ExposedBy
  <1>6. CASE w = "sync"
    <2>1. disk' = {dir} /\ dir' = dir
      BY <1>6 DEF WriteJournal, sync_directory
    <2> QED  BY <1>1, <1>3, <2>1, ExposedBy
  <1> QED  BY <1>1, <1>4, <1>5, <1>6

\* The old keystore is restored.
LEMMA RestoreExposed ==
    ASSUME Overlooked, Restore
    PROVE  Exposed'
  <1>1. /\ pc \in {"restore", "sync_restore", "restored"} /\ w = "none" /\ jm' = jm /\ op' = op
        /\ jm # None /\ ~Ended
    BY DEF Restore, Keep, At, Goto, Overlooked, Sound, Known, Control, Ended
  <1>2. /\ jm.commit_possible /\ jm.stage_inode # jm.old_inode /\ dir \in disk /\ Dirs
        /\ jm.old_inode # None
        /\ \A d \in disk : /\ Exposable(d) /\ d[JOURNAL] # None
                           /\ d[JOURNAL].old_inode = jm.old_inode
    BY <1>1, OverlookedJournals
  <1>3. CASE pc = "restore"
    <2>1. /\ replace(ROLLBACK, CANONICAL) /\ pc' = "sync_restore"
          /\ dir[ROLLBACK] = jm.old_inode /\ dir[JOURNAL] = jm
      BY <1>1, <1>3 DEF Restore, At, Goto, Overlooked, Sound, Known, AtPoint, Deciding, Writing
    <2>2. dir[ROLLBACK] # dir[CANONICAL]
      BY <1>2, <2>1 DEF Exposable
    <2>3. \A e \in disk' : \E d \in disk :
              \/ e = d
              \/ /\ e[CANONICAL] = dir[ROLLBACK] /\ e[ROLLBACK] = None
                 /\ Agree(d, e, {ROLLBACK, CANONICAL})
      <3>1. ROLLBACK \in Names /\ CANONICAL \in Names \ {ROLLBACK}
        OBVIOUS
      <3> QED  BY <1>2, <2>1, <2>2, <3>1, ReplaceEffect
    <2>4. \A e \in disk' : \E d \in disk :
              \/ e = d
              \/ /\ e[CANONICAL] = jm.old_inode /\ e[ROLLBACK] = None
                 /\ e[STAGE] = d[STAGE] /\ e[JOURNAL] = d[JOURNAL]
      BY <2>1, <2>3, SMT DEF Agree
    <2>5. \A e \in disk' : Exposable(e) /\ e[JOURNAL] # None
      <3> SUFFICES ASSUME NEW e \in disk' PROVE Exposable(e) /\ e[JOURNAL] # None
        OBVIOUS
      <3>1. PICK d \in disk :
                \/ e = d
                \/ /\ e[CANONICAL] = jm.old_inode /\ e[ROLLBACK] = None
                   /\ e[STAGE] = d[STAGE] /\ e[JOURNAL] = d[JOURNAL]
        BY <2>4
      <3>2. Exposable(d) /\ d[JOURNAL] # None /\ d[JOURNAL].old_inode = jm.old_inode
        BY <1>2
      <3>3. CASE e = d
        BY <3>2, <3>3
      <3>4. CASE e # d
        <4>1. /\ e[CANONICAL] = jm.old_inode /\ e[ROLLBACK] = None
              /\ e[STAGE] = d[STAGE] /\ e[JOURNAL] = d[JOURNAL]
          BY <3>1, <3>4
        <4>2. /\ d[STAGE] = None /\ d[JOURNAL].commit_possible
              /\ d[JOURNAL].phase \in {PENDING, "recovered_old"}
          BY <3>2 DEF Exposable
        <4> QED  BY <3>2, <4>1, <4>2 DEF Exposable
      <3> QED  BY <3>3, <3>4
    <2> QED  BY <1>1, <1>2, <2>1, <2>5, ExposedBy
  <1>4. CASE pc = "sync_restore"
    <2>1. disk' = {dir} /\ dir' = dir
      BY <1>1, <1>4 DEF Restore, At, sync_directory
    <2> QED  BY <1>1, <1>2, <2>1, ExposedBy
  <1>5. CASE pc = "restored"
    <2>1. disk' = disk /\ dir' = dir
      BY <1>1, <1>5 DEF Restore, At
    <2>2. Aligned
      BY <1>5 DEF Overlooked, Exposed
    <2> QED  BY <1>1, <1>2, <2>1, <2>2, ExposedBy DEF Aligned
  <1> QED  BY <1>1, <1>3, <1>4, <1>5

\* The names of a settled transaction go: only its journal and a temporary one
\* are left.
LEMMA CleanupExposed ==
    ASSUME Overlooked, Cleanup
    PROVE  Exposed'
  <1>1. /\ pc \in {"establish", "remove_rollback", "remove_stage", "remove_old_rollback",
                   "remove_new", "sync_cleanup", "remove_journal", "sync_journal"}
        /\ w = "none" /\ w' = w /\ jm' = jm /\ op' = op /\ dir \in disk /\ Dirs
        /\ pc' \notin {"sync_restore", "raised"} /\ jm # None
    BY DEF Cleanup, Keep, At, Goto, Overlooked, Sound, Known, Control, Typed, FilesOK, Dirs
  <1>2. jm.commit_possible /\ \A d \in disk : Exposable(d)
    BY <1>1 DEF Overlooked, Exposed
  <1>3. ~Ended => \A d \in disk : d[JOURNAL] # None
    BY <1>1 DEF Overlooked, Exposed
  <1>4. Aligned
    BY <1>1 DEF Overlooked, Exposed
  <1>5. CASE pc \in {"establish", "remove_rollback"}
    <2>1. jm.phase = "live_verified" /\ dir[JOURNAL] = jm
      BY <1>1, <1>5 DEF Overlooked, Sound, Known, AtPoint, Cleaning, Writing
    <2> QED  BY <1>1, <1>2, <2>1 DEF Exposable, PENDING
  <1>6. ASSUME dir' = dir, disk' = {dir}, pc \in {"sync_cleanup", "sync_journal"}
        PROVE  Exposed'
    <2>1. pc = "sync_cleanup" => dir[JOURNAL] # None
      BY <1>1, <1>3 DEF Ended
    <2>2. pc = "sync_journal" => pc' = "returned"
      BY <1>1 DEF Cleanup, At, Goto
    <2> QED  BY <1>1, <1>2, <1>6, <2>1, <2>2, ExposedBy
  <1>7. ASSUME dir' = dir, disk' = disk, pc # "sync_journal"
        PROVE  Exposed'
    <2>1. \A d \in disk : d[JOURNAL] # None
      BY <1>1, <1>3, <1>7 DEF Ended
    <2> QED  BY <1>1, <1>2, <1>4, <1>7, <2>1, ExposedBy DEF Aligned
  <1>8. CASE pc \in {"sync_cleanup", "sync_journal"}
    BY <1>1, <1>6, <1>8 DEF Cleanup, At, sync_directory
  <1>9. CASE pc \in {"remove_stage", "remove_old_rollback"}
    <2>1. dir[STAGE] = None
      BY <1>1, <1>2 DEF Exposable
    <2>2. pc = "remove_old_rollback" => dir[ROLLBACK] = None
      <3>1. pc = "remove_old_rollback" => jm.phase = "recovered_old" /\ dir[JOURNAL] = jm
        BY <1>1 DEF Overlooked, Sound, Known, AtPoint, Cleaning, Writing
      <3> QED  BY <1>1, <1>2, <3>1 DEF Exposable, PENDING
    <2>3. dir' = dir /\ disk' = disk
      BY <1>1, <1>9, <2>1, <2>2 DEF Cleanup, At, remove, exists
    <2> QED  BY <1>7, <1>9, <2>3
  <1>10. CASE pc = "remove_new"
    <2>1. remove(JOURNAL_NEW) /\ \A d \in disk : d[JOURNAL] # None
      BY <1>1, <1>3, <1>10 DEF Cleanup, At, Ended
    <2>2. Agree(dir, dir', {JOURNAL_NEW})
      BY <1>1, <2>1, RemoveEffect
    <2>3. \A e \in disk' : \E d \in disk : e = d \/ Agree(d, e, {JOURNAL_NEW})
      <3>1. Dirs /\ JOURNAL_NEW \in Names /\ remove(JOURNAL_NEW)
        BY <1>1, <2>1
      <3> QED  BY <3>1, RemoveEffect
    <2>4. dir'[CANONICAL] = dir[CANONICAL] /\ dir'[ROLLBACK] = dir[ROLLBACK]
      BY <2>2 DEF Agree
    <2>5. \A e \in disk' : \E d \in disk :
              /\ e[CANONICAL] = d[CANONICAL] /\ e[ROLLBACK] = d[ROLLBACK]
              /\ e[STAGE] = d[STAGE] /\ e[JOURNAL] = d[JOURNAL]
      BY <2>3, SMT DEF Agree
    <2>6. \A e \in disk' : Exposable(e) /\ e[JOURNAL] # None
      BY <1>2, <2>1, <2>5, ExposableSame
    <2>7. \A e \in disk' : e[CANONICAL] = dir'[CANONICAL] /\ e[ROLLBACK] = dir'[ROLLBACK]
      BY <1>4, <2>4, <2>5 DEF Aligned
    <2> QED  BY <1>1, <1>2, <2>6, <2>7, ExposedBy
  <1>11. CASE pc = "remove_journal"
    <2>1. /\ remove(JOURNAL) /\ pc' = "sync_journal" /\ disk = {dir}
          /\ dir[STAGE] = None /\ dir[ROLLBACK] = None /\ dir[JOURNAL_NEW] = None
      BY <1>1, <1>11 DEF Cleanup, At, Goto, Overlooked, Sound, Known, AtPoint, Cleaning, Reported,
          Closing
    <2>2. Agree(dir, dir', {JOURNAL})
      BY <1>1, <2>1, RemoveEffect
    <2>3. \A e \in disk' : \E d \in disk : e = d \/ (e[JOURNAL] = None /\ Agree(d, e, {JOURNAL}))
      <3>1. Dirs /\ JOURNAL \in Names /\ remove(JOURNAL)
        BY <1>1, <2>1
      <3> QED  BY <3>1, RemoveEffect
    <2>4. dir'[CANONICAL] = dir[CANONICAL] /\ dir'[ROLLBACK] = dir[ROLLBACK]
      BY <2>2 DEF Agree
    <2>5. \A e \in disk' :
              /\ e[CANONICAL] = dir[CANONICAL] /\ e[ROLLBACK] = dir[ROLLBACK]
              /\ e[STAGE] = dir[STAGE] /\ e[JOURNAL_NEW] = dir[JOURNAL_NEW]
              /\ e = dir \/ e[JOURNAL] = None
      BY <2>1, <2>3, SMT DEF Agree
    <2>6. ASSUME NEW e \in disk' PROVE Exposable(e)
      <3>1. CASE e = dir
        BY <1>1, <1>2, <3>1
      <3>2. CASE e[JOURNAL] = None
        BY <2>1, <2>5, <3>2 DEF Exposable
      <3> QED  BY <2>5, <3>1, <3>2
    <2>7. \A e \in disk' : e[CANONICAL] = dir'[CANONICAL] /\ e[ROLLBACK] = dir'[ROLLBACK]
      BY <2>4, <2>5
    <2> QED  BY <1>1, <1>2, <2>1, <2>6, <2>7, ExposedBy
  <1> QED  BY <1>1, <1>5, <1>8, <1>9, <1>10, <1>11

\* What the init gave away stays in shape while the next boot works on it.
LEMMA ExposedNext ==
    ASSUME Sound, Gated, Owning, Steady, Exposed, [BootNext]_bootVars
    PROVE  Exposed'
  <1> SUFFICES ASSUME Loosened' PROVE Exposed'
    BY DEF Exposed
  <1>1. CASE InitChowns
    <2>1. gate = "init" /\ Aside
      BY <1>1 DEF InitChowns, Aside
    <2>2. op' = "none" /\ disk' = disk
      BY <2>1, AsideRests DEF Gated
    <2>3. \A d \in disk : Exposable(d)
      BY <2>1, LeftExposable DEF Steady
    <2> QED  BY <2>2, <2>3, ExposedBy
  <1>2. CASE Loosened /\ Aside
    <2>1. dir' = dir /\ disk' = disk /\ op' = op /\ pc' = pc /\ w' = w /\ jm' = jm
      BY <1>2, AsideRests
    <2> QED  BY <1>2, <2>1, ExposedBy DEF Exposed, Aligned, Ended
  <1>3. CASE Loosened /\ (Check \/ Owned \/ FirstReturns \/ PowerOn \/ Restart \/ BootLosesPower)
    <2>1. op' = "none" /\ disk' \subseteq disk
      <3>1. CASE Check \/ Owned \/ FirstReturns \/ PowerOn
        BY <3>1, PassesSound DEF AtRest
      <3>2. CASE Restart
        BY <3>2 DEF Restart, ContainerRestart, ContainerStops, HelperGone, filesVars
      <3>3. CASE BootLosesPower
        <4>1. op' = "none" /\ dir' \in disk /\ disk' = {dir'}
          BY <3>3 DEF BootLosesPower, PowerLoss, LosePower, ContainerStops, HelperGone
        <4> QED  BY <4>1
      <3> QED  BY <1>3, <3>1, <3>2, <3>3
    <2> QED  BY <1>3, <2>1, ExposedBy DEF Exposed
  <1>4. CASE Loosened /\ Guarded
    <2>1. gate \notin {"recover2", "open"} /\ ~booted
      BY <1>4 DEF Loosened, Owning, Gated
    <2>2. CASE Startup
      BY <1>4, <2>1, <2>2, StartupExposed DEF Startup
    <2>3. CASE HelperDies
      <3>1. op' = "none" /\ disk' = disk
        BY <2>3 DEF HelperDies, HelperGone, filesVars
      <3> QED  BY <1>4, <3>1, ExposedBy DEF Exposed
    <2>4. CASE op = "startup"
               /\ (WriteJournal \/ CheckFails \/ Release \/ Stop \/ Resumed \/ Cleanup \/ Decide
                   \/ Restore \/ Raise \/ Resume)
      BY <1>4, <2>4, WriteJournalExposed, CleanupExposed, RestoreExposed, QuietExposed
         DEF Overlooked
    <2> QED  BY <1>4, <2>1, <2>2, <2>3, <2>4, BeforeOpening
  <1> QED  BY <1>1, <1>2, <1>3, <1>4, LoosenedBefore, BootCases

-----------------------------------------------------------------------------
(* The boot's invariant, and its theorems.                                 *)

\* A container that starts for the first time.
LEMMA BootInitSound == BootInit => Sound
  <1> SUFFICES ASSUME BootInit PROVE Sound
    OBVIOUS
  <1>1. PICK i \in Inodes, cert \in Certs :
          /\ dir = [name \in Names |-> IF name = CANONICAL THEN i ELSE None]
          /\ content = [j \in Inodes |-> IF j = i THEN cert ELSE Junk]
          /\ unsafe \in {{}, {i}}
    BY DEF BootInit
  <1>2. /\ disk = {dir} /\ synced = {} /\ svc = "down" /\ serving = None /\ served = {}
        /\ rewritten = {} /\ touched = FALSE
        /\ op = "none" /\ pc = "idle" /\ w = "none" /\ jm = None /\ expect = FALSE
        /\ outcome = "none" /\ lock = "free" /\ keytool = None /\ booted = FALSE
        /\ faults = MaxFaults
    BY DEF BootInit
  <1>3. dir[JOURNAL] = None /\ dir[STAGE] = None /\ dir[ROLLBACK] = None
    BY <1>1, SMT
  <1>4. Typed
    <2>1. dir \in Directories
      BY <1>1 DEF Directories
    <2>2. FilesOK /\ ServiceOK
      BY <1>1, <1>2, <2>1 DEF FilesOK, ServiceOK, Dirs, ServiceStates
    <2>3. faults \in 0..MaxFaults
      BY <1>2, MaxFaultsAssumption, SMT
    <2>4. expect \in BOOLEAN /\ booted \in BOOLEAN
      BY <1>2
    <2>5. ControlOK
      BY <1>2, <2>3, <2>4 DEF ControlOK, Labels
    <2> QED  BY <2>2, <2>5 DEF Typed
  <1>5. Control
    BY <1>2 DEF Control, Recovering, InstallLabels, DecidedLabels, StagingLabels
  <1>6. OnDisk
    BY <1>2, <1>3 DEF OnDisk, Paired, OneTransaction, Clean, LiveJournals, ReadableJournals, Bare
  <1>7. AtPoint
    BY <1>2 DEF AtPoint, Writing, Installing, Deciding, Cleaning, Orphan, Recovering
  <1>8. Results
    BY <1>2, InactiveResults DEF Inactive, AboutToCommit, Recovering, CleanupLabels
  <1>9. Quieted /\ Presented /\ Linking
    BY <1>2, <1>3 DEF Quieted, Presented, Linking, LiveJournals, ReadableJournals
  <1> QED  BY <1>4, <1>5, <1>6, <1>7, <1>8, <1>9 DEF Sound, Known, Reported, Results

\* The first boot begins with a keystore and nothing else.
LEMMA BootInitGate ==
    BootInit => Gated /\ Owning /\ Steady /\ Agreed /\ Private /\ Exposed
  <1> SUFFICES ASSUME BootInit PROVE Gated /\ Owning /\ Steady /\ Agreed /\ Private /\ Exposed
    OBVIOUS
  <1>1. /\ dir[JOURNAL] = None /\ dir[STAGE] = None /\ dir[ROLLBACK] = None
        /\ dir[JOURNAL_NEW] = None
    BY SMT DEF BootInit
  <1>2. /\ gate = "check1" /\ op = "none" /\ pc = "idle" /\ jm = None /\ svc = "down"
        /\ keytool = None /\ ~booted /\ disk = {dir} /\ loose = {} /\ abc \subseteq {LOCK}
    BY DEF BootInit
  <1>3. Gated /\ Owning
    BY <1>2 DEF Gated, Gates, Owning, AdminFiles
  <1>4. Steady /\ Agreed
    BY <1>2 DEF Steady, Agreed, Undecided
  <1>5. Private
    BY <1>1, <1>2 DEF Private, Untried, LiveJournals, ReadableJournals
  <1>6. Exposed
    BY <1>1, <1>2 DEF Exposed, Exposable
  <1> QED  BY <1>3, <1>4, <1>5, <1>6

Booting == Sound /\ Gated /\ Owning /\ Steady /\ Agreed /\ Private /\ Exposed

\* With the types it is inductive.
LEMMA BootingHolds == BootSpec => []Booting
  <1>1. BootInit => Booting
    BY BootInitSound, BootInitGate DEF Booting
  <1>2. Booting /\ [BootNext]_bootVars => Booting'
    <2> SUFFICES ASSUME Booting, [BootNext]_bootVars PROVE Booting'
      OBVIOUS
    <2>1. Sound' /\ Gated'
      BY SoundNext, GatedNext DEF Booting
    <2>2. Owning' /\ Steady' /\ Agreed'
      BY <2>1, OwningNext, SteadyNext, AgreedNext DEF Booting
    <2>3. Private' /\ Exposed'
      BY <2>1, PrivateNext, ExposedNext DEF Booting
    <2> QED  BY <2>1, <2>2, <2>3 DEF Booting
  <1> QED  BY <1>1, <1>2, PTL DEF BootSpec

\* The executor's invariant and the gate's hold at every point of every boot: in
\* every oneshot, between an fchown or fchmod and its fsync, in LinuxServer's init,
\* and after any restart or power loss.
THEOREM BootHolds == BootSpec => []BootInvariant
  <1>1. Booting => BootInvariant
    BY DEF Booting, Sound, Known, BootInvariant, Consistent, OnDisk, AtPoint
  <1> QED  BY <1>1, BootingHolds, PTL

\* What the executor promises of its files, its journals and its results holds
\* at every point of every boot, with the ownership passes and LinuxServer's init
\* between its recoveries.
THEOREM BootKeepsPromises ==
    BootSpec => [](Recoverable /\ Attributed /\ JournalAccepted /\ ReturnsDurably)
  <1>1. Booting => Consistent /\ ReturnsDurably
    BY ReportedDurable DEF Booting, Sound, Known, Consistent, OnDisk, AtPoint
  <1> QED  BY <1>1, ConsistentRecoverable, ConsistentAttributed, ConsistentAccepted,
              BootingHolds, PTL

\* The executor and Java run only when no file that recovery relies on belongs
\* to abc; and from the second recovery on no power loss gives one back to abc,
\* although both changes of owner are durable only with their fsyncs.
THEOREM ExecutorIsStrict == BootSpec => []StrictBehindGate
  <1>1. Booting => StrictBehindGate
    BY DEF Booting, Gated, Owning, StrictBehindGate
  <1> QED  BY <1>1, BootingHolds, PTL

\* A transaction with commit intent has a canonical keystore of the right mode.
LEMMA CommittedUsable ==
    ASSUME Private, NEW j \in LiveJournals, j.commit_possible
    PROVE  Usable
  BY DEF Private, Untried, Firm

\* A transaction that was given away passes the checks that precede the first
\* chown, unless its old keystore is restored under a pending journal.
LEMMA ExposablePasses ==
    ASSUME Sound, Private, Exposable(dir), exists(JOURNAL), ~RestoredUnderPending
    PROVE  _validate_normalization_transaction(dir)
  <1> DEFINE j == dir[JOURNAL]
  <1>1. /\ j # None /\ dir[STAGE] = None /\ j.commit_possible
        /\ \/ /\ j.phase = PENDING
              /\ dir[CANONICAL] = j.stage_inode /\ dir[ROLLBACK] = j.old_inode
           \/ /\ j.phase = "recovered_old"
              /\ dir[CANONICAL] = j.old_inode /\ dir[ROLLBACK] = None
    BY DEF Exposable, RestoredUnderPending, exists
  <1>2. j \in Journals /\ j \in LiveJournals /\ dir \in disk
    BY <1>1 DEF Sound, Known, Typed, FilesOK, Dirs, Directories, LiveJournals, ReadableJournals
  <1>3. /\ ValidJournal(j) /\ j.commit_possible = TRUE /\ j.rollback_expected = TRUE
        /\ j.issued # None /\ j.stage_inode # None /\ j.stage_inode # j.old_inode
    <2>1. ValidJournal(j) /\ j.stage_inode # j.old_inode
      BY <1>1, <1>2 DEF Sound, Known, OnDisk, Paired, SoundJournal
    <2> QED  BY <1>1, <1>2, <2>1, SMT DEF ValidJournal, Journals
  <1>4. j.old_inode # None
    BY <1>2, ModelValues, SMT DEF Journals
  <1>5. /\ progress(j) = progress_committable
        /\ progress(j) \notin {progress_initial, progress_staging, progress_staged,
                               progress_rollback}
    <2>1. (j.issued # None) = TRUE /\ (j.stage_inode # None) = TRUE
      BY <1>3
    <2>2. progress(j) = progress_committable
      BY <1>3, <2>1, Zenon DEF progress, progress_committable
    <2> QED  BY <2>2, SMT DEF progress_committable, progress_initial, progress_staging,
                 progress_staged, progress_rollback
  <1>6. progress(j) \in allowed_progress(j.phase) /\ dir[CANONICAL] \in allowed_canonical(j)
    BY <1>1, <1>5, SMT DEF allowed_progress, allowed_canonical, AfterCommit, Settling, PENDING
  <1>7. StageFits(dir, j)
    BY <1>1, <1>3, <1>4, <1>5 DEF StageFits, stage_required, PENDING
  <1>8. RollbackFits(dir, j)
    BY <1>1, <1>3, <1>4, <1>5 DEF RollbackFits, rollback_required, PENDING
  <1>9. \A name \in Keystores : _transaction_entry(dir, name)
    BY <1>1, <1>2, CommittedUsable DEF _transaction_entry, Usable
  <1> QED  BY <1>1, <1>3, <1>6, <1>7, <1>8, <1>9 DEF _validate_normalization_transaction, PENDING

\* Whatever an interrupted chown, an interrupted pass or a power loss leaves of the
\* owners, the next ownership pass accepts, except under a pending journal whose
\* old keystore a recovery has just restored.
THEOREM PassesAlwaysConverge == BootSpec => []PassesConverge
  <1>1. Booting => PassesConverge
    <2> SUFFICES ASSUME Booting, abc # {}, ~RestoredUnderPending
                 PROVE  /\ exists(JOURNAL_NEW) => exists(JOURNAL)
                        /\ exists(JOURNAL) => _validate_normalization_transaction(dir)
      BY DEF PassesConverge, Proved
    <2>1. dir \in disk
      BY DEF Booting, Sound, Known, Typed, FilesOK, Dirs
    <2>2. Exposable(dir)
      BY <2>1 DEF Booting, Exposed, Loosened
    <2>3. exists(JOURNAL_NEW) => exists(JOURNAL)
      BY <2>2 DEF Exposable, exists
    <2> QED  BY <2>2, <2>3, ExposablePasses DEF Booting
  <1> QED  BY <1>1, BootingHolds, PTL

\* The second recovery decides as the first did: a pending transaction stays so.
THEOREM RecoveriesAgree == BootSpec => SecondRecoveryAgrees
  <1> DEFINE Kind == gate = "recover2" /\ pc = "decide" /\ pc' # pc /\ faults' = faults =>
                         pc' = "recover_resume" /\ outcome' = PENDING
  <1>1. Booting /\ [BootNext]_bootVars => [Kind]_bootVars
    <2> SUFFICES ASSUME Booting, BootNext, gate = "recover2", pc = "decide", pc' # pc,
                        faults' = faults
                 PROVE  pc' = "recover_resume" /\ outcome' = PENDING
      OBVIOUS
    <2>1. Sound /\ Gated /\ ~booted /\ svc = "down" /\ op = "startup" /\ w = "none" /\ Undecided
      BY DEF Booting, Sound, Known, Control, Recovering, Gated, Undecided
    <2>2. jm # None /\ dir[JOURNAL] = jm /\ Left /\ Holds(jm)
      <3>1. jm # None /\ dir[JOURNAL] = jm
        BY <2>1 DEF Sound, Known, Control, AtPoint, Writing
      <3> QED  BY <2>1, <3>1 DEF Booting, Steady, Agreed, exists
    <2>3. /\ dir[CANONICAL] = jm.stage_inode /\ dir[ROLLBACK] = jm.old_inode
          /\ jm.phase = PENDING /\ jm \in Journals /\ jm \in LiveJournals
      BY <2>2 DEF Left, NoTransaction, exists, Sound, Known, Typed, ControlOK, LiveJournals,
          Booting
    <2>4. jm.commit_possible /\ jm.stage_inode # jm.old_inode /\ jm.issued # None
      BY <2>1, <2>3 DEF Sound, Known, OnDisk, Paired, SoundJournal, CommitPhases, ValidJournal
    <2>5. jm.old_inode # None /\ jm.issued # Junk
      BY <2>3, <2>4, ModelValues, SMT DEF Journals
    <2>6. ~Faulty
      BY <2>1, SMT DEF Faulty, Sound, Known, Typed, ControlOK
    <2>7. collect(CANONICAL) = jm.issued /\ collect(ROLLBACK) = jm.old
      BY <2>2, <2>3 DEF Holds, collect
    <2>8. Checks
      <3>1. dir[CANONICAL] \notin unsafe /\ dir[CANONICAL] # None
        <4>1. Usable /\ dir \in disk
          BY <2>3, <2>4, CommittedUsable DEF Booting, Sound, Known, Typed, FilesOK, Dirs
        <4> QED  BY <2>1, <2>3, <2>4, <4>1
                 DEF Usable, Sound, Known, OnDisk, Paired, SoundJournal, ValidJournal
      <3>2. status(CANONICAL)
        BY <3>1 DEF status, exists
      <3> QED  BY <2>1, <2>3, <2>5, <2>7, <3>2 DEF Checks, stopped, RollbackAcceptable, exists
    <2>9. Guarded
      <3>1. ~Aside
        BY AsideRests
      <3>2. ~(Restart \/ BootLosesPower)
        BY <2>6 DEF Restart, BootLosesPower, ContainerRestart, PowerLoss, ContainerStops
      <3>3. ~(Check \/ Owned \/ FirstReturns \/ PowerOn)
        BY DEF Check, Owned, FirstReturns, PowerOn
      <3> QED  BY <3>1, <3>2, <3>3, BootCases
    <2>10. Decide
      <3>1. ~(HelperDies \/ Raise \/ Startup)
        BY <2>1, <2>6 DEF HelperDies, Raise, Startup, BeginRecoverClean, BeginRecover, Acquire
      <3>2. ~(WriteJournal \/ CheckFails \/ Release \/ Stop \/ Resumed \/ Cleanup \/ Restore)
        BY <2>1, <2>8 DEF WriteJournal, CheckFails, Release, Stop, Resumed, Cleanup, Restore, At
      <3> QED  BY <2>1, <2>9, <3>1, <3>2, BeforeOpening
    <2>11. PICK found \in {collect(CANONICAL), Junk} :
              /\ IF found = collect(CANONICAL) THEN UNCHANGED faults ELSE Faulty
              /\ \/ IsOld(found) /\ outcome' = "recovered_old" /\ Goto("recover_resume")
                 \/ IsIssued(found) /\ outcome' = PENDING /\ Goto("recover_resume")
                 \/ IsLost(found) /\ outcome' = "recovered_old" /\ Goto("restore")
                 \/ /\ ~(IsOld(found) \/ IsIssued(found) \/ IsLost(found))
                    /\ Fail /\ UNCHANGED outcome
      BY <2>10 DEF Decide
    <2>12. found = jm.issued
      BY <2>6, <2>7, <2>11
    <2>13. IsIssued(found) /\ ~IsOld(found) /\ ~IsLost(found)
      BY <2>3, <2>4, <2>5, <2>12 DEF IsIssued, IsOld, IsLost, exists
    <2> QED  BY <2>11, <2>13 DEF Goto
  <1> QED  BY <1>1, BootingHolds, PTL DEF BootSpec, SecondRecoveryAgrees

\* A boot implements the transaction too: its ownership passes and LinuxServer's
\* init leave the keystore and its transaction alone.
THEOREM BootImplementsTransaction == BootSpec => ImplementsTransaction
  <1>1. BootInit => Recorded /\ Transaction!Init
    <2> SUFFICES ASSUME BootInit PROVE Recorded /\ Transaction!Init
      OBVIOUS
    <2>1. /\ dir[JOURNAL] = None /\ dir[CANONICAL] \in Inodes /\ faults \in Nat
          /\ pc = "idle" /\ op = "none" /\ w = "none"
      BY MaxFaultsAssumption DEF BootInit
    <2>2. Recorded
      BY <2>1 DEF Recorded, Points, Following, Preceding, BeingWritten
    <2>3. Transaction!Init
      BY <2>1 DEF Transaction!Init, TransactionOf
    <2> QED  BY <2>2, <2>3
  <1>2. Booting /\ Recorded /\ [BootNext]_bootVars =>
            Recorded' /\ [Transaction!Next]_Transaction!vars
    <2> SUFFICES ASSUME Booting, Recorded, [BootNext]_bootVars PROVE Recorded' /\ Implements
      BY DEF Implements
    <2>1. CASE [Next]_vars
      BY <2>1, RecordedNext DEF Booting, Sound
    <2>2. CASE Check \/ Owned \/ FirstReturns \/ PowerOn
      <3>1. AtRest /\ faults' = faults
        BY <2>2, PassesSound DEF Booting, Check, Owned, FirstReturns, PowerOn, KeepBoot
      <3>2. SameRecords /\ w' = "none" /\ op' = "none" /\ pc' = "idle"
        BY <3>1 DEF AtRest, SameRecords, SameRecord
      <3>3. Following' /\ Preceding'
        BY <3>2, Resting DEF Recorded
      <3>4. Points'
        BY <3>2 DEF Points
      <3>5. Implements
        BY <3>1, Quiet DEF AtRest
      <3> QED  BY <3>3, <3>4, <3>5 DEF Recorded
    <2> QED  BY <2>1, <2>2, ExecutorSteps, BootCases
  <1> QED  BY <1>1, <1>2, BootingHolds, PTL DEF BootSpec, ImplementsTransaction, Transaction!Spec
=============================================================================

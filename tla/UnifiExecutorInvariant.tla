------------------------ MODULE UnifiExecutorInvariant ------------------------
(***************************************************************************)
(* The inductive invariant of UnifiExecutor.  MCUnifiExecutor checks it on *)
(* a small instance; UnifiExecutorProofs proves it for every one.          *)
(***************************************************************************)
EXTENDS UnifiExecutor

InstallLabels ==
    {"quiesce", "import_checks", "create_stage", "chown_stage", "copy_stage",
     "import", "importing", "sync_stage", "sync_canonical", "link", "sync_link",
     "committable", "commit", "sync_commit", "verify_commit", "resume", "handler"}

StagingLabels ==
    {"create_stage", "chown_stage", "copy_stage", "import", "importing"}

DecidedLabels ==
    {"restore", "sync_restore", "restored", "recover_resume", "remove_stage",
     "remove_old_rollback", "remove_new"}

Recovering == op \in {"recover", "startup"}

\* Which operation is at which control point, and that it has a journal and,
\* after recover's decision, an outcome there.
Control ==
    /\ op = "none" <=> pc = "idle"
    /\ pc = "idle" => w = "none"
    /\ pc \in InstallLabels => op = "install"
    /\ pc \in DecidedLabels \cup {"decide"} => Recovering
    /\ pc \in {"observe", "recheck"} => op = "verify"
    /\ pc = "stop" => op # "verify"
    /\ jm = None => pc \in {"idle", "returned"} /\ w = "none" /\ op # "install"
    /\ pc \in StagingLabels => jm.issued # None
    /\ pc \in DecidedLabels \/ (pc \in {"await_up", "resumed"} /\ op # "install") =>
           Recovering /\ outcome # "none"

-----------------------------------------------------------------------------
(* What makes Recoverable inductive.                                       *)

\* The journals that a recovery may read, now or after a power loss, and the
\* one that the running operation holds in memory.
ReadableJournals == {d[JOURNAL] : d \in disk} \ {None}

LiveJournals == ReadableJournals \cup ({jm} \ {None})

\* Inode i holds cert durably, unless Java has rewritten it.
Kept(i, cert) == i \notin rewritten => Survives(i, cert)

\* Directory d and journal j fit each other.  Every journal must fit every
\* directory: a power loss may pair any two of them.
Fits(d, j) ==
    \/ /\ d[CANONICAL] = j.old_inode
       /\ j.rollback_expected /\ j.phase # "recovered_old" => Kept(j.old_inode, j.old)
    \/ /\ d[CANONICAL] = j.stage_inode /\ j.commit_possible
       /\ \/ j.phase = "live_verified"
          \/ /\ d[ROLLBACK] = j.old_inode
             /\ Kept(j.old_inode, j.old) /\ Kept(j.stage_inode, j.issued)

CommitPhases == {"commit_possible", "committed", "canonical_verified", PENDING}

SoundJournal(j) ==
    /\ ValidJournal(j)
    /\ j.commit_possible => j.stage_inode # j.old_inode
    /\ j.phase \in CommitPhases => j.commit_possible

Paired == \A j \in LiveJournals : SoundJournal(j) /\ \A d \in disk : Fits(d, j)

SameTransaction(j, k) == j.old = k.old /\ j.old_inode = k.old_inode

\* Once a journal expects a rollback, no journal of an earlier transaction can
\* come back, and none that is live_verified unless this one is.
OneTransaction ==
    \A k \in {dir[JOURNAL], jm} \ {None} : k.rollback_expected =>
        /\ \A j \in LiveJournals : SameTransaction(j, k)
        /\ k.phase # "live_verified" =>
               \A j \in ReadableJournals : j.phase # "live_verified"

\* The transaction of j ended in directory d.
Settled(d, j) ==
    \/ j.phase = "recovered_old" /\ d[CANONICAL] = j.old_inode
    \/ /\ j.phase = "live_verified" /\ j.commit_possible
       /\ d[CANONICAL] = j.stage_inode

Bare(d) == d[STAGE] = None /\ d[ROLLBACK] = None

\* Without a journal there is no transaction file, and a journal that a power
\* loss may still bring back is settled.
Clean ==
    /\ \A d \in disk : d[JOURNAL] = None => Bare(d)
    /\ dir[JOURNAL] = None =>
           \A d \in disk :
               /\ Bare(d) /\ d[CANONICAL] = dir[CANONICAL]
               /\ d[JOURNAL] # None => Settled(d, d[JOURNAL])

\* Where write_journal is, and that the journal in memory is the one on file.
Writing ==
    /\ w # "invalid"
    /\ pc = "idle" => jm = None
    /\ w = "rename" => dir[JOURNAL_NEW] = jm
    /\ w = "sync" => dir[JOURNAL] = jm
    /\ w = "none" /\ pc \notin {"idle", "sync_journal", "returned", "raised"} =>
           dir[JOURNAL] = jm

Unlinked ==
    {"quiesce", "import_checks", "create_stage", "chown_stage", "copy_stage",
     "import", "importing", "sync_stage", "sync_canonical", "link", "sync_link"}

Staged == {"import", "importing", "sync_stage", "sync_canonical", "link", "sync_link"}

Linked == {"committable", "commit"}

Committed == {"sync_commit", "verify_commit", "resume", "await_up", "resumed"}

\* What an installation knows at each of its control points.
Installing ==
    op = "install" =>
        /\ jm.phase \notin {"live_verified", "recovered_old"}
        /\ expect \/ pc \in Unlinked \cup Linked \cup Committed =>
               \A d \in disk : d[JOURNAL] # None
        /\ w = "none" /\ pc \in {"stop"} \cup Unlinked \cup Linked \cup Committed =>
               \A d \in disk : d[JOURNAL] = jm
        /\ pc \in {"stop"} \cup Unlinked \cup Linked =>
               \A d \in disk : d[CANONICAL] = jm.old_inode
        /\ pc \in {"stop"} \cup Unlinked => ~jm.rollback_expected
        /\ pc \in Unlinked => \A j \in ReadableJournals : ~j.rollback_expected
        /\ pc \in Staged \cup Linked =>
               /\ jm.stage_inode \notin {jm.old_inode, None} /\ jm.issued # None
               /\ dir[STAGE] = jm.stage_inode
        /\ pc \in {"sync_canonical", "link", "sync_link"} \cup Linked =>
               Kept(jm.stage_inode, jm.issued)
        /\ pc \in {"link", "sync_link"} => Kept(jm.old_inode, jm.old)
        /\ pc = "sync_link" => dir[ROLLBACK] = jm.old_inode
        /\ pc \in Linked =>
               /\ jm.rollback_expected
               /\ \A d \in disk :
                      d[STAGE] = jm.stage_inode /\ d[ROLLBACK] = jm.old_inode
        /\ pc \in {"commit"} \cup Committed => jm.commit_possible

\* What a verification and a recovery know.
Deciding ==
    /\ op = "verify" /\ pc \in {"observe", "recheck"} =>
           jm.phase = PENDING /\ jm.resume
    /\ Recovering /\ pc \in {"stop", "decide", "restore", "sync_restore", "restored",
                             "recover_resume", "await_up", "resumed"} =>
           jm.phase # "live_verified"
    /\ pc = "restore" => dir[ROLLBACK] = jm.old_inode /\ jm.commit_possible
    /\ pc \in {"restore", "sync_restore", "restored"} => outcome = "recovered_old"
    /\ Recovering /\ pc \in {"recover_resume", "await_up", "resumed"} =>
           \/ outcome = "recovered_old" /\ dir[CANONICAL] = jm.old_inode
           \/ /\ outcome = PENDING /\ jm.commit_possible
              /\ Kept(jm.old_inode, jm.old)

\* What the cleanup of a settled transaction knows.
Cleaning ==
    /\ pc \in {"establish", "remove_rollback"} =>
           /\ jm.phase = "live_verified"
           /\ op = "verify" =>
                  dir[CANONICAL] = jm.stage_inode /\ dir[STAGE] = None
    /\ pc \in {"remove_stage", "remove_old_rollback", "remove_new"} =>
           /\ jm.phase = "recovered_old" /\ dir[CANONICAL] = jm.old_inode
           /\ w = "none" =>
                  \A d \in disk : d[JOURNAL] = jm /\ d[CANONICAL] = jm.old_inode
    /\ pc \in {"remove_rollback", "remove_old_rollback", "remove_new",
               "sync_cleanup", "remove_journal"} => w = "none"
    /\ pc \in {"remove_rollback", "remove_journal"} => disk = {dir}
    /\ pc \in {"remove_old_rollback", "remove_new", "sync_cleanup",
               "remove_journal"} => dir[STAGE] = None
    /\ pc \in {"remove_new", "sync_cleanup", "remove_journal"} => dir[ROLLBACK] = None
    /\ pc \in {"sync_cleanup", "remove_journal"} =>
           \A d \in disk :
               d[JOURNAL] = jm /\ d[CANONICAL] = dir[CANONICAL] /\ Settled(d, jm)

\* A keytool that outlives its helper writes an inode no journal relies on.
Orphan ==
    keytool # None =>
        /\ pc \in {"idle", "importing"}
        /\ \A d \in disk : d[JOURNAL] # None /\ ~d[JOURNAL].rollback_expected

\* Every journal that may be read fits every directory a power loss may leave, at
\* every control point.
Consistent ==
    /\ Control /\ Paired /\ OneTransaction /\ Clean /\ Writing
    /\ Installing /\ Deciding /\ Cleaning /\ Orphan

-----------------------------------------------------------------------------
(* What the results of an operation rest on.                               *)

\* The keystore that a transaction about to be pending has made canonical.
Committing ==
    \/ op = "install" /\ pc \in Committed
    \/ Recovering /\ outcome = PENDING /\ pc \in {"recover_resume", "await_up", "resumed"}
    => dir[CANONICAL] = jm.stage_inode

\* What a verification has established before it gives the rollback up.
Verified ==
    op = "verify" /\ pc \in {"establish", "remove_rollback", "sync_cleanup",
                             "remove_journal", "sync_journal", "returned"} =>
        /\ jm # None
        /\ dir[CANONICAL] = jm.stage_inode /\ Kept(jm.stage_inode, jm.issued)

\* No temporary journal is left where the cleanup ends, and no journal after it.
Closing ==
    /\ \/ w = "sync"
       \/ w = "none" /\ op = "verify" /\ pc \in {"establish", "remove_rollback"}
       \/ pc \in {"sync_cleanup", "remove_journal", "sync_journal"}
       => dir[JOURNAL_NEW] = None
    /\ pc = "sync_journal" => w = "none" /\ dir[JOURNAL] = None

\* What an operation returns: a pending transaction, or none.
Returning ==
    pc = "returned" =>
        \/ /\ op # "verify" /\ jm # None /\ jm.phase = PENDING
           /\ dir[CANONICAL] = jm.stage_inode
           /\ w = "none" => disk = {dir} /\ dir[JOURNAL] = jm
        \/ /\ w = "none" /\ disk = {dir}
           /\ dir[JOURNAL] = None /\ dir[JOURNAL_NEW] = None

\* Java is down from the moment the installation has seen it stop, and has
\* rewritten nothing that the installation has not noticed.
Quieted ==
    op = "install" =>
        /\ pc \in {"stop", "quiesce"} /\ ~touched => rewritten = {}
        /\ pc \in (Unlinked \ {"quiesce"}) \cup Linked => svc = "down" /\ rewritten = {}

\* The certificates that Java has presented since the transaction began: of a
\* transaction that may be committed, all; and the issued one where the journal
\* is live_verified and the rollback still there.
Presented ==
    /\ svc = "down" => serving = None
    /\ \A j \in {dir[JOURNAL], jm} \ {None} :
           j.commit_possible => serving \in served \cup {None}
    /\ op = "verify" /\ pc \in {"recheck", "establish", "remove_rollback"} =>
           jm.issued \in served
    /\ w # "none" /\ jm.phase = "live_verified" => op = "verify" /\ pc = "establish"
    /\ \A d \in disk :
           /\ d[JOURNAL] # None /\ d[ROLLBACK] # None
           /\ d[JOURNAL].phase = "live_verified"
           => d[JOURNAL].issued \in served

\* Which inodes the names beside the canonical keystore may hold.
Linking ==
    /\ \A j \in LiveJournals, d \in disk :
           /\ d[ROLLBACK] \in {None, j.old_inode}
           /\ j.commit_possible => d[STAGE] \in {None, j.stage_inode}
    /\ \A d \in disk : d[STAGE] # None => d[STAGE] \notin {d[CANONICAL], d[ROLLBACK]}
    /\ op = "install" /\ pc \in {"stop"} \cup (Unlinked \ {"sync_link"}) =>
           \A d \in disk : d[ROLLBACK] = None
    /\ keytool # None => \A d \in disk : keytool # d[CANONICAL]

\* What status() refuses is at most a stage.
Usable ==
    \A d \in disk : d[CANONICAL] \notin unsafe /\ d[ROLLBACK] \notin unsafe

Reported ==
    /\ Committing /\ Verified /\ Closing /\ Returning
    /\ Quieted /\ Presented /\ Linking

\* The inductive invariant of the executor: journals and directories fit each
\* other, and results rest on what an operation has seen and made durable.
Inductive == Consistent /\ Reported /\ Usable
=============================================================================

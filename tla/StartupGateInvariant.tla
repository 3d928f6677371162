------------------------- MODULE StartupGateInvariant -------------------------
(***************************************************************************)
(* The inductive invariant of StartupGate, beyond that of the executor.    *)
(***************************************************************************)
EXTENDS StartupGate

\* Who runs behind which gate.
Gated ==
    /\ gate \in Gates /\ (booted <=> gate = "open")
    /\ gate # "open" =>
           /\ svc = "down" /\ keytool = None /\ op \in {"none", "startup"}
           /\ op = "startup" => gate \in {"recover1", "recover2"}
    /\ op = "startup" =>
           /\ gate # "open" /\ pc # "await_up"
           /\ w # "none" => pc \in {"remove_stage", "returned"}
    /\ gate = "off" => lock = "free"

\* Which files may have an owner that is not durable: those of the executor no
\* longer once the second ownership pass has gone through all that abc owned.
Owning ==
    /\ \A f \in loose :
           /\ f[1] \in {LOCK, JOURNAL, JOURNAL_NEW, CANONICAL}
           /\ f[1] \in {JOURNAL, JOURNAL_NEW} => f[2] # None
           /\ \E d \in disk : f = File(d, f[1])
    /\ gate # "off" => abc \subseteq AdminFiles
    /\ gate \in {"recover1", "recover2", "open"} => abc = {}
    /\ gate = "check2" => abc = AdminFiles
    /\ gate = "own2" => \A f \in loose : f[1] \in abc \cup {CANONICAL} \/ f \in syncing
    /\ gate \in {"recover2", "open"} => \A f \in loose : f[1] = CANONICAL

\* The second recovery has not yet decided.
Undecided == gate = "recover2" /\ (op = "none" \/ pc \in {"stop", "decide"})

\* What the first recovery leaves: no transaction, or a pending one, whole.
Left ==
    /\ disk = {dir}
    /\ \/ NoTransaction
       \/ /\ exists(JOURNAL) /\ dir[JOURNAL].phase = PENDING /\ ~exists(STAGE)
          /\ dir[CANONICAL] = dir[JOURNAL].stage_inode
          /\ dir[ROLLBACK] = dir[JOURNAL].old_inode

\* It stays so until the second recovery decides.
Steady ==
    /\ gate \in {"init", "check2", "own2"} \/ Undecided => Left
    /\ gate = "recover1" /\ op = "none" => disk = {dir}

\* Both keystores of j hold what j says.
Holds(j) == content[j.stage_inode] = j.issued /\ content[j.old_inode] = j.old

\* A recovery that has decided for the issued keystore has read both, and so
\* will the second one.
Agreed ==
    /\ /\ op = "startup"
       /\ \/ pc \in {"recover_resume", "resumed"} /\ outcome = PENDING
          \/ pc = "returned" /\ (w # "none" \/ exists(JOURNAL))
       => Holds(jm)
    /\ gate \in {"init", "check2", "own2"} \/ Undecided =>
           (exists(JOURNAL) => Holds(dir[JOURNAL]))

-----------------------------------------------------------------------------
(* What the ownership passes rest on.                                      *)

\* The mode of the canonical keystore is right, and a power loss leaves it so.
Firm == Usable /\ \A f \in loose : f[1] # CANONICAL

\* No transaction has linked its rollback.
Untried ==
    /\ pc # "link"
    /\ \A j \in LiveJournals : ~j.commit_possible
    /\ \A d \in disk : d[ROLLBACK] = None

\* The fsync of the canonical keystore that precedes the link settles its mode.
Private == Firm \/ Untried

\* What the init gave to abc and the next boot has worked on: no transaction, a
\* pending one, or one whose old keystore that boot has restored.
Exposable(d) ==
    LET j == d[JOURNAL] IN
    /\ d[STAGE] = None
    /\ j = None => d[ROLLBACK] = None /\ d[JOURNAL_NEW] = None
    /\ j # None =>
           /\ j.commit_possible
           /\ \/ /\ d[CANONICAL] = j.stage_inode /\ d[ROLLBACK] = j.old_inode
                 /\ j.phase = PENDING
              \/ /\ d[CANONICAL] = j.old_inode /\ d[ROLLBACK] = None
                 /\ j.phase \in {PENDING, "recovered_old"}

\* A file of the executor belongs to abc, or may do so after a power loss.
Loosened == abc # {} \/ \E f \in loose : f[1] # CANONICAL

\* While the recovery of such a boot runs, the directories that a power loss may
\* leave differ in their journals alone, and all have one.
Aligned == \A d \in disk : d[CANONICAL] = dir[CANONICAL] /\ d[ROLLBACK] = dir[ROLLBACK]

Ended == pc \in {"sync_journal", "raised"} \/ (pc = "returned" /\ w = "none")

Exposed ==
    Loosened =>
        /\ \A d \in disk : Exposable(d)
        /\ op = "startup" /\ pc \notin {"sync_restore", "raised"} => Aligned
        /\ op = "startup" /\ jm # None =>
               jm.commit_possible /\ (Ended \/ \A d \in disk : d[JOURNAL] # None)

\* The executor's invariant, at every point of a boot, and the gate's own.
BootInvariant ==
    /\ Consistent /\ Reported
    /\ Gated /\ Owning /\ Steady /\ Agreed /\ Private /\ Exposed
=============================================================================

----------------------- MODULE UnifiExecutorRefinement -----------------------
(***************************************************************************)
(* UnifiExecutor implements KeystoreTransaction: the transaction on record *)
(* is what the journal in the directory says.                              *)
(***************************************************************************)
EXTENDS UnifiExecutorInvariant

TransactionStates == {"open", "pending", "verified", "undone"}

Transactions ==
    [old : Inodes, new : Inodes \cup {None}, state : TransactionStates]

ASSUME NullTransaction == None \notin Transactions

StateOf(j) ==
    CASE j.phase = PENDING -> "pending"
      [] j.phase = "live_verified" -> "verified"
      [] j.phase = "recovered_old" -> "undone"
      [] OTHER -> "open"

\* The issued keystore counts from the journal that allows the commit on.
TransactionOf(j) ==
    IF j = None THEN None
    ELSE [old |-> j.old_inode,
          new |-> IF j.commit_possible THEN j.stage_inode ELSE None,
          state |-> StateOf(j)]

Transaction ==
    INSTANCE KeystoreTransaction
    WITH canonical <- dir[CANONICAL], tx <- TransactionOf(dir[JOURNAL])

\* The executor implements the transaction, whatever faults strike it: the
\* canonical keystore changes only by a commit of the keystore on offer or by
\* the return of the old one, only a pending transaction becomes verified, and
\* the journal disappears only once its outcome is canonical.
ImplementsTransaction == Transaction!Spec

-----------------------------------------------------------------------------
(* What the proof of it needs beyond the inductive invariant.              *)

\* Journal j may replace journal k in the directory.
Follows(k, j) ==
    IF k = None
    THEN j.phase = "quiescing" /\ ~j.commit_possible /\ j.old_inode = dir[CANONICAL]
    ELSE /\ j.old_inode = k.old_inode
         /\ k.commit_possible => j.commit_possible /\ j.stage_inode = k.stage_inode
         /\ ~k.commit_possible /\ j.commit_possible =>
                /\ StateOf(k) = "open" /\ StateOf(j) = "open"
                /\ dir[CANONICAL] = j.old_inode
         /\ k.phase # "live_verified"
         /\ j.phase = PENDING => dir[CANONICAL] = j.stage_inode
         /\ j.phase = "live_verified" =>
                k.phase = PENDING /\ dir[CANONICAL] = j.stage_inode
         /\ j.phase = "recovered_old" => dir[CANONICAL] = j.old_inode

\* The journal of d may come back in the place of k: it is of the same
\* transaction, or of one that ended before it.
Precedes(d, k) ==
    LET j == d[JOURNAL]
    IN  IF k.commit_possible
        THEN j # None /\ (j.commit_possible => j.stage_inode = k.stage_inode)
        ELSE j # None =>
                \/ Settled(d, j)
                \/ j.old_inode = k.old_inode /\ ~j.commit_possible

BeingWritten == IF w \in {"create", "rename"} THEN {jm} ELSE {}

\* Where the journal in memory stands for a decision about the canonical.
Points ==
    /\ op = "install" =>
           pc \in InstallLabels \cup {"stop", "await_up", "resumed", "returned", "raised"}
    /\ pc = "raised" => w = "none"
    /\ w \in {"create", "rename"} /\ dir[JOURNAL] = None => pc = "stop"
    /\ op = "install" /\ jm.phase = PENDING => pc \in {"returned", "raised"}
    /\ \/ op = "install" /\ pc \in {"await_up", "resumed"}
       \/ outcome = PENDING /\ pc \in {"recover_resume", "await_up", "resumed"}
       => dir[CANONICAL] = jm.stage_inode

Following == \A j \in BeingWritten : Follows(dir[JOURNAL], j)

Preceding ==
    \A k \in ({dir[JOURNAL]} \cup BeingWritten) \ {None} :
        \A d \in disk : Precedes(d, k)

Recorded == Points /\ Following /\ Preceding
=============================================================================

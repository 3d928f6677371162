---------------------------- MODULE ExecutorFiles ----------------------------
(***************************************************************************)
(* The appdata directory of the executor: _Files of                        *)
(* src/unifi_executor_files.py over a local file system.                   *)
(*                                                                         *)
(* A name of the directory holds an inode (the three keystore names) or a  *)
(* journal record (the two journal names), or None when it is absent.      *)
(* dir is what a process reads now.  disk is the set of directories that   *)
(* a power loss may leave: every rename, link, create and unlink made      *)
(* since the last directory fsync is atomic, and each one may or may not   *)
(* have reached the disk, independently of the others.  POSIX promises no  *)
(* more than that, and the executor assumes no more.                       *)
(***************************************************************************)
CONSTANTS
    Inodes,     \* identities (device, inode number) of keystore files
    Certs,      \* public identities of a keystore: its SPKI and its chain
    Junk,       \* the content of a keystore keytool cannot read
    None        \* an absent name, and JSON's null

ASSUME ModelValues ==
    /\ None \notin Inodes /\ None \notin Certs
    /\ Junk \notin Certs /\ Junk # None

VARIABLES
    dir,        \* the directory as processes see it
    disk,       \* the directories that a power loss may leave
    content,    \* what each inode holds
    synced,     \* inodes whose content was fsynced since its last change
    unsafe      \* inodes that status() refuses: created, not yet fchowned

filesVars == <<dir, disk, content, synced, unsafe>>

CANONICAL == "keystore"
STAGE == ".cert-renewer-stage"
ROLLBACK == ".cert-renewer-rollback"
JOURNAL == ".cert-renewer-journal"
JOURNAL_NEW == ".cert-renewer-journal-new"
Keystores == {CANONICAL, STAGE, ROLLBACK}
Names == Keystores \cup {JOURNAL, JOURNAL_NEW}

exists(name) == dir[name] # None

LinkedOnce(name) == \A other \in Keystores \ {name} : dir[other] # dir[name]

\* A stage has one link; the canonical and the rollback may share an inode.
status(name) ==
    /\ exists(name)
    /\ dir[name] \notin unsafe
    /\ name = STAGE => LinkedOnce(STAGE)

collect(name) == content[dir[name]]

Bind(d, name, value) == [d EXCEPT ![name] = value]

Put(name, value) ==
    /\ dir' = Bind(dir, name, value)
    /\ disk' = disk \cup {Bind(d, name, value) : d \in disk}

Move(d, source, target, value) == [d EXCEPT ![target] = value, ![source] = None]

\* rename(2) does nothing when both names are links to one inode; two journals
\* are two inodes even when they hold the same record.
replace(source, target) ==
    IF source \in Keystores /\ dir[source] = dir[target]
    THEN UNCHANGED <<dir, disk>>
    ELSE /\ dir' = Move(dir, source, target, dir[source])
         /\ disk' = disk \cup {Move(d, source, target, dir[source]) : d \in disk}

remove(name) == IF exists(name) THEN Put(name, None) ELSE UNCHANGED <<dir, disk>>

link_rollback == Put(ROLLBACK, dir[CANONICAL])

sync_directory ==
    /\ disk' = {dir}
    /\ UNCHANGED dir

\* Mutant of sync_file: the fsync is forgotten.
sync_file_skipped(name) == exists(name) /\ UNCHANGED synced

sync_file(name) == synced' = synced \cup {dir[name]}

\* What a program that opens inode i for writing leaves in it.
Store(i, value) ==
    /\ content' = [content EXCEPT ![i] = value]
    /\ synced' = synced \ {i}

\* An inode is given out again only when no directory that could come back
\* after a power loss still names it.
Free(i) == \A d \in disk : \A name \in Keystores : d[name] # i

\* open(O_CREAT | O_EXCL) of the stage as root; opened() fchowns it next.
CreateStage(i) ==
    /\ ~exists(STAGE)
    /\ Free(i)
    /\ Put(STAGE, i)
    /\ Store(i, Junk)
    /\ unsafe' = unsafe \cup {i}

ChownStage ==
    /\ unsafe' = unsafe \ {dir[STAGE]}
    /\ UNCHANGED <<dir, disk, content, synced>>

copy_stage ==
    /\ Store(dir[STAGE], collect(CANONICAL))
    /\ UNCHANGED <<dir, disk, unsafe>>

\* One of the directories the disk may hold comes back.  What was not fsynced
\* may come back unreadable, and a stage among it with root as its owner.
LosePower ==
    /\ dir' \in disk
    /\ disk' = {dir'}
    /\ \E lost \in SUBSET (Inodes \ synced) :
           /\ content' = [i \in Inodes |-> IF i \in lost THEN Junk ELSE content[i]]
           /\ unsafe' \in {unsafe, unsafe \cup (lost \cap {dir'[STAGE]})}
    /\ synced' = Inodes
=============================================================================

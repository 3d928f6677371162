----------------------------- MODULE UnifiService -----------------------------
(***************************************************************************)
(* The UniFi Java service under s6, as _Service of src/unifi_process.py    *)
(* sees and commands it.  Java is the other writer of the keystore: while  *)
(* it lives it may rewrite the canonical file in place.                    *)
(*                                                                         *)
(*   "down"      s6 reports "false false" and no Java process exists       *)
(*   "starting"  s6 was told -u (or respawns Java), not ready yet          *)
(*   "up"        s6 reports "true true"                                    *)
(*   "stopping"  s6 was told -d and Java still lives                       *)
(***************************************************************************)
EXTENDS ExecutorFiles

VARIABLES
    svc,        \* the state of the service
    serving,    \* the certificate the running Java presents, None for another
    served,     \* history: certificates presented since the transaction began
    rewritten,  \* history: inodes Java has rewritten since the transaction began
    touched     \* Java rewrote the canonical since the executor last took its
                \* identity: size, times and link count, what same() compares

serviceVars == <<svc, serving, served, rewritten, touched>>

ServiceStates == {"down", "starting", "up", "stopping"}

\* running() raises in the two unstable states.
running == svc = "up"

stopped == svc = "down"

\* Mutant of same: the identity is not compared.
same_ignored == touched \in BOOLEAN

\* same(CANONICAL, ...): the file has the identity the executor last took.
same == ~touched

\* s6-svc -d and s6-svc -u; the -wD and -wU waits are steps of the caller.
s6_down == svc' = IF svc = "down" THEN "down" ELSE "stopping"

s6_up == svc' = IF svc = "up" THEN "up" ELSE "starting"

\* Java reads the keystore when it starts.  It may fail to load what it reads
\* and present another certificate: live verification exists for that.
JavaUp(loaded) ==
    /\ svc = "starting"
    /\ svc' = "up"
    /\ serving' = IF loaded THEN collect(CANONICAL) ELSE None
    /\ served' = served \cup {serving'}
    /\ UNCHANGED <<filesVars, rewritten, touched>>

JavaDown ==
    /\ svc = "stopping"
    /\ svc' = "down"
    /\ serving' = None
    /\ UNCHANGED <<filesVars, served, rewritten, touched>>

\* s6 respawns a Java that died.
JavaCrash ==
    /\ svc = "up"
    /\ svc' = "starting"
    /\ serving' = None
    /\ UNCHANGED <<filesVars, served, rewritten, touched>>

JavaRewrites(cert) ==
    /\ svc # "down"
    /\ Store(dir[CANONICAL], cert)
    /\ rewritten' = rewritten \cup {dir[CANONICAL]}
    /\ touched' = TRUE
    /\ UNCHANGED <<dir, disk, unsafe, svc, serving, served>>
=============================================================================

----------------------------- MODULE ProcessScan -----------------------------
(***************************************************************************)
(* _processes of unifi_process.py: walk /proc and say whether a UniFi JVM  *)
(* or a keytool lives.  A process that root may not read is inspected by a *)
(* forked child that has become abc and reports one byte.  While the scan  *)
(* walks, processes exit or change their owner, and the child may hang,    *)
(* fail or die.  Nothing that matters appears: s6 keeps the service down   *)
(* and the flock keeps other helpers out.                                  *)
(***************************************************************************)
EXTENDS Integers

CONSTANT Procs

VARIABLES
    kind,       \* what an inspection of each process would find
    alive,      \* the processes that live
    hidden,     \* those that root may not read (PermissionError)
    owner,      \* "abc" or another user
    todo,       \* the entries of /proc still to visit
    cur,        \* the process being visited, anchored by its descriptor
    at,         \* the step of the visit
    child,      \* the inspection child; "exited" with 0, or "killed"
    byte,       \* what it has reported
    late,       \* PROCESS_INSPECTION_TIMEOUT has passed
    found,      \* the findings so far, which _processes joins with |=
    result

world == <<kind, alive, hidden, owner>>
scan == <<todo, cur, at, found, result>>
vars == <<world, scan, child, byte, late>>

\* Neither, a UniFi JVM, a keytool, or both.
_PROCESS_RESULTS == {"N", "U", "K", "B"}

Init ==
    /\ kind \in [Procs -> _PROCESS_RESULTS] /\ owner \in [Procs -> {"abc", "root"}]
    /\ alive = Procs /\ hidden \in SUBSET Procs
    /\ todo = Procs /\ cur \in Procs /\ at = "next"
    /\ child = "none" /\ byte = "" /\ late = FALSE
    /\ found = {} /\ result = "none"

End(r) ==
    /\ result' = r /\ at' = "ended"
    /\ UNCHANGED <<todo, cur, found>>

\* The visit is over; a process that disappeared has added nothing.
Visited(finding) ==
    /\ found' = found \cup finding /\ at' = "next"
    /\ UNCHANGED <<todo, cur, result>>

\* The next entry of /proc, if there is one.
Visit ==
    /\ at = "next"
    /\ \/ todo = {} /\ End("returned")
       \/ \E p \in todo :
             /\ cur' = p /\ todo' = todo \ {p} /\ at' = "inspect"
             /\ UNCHANGED <<found, result>>
    /\ UNCHANGED <<world, child, byte, late>>

\* As root.  ENOENT and ESRCH mean that the process is gone; an OSError other
\* than those and PermissionError, or too much data, ends the scan.
_inspect_process_fd ==
    /\ at = "inspect"
    /\ \/ cur \notin alive /\ Visited({})
       \/ cur \in alive \ hidden /\ Visited({kind[cur]})
       \/ /\ cur \in alive \cap hidden /\ at' = "identify"
          /\ UNCHANGED <<todo, cur, found, result>>
       \/ End("raised")
    /\ UNCHANGED <<world, child, byte, late>>

\* The first _abc_process_identity, and the fork, which may fail.
_inspect_as_abc ==
    /\ at = "identify"
    /\ \/ /\ cur \notin alive /\ Visited({})
          /\ UNCHANGED <<child, byte, late>>
       \/ /\ cur \in alive /\ End("raised")
          /\ UNCHANGED <<child, byte, late>>
       \/ /\ cur \in alive /\ owner[cur] = "abc"
          /\ at' = "receive" /\ child' = "running" /\ byte' = "" /\ late' = FALSE
          /\ UNCHANGED <<todo, cur, found, result>>
    /\ UNCHANGED world

\* The child reports, or fails to.  "D" stands for ENOENT and ESRCH, which abc may
\* get for more reasons than an exit; "E" for any other exception.  A process that
\* is exiting may have lost its command line already.
_child_inspection ==
    /\ child = "running"
    /\ child' = "exited"
    /\ byte' \in {"D", "E", "", kind[cur]} \cup (IF cur \in alive THEN {} ELSE {"N"})
    /\ UNCHANGED <<world, scan, late>>

\* It is killed before or after it reports.
ChildDies ==
    /\ child = "running"
    /\ child' = "killed"
    /\ byte' \in {"D", "E", "", kind[cur]}
    /\ UNCHANGED <<world, scan, late>>

Late ==
    /\ at = "receive" /\ ~late /\ late' = TRUE
    /\ UNCHANGED <<world, scan, child, byte>>

\* What _receive_child accepts: exit status 0, one byte, and not an "E".
Usable == child = "exited" /\ byte \notin {"", "E"}

\* Mutant of _kill_and_reap: the timeout leaves the child alone.
NoKill == UNCHANGED child

_kill_and_reap == child' = "none"

\* Mutant of TimedOut: there is no deadline.
NeverTimedOut == FALSE

TimedOut == late

\* Wait for the end of the pipe and the exit status, or for the deadline.
_receive_child ==
    /\ at = "receive"
    /\ \/ /\ child \in {"exited", "killed"} /\ child' = "none"
          /\ \/ ~Usable /\ End("raised")
             \/ Usable /\ at' = "recheck" /\ UNCHANGED <<todo, cur, found, result>>
       \/ TimedOut /\ _kill_and_reap /\ End("raised")
    /\ UNCHANGED <<world, byte, late>>

\* Mutant of Recheck: the report that the process is gone is believed.
RecheckNone ==
    /\ at = "recheck"
    /\ \/ (cur \notin alive \/ byte = "D") /\ Visited({})
       \/ cur \in alive /\ byte # "D" /\ Visited({byte})
    /\ UNCHANGED <<world, child, byte, late>>

\* The second _abc_process_identity: a process that was reported gone must be
\* gone, and one that was inspected must be gone or still be abc's.
Recheck ==
    /\ at = "recheck"
    /\ \/ cur \notin alive /\ Visited({})
       \/ cur \in alive /\ (byte = "D" \/ owner[cur] # "abc") /\ End("raised")
       \/ cur \in alive /\ byte # "D" /\ owner[cur] = "abc" /\ Visited({byte})
    /\ UNCHANGED <<world, child, byte, late>>

_processes ==
    Visit \/ _inspect_process_fd \/ _inspect_as_abc \/ _receive_child \/ Recheck

Exits(p) ==
    /\ result = "none" /\ p \in alive /\ alive' = alive \ {p}
    /\ UNCHANGED <<kind, hidden, owner, scan, child, byte, late>>

ChangesOwner(p) ==
    /\ result = "none" /\ p \in alive
    /\ owner' = [owner EXCEPT ![p] = IF @ = "abc" THEN "root" ELSE "abc"]
    /\ UNCHANGED <<kind, alive, hidden, scan, child, byte, late>>

Next ==
    \/ _processes \/ _child_inspection \/ ChildDies \/ Late
    \/ \E p \in Procs : Exits(p) \/ ChangesOwner(p)

Spec == Init /\ [][Next]_vars

\* The scan runs and time passes; the child owes nothing.
FairSpec == Spec /\ WF_vars(_processes) /\ WF_vars(Late)

-----------------------------------------------------------------------------
\* The types.
TypeOK ==
    /\ kind \in [Procs -> _PROCESS_RESULTS] /\ owner \in [Procs -> {"abc", "root"}]
    /\ alive \subseteq Procs /\ hidden \subseteq Procs
    /\ todo \subseteq Procs /\ cur \in Procs
    /\ at \in {"next", "inspect", "identify", "receive", "recheck", "ended"}
    /\ child \in {"none", "running", "exited", "killed"}
    /\ byte \in _PROCESS_RESULTS \cup {"", "D", "E"} /\ late \in BOOLEAN
    /\ found \subseteq _PROCESS_RESULTS
    /\ result \in {"none", "returned", "raised"}

\* _processes fails closed: when it returns, it has found every UniFi JVM and
\* every keytool that lives, whatever happened meanwhile to other processes and
\* to the inspection children; the exclusion of writers rests on this.
NothingOverlooked ==
    result = "returned" =>
        \A p \in alive, ks \in {{"U", "B"}, {"K", "B"}} :
            kind[p] \in ks => found \cap ks # {}

\* An inspection child is alive or unreaped only while _receive_child waits for
\* it: none is left when the scan goes on to the next process, or ends.
NoChildLeft == child # "none" => at = "receive"

\* The scan ends, whatever the inspection children do.
ScanEnds == <>(at = "ended")
=============================================================================

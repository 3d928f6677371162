---------------------------- MODULE ProcessRunner ----------------------------
(***************************************************************************)
(* _run and _reap of unifi_process.py: the helper starts a child in a      *)
(* group of its own, feeds its stdin and drains its output from one        *)
(* nonblocking loop under a deadline, and leaves nobody of the group       *)
(* behind.  The child, and a process it may fork, do as they like.  All of *)
(* them inherit the descriptor of the flock.  Data is counted in chunks;   *)
(* stdout stands for stderr too, which is bounded in the same way.         *)
(***************************************************************************)
EXTENDS Integers

CONSTANTS
    MAX_IO,     \* chunks accepted as input and as output
    Data,       \* chunks to feed
    PipeSize    \* chunks that a pipe holds

ASSUME RunnerAssumption == MAX_IO \in Nat /\ Data \in Nat /\ PipeSize \in Nat \ {0}

Streams == {"stdin", "stdout"}
Group == {"child", "kin"}

VARIABLES
    pc,         \* the helper
    outcome,    \* what _run comes to
    late,       \* the deadline has passed
    sent,       \* chunks written to stdin
    registered, \* the streams in the selector
    pipe,       \* chunks in each pipe
    wrote,      \* chunks that the group has written to stdout
    proc,       \* the processes of the group; a killed one may take its time
    holds,      \* the streams that each has open
    waits,      \* the stream that it blocks on
    status,     \* the child's exit status
    locked      \* the processes that hold the flock

helperVars == <<late, sent, registered>>
vars == <<pc, outcome, helperVars, pipe, wrote, proc, holds, waits, status, locked>>

Alive(p) == proc[p] \in {"running", "stalled", "killed"}

\* Some process has the other end of the pipe open.
Held(s) == \E p \in Group : Alive(p) /\ s \in holds[p]

Init ==
    /\ pc = "popen" /\ outcome = "none" /\ late = FALSE /\ sent = 0 /\ wrote = 0
    /\ registered = {} /\ pipe = [s \in Streams |-> 0]
    /\ proc = [p \in Group |-> "none"] /\ holds = [p \in Group |-> {}]
    /\ waits = [p \in Group |-> "nothing"] /\ status = "none"
    /\ locked = {"helper"}

\* Mutant of Started: the flock's descriptor is not in pass_fds.
StartedUnlocked(p, streams) ==
    /\ proc' = [proc EXCEPT ![p] = "running"]
    /\ holds' = [holds EXCEPT ![p] = streams]
    /\ UNCHANGED locked

Started(p, streams) ==
    /\ proc' = [proc EXCEPT ![p] = "running"]
    /\ holds' = [holds EXCEPT ![p] = streams]
    /\ locked' = locked \cup {p}

\* Too much data, or a failing Popen, starts no child and reaps none.
Popen ==
    /\ pc = "popen"
    /\ \/ /\ pc' = "ended" /\ outcome' = "raised"
          /\ UNCHANGED <<registered, proc, holds, locked>>
       \/ /\ Data <= MAX_IO /\ pc' = "loop"
          /\ registered' = IF Data > 0 THEN Streams ELSE Streams \ {"stdin"}
          /\ Started("child", Streams)
          /\ UNCHANGED outcome
    /\ UNCHANGED <<late, sent, pipe, wrote, waits, status>>

\* An exception or the return; the finally clause calls _reap either way.
Leave(o) == pc' = "term" /\ outcome' = o

\* Mutant of Expired: the deadline is looked at when nothing is ready.
ExpiredWhenIdle == late /\ pipe["stdout"] = 0

Expired == late

TimesOut ==
    /\ pc = "loop" /\ registered # {} /\ Expired
    /\ Leave("raised")
    /\ UNCHANGED <<helperVars, pipe, wrote, proc, holds, waits, status, locked>>

InLoop == pc = "loop" /\ ~late

AllSent(n) == n = Data

\* stdin is ready: write what the pipe takes; a broken pipe ends the feeding.
Feed ==
    /\ InLoop /\ "stdin" \in registered
    /\ \/ /\ Held("stdin") /\ pipe["stdin"] < PipeSize
          /\ sent' = sent + 1 /\ pipe' = [pipe EXCEPT !["stdin"] = @ + 1]
       \/ /\ ~Held("stdin")
          /\ sent' = Data /\ UNCHANGED pipe
    /\ registered' = IF AllSent(sent') THEN registered \ {"stdin"} ELSE registered
    /\ UNCHANGED <<pc, outcome, late, wrote, proc, holds, waits, status, locked>>

\* Mutant of MayDrain: all input is fed before any output is read.
MayDrainFed == registered = {"stdout"}

MayDrain == "stdout" \in registered

\* Mutant of EndOfOutput: the loop ends with the child, not with its output.
EndOfChild == ~Alive("child")

EndOfOutput == pipe["stdout"] = 0 /\ ~Held("stdout")

\* stdout is ready: read a chunk, and give up on too many; or see the end.
Drain ==
    /\ InLoop /\ MayDrain
    /\ \/ /\ pipe["stdout"] > 0
          /\ pipe' = [pipe EXCEPT !["stdout"] = @ - 1]
          /\ IF wrote - pipe'["stdout"] > MAX_IO
             THEN Leave("raised") ELSE UNCHANGED <<pc, outcome>>
          /\ UNCHANGED registered
       \/ /\ EndOfOutput
          /\ registered' = registered \ {"stdout"}
          /\ UNCHANGED <<pc, outcome, pipe>>
    /\ UNCHANGED <<late, sent, wrote, proc, holds, waits, status, locked>>

Reaped == proc' = [proc EXCEPT !["child"] = "gone"]

\* child.wait once every stream has ended.
Wait ==
    /\ pc = "loop" /\ registered = {}
    /\ \/ /\ proc["child"] = "zombie" /\ Reaped
          /\ Leave(IF status = "zero" THEN "returned" ELSE "raised")
       \/ /\ late /\ proc["child"] # "zombie"
          /\ Leave("raised") /\ UNCHANGED proc
    /\ UNCHANGED <<helperVars, pipe, wrote, holds, waits, status, locked>>

\* What exits drops the flock; the child stays a zombie until it is waited for.
Exited(ps) ==
    /\ proc' = [p \in Group |-> IF p \notin ps THEN proc[p]
                               ELSE IF p = "child" THEN "zombie" ELSE "gone"]
    /\ locked' = locked \ ps

\* Mutant of Victims: once the child has exited its group is left alone.
VictimsOfChild == IF Alive("child") THEN {p \in Group : Alive(p)} ELSE {}

Victims == {p \in Group : Alive(p)}

\* _reap: SIGTERM ends some of the group, the child has two seconds, SIGKILL
\* goes to the whole group, and the last wait has no timeout.
_reap ==
    /\ \/ /\ pc = "term" /\ pc' = "grace"
          /\ \E ps \in SUBSET {p \in Group : Alive(p)} : Exited(ps)
       \/ /\ pc = "grace" /\ pc' = "kill" /\ UNCHANGED locked
          /\ IF proc["child"] = "zombie" THEN Reaped ELSE UNCHANGED proc
       \/ /\ pc = "kill" /\ pc' = "reap" /\ UNCHANGED locked
          /\ proc' = [p \in Group |-> IF p \in Victims THEN "killed" ELSE proc[p]]
       \/ /\ pc = "reap" /\ pc' = "ended" /\ UNCHANGED locked
          /\ ~Alive("child") /\ Reaped
    /\ UNCHANGED <<outcome, helperVars, pipe, wrote, holds, waits, status>>

_run == Popen \/ Feed \/ Drain \/ TimesOut \/ Wait \/ _reap

\* The helper is killed, or has ended _run and later closes the flock.
HelperGone ==
    /\ "helper" \in locked /\ locked' = locked \ {"helper"}
    /\ pc' = (IF pc = "ended" THEN pc ELSE "dead")
    /\ UNCHANGED <<outcome, helperVars, pipe, wrote, proc, holds, waits, status>>

Deadline ==
    /\ pc = "loop" /\ ~late /\ late' = TRUE
    /\ UNCHANGED <<pc, outcome, sent, registered, pipe, wrote, proc, holds, waits,
                   status, locked>>

-----------------------------------------------------------------------------
(* The group.  What it reads and writes matters only during the loop.      *)

Idle(p) == proc[p] = "running" /\ (waits[p] = "nothing" \/ pc # "loop")

Forks ==
    /\ Idle("child") /\ proc["kin"] = "none"
    /\ Started("kin", holds["child"])
    /\ UNCHANGED <<pc, outcome, helperVars, pipe, wrote, waits, status>>

\* It calls read or write, or closes its streams and goes on without them.
\* Output that is past MAX_IO already is not continued.
Calls(p) ==
    /\ Idle(p) /\ pc = "loop" /\ holds[p] # {}
    /\ \/ /\ \E s \in holds[p] : /\ s = "stdout" => wrote <= MAX_IO
                                 /\ waits' = [waits EXCEPT ![p] = s]
          /\ UNCHANGED holds
       \/ holds' = [holds EXCEPT ![p] = {}] /\ UNCHANGED waits
    /\ UNCHANGED <<pc, outcome, helperVars, pipe, wrote, proc, status, locked>>

\* The call ends: a chunk is read or written, or the input has ended.
Served(p) ==
    /\ proc[p] = "running" /\ pc = "loop"
    /\ \/ /\ waits[p] = "stdin" /\ pipe["stdin"] > 0
          /\ pipe' = [pipe EXCEPT !["stdin"] = @ - 1] /\ UNCHANGED <<wrote, holds>>
       \/ /\ waits[p] = "stdin" /\ pipe["stdin"] = 0 /\ "stdin" \notin registered
          /\ holds' = [holds EXCEPT ![p] = @ \ {"stdin"}] /\ UNCHANGED <<wrote, pipe>>
       \/ /\ waits[p] = "stdout" /\ pipe["stdout"] < PipeSize
          /\ pipe' = [pipe EXCEPT !["stdout"] = @ + 1]
          /\ wrote' = wrote + 1 /\ UNCHANGED holds
    /\ waits' = [waits EXCEPT ![p] = "nothing"]
    /\ UNCHANGED <<pc, outcome, helperVars, proc, status, locked>>

Exits(p) ==
    /\ Idle(p) \/ proc[p] = "killed"
    /\ Exited({p})
    /\ status' \in IF p = "kin" THEN {status}
                   ELSE IF proc[p] = "killed" THEN {"nonzero"} ELSE {"zero", "nonzero"}
    /\ UNCHANGED <<pc, outcome, helperVars, pipe, wrote, holds, waits>>

Stalls(p) ==
    /\ proc[p] = "running" /\ pc = "loop" /\ proc' = [proc EXCEPT ![p] = "stalled"]
    /\ UNCHANGED <<pc, outcome, helperVars, pipe, wrote, holds, waits, status, locked>>

Works(p) == Calls(p) \/ Served(p) \/ Exits(p)

Next ==
    \/ _run \/ HelperGone \/ Deadline \/ Forks
    \/ \E p \in Group : Works(p) \/ Stalls(p)

Spec == Init /\ [][Next]_vars

\* The helper runs, a process that does not stall goes on, and the kernel ends
\* a process that SIGKILL has reached.  Nothing makes the deadline pass.
FairSpec == Spec /\ WF_vars(_run) /\ \A p \in Group : WF_vars(Works(p))

-----------------------------------------------------------------------------
\* The inherited descriptor keeps the flock taken, so that no other helper
\* starts, while any process that an earlier _run started lives, whoever of the
\* helper, the child and its descendant dies first.
ChildExcludes == locked = {} => \A p \in Group : ~Alive(p)

\* _run leaves nobody behind: when it has returned or raised, the child is reaped
\* and what is left of its group has been killed, also a process that outlived
\* the child, ignored SIGTERM or gave up the pipes.
LeavesNobody ==
    pc = "ended" => \A p \in Group : proc[p] \in {"none", "gone", "killed"}

\* A result is whole: the child exited with 0, and the helper has read all that
\* the group ever wrote, which is no more than MAX_IO.
WholeOutput ==
    outcome = "returned" => /\ status = "zero" /\ pipe["stdout"] = 0
                            /\ wrote <= MAX_IO /\ ~Held("stdout")

\* The helper and the group never wait for each other: unless a process stalls,
\* the loop ends without the help of the deadline.
NoPipeDeadlock ==
    pc = "loop" ~> (pc # "loop" \/ late \/ \E p \in Group : proc[p] = "stalled")

\* After the deadline _run ends, whatever the group does.
DeadlineEnds == late ~> pc \in {"ended", "dead"}
=============================================================================

-------------------------- MODULE ProcessRunnerProofs --------------------------
(***************************************************************************)
(* Proofs about ProcessRunner, for every bound on the data, every amount   *)
(* of input and every size of a pipe: whatever the child and the process   *)
(* it forks do, _run leaves nobody of the group behind, the flock outlives *)
(* the helper as long as they live, and a result is whole.                 *)
(***************************************************************************)
EXTENDS ProcessRunner, TLAPS

States == {"none", "running", "stalled", "killed", "zombie", "gone"}

Typed ==
    /\ pc \in {"popen", "loop", "term", "grace", "kill", "reap", "ended", "dead"}
    /\ outcome \in {"none", "returned", "raised"}
    /\ registered \subseteq Streams
    /\ pipe \in [Streams -> Nat] /\ wrote \in Nat
    /\ proc \in [Group -> States] /\ holds \in [Group -> SUBSET Streams]
    /\ waits \in [Group -> Streams \cup {"nothing"}]

\* Only the child becomes a zombie, and a process that was not started yet
\* waits for nothing.
Processes ==
    /\ proc["kin"] # "zombie"
    /\ pc = "popen" => \A p \in Group : proc[p] = "none"
    /\ \A p \in Group : proc[p] = "none" => waits[p] = "nothing"
    /\ \A p \in Group : waits[p] # "nothing" => waits[p] \in holds[p]

\* Whoever lives has the descriptor of the flock.
Inherited == \A p \in Group : Alive(p) => p \in locked

\* What _reap has behind it once SIGKILL is sent, and once the child is reaped.
Reaping ==
    /\ pc \in {"reap", "ended"} =>
           \A p \in Group : proc[p] \in {"none", "gone", "killed", "zombie"}
    /\ pc = "ended" => proc["child"] \in {"none", "gone"}

\* A stream leaves the selector only at its end, and the chunks that were read
\* are within the bound unless _run raises.
Drained ==
    /\ pc = "loop" /\ "stdout" \notin registered =>
           pipe["stdout"] = 0 /\ ~Held("stdout")
    /\ outcome # "raised" => wrote - pipe["stdout"] <= MAX_IO

\* Once _run has its result nothing of it changes any more.
Returned ==
    /\ pc \in {"popen", "loop"} => outcome = "none"
    /\ outcome = "returned" =>
           /\ status = "zero" /\ proc["child"] = "gone"
           /\ pipe["stdout"] = 0 /\ ~Held("stdout")

\* The inductive invariant of _run and the group it started.
RunnerInvariant == Typed /\ Processes /\ Inherited /\ Reaping /\ Drained /\ Returned

USE DEF Group, Streams

-----------------------------------------------------------------------------
(* The helper.                                                             *)

\* Popen starts the child, with the flock and the streams, or raises.
LEMMA PopenKeeps ==
    ASSUME RunnerInvariant, Popen
    PROVE  RunnerInvariant'
  <1> USE DEF RunnerInvariant, Popen, Started
  <1>1. Typed'
    <2>1. proc' \in [Group -> States] /\ holds' \in [Group -> SUBSET Streams]
      BY DEF Typed, States
    <2>2. registered' \subseteq Streams
      BY DEF Typed
    <2> QED  BY <2>1, <2>2 DEF Typed
  <1>2. Processes' /\ Inherited'
    BY DEF Typed, Processes, Inherited, Alive
  <1>3. Reaping' /\ Drained' /\ Returned'
    BY DEF Typed, Processes, Reaping, Drained, Returned, Held, Alive
  <1> QED  BY <1>1, <1>2, <1>3

\* The loop: the deadline, the input, the output and the wait for the child.
LEMMA TimesOutKeeps ==
    ASSUME RunnerInvariant, TimesOut
    PROVE  RunnerInvariant'
  BY DEF RunnerInvariant, TimesOut, Leave, helperVars, Typed, Processes, Inherited,
      Alive, Reaping, Drained, Returned, Held

\* The input is written into the pipe, or the child has closed it.
LEMMA FeedKeeps ==
    ASSUME RunnerInvariant, Feed
    PROVE  RunnerInvariant'
  <1> USE DEF RunnerInvariant, Feed, InLoop
  <1>1. Typed' /\ pipe'["stdout"] = pipe["stdout"] /\ proc' = proc /\ holds' = holds
        /\ ("stdout" \in registered' <=> "stdout" \in registered)
    BY DEF Typed
  <1>2. Processes' /\ Inherited' /\ Reaping'
    BY DEF Processes, Inherited, Reaping, Alive
  <1>3. Drained' /\ Returned'
    BY <1>1 DEF Drained, Returned, Held, Alive
  <1> QED  BY <1>1, <1>2, <1>3

\* A chunk is read, or the end of the stream, which nobody holds open then.
LEMMA DrainKeeps ==
    ASSUME RunnerInvariant, Drain
    PROVE  RunnerInvariant'
  <1> USE DEF RunnerInvariant, Drain, InLoop, Leave
  <1>1. Typed' /\ proc' = proc /\ holds' = holds /\ waits' = waits /\ locked' = locked
    <2>1. pipe' \in [Streams -> Nat]
      BY DEF Typed
    <2> QED  BY <2>1 DEF Typed
  <1>2. Processes' /\ Inherited' /\ Reaping'
    BY <1>1 DEF Processes, Inherited, Reaping, Alive
  <1>3. Drained' /\ Returned'
    BY <1>1, RunnerAssumption DEF Typed, Drained, Returned, Held, Alive, EndOfOutput
  <1> QED  BY <1>1, <1>2, <1>3

\* wait4 finds the direct child exited.
LEMMA WaitKeeps ==
    ASSUME RunnerInvariant, Wait
    PROVE  RunnerInvariant'
  <1> USE DEF RunnerInvariant, Wait, Leave, Reaped
  <1>1. Typed'
    BY DEF Typed, States, helperVars
  <1>2. Processes' /\ Inherited' /\ Reaping'
    BY DEF Typed, Processes, Inherited, Reaping, Alive
  <1>3. Drained' /\ Returned'
    BY DEF Typed, Drained, Returned, Held, Alive
  <1> QED  BY <1>1, <1>2, <1>3

\* SIGTERM and the exits that follow, SIGKILL and the last wait.
LEMMA ReapKeeps ==
    ASSUME RunnerInvariant, _reap
    PROVE  RunnerInvariant'
  <1> USE DEF RunnerInvariant
  <1>1. /\ outcome' = outcome /\ registered' = registered /\ pipe' = pipe
        /\ wrote' = wrote /\ holds' = holds /\ waits' = waits /\ status' = status
        /\ pc' \in {"grace", "kill", "reap", "ended"}
        /\ pc \in {"term", "grace", "kill", "reap"}
    BY DEF _reap, helperVars
  <1>2. /\ proc' \in [Group -> States] /\ proc'["kin"] # "zombie"
        /\ \A p \in Group : /\ proc'[p] = "none" => proc[p] = "none"
                            /\ Alive(p)' => Alive(p) /\ p \in locked'
        /\ proc["child"] = "gone" => proc'["child"] = "gone"
        /\ Reaping'
    <2>1. CASE pc = "term"
      <3>1. PICK ps \in SUBSET {p \in Group : Alive(p)} : Exited(ps)
        BY <2>1 DEF _reap
      <3> QED  BY <2>1, <3>1 DEF _reap, Exited, Alive, Typed, States, Processes, Inherited, Reaping
    <2>2. CASE pc = "grace"
      BY <2>2 DEF _reap, Reaped, Alive, Typed, States, Processes, Inherited, Reaping
    <2>3. CASE pc = "kill"
      BY <2>3 DEF _reap, Victims, Alive, Typed, States, Processes, Inherited, Reaping
    <2>4. CASE pc = "reap"
      BY <2>4 DEF _reap, Reaped, Alive, Typed, States, Processes, Inherited, Reaping
    <2> QED  BY <1>1, <2>1, <2>2, <2>3, <2>4
  <1>3. Typed' /\ Processes' /\ Inherited'
    BY <1>1, <1>2 DEF Typed, Processes, Inherited
  <1>4. Drained' /\ Returned'
    BY <1>1, <1>2 DEF Drained, Returned, Held
  <1> QED  BY <1>2, <1>3, <1>4

\* The helper's own end, and the passing of the deadline.
LEMMA HelperGoneKeeps ==
    ASSUME RunnerInvariant, HelperGone \/ Deadline
    PROVE  RunnerInvariant'
  BY DEF RunnerInvariant, HelperGone, Deadline, helperVars, Typed, Processes, Inherited,
      Alive, Reaping, Drained, Returned, Held

-----------------------------------------------------------------------------
(* The group.                                                              *)

\* A descendant inherits what its parent holds.
LEMMA ForksKeeps ==
    ASSUME RunnerInvariant, Forks
    PROVE  RunnerInvariant'
  <1> USE DEF RunnerInvariant, Forks, Idle, Started
  <1>1. Typed'
    BY DEF Typed, States, helperVars
  <1>2. Processes' /\ Inherited' /\ Reaping'
    BY DEF Typed, Processes, Inherited, Reaping, Alive
  <1>3. Drained' /\ Returned'
    BY DEF Typed, Drained, Returned, Held, Alive, helperVars
  <1> QED  BY <1>1, <1>2, <1>3

\* A process reads, writes or closes its streams.
LEMMA CallsKeeps ==
    ASSUME RunnerInvariant, NEW p \in Group, Calls(p)
    PROVE  RunnerInvariant'
  <1> USE DEF RunnerInvariant, Calls, Idle
  <1>1. Typed'
    BY DEF Typed, helperVars
  <1>2. Processes' /\ Inherited' /\ Reaping'
    BY DEF Typed, Processes, Inherited, Reaping, Alive
  <1>3. Drained' /\ Returned'
    BY DEF Typed, Drained, Returned, Held, Alive, helperVars
  <1> QED  BY <1>1, <1>2, <1>3

\* A chunk that is written is in the pipe until it is read.
LEMMA ServedKeeps ==
    ASSUME RunnerInvariant, NEW p \in Group, Served(p)
    PROVE  RunnerInvariant'
  <1> USE DEF RunnerInvariant, Served
  <1>1. Typed'
    BY DEF Typed, helperVars
  <1>2. Processes' /\ Inherited' /\ Reaping'
    BY DEF Typed, Processes, Inherited, Reaping, Alive
  <1>3. waits[p] = "stdout" => Held("stdout")
    BY DEF Processes, Held, Alive
  <1>4. Drained' /\ Returned'
    BY <1>3, RunnerAssumption DEF Typed, Drained, Returned, Held, Alive, helperVars
  <1> QED  BY <1>1, <1>2, <1>4

\* A process exits, which closes what it held, or hangs.
LEMMA ExitsKeeps ==
    ASSUME RunnerInvariant, NEW p \in Group, Exits(p) \/ Stalls(p)
    PROVE  RunnerInvariant'
  <1> USE DEF RunnerInvariant, Exits, Stalls, Exited, Idle
  <1>1. Typed'
    <2>1. proc' \in [Group -> States]
      BY DEF Typed, States
    <2> QED  BY <2>1 DEF Typed, helperVars
  <1>2. Processes' /\ Inherited' /\ Reaping'
    BY DEF Typed, Processes, Inherited, Reaping, Alive
  <1>3. Drained' /\ Returned'
    BY DEF Typed, Drained, Returned, Held, Alive, helperVars
  <1> QED  BY <1>1, <1>2, <1>3

-----------------------------------------------------------------------------

\* A helper that has just started has no child and no flock.
LEMMA RunnerInit == Init => RunnerInvariant
  BY RunnerAssumption DEF Init, RunnerInvariant, Typed, States, Processes, Inherited, Alive, Reaping,
      Drained, Returned, Held

\* Every step of the helper, of its processes and of the kernel keeps the invariant.
LEMMA RunnerNext == RunnerInvariant /\ [Next]_vars => RunnerInvariant'
  <1>1. ASSUME RunnerInvariant, UNCHANGED vars
        PROVE  RunnerInvariant'
    BY <1>1 DEF vars, helperVars, RunnerInvariant, Typed, Processes, Inherited, Alive,
        Reaping, Drained, Returned, Held
  <1> QED  BY <1>1, PopenKeeps, TimesOutKeeps, FeedKeeps, DrainKeeps, WaitKeeps, ReapKeeps,
              HelperGoneKeeps, ForksKeeps, CallsKeeps, ServedKeeps, ExitsKeeps
           DEF Next, _run, Works

\* The inductive invariant holds in every reachable state.
LEMMA RunnerHolds == Spec => []RunnerInvariant
  BY RunnerInit, RunnerNext, PTL DEF Spec

\* The flock is not free while a process that _run started lives.
THEOREM FlockOutlivesHelper == Spec => []ChildExcludes
  <1>1. RunnerInvariant => ChildExcludes
    BY DEF RunnerInvariant, Inherited, ChildExcludes
  <1> QED  BY <1>1, RunnerHolds, PTL

\* When _run has ended, the child is reaped and the rest of its group killed.
THEOREM NobodyIsLeft == Spec => []LeavesNobody
  <1>1. RunnerInvariant => LeavesNobody
    BY DEF RunnerInvariant, Reaping, Processes, LeavesNobody
  <1> QED  BY <1>1, RunnerHolds, PTL

\* A result that _run returns is all that the group wrote, within the bound,
\* of a child that exited with 0.
THEOREM ResultIsWhole == Spec => []WholeOutput
  <1>1. RunnerInvariant => WholeOutput
    BY RunnerAssumption DEF RunnerInvariant, Typed, Drained, Returned, WholeOutput
  <1> QED  BY <1>1, RunnerHolds, PTL
=============================================================================

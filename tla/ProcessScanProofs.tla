-------------------------- MODULE ProcessScanProofs --------------------------
(***************************************************************************)
(* For any set of processes: the scan overlooks no writer and leaves no    *)
(* inspection child.                                                       *)
(***************************************************************************)
EXTENDS ProcessScan, TLAPS

Visiting == at \in {"inspect", "identify", "receive", "recheck"}

\* What a report is worth: a living process was not reported as something else.
Truthful == cur \in alive => byte \in {"", "D", "E", kind[cur]}

\* A writer that lives is still ahead of the scan, being visited, or found.
Accounted ==
    \/ at = "ended" /\ result = "raised"
    \/ \A p \in alive, ks \in {{"U", "B"}, {"K", "B"}} :
           kind[p] \in ks => \/ p \in todo
                             \/ p = cur /\ Visiting
                             \/ found \cap ks # {}

\* The inductive invariant.
Scanning ==
    /\ TypeOK /\ NoChildLeft /\ Accounted
    /\ at \in {"receive", "recheck"} => Truthful
    /\ at = "recheck" => byte \notin {"", "E"}
    /\ result = "returned" => at = "ended" /\ todo = {}
    /\ at = "ended" => result # "none"

\* Every way in which a visit ends with what was found.
LEMMA VisitedAccounts ==
    ASSUME Scanning, Visiting, at # "ended", NEW finding \in SUBSET _PROCESS_RESULTS,
           Visited(finding), alive' = alive, kind' = kind,
           cur \in alive => finding = {kind[cur]}
    PROVE  Accounted'
  <1>1. /\ found' = found \cup finding /\ todo' = todo /\ cur' = cur /\ at' = "next"
    BY DEF Visited
  <1>2. SUFFICES ASSUME NEW p \in alive, NEW ks \in {{"U", "B"}, {"K", "B"}}, kind[p] \in ks
                 PROVE  p \in todo \/ found' \cap ks # {}
    BY <1>1 DEF Accounted, Visiting
  <1>3. p \in todo \/ p = cur \/ found \cap ks # {}
    BY <1>2 DEF Scanning, Accounted
  <1> QED  BY <1>1, <1>2, <1>3

\* A scan that gives up need not account for anything.
LEMMA RaisedAccounts ==
    ASSUME End("raised")
    PROVE  Accounted'
  BY DEF End, Accounted

\* The initial states.
LEMMA ScanningInit == Init => Scanning
  BY DEF Init, Scanning, TypeOK, NoChildLeft, Accounted, Truthful, _PROCESS_RESULTS

\* Every step of the scan, of the child and of the other processes.
LEMMA ScanningNext == Scanning /\ [Next]_vars => Scanning'
  <1> SUFFICES ASSUME Scanning, [Next]_vars PROVE Scanning'
    OBVIOUS
  <1> USE DEF Scanning
  <1>1. CASE Visit
    <2>1. CASE todo = {} /\ End("returned")
      <3>1. Accounted'
        BY <1>1, <2>1 DEF Visit, End, Accounted, Visiting, world
      <3> QED  BY <1>1, <2>1, <3>1 DEF Visit, End, TypeOK, NoChildLeft, world
    <2>2. CASE \E p \in todo : /\ cur' = p /\ todo' = todo \ {p} /\ at' = "inspect"
                               /\ UNCHANGED <<found, result>>
      <3>1. Accounted'
        BY <1>1, <2>2 DEF Visit, Accounted, Visiting, world
      <3> QED  BY <1>1, <2>2, <3>1 DEF Visit, TypeOK, NoChildLeft, world
    <2> QED  BY <1>1, <2>1, <2>2 DEF Visit
  <1>2. CASE _inspect_process_fd
    <2>1. Accounted'
      <3>1. CASE cur \notin alive /\ Visited({})
        BY <1>2, <3>1, VisitedAccounts DEF _inspect_process_fd, Visiting, world
      <3>2. CASE cur \in alive \ hidden /\ Visited({kind[cur]})
        BY <1>2, <3>2, VisitedAccounts DEF _inspect_process_fd, Visiting, world, TypeOK
      <3>3. CASE cur \in alive \cap hidden /\ at' = "identify"
                 /\ UNCHANGED <<todo, cur, found, result>>
        BY <1>2, <3>3 DEF _inspect_process_fd, Accounted, Visiting, world
      <3> QED  BY <1>2, <3>1, <3>2, <3>3, RaisedAccounts DEF _inspect_process_fd
    <2> QED  BY <1>2, <2>1 DEF _inspect_process_fd, Visited, End, TypeOK, NoChildLeft, world
  <1>3. CASE _inspect_as_abc
    <2>1. Accounted'
      <3>1. CASE cur \notin alive /\ Visited({})
        BY <1>3, <3>1, VisitedAccounts DEF _inspect_as_abc, Visiting, world
      <3>2. CASE at' = "receive" /\ UNCHANGED <<todo, cur, found, result>>
        BY <1>3, <3>2 DEF _inspect_as_abc, Accounted, Visiting, world
      <3> QED  BY <1>3, <3>1, <3>2, RaisedAccounts DEF _inspect_as_abc
    <2> QED  BY <1>3, <2>1 DEF _inspect_as_abc, Visited, End, TypeOK, NoChildLeft,
                 Truthful, world
  <1>4. CASE _receive_child
    <2>1. Accounted'
      <3>1. CASE at' = "recheck" /\ UNCHANGED <<todo, cur, found, result>>
        BY <1>4, <3>1 DEF _receive_child, Accounted, Visiting, world
      <3> QED  BY <1>4, <3>1, RaisedAccounts DEF _receive_child
    <2> QED  BY <1>4, <2>1 DEF _receive_child, _kill_and_reap, Usable, End, TypeOK,
                 NoChildLeft, Truthful, world
  <1>5. CASE Recheck
    <2>1. Accounted'
      <3>1. CASE cur \notin alive /\ Visited({})
        BY <1>5, <3>1, VisitedAccounts DEF Recheck, Visiting, world
      <3>2. CASE cur \in alive /\ byte # "D" /\ owner[cur] = "abc" /\ Visited({byte})
        <4>1. byte = kind[cur] /\ kind[cur] \in _PROCESS_RESULTS
          BY <1>5, <3>2 DEF Recheck, Truthful, TypeOK
        <4> QED  BY <1>5, <3>2, <4>1, VisitedAccounts DEF Recheck, Visiting, world
      <3> QED  BY <1>5, <3>1, <3>2, RaisedAccounts DEF Recheck
    <2> QED  BY <1>5, <2>1 DEF Recheck, Visited, End, TypeOK, NoChildLeft, world
  <1>6. CASE _child_inspection \/ ChildDies
    <2>1. Accounted'
      BY <1>6 DEF _child_inspection, ChildDies, Accounted, Visiting, world, scan
    <2> QED  BY <1>6, <2>1 DEF _child_inspection, ChildDies, TypeOK, NoChildLeft, Truthful,
                 _PROCESS_RESULTS, world, scan
  <1>7. CASE Late
    BY <1>7 DEF Late, TypeOK, NoChildLeft, Truthful, Accounted, Visiting, world, scan
  <1>8. ASSUME NEW p \in Procs, Exits(p) \/ ChangesOwner(p) PROVE Scanning'
    <2>1. Accounted'
      BY <1>8 DEF Exits, ChangesOwner, Accounted, Visiting, scan
    <2> QED  BY <1>8, <2>1 DEF Exits, ChangesOwner, TypeOK, NoChildLeft, Truthful, scan
  <1>9. CASE UNCHANGED vars
    BY <1>9 DEF vars, world, scan, TypeOK, NoChildLeft, Truthful, Accounted, Visiting
  <1> QED  BY <1>1, <1>2, <1>3, <1>4, <1>5, <1>6, <1>7, <1>8, <1>9 DEF Next, _processes

\* The inductive invariant holds of every scan.
THEOREM ScanningHolds == Spec => []Scanning
  BY ScanningInit, ScanningNext, PTL DEF Spec

\* A scan that returns has found every UniFi JVM and every keytool that lives,
\* for any number of processes.
THEOREM NothingIsOverlooked == Spec => []NothingOverlooked
  <1>1. Scanning => NothingOverlooked
    BY DEF Scanning, Accounted, NothingOverlooked, Visiting
  <1> QED  BY <1>1, ScanningHolds, PTL

\* No inspection child outlives the wait for it.
THEOREM NoChildIsLeft == Spec => []NoChildLeft
  <1>1. Scanning => NoChildLeft
    BY DEF Scanning
  <1> QED  BY <1>1, ScanningHolds, PTL
=============================================================================

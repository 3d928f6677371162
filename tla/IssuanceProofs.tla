--------------------------- MODULE IssuanceProofs ---------------------------
(***************************************************************************)
(* Issuance keeps its promises for every set of policies, every number of  *)
(* edits, runs and ticks, and every length of a day and of the timeouts.   *)
(***************************************************************************)
EXTENDS Issuance, Integers, FiniteSetTheorems, TLAPS

-----------------------------------------------------------------------------
(* The policy file.                                                        *)

\* What a file may hold: nothing, a policy, or the first half of the one that
\* is being written.
Holds(i) ==
    \/ text[i] = <<>> \/ text[i] \in Policies
    \/ writing # None /\ i = named /\ text[i] = <<writing[1]>>

WritingOK ==
    writing # None => writing \in Policies /\ text[named] \in {<<>>, <<writing[1]>>}

\* Until the file changes, what a loader has read is what the file begins with.
ReadOK(l) ==
    loader[l].pc \in {"open", "read"} =>
        LET b == loader[l].before
            d == loader[l].data
        IN  /\ b \in Stats /\ b.ino <= edits
            /\ b.mtime <= mtime[b.ino]
            /\ b.mtime = mtime[b.ino] =>
                   /\ Len(d) <= Len(text[b.ino])
                   /\ \A k \in 1..Len(d) : d[k] = text[b.ino][k]

Reading ==
    /\ PolicyTypeOK
    /\ \A i \in PolicyInodes : Holds(i)
    /\ WritingOK
    /\ \A l \in Loaders : ReadOK(l)
    /\ WholePolicy

\* A policy is a sequence of two halves.
LEMMA TwoHalves ==
    ASSUME NEW p \in Policies
    PROVE  /\ p \in Seq(Halves) /\ Len(p) = 2 /\ p[1] \in Halves /\ p[2] \in Halves
           /\ p = <<p[1], p[2]>> /\ p # <<>>
  BY PoliciesAssumption

\* A sequence of length two.
LEMMA SequenceOfTwo ==
    ASSUME NEW S, NEW s \in Seq(S), Len(s) = 2
    PROVE  s = <<s[1], s[2]>> /\ s # <<>> /\ \A x : s # <<x>>
  <1>1. s = <<s[1], s[2]>>
    BY SMTT(30)
  <1>2. ASSUME NEW x PROVE s # <<x>>
    <2>1. Len(<<x>>) = 1
      OBVIOUS
    <2> QED  BY <2>1
  <1>3. s # <<>>
    OBVIOUS
  <1> QED  BY <1>1, <1>2, <1>3, ZenonT(30)

\* The second half appended to the first.
LEMMA AppendSecond ==
    ASSUME NEW a, NEW b
    PROVE  Append(<<a>>, b) = <<a, b>>
  <1>1. <<a>> \in Seq({a, b}) /\ Len(<<a>>) = 1
    OBVIOUS
  <1>2. LET s == Append(<<a>>, b)
        IN  s \in Seq({a, b}) /\ Len(s) = 2 /\ s[1] = a /\ s[2] = b
    BY <1>1
  <1> QED  BY <1>2, SequenceOfTwo, ZenonT(30)

\* The name is of an inode.
LEMMA NamedInode ==
    ASSUME PolicyTypeOK
    PROVE  /\ named \in PolicyInodes /\ edits \in Nat /\ named \in Nat
           /\ text[named] \in Seq(Halves) /\ Len(text[named]) \in Nat
           /\ mtime[named] \in Nat
  <1>1. named \in PolicyInodes /\ edits \in Nat /\ named \in Nat
    BY PoliciesAssumption DEF PolicyTypeOK, PolicyInodes
  <1>2. text[named] \in Seq(Halves) /\ mtime[named] \in Nat
    BY <1>1 DEF PolicyTypeOK
  <1> QED  BY <1>1, <1>2

\* The initial file holds a whole policy.
LEMMA ReadingInit == PolicyInit => Reading
  <1> SUFFICES ASSUME PolicyInit PROVE Reading
    OBVIOUS
  <1>1. PICK p \in Policies : text = [i \in PolicyInodes |-> IF i = 0 THEN p ELSE <<>>]
    BY DEF PolicyInit
  <1>2. PolicyTypeOK
    BY <1>1, TwoHalves, PoliciesAssumption DEF PolicyInit, PolicyTypeOK, PolicyInodes, NotLoaded
  <1>3. /\ \A i \in PolicyInodes : Holds(i)
        /\ WritingOK
    BY <1>1 DEF PolicyInit, Holds, WritingOK, PolicyInodes
  <1>4. WholePolicy /\ \A l \in Loaders : ReadOK(l)
    BY DEF PolicyInit, NotLoaded, ReadOK, WholePolicy, Loaded
  <1> QED  BY <1>2, <1>3, <1>4 DEF Reading

\* An edit of the file keeps what the loaders rely on: it makes a new inode or
\* moves the time of the last write.
LEMMA ReadingAdminister == Reading /\ Administer => Reading'
  <1> SUFFICES ASSUME Reading, Administer PROVE Reading'
    OBVIOUS
  <1> USE DEF Reading, PolicyTypeOK, PolicyInodes
  <1>1. ASSUME NEW p \in Policies, Replace(p) PROVE Reading'
    <2>1. PolicyTypeOK'
      BY <1>1, TwoHalves, PoliciesAssumption DEF Replace
    <2>2. (\A i \in PolicyInodes : Holds(i))' /\ WritingOK'
      BY <1>1, <2>1 DEF Replace, Holds, WritingOK
    <2>3. ASSUME NEW l \in Loaders PROVE ReadOK(l)'
      BY <1>1 DEF Replace, ReadOK, Stats
    <2>4. WholePolicy'
      BY <1>1 DEF Replace, WholePolicy, Loaded
    <2> QED  BY <2>1, <2>2, <2>3, <2>4
  <1>2. ASSUME NEW p \in Policies, Truncate(p) PROVE Reading'
    <2>1. PolicyTypeOK'
      <3>1. text' \in [PolicyInodes -> Seq(Halves)] /\ mtime' \in [PolicyInodes -> Nat]
        BY <1>2, NamedInode DEF Truncate
      <3>2. edits' \in 0..MaxEdits /\ named' \in 0..edits' /\ loader' = loader
        BY <1>2, NamedInode, PoliciesAssumption DEF Truncate
      <3> QED  BY <3>1, <3>2
    <2>2. (\A i \in PolicyInodes : Holds(i))' /\ WritingOK'
      BY <1>2, <2>1 DEF Truncate, Holds, WritingOK
    <2>3. ASSUME NEW l \in Loaders PROVE ReadOK(l)'
      BY <1>2 DEF Truncate, ReadOK, Stats
    <2>4. WholePolicy'
      BY <1>2 DEF Truncate, WholePolicy, Loaded
    <2> QED  BY <2>1, <2>2, <2>3, <2>4
  <1>3. ASSUME WriteHalf PROVE Reading'
    <2>1. /\ writing \in Policies /\ named \in PolicyInodes
          /\ text[named] \in {<<>>, <<writing[1]>>}
      BY <1>3, NamedInode DEF WriteHalf, WritingOK
    <2>2. text'[named] = IF text[named] = <<>> THEN <<writing[1]>> ELSE writing
      <3>1. text'[named] = Append(text[named], writing[Len(text[named]) + 1])
        BY <1>3, <2>1 DEF WriteHalf
      <3>2. CASE text[named] = <<>>
        BY <3>1, <3>2
      <3>3. CASE text[named] = <<writing[1]>>
        <4>1. text'[named] = Append(<<writing[1]>>, writing[2])
          BY <3>1, <3>3
        <4>2. Append(<<writing[1]>>, writing[2]) = <<writing[1], writing[2]>>
          BY AppendSecond
        <4>3. text[named] # <<>>
          BY <3>3
        <4> QED  BY <2>1, <4>1, <4>2, <4>3, TwoHalves
      <3> QED  BY <2>1, <3>2, <3>3
    <2>3. text'[named] \in Seq(Halves)
      BY <2>1, <2>2, TwoHalves
    <2>4. PolicyTypeOK'
      <3>1. text' \in [PolicyInodes -> Seq(Halves)] /\ mtime' \in [PolicyInodes -> Nat]
        BY <1>3, <2>1, <2>3, NamedInode DEF WriteHalf
      <3> QED  BY <1>3, <3>1 DEF WriteHalf
    <2>5. writing' = IF text[named] = <<>> THEN writing ELSE None
      <3>1. CASE text[named] = <<>>
        BY <1>3, <3>1 DEF WriteHalf
      <3>2. CASE text[named] = <<writing[1]>>
        BY <1>3, <3>2 DEF WriteHalf
      <3> QED  BY <2>1, <3>1, <3>2
    <2>6. \A i \in PolicyInodes : i # named => text'[i] = text[i]
      BY <1>3 DEF WriteHalf
    <2>7. (\A i \in PolicyInodes : Holds(i))'
      BY <1>3, <2>1, <2>2, <2>5, <2>6, ZenonT(30) DEF WriteHalf, Holds
    <2>8. WritingOK'
      BY <1>3, <2>1, <2>2, <2>5, ZenonT(30) DEF WriteHalf, WritingOK
    <2>9. ASSUME NEW l \in Loaders PROVE ReadOK(l)'
      BY <1>3, <2>6 DEF WriteHalf, ReadOK, Stats
    <2>10. WholePolicy'
      BY <1>3 DEF WriteHalf, WholePolicy, Loaded
    <2> QED  BY <2>4, <2>7, <2>8, <2>9, <2>10
  <1> QED  BY <1>1, <1>2, <1>3 DEF Administer

\* A step of load_policy: what it reads is the beginning of the file it opened
\* unless the file changed, and then the comparisons at the end refuse it.
LEMMA ReadingLoad ==
    ASSUME NEW l \in Loaders, NEW now, Reading, Load(l, now)
    PROVE  Reading'
  <1> USE DEF Reading, PolicyTypeOK, PolicyInodes
  <1> DEFINE b == loader[l].before
             d == loader[l].data
  <1>1. UNCHANGED <<named, text, mtime, writing, edits>>
    BY DEF Load, OpenPolicy, ReadHalf, EndOfFile, FinishLoad
  <1>2. (\A i \in PolicyInodes : Holds(i))' /\ WritingOK'
    BY <1>1 DEF Holds, WritingOK
  <1>3. \A m \in Loaders : m # l => loader'[m] = loader[m]
    BY DEF Load, OpenPolicy, ReadHalf, EndOfFile, FinishLoad
  <1>4. SUFFICES /\ loader' \in [Loaders -> [pc : {"idle", "open", "read", "loaded", "refused"},
                                    before : Stats \cup {None}, data : Seq(Halves)]]
                 /\ ReadOK(l)'
                 /\ Loaded(l)' => loader'[l].data \in Policies
    <2>1. ASSUME NEW m \in Loaders \ {l}
          PROVE  ReadOK(m)' /\ (Loaded(m)' => loader'[m].data \in Policies)
      <3>1. loader'[m] = loader[m] /\ ReadOK(m) /\ (Loaded(m) => loader[m].data \in Policies)
        BY <1>3, ZenonT(30) DEF WholePolicy
      <3> QED  BY <1>1, <3>1, ZenonT(30) DEF ReadOK, Loaded
    <2> QED  BY <1>1, <1>2, <1>4, <2>1, ZenonT(30) DEF WholePolicy
  <1>5. CASE OpenPolicy(l)
    <2>1. fstat(named) \in Stats
      BY NamedInode DEF fstat, Stats
    <2>2. /\ loader'[l].pc \in {"open", "refused"}
          /\ loader'[l].before = fstat(named) /\ loader'[l].data = <<>>
      BY <1>5 DEF OpenPolicy
    <2>3. ReadOK(l)'
      BY <1>1, <2>1, <2>2, NamedInode DEF ReadOK, fstat
    <2> QED  BY <1>5, <2>1, <2>2, <2>3 DEF OpenPolicy, Loaded
  <1>6. CASE ReadHalf(l)
    <2>1. b \in Stats /\ d \in Seq(Halves) /\ text[b.ino] \in Seq(Halves)
      BY <1>6 DEF ReadHalf, ReadOK, Stats
    <2>2. Len(d) + 1 \in 1..Len(text[b.ino])
      BY <1>6, <2>1 DEF ReadHalf
    <2>3. /\ loader'[l].pc = "open" /\ loader'[l].before = b
          /\ loader'[l].data = Append(d, text[b.ino][Len(d) + 1])
      BY <1>6 DEF ReadHalf
    <2>4. Append(d, text[b.ino][Len(d) + 1]) \in Seq(Halves)
      BY <2>1, <2>2
    <2>5. ReadOK(l)'
      <3> DEFINE t == text[b.ino]
                 e == Append(d, t[Len(d) + 1])
      <3>1. /\ b.ino <= edits /\ b.mtime <= mtime[b.ino]
            /\ b.mtime = mtime[b.ino] => \A k \in 1..Len(d) : d[k] = t[k]
        BY <1>6 DEF ReadHalf, ReadOK
      <3>2. /\ Len(e) = Len(d) + 1 /\ e[Len(d) + 1] = t[Len(d) + 1]
            /\ \A k \in 1..Len(d) : e[k] = d[k]
        BY <2>1, <2>2
      <3>3. Len(d) \in Nat /\ Len(t) \in Nat
        BY <2>1
      <3> HIDE DEF e, t
      <3>4. b.mtime = mtime[b.ino] => Len(e) <= Len(t) /\ \A k \in 1..Len(e) : e[k] = t[k]
        <4>1. \A k \in 1..Len(e) : k \in 1..Len(d) \/ k = Len(d) + 1
          BY <3>2, <3>3
        <4>2. Len(e) <= Len(t)
          BY <2>2, <3>2, <3>3 DEF t
        <4> QED  BY <3>1, <3>2, <4>1, <4>2
      <3> QED  BY <1>1, <2>1, <2>3, <3>1, <3>4, ZenonT(30) DEF ReadOK, e, t
    <2> QED  BY <1>6, <2>3, <2>4, <2>5, ZenonT(30) DEF ReadHalf, Loaded
  <1>7. CASE EndOfFile(l)
    <2>1. /\ loader'[l].pc = "read" /\ loader'[l].before = b /\ loader'[l].data = d
          /\ loader[l].pc = "open"
      BY <1>7 DEF EndOfFile
    <2>2. ReadOK(l)'
      BY <1>1, <2>1 DEF ReadOK
    <2> QED  BY <1>7, <2>1, <2>2, ZenonT(30) DEF EndOfFile, Loaded
  <1>8. CASE FinishLoad(l, now)
    <2>1. ASSUME Loaded(l)' PROVE d \in Policies
      <3>1. Len(d) = b.size /\ b = fstat(b.ino) /\ Len(d) = 2
        BY <1>8, <2>1 DEF FinishLoad, Loaded, Unchanged, Document
      <3>2. b \in Stats /\ d \in Seq(Halves) /\ text[b.ino] \in Seq(Halves)
        BY <1>8 DEF FinishLoad, ReadOK, Stats
      <3>3. b.mtime = mtime[b.ino] /\ Len(text[b.ino]) = 2
        <4>1. b.mtime = fstat(b.ino).mtime /\ b.size = fstat(b.ino).size
          BY <3>1, ZenonT(30)
        <4> QED  BY <3>1, <4>1, ZenonT(30) DEF fstat
      <3>4. d[1] = text[b.ino][1] /\ d[2] = text[b.ino][2]
        <4>1. \A k \in 1..Len(d) : d[k] = text[b.ino][k]
          BY <1>8, <3>3, ZenonT(30) DEF FinishLoad, ReadOK
        <4> HIDE DEF b, d
        <4> QED  BY <3>1, <4>1
      <3>5. d = text[b.ino]
        <4>1. d = <<d[1], d[2]>>
          BY <3>1, <3>2, SequenceOfTwo
        <4>2. text[b.ino] = <<text[b.ino][1], text[b.ino][2]>>
          BY <3>2, <3>3, SequenceOfTwo
        <4> QED  BY <3>4, <4>1, <4>2, ZenonT(30)
      <3>6. Holds(b.ino)
        BY <3>2 DEF Stats
      <3> QED  BY <3>2, <3>3, <3>5, <3>6, SequenceOfTwo, ZenonT(30) DEF Holds
    <2> QED  BY <1>8, <2>1 DEF FinishLoad, ReadOK, Loaded
  <1> QED  BY <1>5, <1>6, <1>7, <1>8 DEF Load

\* A process that is gone has loaded nothing.
LEMMA ReadingReset ==
    ASSUME NEW L \in SUBSET Loaders, Reading,
           UNCHANGED <<named, text, mtime, writing, edits>>,
           loader' = [l \in Loaders |-> IF l \in L THEN NotLoaded ELSE loader[l]]
    PROVE  Reading'
  BY DEF Reading, PolicyTypeOK, PolicyInodes, Holds, WritingOK, ReadOK, WholePolicy,
         Loaded, NotLoaded

\* Nothing of the policy file changes.
LEMMA ReadingUnchanged == Reading /\ UNCHANGED policyVars => Reading'
  BY DEF Reading, policyVars, PolicyTypeOK, Holds, WritingOK, ReadOK, WholePolicy, Loaded

\* Every step of the system is a step of the administrator, of a loader, the end
\* of a process, or leaves the policy file alone.
LEMMA ReadingNext == Reading /\ [Next]_vars => Reading'
  <1> SUFFICES ASSUME Reading, [Next]_vars PROVE Reading'
    OBVIOUS
  <1>1. CASE Edit
    BY <1>1, ReadingAdminister DEF Edit
  <1>2. CASE \E l \in Loaders : Load(l, clock)
    BY <1>2, ReadingLoad
  <1>3. CASE UNCHANGED policyVars
    BY <1>3, ReadingUnchanged
  <1>4. CASE EndRun
    <2>1. loader' = [l \in Loaders |-> IF l \in {"renewer"} THEN NotLoaded ELSE loader[l]]
      BY <1>4, ZenonT(30) DEF EndRun, Reading, PolicyTypeOK
    <2> QED  BY <1>4, <2>1, ReadingReset, LoadersAssumption, ZenonT(30) DEF EndRun
  <1>5. CASE RestartService
    <2> DEFINE L == {l \in Loaders : l = "executor" \/ run.pc = "wait"}
    <2>1. loader' = [l \in Loaders |-> IF l \in L THEN NotLoaded ELSE loader[l]]
      BY <1>5 DEF RestartService
    <2> QED  BY <1>5, <2>1, ReadingReset, ZenonT(30) DEF RestartService
  <1>6. CASE Accept \/ Exclusive \/ Import \/ Respond
    BY <1>3, <1>4, <1>6
    DEF Accept, Exclusive, Import, Respond, Answer, policyVars
  <1>7. CASE LoadConfig \/ Decide \/ InspectBefore \/ RequestCsr \/ SignCsr
    BY <1>2, <1>3, <1>4, <1>7, LoadersAssumption, ZenonT(30)
    DEF LoadConfig, Decide, InspectBefore, RequestCsr, SignCsr, Continue
  <1>8. CASE Retrieve \/ SendInstall \/ GiveUp
    BY <1>3, <1>4, <1>8 DEF Retrieve, SendInstall, GiveUp, Continue
  <1>9. CASE LoadAuthority
    BY <1>2, <1>9, LoadersAssumption DEF LoadAuthority
  <1>10. CASE Tick \/ Rekey \/ UNCHANGED vars
    BY <1>3, <1>10 DEF Tick, Rekey, vars
  <1>11. ASSUME NEW mode, NEW k, NEW d, StartRun(mode, k, d) PROVE Reading'
    BY <1>3, <1>11 DEF StartRun
  <1> QED
    BY <1>1, <1>5, <1>6, <1>7, <1>8, <1>9, <1>10, <1>11 DEF Next, Renewer, Executor

\* What a process loads is one version of the policy, however the loads and the
\* edits of the file interleave, for any policies and any number of edits.
THEOREM AlwaysWholePolicy == Spec => []WholePolicy
  <1>1. Init => Reading
    BY ReadingInit DEF Init
  <1>2. Reading => WholePolicy
    BY DEF Reading
  <1> QED  BY <1>1, <1>2, ReadingNext, PTL DEF Spec

-----------------------------------------------------------------------------
(* The keystore.                                                           *)

Matching == keystore = [key |-> keystore.key, cert |-> keystore.cert] /\ KeyMatches

\* Only UniFi's new key and an import change the keystore, and the import is of
\* a certificate for the key of the state it was prepared for, which the
\* executor has just compared with the keystore.
LEMMA MatchingNext == Matching /\ [Next]_vars => Matching'
  <1> SUFFICES ASSUME Matching, [Next]_vars PROVE Matching'
    OBVIOUS
  <1>1. CASE UNCHANGED keystore
    BY <1>1 DEF Matching, KeyMatches
  <1>2. CASE Rekey
    BY <1>2 DEF Rekey, Matching, KeyMatches, SelfSigned
  <1>3. CASE Import
    <2>1. CASE StillPrepared /\ SamePublic(keystore.cert, work.request.before)
      <3>1. /\ work.request.cert.key = work.request.csr.key
            /\ work.request.csr.key = work.request.before.key
        BY <2>1 DEF StillPrepared, prepare_certificate_import, validate_csr_spki,
             build_validated_certificate_reply, validate_issued_certificate
      <3>2. keystore.cert = work.request.before
        BY <2>1 DEF SamePublic
      <3>3. keystore' = [keystore EXCEPT !.cert = work.request.cert]
        BY <1>3, <2>1 DEF Import
      <3> QED  BY <3>1, <3>2, <3>3 DEF Matching, KeyMatches
    <2>2. CASE ~(StillPrepared /\ SamePublic(keystore.cert, work.request.before))
      BY <1>1, <1>3, <2>2, ZenonT(30) DEF Import
    <2> QED  BY <2>1, <2>2
  <1>4. CASE Tick \/ Edit \/ Renewer \/ UNCHANGED vars
    BY <1>1, <1>4, ZenonT(30)
    DEF Tick, Edit, Renewer, StartRun, LoadConfig, Decide, InspectBefore,
       RequestCsr, SignCsr, Retrieve, SendInstall, GiveUp, executorUnchanged, vars,
       issuanceVars
  <1>5. CASE LoadAuthority \/ RestartService \/ Accept \/ Exclusive \/ Respond
    BY <1>1, <1>5 DEF LoadAuthority, RestartService, Accept, Exclusive, Respond,
       issuanceVars
  <1> QED  BY <1>2, <1>3, <1>4, <1>5 DEF Next, Executor

\* The certificate in the keystore is one for its private key, whatever requests
\* were queued when UniFi got another key and whatever policies were loaded.
THEOREM KeyAlwaysMatches == Spec => []KeyMatches
  <1>1. Init => Matching
    BY DEF Init, Matching, KeyMatches, SelfSigned
  <1>2. Matching => KeyMatches
    BY DEF Matching
  <1> QED  BY <1>1, <1>2, MatchingNext, PTL DEF Spec

-----------------------------------------------------------------------------
(* The dates of certificates and requests.                                 *)

RunShape ==
    run = [pc |-> run.pc, mode |-> run.mode, spki |-> run.spki,
           renew_before |-> run.renew_before, before |-> run.before, csr |-> run.csr,
           cert |-> run.cert, reference |-> run.reference, sent |-> run.sent]

Dated(c) == c.not_before \in Int /\ c.not_after \in Int

\* The certificate of a run has dates, and a renewal that has loaded its policy
\* keeps it and has a threshold below the lifetime.
Renewing ==
    /\ clock \in Nat /\ RunShape
    /\ run.pc \in {"retrieve", "install"} => Dated(run.cert)
    /\ run.mode = "renew" /\ run.pc \notin {"idle", "wait"} =>
           /\ run.renew_before \in Nat
           /\ run.pc # "load" =>
                 Loaded("renewer") /\ NotLonger(run.renew_before, RenewerPolicy)

\* The certificate asked of OPNsense, and every one that differs from it, is dated.
LEMMA IssuedIsDated ==
    ASSUME clock \in Nat, NEW csr, NEW policy, policy.days \in Nat,
           NEW c \in OPNsense(csr, policy)
    PROVE  Dated(c)
  <1> DEFINE perfect == Perfect(csr, policy, clock)
  <1>1. policy.days * DAY \in Nat
    BY TimeAssumption
  <1>2. ASSUME NEW d \in Int
        PROVE  /\ Perfect(csr, policy, d).not_before = d
               /\ Perfect(csr, policy, d).not_after = d + policy.days * DAY
               /\ Dated(Perfect(csr, policy, d))
    BY <1>1 DEF Perfect, Dated
  <1>3. CASE \E d \in (clock - MaxBackdate)..(clock + 1) : c = Perfect(csr, policy, d)
    BY <1>2, <1>3
  <1>4. CASE c = [perfect EXCEPT !.not_after = @ + 1]
    <2>1. c.not_before = clock /\ c.not_after = clock + policy.days * DAY + 1
      BY <1>4 DEF Perfect
    <2> QED  BY <1>1, <2>1 DEF Dated
  <1>5. CASE c.not_before = clock /\ c.not_after = clock + policy.days * DAY
    BY <1>1, <1>5 DEF Dated
  <1>6. /\ perfect.not_before = clock /\ perfect.not_after = clock + policy.days * DAY
        /\ {"not_before", "not_after"} \subseteq DOMAIN perfect
    BY DEF Perfect
  <1> HIDE DEF perfect
  <1>7. ASSUME NEW x, c = [perfect EXCEPT !.dns = x] \/ c = [perfect EXCEPT !.key = x]
               \/ c = [perfect EXCEPT !.ip = x] \/ c = [perfect EXCEPT !.eku = x]
               \/ c = [perfect EXCEPT !.hash = x] \/ c = [perfect EXCEPT !.issuer = x]
        PROVE Dated(c)
    <2>1. c.not_before = perfect.not_before /\ c.not_after = perfect.not_after
      BY <1>6, <1>7
    <2> QED  BY <1>5, <1>6, <2>1
  <1> QED  BY <1>3, <1>4, <1>7, ZenonT(30) DEF OPNsense, perfect

\* Every step keeps the run's dates and its threshold.
LEMMA RenewingNext == Reading /\ Renewing /\ [Next]_vars => Renewing'
  <1> SUFFICES ASSUME Reading, Renewing, [Next]_vars PROVE Renewing'
    OBVIOUS
  <1> USE DEF Renewing
  <1>1. clock' \in Nat
    <2>1. CASE Tick
      <3>1. clock' = clock + 1
        BY <2>1, ZenonT(30) DEF Tick
      <3> QED  BY <3>1
    <2>2. CASE Renewer
      BY <2>2, ZenonT(30)
      DEF Renewer, StartRun, LoadConfig, Decide, InspectBefore, RequestCsr, SignCsr,
         Retrieve, SendInstall, GiveUp, executorUnchanged
    <2>3. CASE Executor
      BY <2>3 DEF Executor, LoadAuthority, RestartService, Accept, Exclusive, Import,
         Respond, issuanceVars
    <2>4. CASE Edit \/ Rekey \/ UNCHANGED vars
      BY <2>4, ZenonT(30) DEF Edit, Rekey, vars, issuanceVars
    <2> QED  BY <2>1, <2>2, <2>3, <2>4 DEF Next
  <1>2. CASE run' = Idle
    BY <1>1, <1>2 DEF Idle, RunShape
  <1>3. CASE run' = run /\ (loader'["renewer"] = loader["renewer"] \/ run.pc = "load")
    BY <1>1, <1>3, ZenonT(30) DEF RunShape, Loaded, RenewerPolicy, LoadedPolicy
  <1>4. CASE Tick \/ Edit \/ Rekey \/ LoadAuthority \/ UNCHANGED vars
    <2>1. run' = run
      BY <1>4 DEF Tick, Edit, Rekey, LoadAuthority, vars, issuanceVars
    <2>2. CASE LoadAuthority
      <3>1. loader'["renewer"] = loader["renewer"]
        BY <2>2, LoadersAssumption DEF LoadAuthority, Load, OpenPolicy, ReadHalf, EndOfFile,
           FinishLoad, Reading, PolicyTypeOK
      <3> QED  BY <1>3, <2>1, <3>1
    <2>3. CASE Tick \/ Edit \/ Rekey \/ UNCHANGED vars
      <3>1. loader' = loader
        BY <2>3 DEF Tick, Edit, Administer, WriteHalf, Replace, Truncate, Rekey, vars, policyVars
      <3> QED  BY <1>3, <2>1, <3>1
    <2> QED  BY <1>4, <2>2, <2>3
  <1>5. CASE RestartService
    BY <1>2, <1>3, <1>5, LoadersAssumption DEF RestartService
  <1>6. CASE Accept \/ Exclusive \/ Import \/ Respond
    BY <1>2, <1>3, <1>6
    DEF Accept, Exclusive, Import, Respond, Answer, EndRun, policyVars
  <1>7. ASSUME NEW mode, NEW k, NEW d, mode = "renew" => d \in Nat, StartRun(mode, k, d)
        PROVE  Renewing'
    BY <1>1, <1>7, ZenonT(30) DEF StartRun, Idle, RunShape
  <1>8. CASE LoadConfig
    <2>1. CASE Load("renewer", clock) /\ UNCHANGED <<run, runs>>
      BY <1>3, <1>8, <2>1 DEF LoadConfig
    <2>2. CASE /\ Loaded("renewer")
               /\ run.mode = "renew" => NotLonger(run.renew_before, RenewerPolicy)
               /\ Continue([run EXCEPT !.pc = IF run.mode = "renew" THEN "decide" ELSE "inspect"])
      BY <1>1, <1>8, <2>2
      DEF LoadConfig, Continue, RunShape, policyVars, Loaded, RenewerPolicy, LoadedPolicy
    <2>3. CASE EndRun
      BY <1>2, <2>3 DEF EndRun
    <2> QED  BY <1>8, <2>1, <2>2, <2>3 DEF LoadConfig
  <1>9. CASE Decide
    BY <1>1, <1>2, <1>9 DEF Decide, Continue, EndRun, RunShape, policyVars, Loaded,
       RenewerPolicy, LoadedPolicy
  <1>10. CASE InspectBefore
    BY <1>1, <1>2, <1>10, ZenonT(30)
    DEF InspectBefore, Continue, EndRun, RunShape, policyVars, Loaded,
       RenewerPolicy, LoadedPolicy
  <1>11. CASE RequestCsr
    BY <1>1, <1>2, <1>11, ZenonT(30)
    DEF RequestCsr, Continue, EndRun, RunShape, policyVars, Loaded,
       RenewerPolicy, LoadedPolicy
  <1>12. CASE SignCsr
    <2>1. ASSUME sign_csr_checks(run.csr, RenewerPolicy, run.spki),
                 NEW c \in OPNsense(run.csr, RenewerPolicy),
                 Continue([run EXCEPT !.pc = "retrieve", !.cert = c])
          PROVE  Renewing'
      <3>1. RenewerPolicy.days \in Nat
        BY <2>1, TimeAssumption DEF sign_csr_checks, _validate_lifetime_days
      <3>2. Dated(c)
        BY <2>1, <3>1, IssuedIsDated
      <3> QED
        BY <1>1, <1>12, <2>1, <3>2, ZenonT(30)
        DEF SignCsr, Continue, RunShape, policyVars, Loaded,
           RenewerPolicy, LoadedPolicy
    <2> QED  BY <1>2, <1>12, <2>1, ZenonT(30) DEF SignCsr, EndRun
  <1>13. CASE Retrieve
    BY <1>1, <1>2, <1>13, ZenonT(30) DEF Retrieve, Continue, EndRun, RunShape, policyVars, Loaded,
       RenewerPolicy, LoadedPolicy
  <1>14. CASE SendInstall
    BY <1>1, <1>2, <1>14, ZenonT(30) DEF SendInstall, Continue, EndRun, RunShape, Idle
  <1>15. CASE GiveUp
    BY <1>2, <1>15 DEF GiveUp, EndRun
  <1> QED
    BY <1>4, <1>5, <1>6, <1>7, <1>8, <1>9, <1>10, <1>11, <1>12, <1>13, <1>14, <1>15,
       TimeoutAssumption DEF Next, Renewer, Executor

\* Nothing is dated before the first run.
LEMMA RenewingInit == Init => Renewing
  BY TimeoutAssumption DEF Init, Renewing, Idle, RunShape

\* A threshold of fewer days than the lifetime leaves at least a day.
LEMMA ADayLeft ==
    ASSUME NEW d \in Nat, NEW n \in Nat, n < d
    PROVE  n * DAY + DAY <= d * DAY
  <1>1. PICK k \in Nat : d = n + 1 + k
    <2>1. d - n - 1 \in Nat /\ d = n + 1 + (d - n - 1)
      OBVIOUS
    <2> QED  BY <2>1
  <1>2. d * DAY = n * DAY + DAY + k * DAY
    BY <1>1, TimeAssumption
  <1>3. k * DAY \in Nat /\ n * DAY \in Nat
    BY <1>1, TimeAssumption
  <1> QED  BY <1>2, <1>3, TimeAssumption

\* A renewal never throws away a certificate it found valid: for every threshold
\* below the lifetime, every lifetime, and every date OPNsense may choose.
THEOREM NeverWastes == Spec => []RenewNeverWastes
  <1>1. Reading /\ Renewing => RenewNeverWastes
    <2> SUFFICES ASSUME Renewing, run.pc = "retrieve", Retrieved, InWindow PROVE FALSE
      BY DEF RenewNeverWastes
    <2> DEFINE c == run.cert
               days == RenewerPolicy.days
               n == run.renew_before
    <2>1. /\ clock \in Nat /\ Dated(c) /\ n \in Nat
          /\ NotLonger(n, RenewerPolicy)
      BY ZenonT(30) DEF Renewing, InWindow
    <2>2. /\ days \in Nat
          /\ clock <= c.not_before + DEFAULT_CLOCK_SKEW
          /\ c.not_after - c.not_before = days * DAY
      <3>1. /\ _validate_lifetime_days(days)
            /\ clock <= c.not_before + DEFAULT_CLOCK_SKEW
            /\ c.not_after - c.not_before = days * DAY
        BY ZenonT(30) DEF Retrieved, prepare_certificate_import,
           build_validated_certificate_reply, validate_issued_certificate, _validate_validity
      <3> HIDE DEF days, c
      <3> QED  BY <3>1, TimeAssumption DEF _validate_lifetime_days
    <2>3. n * DAY + DAY <= days * DAY
      BY <2>1, <2>2, ADayLeft DEF NotLonger
    <2>4. c.not_after <= clock + n * DAY
      BY DEF InWindow, _renewal_is_due
    <2>5. n * DAY \in Nat /\ days * DAY \in Nat
      BY <2>1, <2>2, TimeAssumption
    <2> QED
      <3> HIDE DEF days, n
      <3> QED  BY <2>1, <2>2, <2>3, <2>4, <2>5, TimeAssumption DEF Dated
  <1>2. Init => Reading /\ Renewing
    BY ReadingInit, RenewingInit DEF Init
  <1> QED  BY <1>1, <1>2, ReadingNext, RenewingNext, PTL DEF Spec

-----------------------------------------------------------------------------
(* The requests.                                                           *)

\* A request is sent when its certificate is already valid.
Sent(q) ==
    q.cert.not_before \in Int /\ q.sent \in Nat /\ q.cert.not_before <= q.sent

Requesting ==
    /\ \E S : queue \in Seq(S) /\ \A q \in S : Sent(q)
    /\ work # None =>
           work = [pc |-> work.pc, request |-> work.request, reference |-> work.reference,
                   at |-> work.at]
    /\ NoInstallAfterGiveUp

\* The executor takes a request up only while its certificate is fresh by its own
\* clock, and so within the time the client waits from the moment it sent it.
LEMMA RequestingNext == Renewing /\ Requesting /\ [Next]_vars => Requesting'
  <1> SUFFICES ASSUME Renewing, Requesting, [Next]_vars PROVE Requesting'
    OBVIOUS
  <1>1. PICK S : queue \in Seq(S) /\ \A q \in S : Sent(q)
    BY DEF Requesting
  <1>2. CASE UNCHANGED <<queue, work>>
    BY <1>2 DEF Requesting, NoInstallAfterGiveUp
  <1>3. CASE queue' = queue /\ work' = None
    BY <1>3 DEF Requesting, NoInstallAfterGiveUp
  <1>4. CASE SendInstall
    <2>1. CASE UNCHANGED queue
      BY <1>2, <1>4, <2>1 DEF SendInstall
    <2>2. CASE ~UNCHANGED queue
      <3> DEFINE q == [policy |-> RenewerPolicy, before |-> run.before, csr |-> run.csr,
                       cert |-> run.cert, renewer_reference |-> run.reference,
                       sent |-> clock, run |-> runs]
      <3>1. /\ prepare_certificate_import(run, RenewerPolicy, run.spki, run.reference, clock)
            /\ queue' = Append(queue, q) /\ work' = work /\ run.pc = "install"
        BY <1>4, <2>2, ZenonT(30) DEF SendInstall
      <3>2. run.cert.not_before <= clock
        BY <3>1 DEF prepare_certificate_import, build_validated_certificate_reply,
           validate_issued_certificate, _validate_validity, ValidAt
      <3>3. Sent(q)
        BY <3>1, <3>2 DEF Sent, Renewing, Dated
      <3> HIDE DEF q
      <3>4. Append(queue, q) \in Seq(S \cup {q})
        BY <1>1
      <3>5. \A r \in S \cup {q} : Sent(r)
        BY <1>1, <3>3
      <3> QED  BY <3>1, <3>4, <3>5 DEF Requesting, NoInstallAfterGiveUp
    <2> QED  BY <2>1, <2>2
  <1>5. CASE RestartService
    <2>1. queue' \in Seq(S) /\ work' = None
      BY <1>5 DEF RestartService
    <2> QED  BY <1>1, <2>1 DEF Requesting, NoInstallAfterGiveUp
  <1>6. CASE Accept
    <2> DEFINE q == Head(queue)
    <2>1. queue # <<>> /\ queue' = Tail(queue)
      BY <1>6 DEF Accept
    <2>2. queue' \in Seq(S) /\ q \in S
      BY <1>1, <2>1
    <2>3. Sent(q)
      BY <1>1, <2>2
    <2> HIDE DEF q
    <2>4. CASE work' = None
      BY <1>1, <2>2, <2>4 DEF Requesting, NoInstallAfterGiveUp
    <2>5. CASE work' # None
      <3>1. /\ Acceptable(q)
            /\ work' = [pc |-> "accepted", request |-> q, reference |-> FreshnessReference(q),
                        at |-> clock]
        BY <1>6, <2>5, ZenonT(30) DEF Accept, Answer, q
      <3>2. clock <= q.cert.not_before + DEFAULT_CLOCK_SKEW
        BY <3>1 DEF Acceptable, FreshnessReference, prepare_certificate_import,
           build_validated_certificate_reply, validate_issued_certificate, _validate_validity
      <3>3. clock <= q.sent + SOCKET_TIMEOUT
        BY <2>3, <3>2, TimeAssumption, TimeoutAssumption DEF Sent, Renewing
      <3> QED  BY <1>1, <2>2, <3>1, <3>3 DEF Requesting, NoInstallAfterGiveUp
    <2> QED  BY <2>4, <2>5
  <1>7. ASSUME NEW label, queue' = queue, work # None, work' = [work EXCEPT !.pc = label]
        PROVE  Requesting'
    BY <1>7 DEF Requesting, NoInstallAfterGiveUp
  <1>8. CASE Exclusive \/ Import \/ Respond
    BY <1>3, <1>7, <1>8 DEF Exclusive, Import, Respond, Answer
  <1>9. CASE Tick \/ Edit \/ Rekey \/ LoadAuthority \/ UNCHANGED vars
    BY <1>2, <1>9, ZenonT(30) DEF Tick, Edit, Rekey, LoadAuthority, vars, issuanceVars
  <1>10. CASE Renewer
    BY <1>2, <1>4, <1>10, ZenonT(30)
    DEF Renewer, StartRun, LoadConfig, Decide, InspectBefore, RequestCsr,
       SignCsr, Retrieve, GiveUp, executorUnchanged
  <1> QED  BY <1>5, <1>6, <1>8, <1>9, <1>10 DEF Next, Executor

\* The policy file, the dates and the requests are as they should be.
LEMMA DatesHold == Spec => [](Reading /\ Renewing /\ Requesting)
  <1>1. Init => Reading /\ Renewing /\ Requesting
    <2>1. Init => Requesting
      <3> SUFFICES ASSUME Init PROVE Requesting
        OBVIOUS
      <3>1. queue \in Seq({}) /\ \A q \in {} : Sent(q)
        BY DEF Init
      <3>2. work = None
        BY DEF Init
      <3>3. \E S : queue \in Seq(S) /\ \A q \in S : Sent(q)
        <4> WITNESS {}
        <4> QED  BY <3>1
      <3> QED  BY <3>2, <3>3 DEF Requesting, NoInstallAfterGiveUp
    <2> QED  BY <2>1, ReadingInit, RenewingInit DEF Init
  <1> QED  BY <1>1, ReadingNext, RenewingNext, RequestingNext, PTL DEF Spec

\* No request is taken up after its client has stopped waiting, for any timeout
\* at least as long as the clock skew that the freshness check allows.
THEOREM NeverAfterGiveUp == Spec => []NoInstallAfterGiveUp
  <1>1. Requesting => NoInstallAfterGiveUp
    BY DEF Requesting
  <1> QED  BY <1>1, DatesHold, PTL

-----------------------------------------------------------------------------
(* The names of what is imported.                                          *)

\* The number of entries of a list without repetition is that of its names.
LEMMA DistinctCardinality ==
    ASSUME NEW s, Len(s) \in Nat, Distinct(s)
    PROVE  Cardinality(Identities(s)) = Cardinality(1..Len(s))
  <1> DEFINE f == [i \in 1..Len(s) |-> canonical(s[i])]
  <1>1. f \in Surjection(1..Len(s), Identities(s))
    BY Zenon DEF Surjection, Identities
  <1>2. f \in Injection(1..Len(s), Identities(s))
    BY Zenon DEF Injection, IsInjective, Identities, Distinct
  <1>3. IsFiniteSet(1..Len(s))
    BY FS_Interval
  <1> QED  BY <1>1, <1>2, <1>3, FS_Surjection

\* As many entries and the same names as a list without repetition: no repetition
\* either, since a name too many would leave another out.
LEMMA SameNamesDistinct ==
    ASSUME NEW s, NEW t, Len(t) \in Nat, Distinct(t), SameNames(s, t)
    PROVE  Distinct(s)
  <1> DEFINE g == [i \in 1..Len(s) |-> canonical(s[i])]
  <1>1. Len(s) \in Nat /\ Cardinality(1..Len(s)) = Cardinality(Identities(s))
    BY DistinctCardinality DEF SameNames
  <1>2. g \in Surjection(1..Len(s), Identities(s))
    BY Zenon DEF Surjection, Identities
  <1>3. IsFiniteSet(1..Len(s))
    BY <1>1, FS_Interval
  <1>4. g \in Injection(1..Len(s), Identities(s))
    BY <1>1, <1>2, <1>3, FS_SurjSameCardinalityImpliesInj
  <1> QED  BY <1>4, Zenon DEF Injection, IsInjective, Distinct

\* A list without repetition has each of its names once.
LEMMA DistinctOnce ==
    ASSUME NEW s, Distinct(s), NEW id \in Identities(s)
    PROVE  Count(s, id) = 1
  <1>1. PICK k \in 1..Len(s) : canonical(s[k]) = id
    BY DEF Identities
  <1>2. {i \in 1..Len(s) : canonical(s[i]) = id} = {k}
    BY <1>1, Zenon DEF Distinct
  <1> QED  BY <1>2, FS_Singleton, Zenon DEF Count

\* Comparing numbers and sets of names compares how often each occurs, because
\* the policy repeats none.
LEMMA SameNamesSameBag ==
    ASSUME NEW s, NEW t, Len(t) \in Nat, Distinct(t), SameNames(s, t)
    PROVE  SameBag(s, t)
  <1>1. Distinct(s) /\ Identities(s) = Identities(t)
    BY SameNamesDistinct DEF SameNames
  <1> QED  BY <1>1, DistinctOnce, Zenon DEF SameBag

\* A request that is prepared under a policy has a certificate that fits it.
LEMMA PreparedFits ==
    ASSUME NEW q, NEW p, NEW key, NEW reference, NEW now,
           Len(p.dns) \in Nat, Len(p.ip) \in Nat,
           prepare_certificate_import(q, p, key, reference, now)
    PROVE  Fits(q.cert, p)
  <1>1. /\ validate_requested_csr(q.csr, p, key)
        /\ validate_installation_ca(p.ca, now)
        /\ validate_issued_certificate(q.cert, q.csr, p, reference, now)
    BY Zenon DEF prepare_certificate_import, build_validated_certificate_reply
  <1>2. /\ Distinct(p.dns) /\ Distinct(p.ip) /\ q.csr.subject = p.subject
        /\ SameNames(q.csr.dns, p.dns) /\ SameNames(q.csr.ip, p.ip)
    BY <1>1, Zenon DEF validate_requested_csr, NamesAllowed
  <1>3. /\ q.cert.subject = q.csr.subject /\ q.cert.hash = p.hash
        /\ SameNames(q.cert.dns, q.csr.dns) /\ SameNames(q.cert.ip, q.csr.ip)
        /\ q.cert.not_after - q.cert.not_before = p.days * DAY
    BY <1>1, Zenon DEF validate_issued_certificate, _validate_exact_sans, _validate_validity
  <1>4. SameNames(q.cert.dns, p.dns) /\ SameNames(q.cert.ip, p.ip)
    BY <1>2, <1>3, Zenon DEF SameNames
  <1>5. SameBag(q.cert.dns, p.dns) /\ SameBag(q.cert.ip, p.ip)
    BY <1>2, <1>4, SameNamesSameBag
  <1>6. q.cert.issuer = p.ca[1].subject
    <2>1. Len(p.ca) = 1
      BY <1>1, Zenon DEF validate_installation_ca
    <2>2. PICK i \in 1..Len(p.ca) : q.cert.issuer = p.ca[i].subject
      BY <1>1, Zenon DEF validate_issued_certificate, _verify_ca_trust
    <2>3. i = 1
      BY <2>1, <2>2
    <2> QED  BY <2>2, <2>3
  <1> QED  BY <1>2, <1>3, <1>5, <1>6, Zenon DEF Fits

\* The executor works under the policy that the request was made under.
Working ==
    /\ work # None => Loaded("executor") /\ work.request.policy = ExecutorPolicy
    /\ InstalledAsRequested

\* Only a service that restarts, and so drops its work, loads another policy.
LEMMA PolicyKept ==
    ASSUME Reading, [Next]_vars, Loaded("executor"), work' # None
    PROVE  loader'["executor"] = loader["executor"]
  <1> SUFFICES ASSUME loader' # loader PROVE loader'["executor"] = loader["executor"]
    OBVIOUS
  <1>1. DOMAIN loader = Loaders /\ "executor" \in Loaders
    BY LoadersAssumption DEF Reading, PolicyTypeOK
  <1>2. CASE EndRun
    BY <1>1, <1>2 DEF EndRun
  <1>3. CASE Load("renewer", clock)
    BY <1>1, <1>3 DEF Load, OpenPolicy, ReadHalf, EndOfFile, FinishLoad
  <1>4. ~LoadAuthority /\ ~RestartService
    BY DEF LoadAuthority, Load, OpenPolicy, ReadHalf, EndOfFile, FinishLoad, Loaded, RestartService
  <1>5. ~(Tick \/ Edit \/ Rekey \/ UNCHANGED vars)
    BY ZenonT(30) DEF Tick, Edit, Administer, WriteHalf, Replace, Truncate, Rekey, vars, policyVars
  <1>6. CASE Renewer
    BY <1>2, <1>3, <1>6, ZenonT(30) DEF Renewer, StartRun, LoadConfig, Decide, InspectBefore,
       RequestCsr, SignCsr, Retrieve, SendInstall, GiveUp, Continue, policyVars
  <1>7. CASE Accept \/ Exclusive \/ Import \/ Respond
    BY <1>2, <1>7, ZenonT(30) DEF Accept, Exclusive, Import, Respond, Answer, policyVars
  <1> QED  BY <1>4, <1>5, <1>6, <1>7 DEF Next, Executor

\* The policy that the executor has loaded is a whole one, and lists its names.
LEMMA LoadedNames ==
    ASSUME Reading, Loaded("executor")
    PROVE  Len(ExecutorPolicy.dns) \in Nat /\ Len(ExecutorPolicy.ip) \in Nat
  <1>1. loader["executor"].data \in Policies
    BY LoadersAssumption DEF Reading, WholePolicy
  <1> QED  BY <1>1, NamesAssumption DEF ExecutorPolicy, LoadedPolicy, PolicyOf

\* A request is taken up under the policy it names, and imported under the same.
LEMMA WorkingNext ==
    ASSUME Reading, Requesting, Working, [Next]_vars
    PROVE  Working'
  <1>1. ASSUME work # None, work' # None, work'.request = work.request
        PROVE  Loaded("executor")' /\ work'.request.policy = ExecutorPolicy'
    <2>1. Loaded("executor") /\ work.request.policy = ExecutorPolicy
      BY <1>1 DEF Working
    <2>2. loader'["executor"] = loader["executor"]
      BY <1>1, <2>1, PolicyKept
    <2> QED  BY <1>1, <2>1, <2>2 DEF Loaded, ExecutorPolicy, LoadedPolicy
  <1>2. CASE work' \in {work, None} /\ installed' = installed
    BY <1>1, <1>2, ZenonT(30) DEF Working, InstalledAsRequested
  <1>3. ASSUME NEW label, work # None, work' = [work EXCEPT !.pc = label]
        PROVE  work' # None => work'.request = work.request
    BY <1>3 DEF Requesting
  <1>4. CASE Accept /\ work' # None
    <2>1. /\ Loaded("executor") /\ Head(queue).policy = ExecutorPolicy
          /\ work'.request = Head(queue) /\ installed' = installed
      <3>1. /\ Loaded("executor") /\ Acceptable(Head(queue)) /\ installed' = installed
            /\ work' = [pc |-> "accepted", request |-> Head(queue),
                        reference |-> FreshnessReference(Head(queue)), at |-> clock]
        BY <1>4, ZenonT(30) DEF Accept, Answer
      <3>2. work'.request = Head(queue)
        BY <3>1
      <3> QED  BY <3>1, <3>2, ZenonT(30) DEF Acceptable
    <2>2. loader'["executor"] = loader["executor"]
      BY <1>4, <2>1, PolicyKept
    <2> QED  BY <2>1, <2>2, ZenonT(30) DEF Working, InstalledAsRequested, Loaded, ExecutorPolicy,
                LoadedPolicy
  <1>5. CASE Exclusive /\ work' # None
    <2>1. work # None /\ work' = [work EXCEPT !.pc = "exclusive"] /\ installed' = installed
      BY <1>5, ZenonT(30) DEF Exclusive, Answer
    <2> QED  BY <1>1, <1>3, <1>5, <2>1, ZenonT(30) DEF Working, InstalledAsRequested
  <1>6. CASE Import /\ StillPrepared /\ SamePublic(keystore.cert, work.request.before)
    <2>1. /\ work # None /\ work' = [work EXCEPT !.pc = "imported"]
          /\ installed' = [cert |-> work.request.cert, policy |-> work.request.policy]
      BY <1>6, ZenonT(30) DEF Import
    <2>2. Loaded("executor") /\ work.request.policy = ExecutorPolicy
      BY <2>1 DEF Working
    <2>3. Fits(work.request.cert, ExecutorPolicy)
      BY <1>6, <2>2, LoadedNames, PreparedFits, ZenonT(30) DEF StillPrepared
    <2>4. Fits(installed'.cert, installed'.policy)
      BY <2>1, <2>2, <2>3
    <2> QED  BY <1>1, <1>3, <2>1, <2>4, ZenonT(30) DEF Working, InstalledAsRequested
  <1>7. CASE Import /\ ~(StillPrepared /\ SamePublic(keystore.cert, work.request.before))
    BY <1>2, <1>7, ZenonT(30) DEF Import, Answer
  <1>8. CASE (Accept \/ Exclusive) /\ work' = None
    BY <1>2, <1>8 DEF Accept, Exclusive
  <1>9. CASE Respond \/ RestartService \/ LoadAuthority
    BY <1>2, <1>9 DEF Respond, RestartService, LoadAuthority, Answer, issuanceVars
  <1>10. CASE Tick \/ Edit \/ Rekey \/ UNCHANGED vars
    BY <1>2, <1>10, ZenonT(30) DEF Tick, Edit, Rekey, vars, issuanceVars
  <1>11. CASE Renewer
    BY <1>2, <1>11, ZenonT(30) DEF Renewer, StartRun, LoadConfig, Decide, InspectBefore,
       RequestCsr, SignCsr, Retrieve, SendInstall, GiveUp, executorUnchanged
  <1> QED  BY <1>4, <1>5, <1>6, <1>7, <1>8, <1>9, <1>10, <1>11 DEF Next, Executor

\* What is imported is what the policy of the renewer that asked for it lists,
\* each name exactly as often, whatever OPNsense returned and whoever edited the
\* policy in between.
THEOREM ImportsAreAsRequested == Spec => []InstalledAsRequested
  <1>1. Init => Working
    BY DEF Init, Working, InstalledAsRequested
  <1>2. Working => InstalledAsRequested
    BY DEF Working
  <1> QED  BY <1>1, <1>2, DatesHold, WorkingNext, PTL DEF Spec
=============================================================================

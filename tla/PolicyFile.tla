----------------------------- MODULE PolicyFile -----------------------------
(***************************************************************************)
(* The deployment policy on disk and the two processes that load it:       *)
(* load_policy of src/renewal_policy.py, run by the executor when its      *)
(* service starts and by the renewer at the start of every run, against an *)
(* administrator who replaces the file or rewrites it in place.            *)
(*                                                                         *)
(* The text of a policy is two halves, the identity and the trust, so that *)
(* a read can overlap a write; any two halves make a well-formed document. *)
(* Every write moves st_mtime_ns.                                          *)
(***************************************************************************)
EXTENDS CertificateRules, Functions

CONSTANTS
    Loaders,    \* the processes that load the policy
    Policies,   \* the texts the administrator writes, pairs of halves
    MaxEdits,   \* bound on the administrator's edits
    None

VARIABLES
    named,      \* inode that POLICY_NAME names
    text,       \* inode -> the halves written so far
    mtime,      \* inode -> writes so far
    writing,    \* the policy being rewritten in place, or None
    edits,
    loader      \* loader -> its call of load_policy

policyVars == <<named, text, mtime, writing, edits, loader>>

PolicyInodes == 0..MaxEdits

Halves == UNION {Range(p) : p \in Policies}

ASSUME PoliciesAssumption ==
    /\ MaxEdits \in Nat
    /\ \A p \in Policies : p \in Seq(Halves) /\ Len(p) = 2

\* The names of the first half are two lists.
ASSUME NamesAssumption ==
    \A p \in Policies : Len(p[1].dns) \in Nat /\ Len(p[1].ip) \in Nat

NotLoaded == [pc |-> "idle", before |-> None, data |-> <<>>]

\* What fstat returns of the file.
Stats == [ino : PolicyInodes, size : Nat, mtime : Nat]

\* The types: an inode that is named has been made by an edit.
PolicyTypeOK ==
    /\ edits \in 0..MaxEdits /\ named \in 0..edits
    /\ text \in [PolicyInodes -> Seq(Halves)]
    /\ mtime \in [PolicyInodes -> Nat]
    /\ loader \in [Loaders -> [pc : {"idle", "open", "read", "loaded", "refused"},
                              before : Stats \cup {None}, data : Seq(Halves)]]

PolicyInit ==
    /\ named = 0
    /\ \E p \in Policies : text = [i \in PolicyInodes |-> IF i = 0 THEN p ELSE <<>>]
    /\ mtime = [i \in PolicyInodes |-> 0]
    /\ writing = None
    /\ edits = 0
    /\ loader = [l \in Loaders |-> NotLoaded]

-----------------------------------------------------------------------------
(* The administrator.                                                      *)

\* A complete new file renamed over the old one.
Replace(p) ==
    /\ edits < MaxEdits /\ writing = None
    /\ edits' = edits + 1
    /\ named' = edits'
    /\ text' = [text EXCEPT ![edits'] = p]
    /\ UNCHANGED <<mtime, writing, loader>>

\* The file truncated, to be written again half by half.
Truncate(p) ==
    /\ edits < MaxEdits /\ writing = None
    /\ edits' = edits + 1
    /\ text' = [text EXCEPT ![named] = <<>>]
    /\ mtime' = [mtime EXCEPT ![named] = @ + 1]
    /\ writing' = p
    /\ UNCHANGED <<named, loader>>

WriteHalf ==
    /\ writing # None
    /\ LET n == Len(text[named]) + 1
       IN  /\ text' = [text EXCEPT ![named] = Append(@, writing[n])]
           /\ writing' = IF n = 2 THEN None ELSE writing
    /\ mtime' = [mtime EXCEPT ![named] = @ + 1]
    /\ UNCHANGED <<named, edits, loader>>

Administer == WriteHalf \/ \E p \in Policies : Replace(p) \/ Truncate(p)

-----------------------------------------------------------------------------
(* load_policy.  Ownership, mode and link count are what an administrator  *)
(* keeps, so the refusals that remain are of size and of change.           *)

fstat(i) == [ino |-> i, size |-> Len(text[i]), mtime |-> mtime[i]]

\* Both opens and the first fstat.
OpenPolicy(l) ==
    /\ loader[l].pc = "idle"
    /\ loader' = [loader EXCEPT ![l] =
          [pc |-> IF fstat(named).size >= 1 THEN "open" ELSE "refused",
           before |-> fstat(named), data |-> <<>>]]
    /\ UNCHANGED <<named, text, mtime, writing, edits>>

\* The next half that os.read copies.
ReadHalf(l) ==
    LET d == loader[l].data
        t == text[loader[l].before.ino]
    IN  /\ loader[l].pc = "open"
        /\ Len(d) < Len(t)
        /\ loader' = [loader EXCEPT ![l].data = Append(d, t[Len(d) + 1])]
        /\ UNCHANGED <<named, text, mtime, writing, edits>>

\* os.read reaches the end of the file and returns.
EndOfFile(l) ==
    /\ loader[l].pc = "open"
    /\ Len(loader[l].data) >= Len(text[loader[l].before.ino])
    /\ loader' = [loader EXCEPT ![l].pc = "read"]
    /\ UNCHANGED <<named, text, mtime, writing, edits>>

\* Mutant of Unchanged: the times of the last write are not compared.
UnchangedSize(data, before, after) ==
    /\ Len(data) = before.size
    /\ <<before.ino, before.size>> = <<after.ino, after.size>>
    /\ before.ino = named

\* The comparisons after the read.
Unchanged(data, before, after) ==
    /\ Len(data) = before.size
    /\ before = after
    /\ before.ino = named

\* json.loads and _exact: a document that stops half way does not parse.
Document(data) == Len(data) = 2

PolicyOf(t) ==
    [subject |-> t[1].subject, dns |-> t[1].dns, ip |-> t[1].ip, days |-> t[1].days,
     ca |-> t[2].ca, hash |-> t[2].hash, oid |-> t[2].oid]

\* The second fstat, the stat of the name, and parse_policy.
FinishLoad(l, now) ==
    LET b == loader[l].before
        d == loader[l].data
    IN  /\ loader[l].pc = "read"
        /\ loader' = [loader EXCEPT ![l] =
              [pc |-> IF /\ Unchanged(d, b, fstat(b.ino))
                         /\ Document(d)
                         /\ parse_policy(PolicyOf(d), now)
                      THEN "loaded" ELSE "refused",
               before |-> None, data |-> d]]
        /\ UNCHANGED <<named, text, mtime, writing, edits>>

Load(l, now) == OpenPolicy(l) \/ ReadHalf(l) \/ EndOfFile(l) \/ FinishLoad(l, now)

Loaded(l) == loader[l].pc = "loaded"

LoadedPolicy(l) == PolicyOf(loader[l].data)

-----------------------------------------------------------------------------
\* What a process loads is one version of the policy from end to end: a load
\* that overlaps an edit of the file is refused (load_policy compares size,
\* inode and time of last write around its read, and the inode of the name).
WholePolicy == \A l \in Loaders : Loaded(l) => loader[l].data \in Policies
=============================================================================

------------------------- MODULE KeystoreTransaction ------------------------
(***************************************************************************)
(* What the executor promises about the UniFi keystore, without journals,  *)
(* stages, rollbacks, fsyncs or control points: one keystore is canonical, *)
(* and a transaction that is open may replace it by a new one.             *)
(***************************************************************************)
EXTENDS Naturals

CONSTANTS Inodes, None

VARIABLES
    canonical,   \* the keystore UniFi opens
    tx,          \* the transaction on record, or None
    faults       \* how many faults are still to come, at most

vars == <<canonical, tx, faults>>

States == {"open", "pending", "verified", "undone"}

\* What may be canonical under transaction t.
Possible(t) == {t.old} \cup ({t.new} \ {None})

Init == canonical \in Inodes /\ tx = None /\ faults \in Nat

Begin ==
    /\ tx = None
    /\ tx' = [old |-> canonical, new |-> None, state |-> "open"]
    /\ UNCHANGED <<canonical, faults>>

\* The new keystore is whole and the old one is kept: from here on either may
\* become canonical.
Offer(i) ==
    /\ tx # None /\ tx.new = None /\ tx.state = "open" /\ canonical = tx.old
    /\ i # tx.old
    /\ tx' = [tx EXCEPT !.new = i]
    /\ UNCHANGED <<canonical, faults>>

\* The only ways the canonical keystore changes while the power stays on.
Commit ==
    /\ tx # None /\ tx.new # None /\ tx.state = "open" /\ canonical = tx.old
    /\ canonical' = tx.new
    /\ UNCHANGED <<tx, faults>>

Restore ==
    /\ tx # None /\ tx.state # "verified" /\ canonical = tx.new
    /\ canonical' = tx.old
    /\ UNCHANGED <<tx, faults>>

\* The record of how far the transaction is.  Only a pending one is verified,
\* and one that is verified stays so.
Record(state) ==
    /\ tx # None /\ tx.state # "verified"
    /\ state = "pending" => canonical = tx.new
    /\ state = "verified" => canonical = tx.new /\ tx.state = "pending"
    /\ state = "undone" => canonical = tx.old
    /\ tx' = [tx EXCEPT !.state = state]
    /\ UNCHANGED <<canonical, faults>>

\* The transaction is forgotten once its outcome is canonical.
Settled(t, keystore) ==
    \/ t.state = "verified" /\ t.new # None /\ keystore = t.new
    \/ t.state = "undone" /\ keystore = t.old

End ==
    /\ tx # None /\ Settled(tx, canonical)
    /\ tx' = None
    /\ UNCHANGED <<canonical, faults>>

Fault == faults > 0 /\ faults' = faults - 1

\* A power loss takes back any part of the record.  It leaves a keystore that
\* the transaction knows, and never a verified transaction that was not.
PowerLoss ==
    /\ Fault
    /\ IF tx = None THEN canonical' = canonical ELSE canonical' \in Possible(tx)
    /\ \/ tx' = None /\ (tx # None => tx.new = None)
       \/ /\ tx' \in [old : Inodes, new : Inodes \cup {None}, state : States]
          /\ canonical' \in Possible(tx')
          /\ \/ Settled(tx', canonical') /\ (tx # None => tx.new = None)
             \/ /\ tx # None
                /\ tx'.old = tx.old
                /\ tx'.new \in {tx.new, None}
                /\ tx'.state = "verified" => tx.state = "verified"

Next ==
    \/ Begin \/ Commit \/ Restore \/ End \/ PowerLoss
    \/ Fault /\ UNCHANGED <<canonical, tx>>
    \/ \E i \in Inodes : Offer(i)
    \/ \E state \in States : Record(state)

Spec == Init /\ [][Next]_vars
=============================================================================

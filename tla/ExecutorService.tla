--------------------------- MODULE ExecutorService ---------------------------
(***************************************************************************)
(* The executor behind its socket: serve_forever, _listener and            *)
(* _ProtocolHandler of src/unifi_executor_service.py.  One thread serves   *)
(* one connection at a time, in the order in which the kernel queued them, *)
(* and a client that has gone away cancels nothing.                        *)
(*                                                                         *)
(* The executor itself is seen from outside: a keystore and at most one    *)
(* transaction on it, of which a journal tells.  UnifiExecutor models what *)
(* happens inside an operation.  A certificate is named after the run it   *)
(* was issued for.                                                         *)
(***************************************************************************)
EXTENDS Naturals, Sequences

CONSTANTS
    Runs,       \* the runs of the renewer, each with at most one connection
    Old,        \* the certificate installed at first
    None,
    Backlog     \* how many connections wait at most, listen(4)

ASSUME ServiceAssumption ==
    Old \notin Runs /\ None \notin Runs \cup {Old} /\ Backlog \in Nat \ {0}

VARIABLES
    serving,    \* the executor listens
    queue,      \* connections with a whole request, not yet accepted
    current,    \* the request that handle() works on
    conn,       \* conn[r]: what run r sees of its connection, None without one
    keystore,   \* the certificate of the canonical keystore
    tx,         \* the transaction its journal tells of
    installed,  \* history: certificates that were canonical
    finalized   \* history: certificates whose renewal was finalised

serviceVars == <<serving, queue, current, conn, keystore, tx, installed, finalized>>

executorVars == <<keystore, tx, installed, finalized>>

Certs == Runs \cup {Old}

_OPERATIONS == {"inspect", "generate_csr", "install", "recover", "verify_pending"}

Requests == [run : Runs, operation : _OPERATIONS, before : Certs \cup {None}]

\* A reply and the state it carries; "closed" is the end of the stream.
Connections == [status : {"waiting", "ok", "error", "closed"}, state : Certs \cup {None}]

Transactions == [old : Certs, issued : Runs, phase : {"open", "pending", "live_verified"}]

ASSUME NullConnection == None \notin Connections

ServiceInit ==
    /\ serving = TRUE /\ queue = <<>> /\ current = None
    /\ conn = [r \in Runs |-> None]
    /\ keystore = Old /\ tx = None
    /\ installed = {} /\ finalized = {}

-----------------------------------------------------------------------------
(* The executor's operations, seen from outside.                           *)

\* The transaction is open with either keystore in place.
Interrupt(q) ==
    \E k \in {keystore, q.run} :
        /\ tx' = [old |-> keystore, issued |-> q.run, phase |-> "open"]
        /\ keystore' = k /\ installed' = installed \cup {k}
        /\ UNCHANGED finalized

Finalize ==
    /\ tx' = None /\ finalized' = finalized \cup {tx.issued}
    /\ UNCHANGED <<keystore, installed>>

_no_transaction == tx = None

\* exclusive() refuses a transaction and a stale request before it does anything.
Installable(q) == _no_transaction /\ keystore = q.before

Install(q) ==
    /\ Installable(q)
    /\ tx' = [old |-> keystore, issued |-> q.run, phase |-> "pending"]
    /\ keystore' = q.run /\ installed' = installed \cup {q.run}
    /\ UNCHANGED finalized

VerifyPending ==
    /\ tx # None /\ tx.phase = "pending" /\ keystore = tx.issued
    /\ Finalize

\* recover() puts the old keystore back when it cannot read the issued one.
Restore ==
    /\ tx # None /\ tx.phase # "live_verified" /\ keystore = tx.issued
    /\ keystore' = tx.old
    /\ UNCHANGED <<installed, finalized>>

\* recover() finalises what was verified, takes up the issued keystore as
\* pending and gives up a transaction that left, or has again, the old one.
Recover ==
    \/ tx = None /\ UNCHANGED executorVars
    \/ tx # None /\ tx.phase = "live_verified" /\ Finalize
    \/ /\ tx # None /\ tx.phase # "live_verified" /\ keystore = tx.issued
       /\ tx' = [tx EXCEPT !.phase = "pending"]
       /\ UNCHANGED <<keystore, installed, finalized>>
    \/ /\ tx # None /\ tx.phase # "live_verified" /\ keystore = tx.old
       /\ tx' = None
       /\ UNCHANGED <<keystore, installed, finalized>>
    \/ Restore /\ tx' = None

\* dispatch: the operation's effect, and the state its answer carries.
dispatch(q, state) ==
    \/ /\ q.operation \in {"inspect", "generate_csr"} /\ _no_transaction
       /\ state = keystore /\ UNCHANGED executorVars
    \/ q.operation = "install" /\ Install(q) /\ state = q.run
    \/ q.operation = "verify_pending" /\ VerifyPending /\ state = None
    \/ q.operation = "recover" /\ Recover /\ state = None

\* What an operation that fails, or that dies with its helper, may leave: its
\* whole effect included, when only the answer failed.
PartOf(q) ==
    \/ UNCHANGED executorVars
    \/ \E state \in Certs \cup {None} : dispatch(q, state)
    \/ q.operation = "install" /\ Installable(q) /\ Interrupt(q)
    \/ /\ q.operation = "verify_pending"
       /\ tx # None /\ tx.phase = "pending" /\ keystore = tx.issued
       /\ tx' = [tx EXCEPT !.phase = "live_verified"]
       /\ UNCHANGED <<keystore, installed, finalized>>
    \/ q.operation = "recover" /\ Restore /\ tx' = tx

-----------------------------------------------------------------------------
(* The socket.                                                             *)

\* _call of the client: connect, which fails at once when the backlog has no
\* room, and the whole request.
Connect(q) ==
    /\ serving /\ conn[q.run] = None /\ Len(queue) < Backlog
    /\ queue' = Append(queue, q)
    /\ conn' = [conn EXCEPT ![q.run] = [status |-> "waiting", state |-> None]]
    /\ UNCHANGED <<serving, current, executorVars>>

Hangup(r) == conn' = [conn EXCEPT ![r] = None]

\* Mutant of Accept: the newest connection is served first.
AcceptNewest ==
    /\ serving /\ current = None /\ queue # <<>>
    /\ current' = queue[Len(queue)]
    /\ queue' = SubSeq(queue, 1, Len(queue) - 1)
    /\ UNCHANGED <<serving, conn, executorVars>>

\* accept(), and the request that is already in the socket.
Accept ==
    /\ serving /\ current = None /\ queue # <<>>
    /\ current' = Head(queue)
    /\ queue' = Tail(queue)
    /\ UNCHANGED <<serving, conn, executorVars>>

\* _write_message to a client that has gone away raises, and is ignored.
Answer(status, state) ==
    /\ conn' = IF conn[current.run] # None
               THEN [conn EXCEPT ![current.run] = [status |-> status, state |-> state]]
               ELSE conn
    /\ current' = None
    /\ UNCHANGED <<serving, queue>>

HandleOk ==
    /\ current # None
    /\ \E state \in Certs \cup {None} : dispatch(current, state) /\ Answer("ok", state)

\* Any exception is one generic error to the client.
HandleError ==
    /\ current # None
    /\ PartOf(current)
    /\ Answer("error", None)

\* The helper dies: every connection breaks, its operation stops half way.
HelperDies ==
    /\ serving /\ serving' = FALSE
    /\ IF current = None THEN UNCHANGED executorVars ELSE PartOf(current)
    /\ current' = None /\ queue' = <<>>
    /\ conn' = [r \in Runs |-> IF conn[r] # None /\ conn[r].status = "waiting"
                               THEN [status |-> "closed", state |-> None] ELSE conn[r]]

\* s6 starts the helper again (_listener removes the stale socket); a container
\* that starts runs recover_startup first.
Listen ==
    /\ ~serving /\ serving' = TRUE
    /\ \/ UNCHANGED executorVars
       \/ Recover
    /\ UNCHANGED <<queue, current, conn>>
=============================================================================

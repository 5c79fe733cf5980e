--------------------------- MODULE AuthnTransaction ---------------------------
(***************************************************************************)
(* What the authentication-transaction orchestrator promises (spec section *)
(* 4.1): the transaction machine IDLE -> AWAITING_PRIMARY ->               *)
(* AWAITING_SECOND_FACTOR -> SUCCESS, with FAILED and cancel.  The server  *)
(* side is part of the machine, because the promise is about the two      *)
(* together: the continuation token is the only authority for progress,   *)
(* so the server's status of a transaction changes only in a step in which *)
(* the client adopts exactly that status for the transaction it holds.     *)
(***************************************************************************)
CONSTANTS
    TxIds,   \* continuation tokens
    NoTx     \* no transaction held

VARIABLES
    phase,   \* the client's view of its transaction
    tx,      \* the continuation token it holds
    srv      \* the server's status of every transaction

vars == <<phase, tx, srv>>

Phases == {"IDLE", "AWAITING_PRIMARY", "AWAITING_SECOND_FACTOR", "SUCCESS",
           "FAILED"}
ServerStatuses == {"NONE", "AWAITING_PRIMARY", "AWAITING_SECOND_FACTOR",
                   "SUCCESS"}

\* The statuses the server may move a transaction to from each status.
Successors(p) ==
    CASE p = "AWAITING_PRIMARY" -> {"AWAITING_SECOND_FACTOR", "SUCCESS"}
      [] p = "AWAITING_SECOND_FACTOR" -> {"SUCCESS"}
      [] OTHER -> {}

TypeOK ==
    /\ phase \in Phases
    /\ tx \in TxIds \cup {NoTx}
    /\ srv \in [TxIds -> ServerStatuses]

Init ==
    /\ phase = "IDLE"
    /\ tx = NoTx
    /\ srv = [t \in TxIds |-> "NONE"]

\* start: the server opens a fresh transaction and the client adopts the
\* status it reports.
Start ==
    /\ phase = "IDLE"
    /\ \E t \in TxIds, s \in {"AWAITING_PRIMARY", "AWAITING_SECOND_FACTOR"} :
         /\ srv[t] = "NONE"
         /\ srv' = [srv EXCEPT ![t] = s]
         /\ phase' = s
         /\ tx' = t

\* verifyPassword / verifySecondFactor succeed: server and client advance
\* together.  A wrong credential or any error changes neither (a stutter).
Advance ==
    /\ phase \in {"AWAITING_PRIMARY", "AWAITING_SECOND_FACTOR"}
    /\ srv[tx] = phase
    /\ \E s \in Successors(phase) :
         /\ srv' = [srv EXCEPT ![tx] = s]
         /\ phase' = s
    /\ UNCHANGED tx

Fail ==
    /\ phase \notin {"IDLE", "FAILED"}
    /\ phase' = "FAILED"
    /\ UNCHANGED <<tx, srv>>

\* cancel(): back to IDLE, the continuation token discarded.
Cancel ==
    /\ phase' = "IDLE"
    /\ tx' = NoTx
    /\ UNCHANGED srv

Next == Start \/ Advance \/ Fail \/ Cancel

Spec == Init /\ [][Next]_vars

\* The client never holds a status its server does not: a held transaction
\* is in the phase the server records for it.
Synchronized == phase \in {"AWAITING_PRIMARY", "AWAITING_SECOND_FACTOR",
                           "SUCCESS"} => srv[tx] = phase
=============================================================================

------------------------------- MODULE Driver -------------------------------
(***************************************************************************)
(* The database/sql driver (src/driver.go) over the two pools of a store   *)
(* (src/store.go): one writer connection, which a transaction holds from   *)
(* BeginTx to its end, and ReadConns read-only connections, which a query  *)
(* outside a transaction holds until its rows are closed.                  *)
(*                                                                         *)
(* A client is a goroutine of the application with a connection of its     *)
(* own.  Inside database/sql, which is external, a request waits for a     *)
(* free connection without a limit.  A transaction writes rows; for each   *)
(* client, at most one transaction is followed, with the number of its     *)
(* writes that were acknowledged and of those that are in the database.    *)
(***************************************************************************)
EXTENDS Integers, FiniteSets

CONSTANTS
    Clients,
    Names,       \* databases
    ReadConns,   \* Config.SQLiteReadConns
    MaxExecs,    \* bound of the model: statements in a transaction
    Habits,      \* what careless callers do, see MayExec and MayQuery
    None         \* no client

ASSUME DriverAssumption ==
    /\ None \notin Clients
    /\ ReadConns \in Nat \ {0}
    /\ MaxExecs \in Nat

VARIABLES
    pc,        \* where a client is
    db,        \* the database of its connection
    activeTx,  \* colmenaConn.activeTx: "none", "live", or "over" once the inner
               \* transaction was rolled back because its context ended
    acked,     \* writes acknowledged to the client's transaction
    pending,   \* writes of it that the writer connection holds, uncommitted
    landed,    \* writes of it that are committed
    outcome,   \* "unused", "open", "committed" or "failed"
    blind,     \* has a query in the transaction missed one of its writes?
    rows,      \* reader connections the client's open rows hold
    writer,    \* for each database, the client whose transaction has the writer
    closed     \* databases whose pools are closed

connVars == <<activeTx, acked, pending, landed, outcome, blind, rows, writer>>

Goto(c, l) == pc' = [pc EXCEPT ![c] = l]

\* Where a client goes on when a call returns.
Back(c) == IF activeTx[c] = "none" THEN "ready" ELSE "tx"

\* The reader connections of a database that open rows hold.
ReadersHeld(n) ==
    Cardinality({h \in Clients \X (1 .. 2) : db[h[1]] = n /\ h[2] <= rows[h[1]]})

-----------------------------------------------------------------------------
(* Transactions *)

\* BeginTx waits for the writer, or fails on a closed pool.
CallBegin(c) ==
    /\ pc[c] = "ready" /\ outcome[c] = "unused"
    /\ Goto(c, "begin")
    /\ UNCHANGED <<db, connVars, closed>>

BeginTx(c) ==
    /\ pc[c] = "begin"
    /\ \/ /\ db[c] \in closed
          /\ Goto(c, "ready")
          /\ UNCHANGED <<activeTx, outcome, writer>>
       \/ /\ db[c] \notin closed /\ writer[db[c]] = None
          /\ writer' = [writer EXCEPT ![db[c]] = c]
          /\ activeTx' = [activeTx EXCEPT ![c] = "live"]
          /\ outcome' = [outcome EXCEPT ![c] = "open"]
          /\ Goto(c, "tx")
    /\ UNCHANGED <<db, acked, pending, landed, blind, rows, closed>>

\* Mutant: A transaction that is over no longer counts as one.
TxExecOver(c) ==
    /\ pc[c] = "tx" /\ acked[c] < MaxExecs
    /\ \/ /\ activeTx[c] = "live"
          /\ pending' = [pending EXCEPT ![c] = @ + 1]
          /\ UNCHANGED landed
       \/ /\ activeTx[c] = "over" /\ writer[db[c]] = None
          /\ landed' = [landed EXCEPT ![c] = @ + 1]
          /\ UNCHANGED pending
    /\ acked' = [acked EXCEPT ![c] = @ + 1]
    /\ UNCHANGED <<pc, db, activeTx, outcome, blind, rows, writer, closed>>

\* ExecContext with a transaction: on its connection, or sql.ErrTxDone.
TxExec(c) ==
    /\ pc[c] = "tx" /\ acked[c] < MaxExecs
    /\ activeTx[c] = "live"
    /\ pending' = [pending EXCEPT ![c] = @ + 1]
    /\ acked' = [acked EXCEPT ![c] = @ + 1]
    /\ UNCHANGED <<pc, db, activeTx, landed, outcome, blind, rows, writer, closed>>

\* Mutant: Every query goes to the read-only pool.
TxQueryReader(c) ==
    /\ pc[c] = "tx" /\ activeTx[c] = "live"
    /\ blind' = [blind EXCEPT ![c] = landed[c] < acked[c]]
    /\ UNCHANGED <<pc, db, activeTx, acked, pending, landed, outcome, rows, writer, closed>>

\* QueryContext with a transaction: on its connection, so that it sees its writes.
TxQuery(c) ==
    /\ pc[c] = "tx" /\ activeTx[c] = "live"
    /\ blind' = [blind EXCEPT ![c] = landed[c] + pending[c] < acked[c]]
    /\ UNCHANGED <<pc, db, activeTx, acked, pending, landed, outcome, rows, writer, closed>>

\* The writer connection leaves the transaction.
Release(c) ==
    /\ writer' = [writer EXCEPT ![db[c]] = None]
    /\ pending' = [pending EXCEPT ![c] = 0]

\* The context of the transaction ends: the inner sql.Tx rolls back on its own
\* and frees the writer; activeTx still points to it.
CancelTx(c) ==
    /\ activeTx[c] = "live"
    /\ Release(c)
    /\ activeTx' = [activeTx EXCEPT ![c] = "over"]
    /\ UNCHANGED <<pc, db, acked, landed, outcome, blind, rows, closed>>

\* Commit, and Commit of a transaction that is over (ErrTxDone).
Commit(c) ==
    /\ pc[c] = "tx"
    /\ \/ /\ activeTx[c] = "live"
          /\ landed' = [landed EXCEPT ![c] = @ + pending[c]]
          /\ Release(c)
          /\ outcome' = [outcome EXCEPT ![c] = "committed"]
       \/ /\ activeTx[c] = "over"
          /\ outcome' = [outcome EXCEPT ![c] = "failed"]
          /\ UNCHANGED <<landed, pending, writer>>
    /\ activeTx' = [activeTx EXCEPT ![c] = "none"]
    /\ Goto(c, "ready")
    /\ UNCHANGED <<db, acked, blind, rows, closed>>

\* Rollback, by the client or by database/sql when the context ends, and
\* colmenaConn.Close, which rolls back what it finds.
Rollback(c) ==
    /\ pc[c] = "tx"
    /\ IF activeTx[c] = "live" THEN Release(c) ELSE UNCHANGED <<pending, writer>>
    /\ outcome' = [outcome EXCEPT ![c] = "failed"]
    /\ activeTx' = [activeTx EXCEPT ![c] = "none"]
    /\ Goto(c, "ready")
    /\ UNCHANGED <<db, acked, landed, blind, rows, closed>>

-----------------------------------------------------------------------------
(* Statements outside a transaction *)

\* A careless client calls sql.DB.Exec while its transaction is open, or a second
\* sql.DB.Query while it reads the rows of the first: database/sql gives it
\* another connection.
MayExec  == {"ready"} \cup IF "writeBesideTx" \in Habits THEN {"tx"} ELSE {}
MayQuery == {"ready"} \cup IF "nestedRows" \in Habits THEN {"reading"} ELSE {}

CallExec(c) ==
    /\ pc[c] \in MayExec
    /\ Goto(c, "exec")
    /\ UNCHANGED <<db, connVars, closed>>

\* ExecContext without a transaction: it waits for the writer.
Exec(c) ==
    /\ pc[c] = "exec"
    /\ db[c] \in closed \/ writer[db[c]] = None
    /\ Goto(c, Back(c))
    /\ UNCHANGED <<db, connVars, closed>>

CallQuery(c) ==
    /\ pc[c] \in MayQuery /\ rows[c] < 2
    /\ Goto(c, "query")
    /\ UNCHANGED <<db, connVars, closed>>

\* QueryContext without a transaction: it waits for a reader, which the rows keep.
Query(c) ==
    /\ pc[c] = "query"
    /\ \/ /\ db[c] \in closed
          /\ Goto(c, IF rows[c] = 0 THEN "ready" ELSE "reading")
          /\ UNCHANGED rows
       \/ /\ db[c] \notin closed /\ ReadersHeld(db[c]) < ReadConns
          /\ rows' = [rows EXCEPT ![c] = @ + 1]
          /\ Goto(c, "reading")
    /\ UNCHANGED <<db, activeTx, acked, pending, landed, outcome, blind, writer, closed>>

\* wrappedRows.Close, and the end of the rows.
CloseRows(c) ==
    /\ pc[c] = "reading"
    /\ rows' = [rows EXCEPT ![c] = @ - 1]
    /\ Goto(c, IF rows[c] = 1 THEN "ready" ELSE "reading")
    /\ UNCHANGED <<db, activeTx, acked, pending, landed, outcome, blind, writer, closed>>

-----------------------------------------------------------------------------

DriverInit ==
    /\ pc = [c \in Clients |-> "idle"]
    /\ db \in [Clients -> Names]
    /\ activeTx = [c \in Clients |-> "none"]
    /\ acked = [c \in Clients |-> 0] /\ pending = [c \in Clients |-> 0]
    /\ landed = [c \in Clients |-> 0]
    /\ outcome = [c \in Clients |-> "unused"]
    /\ blind = [c \in Clients |-> FALSE]
    /\ rows = [c \in Clients |-> 0]
    /\ writer = [n \in Names |-> None]
    /\ closed = {}

\* What a client decides to do.
ClientCall(c) == CallBegin(c) \/ CallExec(c) \/ CallQuery(c) \/ TxExec(c) \/ TxQuery(c)

\* What goes on by itself: a call that was made returns, a transaction is ended
\* and rows are closed.
ClientStep(c) ==
    BeginTx(c) \/ Commit(c) \/ Rollback(c) \/ Exec(c) \/ Query(c) \/ CloseRows(c)

DriverStep(c) == ClientCall(c) \/ ClientStep(c) \/ CancelTx(c)

-----------------------------------------------------------------------------
(* Properties *)

\* driver.go:13, "transactions are real SQLite transactions": of a
\* transaction's acknowledged writes all are in the database or none, and they
\* are there exactly if Commit said so, wherever its context ends.
TxAtomic ==
    \A c \in Clients :
        /\ outcome[c] = "committed" => landed[c] = acked[c]
        /\ outcome[c] # "committed" => landed[c] = 0

\* driver.go:14, "queries inside a *sql.Tx see the transaction's own uncommitted
\* writes".
ReadsOwnWrites == \A c \in Clients : ~blind[c]
=============================================================================

----------------------------- MODULE NodeProofs -----------------------------
(***************************************************************************)
(* The safety of the driver and of the node, for any number of clients,    *)
(* databases and connections: transactions are atomic and see their own    *)
(* writes and there is one store over a file whatever an application does; *)
(* Close is clean if no database is first opened while or after it runs.   *)
(***************************************************************************)
EXTENDS Node, TLAPS

-----------------------------------------------------------------------------
(* The inductive invariants *)

\* A transaction and its writes: while it lives they are all uncommitted on the
\* writer, afterwards they are all committed or all gone.
TxInv ==
    \A c \in Clients :
        /\ activeTx[c] # "none" <=> outcome[c] = "open"
        /\ pc[c] = "tx" => activeTx[c] # "none"
        /\ pc[c] = "begin" => outcome[c] = "unused"
        /\ outcome[c] = "unused" => acked[c] = 0 /\ landed[c] = 0
        /\ activeTx[c] = "live" => pending[c] = acked[c] /\ landed[c] = 0
        /\ activeTx[c] # "live" => pending[c] = 0
        /\ outcome[c] = "committed" => landed[c] = acked[c]
        /\ outcome[c] # "committed" => landed[c] = 0
        /\ ~blind[c]

\* Places of a client that has a connection, and so a store.
Connected == {"ready", "begin", "tx", "exec", "query", "reading"}

\* Who has sm.mu opens a store that is not in the map yet, and every open store
\* is in the map or being opened.
StoreInv ==
    /\ \A c \in Clients : pc[c] \in {"opening", "hook"} <=> lock = c
    /\ lock # None => db[lock] \notin stores
    /\ closed \subseteq stores
    /\ \A n \in Names :
          opens[n] = IF n \in stores \ closed \/ (lock # None /\ db[lock] = n)
                     THEN 1 ELSE 0
    /\ \A c \in Clients : pc[c] \in Connected \/ activeTx[c] # "none"
                             => db[c] \in stores
    /\ phase # "closed" => closed = {}
    /\ \A c \in Clients : pc[c] = "stop" => phase = "closing"
    /\ \A c, d \in Clients : pc[c] = "stop" /\ pc[d] = "stop" => c = d

\* Once Close was called no store is opened, and it leaves no engine behind that
\* has not stopped.
CloseInv ==
    /\ backups = stores
    /\ \A n \in Names : engine[n] # "none" => n \in backups
    /\ phase # "running" => \A c \in Clients : pc[c] \in Opening => db[c] \in stores
    /\ \A c \in Clients : pc[c] = "stop" =>
          \A n \in backups : n \notin todo[c] => engine[n] = "stopped"
    /\ phase = "closed" => closed = stores
    /\ \A n \in closed : engine[n] = "stopped"

-----------------------------------------------------------------------------
(* Type correctness *)

\* A step of a client through the driver keeps the types.
LEMMA DriverTypes ==
    ASSUME TypeOK, NEW c \in Clients, DriverStep(c), UNCHANGED nodeVars
    PROVE  TypeOK'
<1> USE DEF TypeOK, Places, EnginePlaces, Goto, Back, nodeVars, connVars
<1>1. CASE CallBegin(c)  BY <1>1 DEF CallBegin
<1>2. CASE BeginTx(c)    BY <1>2 DEF BeginTx
<1>3. CASE TxExec(c)     BY <1>3 DEF TxExec
<1>4. CASE TxQuery(c)    BY <1>4 DEF TxQuery
<1>5. CASE CancelTx(c)   BY <1>5 DEF CancelTx, Release
<1>6. CASE Commit(c)     BY <1>6 DEF Commit, Release
<1>7. CASE Rollback(c)   BY <1>7 DEF Rollback, Release
<1>8. CASE CallExec(c)   BY <1>8 DEF CallExec
<1>9. CASE Exec(c)       BY <1>9 DEF Exec
<1>10. CASE CallQuery(c) BY <1>10 DEF CallQuery
<1>11. CASE Query(c)     BY <1>11 DEF Query
<1>12. CASE CloseRows(c) BY <1>12 DEF CloseRows
<1>13. QED BY <1>1, <1>2, <1>3, <1>4, <1>5, <1>6, <1>7, <1>8, <1>9, <1>10, <1>11, <1>12
           DEF DriverStep, ClientCall, ClientStep

\* A step of a client through the node keeps the types.
LEMMA NodeTypes ==
    ASSUME TypeOK, NEW c \in Clients, NodeCall(c) \/ NodeStep(c)
    PROVE  TypeOK'
<1> USE DriverAssumption DEF TypeOK, Places, EnginePlaces, Goto, nodeVars, connVars, Ranging
<1>1. CASE Connect(c) BY <1>1 DEF Connect
<1>2. CASE Look(c) BY <1>2 DEF Look
<1>3. CASE Want(c) BY <1>3 DEF Want, NewStoreAt
<1>4. CASE HookFails(c) BY <1>4 DEF HookFails
<1>5. CASE SnapshotFails(c) BY <1>5 DEF SnapshotFails
<1>6. CASE Register(c)
  <2>1. raced' \in BOOLEAN  BY <1>6, Zenon DEF Register
  <2>2. todo' \in [Clients -> SUBSET Names]  BY <1>6 DEF Register
  <2>3. /\ pc' \in [Clients -> Places] /\ engine' \in [Names -> EnginePlaces]
        /\ backups' \subseteq Names /\ stores' \subseteq Names
        /\ lock' \in Clients \cup {None}
    BY <1>6 DEF Register
  <2>4. QED BY <1>6, <2>1, <2>2, <2>3 DEF Register
<1>7. CASE Disconnect(c) BY <1>7 DEF Disconnect
<1>8. CASE CallStatus(c) BY <1>8 DEF CallStatus
<1>9. CASE Status(c) BY <1>9 DEF Status
<1>10. CASE StatusReturns(c) BY <1>10 DEF StatusReturns
<1>11. CASE CallClose(c) BY <1>11 DEF CallClose
<1>12. CASE Stop(c) BY <1>12 DEF Stop
<1>13. CASE CloseStores(c) BY <1>13 DEF CloseStores
<1>14. QED BY <1>1, <1>2, <1>3, <1>4, <1>5, <1>6, <1>7, <1>8, <1>9, <1>10, <1>11, <1>12, <1>13
           DEF NodeCall, NodeStep

\* A step of an engine keeps the types.
LEMMA EngineTypes ==
    ASSUME TypeOK, NEW n \in Names, EngineStep(n)
    PROVE  TypeOK'
BY DEF TypeOK, Places, EnginePlaces, EngineStep, Moves, connVars

-----------------------------------------------------------------------------
(* Transactions *)

\* A step through the driver keeps TxInv.
LEMMA DriverTx ==
    ASSUME TypeOK, TxInv, NEW c \in Clients, DriverStep(c)
    PROVE  TxInv'
<1> USE DEF TypeOK, TxInv, Goto, Back, connVars
<1>1. CASE CallBegin(c) BY <1>1 DEF CallBegin
<1>2. CASE BeginTx(c) BY <1>2 DEF BeginTx
<1>3. CASE TxExec(c) BY <1>3 DEF TxExec
<1>4. CASE TxQuery(c) BY <1>4 DEF TxQuery
<1>5. CASE CancelTx(c) BY <1>5 DEF CancelTx, Release
<1>6. CASE Commit(c) BY <1>6 DEF Commit, Release
<1>7. CASE Rollback(c) BY <1>7 DEF Rollback, Release
<1>8. CASE CallExec(c) BY <1>8 DEF CallExec
<1>9. CASE Exec(c) BY <1>9 DEF Exec
<1>10. CASE CallQuery(c) BY <1>10 DEF CallQuery
<1>11. CASE Query(c) BY <1>11 DEF Query
<1>12. CASE CloseRows(c) BY <1>12 DEF CloseRows
<1>13. QED BY <1>1, <1>2, <1>3, <1>4, <1>5, <1>6, <1>7, <1>8, <1>9, <1>10, <1>11, <1>12
           DEF DriverStep, ClientCall, ClientStep

\* A step through the node keeps TxInv: no transaction takes part in it.
LEMMA NodeTx ==
    ASSUME TypeOK, TxInv, NEW c \in Clients, NodeCall(c) \/ NodeStep(c)
    PROVE  TxInv'
<1> USE DEF TypeOK, TxInv, Goto, nodeVars, connVars, Ranging
<1>1. CASE Connect(c) BY <1>1 DEF Connect
<1>2. CASE Look(c) BY <1>2 DEF Look
<1>3. CASE Want(c) BY <1>3 DEF Want, NewStoreAt
<1>4. CASE HookFails(c) BY <1>4 DEF HookFails
<1>5. CASE SnapshotFails(c) BY <1>5 DEF SnapshotFails
<1>6. CASE Register(c) BY <1>6 DEF Register
<1>7. CASE Disconnect(c) BY <1>7 DEF Disconnect
<1>8. CASE CallStatus(c) BY <1>8 DEF CallStatus
<1>9. CASE Status(c) BY <1>9 DEF Status
<1>10. CASE StatusReturns(c) BY <1>10 DEF StatusReturns
<1>11. CASE CallClose(c) BY <1>11 DEF CallClose
<1>12. CASE Stop(c) BY <1>12 DEF Stop
<1>13. CASE CloseStores(c) BY <1>13 DEF CloseStores
<1>14. QED BY <1>1, <1>2, <1>3, <1>4, <1>5, <1>6, <1>7, <1>8, <1>9, <1>10, <1>11, <1>12, <1>13
           DEF NodeCall, NodeStep

-----------------------------------------------------------------------------
(* Stores *)

\* A step through the driver keeps StoreInv.
LEMMA DriverStores ==
    ASSUME TypeOK, TxInv, StoreInv, NEW c \in Clients, DriverStep(c), UNCHANGED nodeVars
    PROVE  StoreInv'
<1> USE DriverAssumption DEF TypeOK, StoreInv, Connected, Goto, Back, connVars, nodeVars
<1>1. CASE CallBegin(c) BY <1>1 DEF CallBegin
<1>2. CASE BeginTx(c) BY <1>2 DEF BeginTx
<1>3. CASE TxExec(c) BY <1>3 DEF TxExec
<1>4. CASE TxQuery(c) BY <1>4 DEF TxQuery
<1>5. CASE CancelTx(c) BY <1>5 DEF CancelTx, Release
<1>6. CASE Commit(c) BY <1>6 DEF Commit, Release
<1>7. CASE Rollback(c) BY <1>7 DEF Rollback, Release
<1>8. CASE CallExec(c) BY <1>8 DEF CallExec, MayExec
<1>9. CASE Exec(c) BY <1>9 DEF Exec
<1>10. CASE CallQuery(c) BY <1>10 DEF CallQuery, MayQuery
<1>11. CASE Query(c) BY <1>11 DEF Query
<1>12. CASE CloseRows(c) BY <1>12 DEF CloseRows
<1>13. QED BY <1>1, <1>2, <1>3, <1>4, <1>5, <1>6, <1>7, <1>8, <1>9, <1>10, <1>11, <1>12
           DEF DriverStep, ClientCall, ClientStep

\* A step through the node keeps StoreInv.
LEMMA NodeStores ==
    ASSUME TypeOK, TxInv, StoreInv, NEW c \in Clients, NodeCall(c) \/ NodeStep(c)
    PROVE  StoreInv'
<1> USE DriverAssumption DEF TypeOK, TxInv, StoreInv, Connected, Goto, nodeVars, connVars, Ranging
<1>1. CASE Connect(c) BY <1>1 DEF Connect
<1>2. CASE Look(c) BY <1>2 DEF Look
<1>3. CASE Want(c) BY <1>3 DEF Want, NewStoreAt
<1>4. CASE HookFails(c) BY <1>4 DEF HookFails
<1>5. CASE SnapshotFails(c) BY <1>5 DEF SnapshotFails
<1>6. CASE Register(c) BY <1>6 DEF Register
<1>7. CASE Disconnect(c) BY <1>7 DEF Disconnect
<1>8. CASE CallStatus(c) BY <1>8 DEF CallStatus
<1>9. CASE Status(c) BY <1>9 DEF Status
<1>10. CASE StatusReturns(c) BY <1>10 DEF StatusReturns
<1>11. CASE CallClose(c) BY <1>11 DEF CallClose
<1>12. CASE Stop(c) BY <1>12 DEF Stop
<1>13. CASE CloseStores(c) BY <1>13 DEF CloseStores
<1>14. QED BY <1>1, <1>2, <1>3, <1>4, <1>5, <1>6, <1>7, <1>8, <1>9, <1>10, <1>11, <1>12, <1>13
           DEF NodeCall, NodeStep

-----------------------------------------------------------------------------
(* Close *)

\* A step through the driver keeps CloseInv.
LEMMA DriverClose ==
    ASSUME TypeOK, CloseInv, NEW c \in Clients, DriverStep(c), UNCHANGED nodeVars
    PROVE  CloseInv'
<1> USE DEF TypeOK, CloseInv, Opening, Goto, Back, connVars, nodeVars
<1>1. CASE CallBegin(c) BY <1>1 DEF CallBegin
<1>2. CASE BeginTx(c) BY <1>2 DEF BeginTx
<1>3. CASE TxExec(c) BY <1>3 DEF TxExec
<1>4. CASE TxQuery(c) BY <1>4 DEF TxQuery
<1>5. CASE CancelTx(c) BY <1>5 DEF CancelTx, Release
<1>6. CASE Commit(c) BY <1>6 DEF Commit, Release
<1>7. CASE Rollback(c) BY <1>7 DEF Rollback, Release
<1>8. CASE CallExec(c) BY <1>8 DEF CallExec
<1>9. CASE Exec(c) BY <1>9 DEF Exec
<1>10. CASE CallQuery(c) BY <1>10 DEF CallQuery
<1>11. CASE Query(c) BY <1>11 DEF Query
<1>12. CASE CloseRows(c) BY <1>12 DEF CloseRows
<1>13. QED BY <1>1, <1>2, <1>3, <1>4, <1>5, <1>6, <1>7, <1>8, <1>9, <1>10, <1>11, <1>12
           DEF DriverStep, ClientCall, ClientStep

\* A step through the node keeps CloseInv.
LEMMA NodeClose ==
    ASSUME "lateOpen" \notin Habits, TypeOK, StoreInv, CloseInv, NEW c \in Clients,
           NodeCall(c) \/ NodeStep(c)
    PROVE  CloseInv'
<1> USE DriverAssumption DEF TypeOK, CloseInv, StoreInv, Opening, Goto, nodeVars, connVars, Ranging
<1>1. CASE Connect(c) BY <1>1 DEF Connect
<1>2. CASE Look(c) BY <1>2 DEF Look
<1>3. CASE Want(c) BY <1>3 DEF Want, NewStoreAt
<1>4. CASE HookFails(c) BY <1>4 DEF HookFails
<1>5. CASE SnapshotFails(c) BY <1>5 DEF SnapshotFails
<1>6. CASE Register(c) BY <1>6 DEF Register
<1>7. CASE Disconnect(c) BY <1>7 DEF Disconnect
<1>8. CASE CallStatus(c) BY <1>8 DEF CallStatus
<1>9. CASE Status(c) BY <1>9 DEF Status
<1>10. CASE StatusReturns(c) BY <1>10 DEF StatusReturns
<1>11. CASE CallClose(c) BY <1>11 DEF CallClose
<1>12. CASE Stop(c) BY <1>12 DEF Stop
<1>13. CASE CloseStores(c) BY <1>13 DEF CloseStores
<1>14. QED BY <1>1, <1>2, <1>3, <1>4, <1>5, <1>6, <1>7, <1>8, <1>9, <1>10, <1>11, <1>12, <1>13
           DEF NodeCall, NodeStep

-----------------------------------------------------------------------------
(* The theorems *)

\* The invariants together: the beginning, and every step or stutter.
LEMMA SafeInit == Init => TypeOK /\ TxInv /\ StoreInv /\ CloseInv
<1> SUFFICES ASSUME Init PROVE TypeOK /\ TxInv /\ StoreInv /\ CloseInv
  OBVIOUS
<1> USE DriverAssumption DEF Init, DriverInit
<1>1. TypeOK
  <2>1. pc \in [Clients -> Places] /\ engine \in [Names -> EnginePlaces]
    BY DEF Places, EnginePlaces
  <2>2. blind \in [Clients -> BOOLEAN] /\ raced \in BOOLEAN  BY Zenon
  <2>3. /\ acked \in [Clients -> Nat] /\ pending \in [Clients -> Nat]
        /\ landed \in [Clients -> Nat] /\ rows \in [Clients -> Int]
        /\ opens \in [Names -> Int]
    OBVIOUS
  <2>4. QED BY <2>1, <2>2, <2>3 DEF TypeOK
<1>2. TxInv  BY DEF TxInv
<1>3. StoreInv  BY DEF StoreInv, Connected
<1>4. CloseInv  BY DEF CloseInv
<1>5. QED BY <1>1, <1>2, <1>3, <1>4

LEMMA SafeStep ==
    ASSUME TypeOK, TxInv, StoreInv, [Next]_vars
    PROVE  TypeOK' /\ TxInv' /\ StoreInv'
<1>1. ASSUME NEW c \in Clients, DriverStep(c), UNCHANGED nodeVars
      PROVE  TypeOK' /\ TxInv' /\ StoreInv'
  BY <1>1, DriverTypes, DriverTx, DriverStores
<1>2. ASSUME NEW c \in Clients, NodeCall(c) \/ NodeStep(c)
      PROVE  TypeOK' /\ TxInv' /\ StoreInv'
  BY <1>2, NodeTypes, NodeTx, NodeStores
<1>3. ASSUME NEW n \in Names, EngineStep(n)
      PROVE  TypeOK' /\ TxInv' /\ StoreInv'
  BY <1>3, EngineTypes DEF EngineStep, TxInv, StoreInv, connVars
<1>4. CASE UNCHANGED vars
  BY <1>4 DEF vars, connVars, nodeVars, TypeOK, TxInv, StoreInv, Ranging
<1>5. QED BY <1>1, <1>2, <1>3, <1>4 DEF Next

LEMMA CloseStep ==
    ASSUME "lateOpen" \notin Habits, TypeOK, StoreInv, CloseInv, [Next]_vars
    PROVE  CloseInv'
<1>1. ASSUME NEW c \in Clients, DriverStep(c), UNCHANGED nodeVars
      PROVE  CloseInv'
  BY <1>1, DriverClose
<1>2. ASSUME NEW c \in Clients, NodeCall(c) \/ NodeStep(c)
      PROVE  CloseInv'
  BY <1>2, NodeClose
<1>3. ASSUME NEW n \in Names, EngineStep(n)
      PROVE  CloseInv'
  BY <1>3 DEF EngineStep, Moves, CloseInv, TypeOK, connVars
<1>4. CASE UNCHANGED vars
  BY <1>4 DEF vars, connVars, nodeVars, CloseInv
<1>5. QED BY <1>1, <1>2, <1>3, <1>4 DEF Next

\* The driver, whatever its callers do and wherever contexts end: of the writes
\* that a transaction acknowledged all are committed, exactly if Commit said so,
\* or none is (BeginTx, ExecContext, Commit and Rollback of src/driver.go).
THEOREM TransactionsAtomic == Spec => []TxAtomic
<1>1. TypeOK /\ TxInv /\ StoreInv => TxAtomic  BY DEF TxInv, TxAtomic
<1>2. QED BY <1>1, SafeInit, SafeStep, PTL DEF Spec

\* A query in a transaction sees all of its writes (QueryContext).
THEOREM OwnWritesSeen == Spec => []ReadsOwnWrites
<1>1. TypeOK /\ TxInv /\ StoreInv => ReadsOwnWrites  BY DEF TxInv, ReadsOwnWrites
<1>2. QED BY <1>1, SafeInit, SafeStep, PTL DEF Spec

\* storeManager.get: any number of first opens of any databases at the same time,
\* and Close among them, leave one store over a file.
THEOREM OneStore == Spec => []OneStorePerName
<1>1. TypeOK /\ TxInv /\ StoreInv => OneStorePerName
  BY DEF StoreInv, OneStorePerName, TypeOK
<1>2. QED BY <1>1, SafeInit, SafeStep, PTL DEF Spec

\* Node.Close, if nothing is first opened while or after it runs: the pools are
\* closed after the engines have stopped, and nothing is left open.
THEOREM ClosedForGood ==
    ASSUME "lateOpen" \notin Habits
    PROVE  Spec => []CloseIsClean
<1>1. TypeOK /\ TxInv /\ StoreInv /\ CloseInv => CloseIsClean
  BY DriverAssumption DEF TypeOK, StoreInv, CloseInv, CloseIsClean, Opening
<1>2. TypeOK /\ TxInv /\ StoreInv /\ CloseInv /\ [Next]_vars
        => (TypeOK /\ TxInv /\ StoreInv /\ CloseInv)'
  BY SafeStep, CloseStep
<1>3. QED BY <1>1, <1>2, SafeInit, PTL DEF Spec

=============================================================================

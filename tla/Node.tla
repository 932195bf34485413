-------------------------------- MODULE Node --------------------------------
(***************************************************************************)
(* A Node (src/node.go): the stores it opens on first use (src/store.go),  *)
(* the backup engine each of them gets, and the clients of the driver.     *)
(*                                                                         *)
(* Three things are waited for: sm.mu, which the first open of a database  *)
(* holds until its opening snapshot is over; b.mu of each engine, held for *)
(* a whole sync or snapshot; and the writer connection of each store,      *)
(* which an engine needs for its checkpoints while it holds b.mu.  What an *)
(* engine ships is the subject of BackupEngine.                            *)
(*                                                                         *)
(* Habits names what an application should not do.  With                   *)
(*   "lateOpen"       databases are first opened while or after Close runs *)
(*   "statusInTx"     BackupStatus is called with a transaction open       *)
(*   "hookConnects"   OnError uses the database                            *)
(*   "writeBesideTx", "nestedRows"   see Driver                            *)
(***************************************************************************)
EXTENDS Driver

VARIABLES
    lock,      \* sm.mu: the client that holds it for writing, or None
    stores,    \* keys of sm.stores
    opens,     \* for each database, the stores open over its file
    backups,   \* keys of n.backups
    engine,    \* where the run goroutine of each database is, see Moves
    stopping,  \* databases whose stopCh is closed
    todo,      \* for each client, what its range over n.backups still visits
    phase,     \* "running", "closing" (Close was called) or "closed" (it returned)
    raced      \* was n.backups written while a goroutine ranged over it?

nodeVars == <<lock, stores, opens, backups, engine, stopping, todo, phase, raced>>
vars == <<pc, db, connVars, closed, nodeVars>>

Ranging == {c \in Clients : pc[c] \in {"status", "stop"}}

-----------------------------------------------------------------------------
(* storeManager.get, called by colmenaConnector.Connect *)

Connect(c) ==
    /\ pc[c] = "idle"
    /\ phase = "running" \/ db[c] \in stores \/ "lateOpen" \in Habits
    /\ Goto(c, "look")
    /\ UNCHANGED <<db, connVars, closed, nodeVars>>

\* With the read lock, for a moment.
Look(c) ==
    /\ pc[c] = "look" /\ lock = None
    /\ Goto(c, IF db[c] \in stores THEN "ready" ELSE "want")
    /\ UNCHANGED <<db, connVars, closed, nodeVars>>

\* newStoreAt: the two pools and the check of the journal mode.
NewStoreAt(c) ==
    \/ /\ opens' = [opens EXCEPT ![db[c]] = @ + 1]
       /\ Goto(c, "opening")
       /\ lock' = c
    \/ /\ Goto(c, "idle")
       /\ UNCHANGED <<opens, lock>>

\* Mutant: The map is not looked at again.
WantUnchecked(c) ==
    /\ pc[c] = "want" /\ lock = None
    /\ NewStoreAt(c)
    /\ UNCHANGED <<db, connVars, closed, stores, backups, engine, stopping, todo,
                   phase, raced>>

\* With the write lock the map is looked at again before a store is opened.
Want(c) ==
    /\ pc[c] = "want" /\ lock = None
    /\ \/ /\ db[c] \in stores
          /\ Goto(c, "ready")
          /\ UNCHANGED <<opens, lock>>
       \/ /\ db[c] \notin stores
          /\ NewStoreAt(c)
    /\ UNCHANGED <<db, connVars, closed, stores, backups, engine, stopping, todo,
                   phase, raced>>

\* The onOpen hook fails: NewBackend, or PRAGMA wal_autocheckpoint.
HookFails(c) ==
    /\ pc[c] = "opening"
    /\ opens' = [opens EXCEPT ![db[c]] = @ - 1]
    /\ lock' = None
    /\ Goto(c, "idle")
    /\ UNCHANGED <<db, connVars, closed, stores, backups, engine, stopping, todo,
                   phase, raced>>

\* The opening snapshot fails and, with AlertAfter 1, report calls OnError: on
\* this goroutine, which holds sm.mu.
SnapshotFails(c) ==
    /\ pc[c] = "opening"
    /\ Goto(c, "hook")
    /\ UNCHANGED <<db, connVars, closed, nodeVars>>

\* go b.run(), n.backups[name] = bm, sm.stores[name] = s.  A range over the map
\* that is going on may or may not visit the new entry.
Register(c) ==
    /\ pc[c] \in {"opening", "hook"}
    /\ pc[c] = "hook" /\ "hookConnects" \in Habits => lock = None
    /\ engine' = [engine EXCEPT ![db[c]] = "idle"]
    /\ backups' = backups \cup {db[c]}
    /\ \E S \in SUBSET Ranging :
          todo' = [d \in Clients |-> todo[d] \cup IF d \in S THEN {db[c]} ELSE {}]
    /\ raced' = (raced \/ Ranging # {})
    /\ stores' = stores \cup {db[c]}
    /\ lock' = None
    /\ Goto(c, "ready")
    /\ UNCHANGED <<db, connVars, closed, opens, stopping, phase>>

\* colmenaConn.Close of a connection without a transaction.
Disconnect(c) ==
    /\ pc[c] = "ready"
    /\ Goto(c, "idle")
    /\ UNCHANGED <<db, connVars, closed, nodeVars>>

-----------------------------------------------------------------------------
(* The engines: the goroutine of backupManager.run *)

\* The moves of the goroutine.  sync uploads and then may checkpoint; a snapshot
\* checkpoints and then uploads; the last sync comes before the end.
Moves ==
    {<<"idle", "sync">>, <<"sync", "idle">>, <<"sync", "syncCheckpoint">>,
     <<"syncCheckpoint", "idle">>,
     <<"idle", "snapCheckpoint">>, <<"snapCheckpoint", "snapUpload">>,
     <<"snapUpload", "idle">>,
     <<"idle", "last">>, <<"last", "stopped">>, <<"last", "lastCheckpoint">>,
     <<"lastCheckpoint", "stopped">>}

Checkpointing == {"syncCheckpoint", "snapCheckpoint", "lastCheckpoint"}

\* Does the engine hold b.mu?
Busy(n) == engine[n] \notin {"none", "idle", "stopped"}

\* One step of the goroutine: a checkpoint waits for the writer connection, the
\* end for stopCh.
EngineStep(n) ==
    /\ \E m \in Moves :
          /\ engine[n] = m[1]
          /\ m[1] \in Checkpointing => writer[n] = None \/ n \in closed
          /\ m[2] = "last" => n \in stopping
          /\ engine' = [engine EXCEPT ![n] = m[2]]
    /\ UNCHANGED <<pc, db, connVars, closed, lock, stores, opens, backups, stopping,
                   todo, phase, raced>>

-----------------------------------------------------------------------------
(* BackupStatus and Close, called by a client *)

CallStatus(c) ==
    /\ pc[c] \in {"idle"} \cup IF "statusInTx" \in Habits THEN {"tx"} ELSE {}
    /\ Goto(c, "status")
    /\ todo' = [todo EXCEPT ![c] = backups]
    /\ UNCHANGED <<db, connVars, closed, lock, stores, opens, backups, engine, stopping,
                   phase, raced>>

\* bm.Status waits for b.mu.
Status(c) ==
    /\ pc[c] = "status" /\ todo[c] # {}
    /\ \E n \in todo[c] :
          /\ ~Busy(n)
          /\ todo' = [todo EXCEPT ![c] = @ \ {n}]
    /\ UNCHANGED <<pc, db, connVars, closed, lock, stores, opens, backups, engine,
                   stopping, phase, raced>>

StatusReturns(c) ==
    /\ pc[c] = "status" /\ todo[c] = {}
    /\ Goto(c, IF activeTx[c] = "none" THEN "idle" ELSE "tx")
    /\ UNCHANGED <<db, connVars, closed, nodeVars>>

Opening == {"look", "want", "opening", "hook"}

CallClose(c) ==
    /\ pc[c] = "idle" /\ phase = "running"
    /\ "lateOpen" \in Habits \/ \A d \in Clients : pc[d] \notin Opening
    /\ Goto(c, "stop")
    /\ todo' = [todo EXCEPT ![c] = backups]
    /\ phase' = "closing"
    /\ UNCHANGED <<db, connVars, closed, lock, stores, opens, backups, engine, stopping,
                   raced>>

\* Mutant: stop waits for doneCh without closing stopCh.
StopUnsignalled(c) ==
    /\ pc[c] = "stop"
    /\ \E n \in todo[c] : /\ engine[n] = "stopped"
                         /\ todo' = [todo EXCEPT ![c] = @ \ {n}]
    /\ UNCHANGED <<pc, db, connVars, closed, lock, stores, opens, backups, engine,
                   stopping, phase, raced>>

\* bm.stop: close(stopCh), and wait for doneCh.
Stop(c) ==
    /\ pc[c] = "stop"
    /\ \E n \in todo[c] :
          /\ n \notin stopping => todo[c] \cap stopping = {}
          /\ IF n \in stopping
             THEN /\ engine[n] = "stopped"
                  /\ todo' = [todo EXCEPT ![c] = @ \ {n}]
                  /\ UNCHANGED stopping
             ELSE /\ stopping' = stopping \cup {n}
                  /\ UNCHANGED todo
    /\ UNCHANGED <<pc, db, connVars, closed, lock, stores, opens, backups, engine, phase,
                   raced>>

\* Mutant: The stores are closed without waiting for the engines.
CloseStoresEarly(c) ==
    /\ pc[c] = "stop" /\ lock = None
    /\ closed' = stores
    /\ opens' = [n \in Names |-> opens[n] - IF n \in stores THEN 1 ELSE 0]
    /\ phase' = "closed"
    /\ Goto(c, "idle")
    /\ UNCHANGED <<db, connVars, lock, stores, backups, engine, stopping, todo, raced>>

\* The backends are closed, and every store with sm.mu held.
CloseStores(c) ==
    /\ pc[c] = "stop" /\ todo[c] = {} /\ lock = None
    /\ closed' = stores
    /\ opens' = [n \in Names |-> opens[n] - IF n \in stores THEN 1 ELSE 0]
    /\ phase' = "closed"
    /\ Goto(c, "idle")
    /\ UNCHANGED <<db, connVars, lock, stores, backups, engine, stopping, todo, raced>>

-----------------------------------------------------------------------------

Init ==
    /\ DriverInit
    /\ lock = None /\ stores = {} /\ backups = {} /\ stopping = {}
    /\ opens = [n \in Names |-> 0]
    /\ engine = [n \in Names |-> "none"]
    /\ todo = [c \in Clients |-> {}]
    /\ phase = "running" /\ raced = FALSE

\* What goes on by itself once it has begun.
NodeStep(c) ==
    \/ Look(c) \/ Want(c) \/ HookFails(c) \/ SnapshotFails(c) \/ Register(c)
    \/ Status(c) \/ StatusReturns(c) \/ Stop(c) \/ CloseStores(c)

NodeCall(c) == Connect(c) \/ Disconnect(c) \/ CallStatus(c) \/ CallClose(c)

Next ==
    \/ \E c \in Clients : DriverStep(c) /\ UNCHANGED nodeVars
    \/ \E c \in Clients : NodeCall(c) \/ NodeStep(c)
    \/ \E n \in Names : EngineStep(n)

Spec == Init /\ [][Next]_vars

(* Fairness.  What has begun goes on: uploads have timeouts and transactions  *)
(* are ended.  It is strong for what waits, because those who wait are served *)
(* in turn: a Go mutex starves nobody and database/sql hands a connection     *)
(* that becomes free to the requests that wait.  That a turn of an engine     *)
(* ends, and that the last one comes, is strong because select chooses        *)
(* fairly.  Nothing says that a client calls, or that a context ends.         *)
Fairness ==
    /\ \A c \in Clients : /\ SF_vars(ClientStep(c) /\ UNCHANGED nodeVars)
                          /\ SF_vars(NodeStep(c))
    /\ \A n \in Names : /\ SF_vars(Busy(n) /\ EngineStep(n))
                        /\ SF_vars(EngineStep(n) /\ engine'[n] = "last")

FairSpec == Spec /\ Fairness

-----------------------------------------------------------------------------
(* Properties *)

Places == {"idle", "look", "want", "opening", "hook", "ready", "begin", "tx", "exec",
           "query", "reading", "status", "stop"}

EnginePlaces == {"none", "idle", "sync", "syncCheckpoint", "snapCheckpoint",
                 "snapUpload", "last", "lastCheckpoint", "stopped"}

\* The types of the variables.
TypeOK ==
    /\ pc \in [Clients -> Places]
    /\ db \in [Clients -> Names]
    /\ activeTx \in [Clients -> {"none", "live", "over"}]
    /\ acked \in [Clients -> Nat] /\ pending \in [Clients -> Nat]
    /\ landed \in [Clients -> Nat] /\ rows \in [Clients -> Int]
    /\ outcome \in [Clients -> {"unused", "open", "committed", "failed"}]
    /\ blind \in [Clients -> BOOLEAN]
    /\ writer \in [Names -> Clients \cup {None}]
    /\ closed \subseteq Names /\ stores \subseteq Names /\ backups \subseteq Names
    /\ lock \in Clients \cup {None}
    /\ opens \in [Names -> Int]
    /\ engine \in [Names -> EnginePlaces]
    /\ stopping \subseteq Names
    /\ todo \in [Clients -> SUBSET Names]
    /\ phase \in {"running", "closing", "closed"} /\ raced \in BOOLEAN

\* store.go:87-99, whoever opens a database first and however many do so at
\* once: there is never more than one store, with its writer and its engine, over
\* a database file, and every one a client can reach is in the map.
OneStorePerName ==
    \A n \in Names :
        /\ opens[n] <= 1
        /\ \A c \in Clients : db[c] = n /\ activeTx[c] # "none" => n \in stores

\* node.go:82-91, "Close stops the backup engines (after a final sync) and closes
\* every store": no pool is closed under an engine that still runs, and when
\* Close has returned no engine runs and no store is open.
CloseIsClean ==
    /\ \A n \in closed : engine[n] = "stopped"
    /\ phase = "closed" => \A n \in Names :
          opens[n] = 0 /\ engine[n] \in {"none", "stopped"}

\* n.backups, which has no lock of its own, is not written while BackupStatus or
\* Close ranges over it.
NoMapRace == ~raced

\* Whatever a client waits for - the lock of the stores behind an opening
\* snapshot, the only writer, a reader, an engine in the middle of an upload, the
\* end of all engines - the call returns.
EveryCallReturns ==
    \A c \in Clients :
        pc[c] \notin {"idle", "ready", "tx", "reading"}
            ~> pc[c] \in {"idle", "ready", "tx", "reading"}
=============================================================================

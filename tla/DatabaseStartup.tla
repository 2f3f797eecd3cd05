--------------------------- MODULE DatabaseStartup ---------------------------
(***************************************************************************)
(* The start of the service on its database: DatabaseOwnerLock,            *)
(* ConnectionStore.initialize and _verify_existing (databridge/store.py)   *)
(* inside open_app (databridge/api.py), with processes that start, die at  *)
(* any point and start again, perhaps with another encryption key.  Worker *)
(* threads may outlive the lock, and even the move of the database file:   *)
(* every operation of the store opens the file at its path anew (_connect).*)
(*                                                                         *)
(* SQLite's Python driver opens a transaction before an INSERT, UPDATE or  *)
(* DELETE only: each CREATE of a new database is committed by itself, and  *)
(* the metadata rows are committed together with the recovery UPDATE.      *)
(***************************************************************************)
EXTENDS Integers

CONSTANTS
    Procs,      \* the service processes of a behaviour
    NoProc,     \* not a process: the lock is free
    Keys,       \* encryption keys that DATABRIDGE_ENCRYPTION_KEY may hold
    NoKey       \* not a key: no key check is stored

ASSUME NoProcAssumption == NoProc \notin Procs
ASSUME NoKeyAssumption == NoKey \notin Keys

(* The statements of _SCHEMA, in their order.                              *)
Schema == <<"metadata", "connections", "transfers", "transfers_by_start">>
Tables == {"metadata", "connections", "transfers"}

VARIABLES
    owner,    \* the process that holds the flock
    proc,     \* the life of each process
    key,      \* the key in each process's environment
    created,  \* how many statements of Schema the database file holds
    marker,   \* the key of the key check; it is stored with the schema version
    secrets   \* the keys that stored credentials are encrypted with

startupVars == <<owner, proc, key, created, marker, secrets>>

Lives == {"off", "locked", "creating", "recovering", "starting", "serving",
          "lingering",   \* the lock is released, worker threads still run
          "stray",       \* they still did when the database was moved aside
          "unusable", "wrong_key", "refused", "dead"}

StartupTypeOK ==
    /\ owner \in Procs \cup {NoProc}
    /\ proc \in [Procs -> Lives]
    /\ key \in [Procs -> Keys]
    /\ created \in 0..4
    /\ marker \in Keys \cup {NoKey}
    /\ secrets \in SUBSET Keys

StartupInit ==
    /\ owner = NoProc
    /\ proc = [p \in Procs |-> "off"]
    /\ key \in [Procs -> Keys]
    /\ created = 0
    /\ marker = NoKey
    /\ secrets = {}

Become(p, life) == proc' = [proc EXCEPT ![p] = life]

(* A process that ends, in whatever way, loses the lock.                   *)
End(p, life) ==
    /\ Become(p, life)
    /\ owner' = IF owner = p THEN NoProc ELSE owner

(* DatabaseOwnerLock.__enter__.                                            *)
TakeLock(p) ==
    /\ proc[p] = "off"
    /\ \/ owner = NoProc /\ owner' = p /\ Become(p, "locked")
       \/ owner # NoProc /\ UNCHANGED owner /\ Become(p, "refused")
    /\ UNCHANGED <<key, created, marker, secrets>>

(* Tables that exist, as initialize reads them from sqlite_master.         *)
existing == {Schema[i] : i \in 1..created} \cap Tables

(* Mutant: the key check is written but never compared.                    *)
InspectAnyKey(p) ==
    /\ proc[p] = "locked"
    /\ \/ existing = {} /\ Become(p, "creating") /\ UNCHANGED owner
       \/ existing # {} /\ marker # NoKey /\ Become(p, "recovering") /\ UNCHANGED owner
       \/ existing # {} /\ marker = NoKey /\ End(p, "unusable")
    /\ UNCHANGED <<key, created, marker, secrets>>

(* Mutant: a database with some table is taken for a complete one.         *)
InspectTablesOnly(p) ==
    /\ proc[p] = "locked"
    /\ \/ existing = {} /\ Become(p, "creating")
       \/ existing # {} /\ Become(p, "recovering")
    /\ UNCHANGED <<owner, key, created, marker, secrets>>

(* initialize: a file without tables is filled; of any other file          *)
(* _verify_existing wants the schema version, the required tables and a    *)
(* key check made with this key.                                           *)
Inspect(p) ==
    /\ proc[p] = "locked"
    /\ \/ existing = {} /\ Become(p, "creating") /\ UNCHANGED owner
       \/ /\ existing # {}
          /\ marker = NoKey \/ existing # Tables
          /\ End(p, "unusable")
       \/ /\ existing = Tables /\ marker \notin {NoKey, key[p]}
          /\ End(p, "wrong_key")
       \/ /\ existing = Tables /\ marker = key[p]
          /\ Become(p, "recovering") /\ UNCHANGED owner
    /\ UNCHANGED <<key, created, marker, secrets>>

(* initialize: the next CREATE, committed as soon as it is executed; or a  *)
(* failing one, which ends the process.                                    *)
CreateNext(p) ==
    /\ proc[p] = "creating" /\ created < 4
    /\ \/ created' = created + 1 /\ UNCHANGED <<proc, owner>>
       \/ End(p, "dead") /\ UNCHANGED created
    /\ UNCHANGED <<key, marker, secrets>>

(* initialize: the metadata of a new database and the recovery UPDATE, one *)
(* transaction; it commits or the process ends.                            *)
Commit(p) ==
    /\ \/ proc[p] = "creating" /\ created = 4
       \/ proc[p] = "recovering"
    /\ \/ /\ Become(p, "starting") /\ UNCHANGED owner
          /\ marker' = IF proc[p] = "creating" THEN key[p] ELSE marker
       \/ End(p, "dead") /\ UNCHANGED marker
    /\ UNCHANGED <<key, created, secrets>>

(* open_app: the request log is opened, and the server runs.               *)
OpenLog(p) ==
    /\ proc[p] = "starting"
    /\ (Become(p, "serving") /\ UNCHANGED owner) \/ End(p, "dead")
    /\ UNCHANGED <<key, created, marker, secrets>>

(* open_app is left and DatabaseOwnerLock.__exit__ releases the lock while *)
(* worker threads still handle requests that uvicorn did not wait for.     *)
ReleaseLock(p) ==
    /\ proc[p] = "serving"
    /\ End(p, "lingering")
    /\ UNCHANGED <<key, created, marker, secrets>>

(* ConnectionStore.create or replace of a connection with a password, by   *)
(* any thread that finds the table at the path.                            *)
StoreSecret(p) ==
    /\ proc[p] \in {"serving", "lingering", "stray"}
    /\ "connections" \in existing
    /\ secrets' = secrets \cup {key[p]}
    /\ UNCHANGED <<owner, proc, key, created, marker>>

(* The process is stopped, or killed at any point of its start, or its     *)
(* last thread ends.  (The end of a stray one changes nothing: it need not *)
(* store anything.)                                                        *)
Exit(p) ==
    /\ proc[p] \in {"locked", "creating", "recovering", "starting", "serving", "lingering"}
    /\ End(p, "dead")
    /\ UNCHANGED <<key, created, marker, secrets>>

(* The user moves the database aside, as the startup errors advise, while  *)
(* no process holds the lock.  Threads that still run from now on find     *)
(* another file at the path.                                               *)
MoveAside ==
    /\ owner = NoProc
    /\ \E p \in Procs : proc[p] \in {"unusable", "wrong_key"}
    /\ created' = 0 /\ marker' = NoKey /\ secrets' = {}
    /\ proc' = [p \in Procs |-> IF proc[p] = "lingering" THEN "stray" ELSE proc[p]]
    /\ UNCHANGED <<owner, key>>

StartupNext ==
    \/ \E p \in Procs : TakeLock(p) \/ Inspect(p) \/ CreateNext(p) \/ Commit(p) \/ OpenLog(p)
                          \/ ReleaseLock(p) \/ StoreSecret(p) \/ Exit(p)
    \/ MoveAside

StartupSpec == StartupInit /\ [][StartupNext]_startupVars

----------------------------------------------------------------------------
(* A process serves only with a complete database that was made with its   *)
(* key, whatever crash of an earlier start it found.                       *)
ServesCompleteDatabase ==
    \A p \in Procs : proc[p] \in {"starting", "serving"} => created = 4 /\ marker = key[p]

(* The keys of processes whose threads outlived a move of the database.    *)
StrayKeys == {key[p] : p \in {q \in Procs : proc[q] = "stray"}}

(* Every stored credential can be decrypted by the process that serves:    *)
(* "Stored credential cannot be decrypted" in ConnectionStore.get is not   *)
(* reached by restarts with another key, nor through threads that outlive  *)
(* their lock; only through a thread that outlives the move of the file    *)
(* too.                                                                    *)
SecretsReadable ==
    \A p \in Procs : proc[p] = "serving" => secrets \subseteq {key[p]} \cup StrayKeys

(* DatabaseOwnerLock: "a crash never leaves the database unusable".        *)
CrashLeavesUsable == \A p \in Procs : proc[p] # "unusable"

=============================================================================

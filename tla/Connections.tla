----------------------------- MODULE Connections -----------------------------
(***************************************************************************)
(* The connection endpoints: POST, PUT and DELETE of /connections          *)
(* (databridge/api.py), the registry's prepare, LocalConnector.prepare,    *)
(* and the connections table (databridge/store.py).                        *)
(*                                                                         *)
(* Handlers run in worker threads, and each store method is a transaction  *)
(* of its own: between the check of a PUT, the creation of the directory   *)
(* and the UPDATE, other requests take their steps.                        *)
(***************************************************************************)
EXTENDS Integers, FiniteSets

CONSTANTS
    Requests,   \* the requests of a behaviour
    Names,      \* connection names
    Paths,      \* local paths as clients write them
    Dirs,       \* directories of the file system
    Resolved,   \* [Paths -> Dirs]: expanduser and resolve
    Remote      \* settings of an SFTP connection

ASSUME RequestsAssumption == IsFiniteSet(Requests)
ASSUME ResolvedAssumption == Resolved \in [Paths -> Dirs]
ASSUME SettingsAssumption == Paths \cap Dirs = {} /\ Remote \notin Paths \cup Dirs

VARIABLES
    op,         \* what each request asks for
    pc,         \* the next step of its handler
    item,       \* its connection, prepared or not
    resp,       \* its answer
    table,      \* the connections table
    dirs,       \* the directories that exist
    made,       \* history: the requests that created a directory
    deleted,    \* history: the successful deletions of each name
    before      \* history: how many of them preceded each request

vars == <<op, pc, item, resp, table, dirs, made, deleted, before>>

Absent == "absent"
ASSUME AbsentAssumption == Absent \notin Dirs \cup {Remote}

Ops == {"post", "put", "delete"}

TypeOK ==
    /\ op \in [Requests -> [kind : Ops \cup {"none"}, name : Names]]
    /\ pc \in [Requests -> {"idle", "check", "prepare", "store", "done"}]
    /\ item \in [Requests -> Paths \cup Dirs \cup {Remote, Absent}]
    /\ resp \in [Requests -> {"none", "created", "replaced", "deleted", "exists", "not_found",
                              "invalid", "failed"}]
    /\ table \in [Names -> Dirs \cup {Remote, Absent}]
    /\ dirs \in SUBSET Dirs
    /\ made \in SUBSET Requests
    /\ deleted \in [Names -> 0..Cardinality(Requests)]
    /\ before \in [Requests -> 0..Cardinality(Requests)]

Init ==
    /\ \E n \in Names : op = [r \in Requests |-> [kind |-> "none", name |-> n]]
    /\ pc = [r \in Requests |-> "idle"]
    /\ item = [r \in Requests |-> Absent]
    /\ resp = [r \in Requests |-> "none"]
    /\ table = [n \in Names |-> Absent]
    /\ dirs = {}
    /\ made = {}
    /\ deleted = [n \in Names |-> 0]
    /\ before = [r \in Requests |-> 0]

Goto(r, step) == pc' = [pc EXCEPT ![r] = step]
Answer(r, answer) == Goto(r, "done") /\ resp' = [resp EXCEPT ![r] = answer]

(* The request reaches its handler.  PUT refuses a body that names another *)
(* connection.                                                             *)
Receive(r, kind, name, settings) ==
    /\ pc[r] = "idle"
    /\ op' = [op EXCEPT ![r] = [kind |-> kind, name |-> name]]
    /\ item' = [item EXCEPT ![r] = IF kind = "delete" THEN Absent ELSE settings]
    /\ \/ kind = "post" /\ Goto(r, "prepare") /\ UNCHANGED resp
       \/ kind = "put" /\ Goto(r, "check") /\ UNCHANGED resp
       \/ kind = "put" /\ Answer(r, "invalid")
       \/ kind = "delete" /\ Goto(r, "store") /\ UNCHANGED resp
    /\ before' = [before EXCEPT ![r] = deleted[name]]
    /\ UNCHANGED <<table, dirs, made, deleted>>

(* Mutant: PUT does not look the connection up first.                      *)
CheckNothing(r) ==
    /\ pc[r] = "check" /\ Goto(r, "prepare")
    /\ UNCHANGED <<op, item, resp, table, dirs, made, deleted, before>>

(* replace_connection: store.get_public.                                   *)
Check(r) ==
    /\ pc[r] = "check"
    /\ \/ table[op[r].name] = Absent /\ Answer(r, "not_found")
       \/ table[op[r].name] # Absent /\ Goto(r, "prepare") /\ UNCHANGED resp
    /\ UNCHANGED <<op, item, table, dirs, made, deleted, before>>

(* prepare_connection: a local root is created and resolved, or refused,   *)
(* perhaps after it was created; SFTP settings pass.                       *)
Prepare(r) ==
    /\ pc[r] = "prepare"
    /\ \/ /\ item[r] \in Paths
          /\ LET root == Resolved[item[r]]
             IN  /\ item' = [item EXCEPT ![r] = root]
                 /\ dirs' = dirs \cup {root}
                 /\ made' = IF root \in dirs THEN made ELSE made \cup {r}
          /\ (Goto(r, "store") /\ UNCHANGED resp) \/ Answer(r, "invalid")
       \/ /\ item[r] \in Paths
          /\ Answer(r, "invalid") /\ UNCHANGED <<item, dirs, made>>
       \/ item[r] = Remote /\ Goto(r, "store") /\ UNCHANGED <<item, dirs, made, resp>>
    /\ UNCHANGED <<op, table, deleted, before>>

(* The database fails and the transaction leaves no change: HTTP 500.      *)
DatabaseFails(r) ==
    /\ pc[r] \in {"check", "store"} /\ Answer(r, "failed")
    /\ UNCHANGED <<op, item, table, dirs, made, deleted, before>>

(* ConnectionStore.create: the primary key refuses a second row.           *)
Create(r) ==
    /\ pc[r] = "store" /\ op[r].kind = "post"
    /\ LET name == op[r].name
       IN  \/ /\ table[name] = Absent
              /\ table' = [table EXCEPT ![name] = item[r]]
              /\ Answer(r, "created")
           \/ table[name] # Absent /\ Answer(r, "exists") /\ UNCHANGED table
    /\ UNCHANGED <<op, item, dirs, made, deleted, before>>

(* Mutant: the row is written whether or not it is there.                  *)
ReplaceUpserts(r) ==
    /\ pc[r] = "store" /\ op[r].kind = "put"
    /\ table' = [table EXCEPT ![op[r].name] = item[r]]
    /\ Answer(r, "replaced")
    /\ UNCHANGED <<op, item, dirs, made, deleted, before>>

(* ConnectionStore.replace: an UPDATE of no row is CONNECTION_NOT_FOUND.   *)
Replace(r) ==
    /\ pc[r] = "store" /\ op[r].kind = "put"
    /\ LET name == op[r].name
       IN  \/ /\ table[name] # Absent
              /\ table' = [table EXCEPT ![name] = item[r]]
              /\ Answer(r, "replaced")
           \/ table[name] = Absent /\ Answer(r, "not_found") /\ UNCHANGED table
    /\ UNCHANGED <<op, item, dirs, made, deleted, before>>

(* ConnectionStore.delete: a DELETE of no row is CONNECTION_NOT_FOUND.     *)
Delete(r) ==
    /\ pc[r] = "store" /\ op[r].kind = "delete"
    /\ LET name == op[r].name
       IN  \/ /\ table[name] # Absent
              /\ table' = [table EXCEPT ![name] = Absent]
              /\ deleted' = [deleted EXCEPT ![name] = @ + 1]
              /\ Answer(r, "deleted")
           \/ table[name] = Absent /\ Answer(r, "not_found") /\ UNCHANGED <<table, deleted>>
    /\ UNCHANGED <<op, item, dirs, made, before>>

Handle(r) ==
    \/ Check(r) \/ Prepare(r) \/ DatabaseFails(r) \/ Create(r) \/ Replace(r) \/ Delete(r)

Next ==
    \E r \in Requests :
        \/ \E kind \in Ops, name \in Names, settings \in Paths \cup {Remote} :
             Receive(r, kind, name, settings)
        \/ Handle(r)

Spec == Init /\ [][Next]_vars

----------------------------------------------------------------------------
Answered(answer, name) == {r \in Requests : resp[r] = answer /\ op[r].name = name}

(* The answers account for the table, in every interleaving: a name has    *)
(* been created once more than deleted if it is there, and as often if it  *)
(* is not; no PUT brings a deleted connection back.                        *)
AnswersAccountForTable ==
    \A n \in Names :
        Cardinality(Answered("created", n)) - Cardinality(Answered("deleted", n))
          = (IF table[n] = Absent THEN 0 ELSE 1)

(* A PUT that is answered CONNECTION_NOT_FOUND has created a directory     *)
(* only if the connection was deleted while the PUT was in progress.       *)
NotFoundMadeNothing ==
    \A r \in made :
        op[r].kind = "put" /\ resp[r] = "not_found" => deleted[op[r].name] > before[r]

=============================================================================

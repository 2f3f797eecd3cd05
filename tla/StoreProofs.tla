----------------------------- MODULE StoreProofs -----------------------------
(***************************************************************************)
(* The safety of Connections for any number of requests, names and         *)
(* directories.                                                            *)
(*                                                                         *)
(* AnswersAccountForTable is inductive once it is known that a request     *)
(* which has not ended has no answer, and that what a POST or PUT stores   *)
(* is a prepared connection (RequestAt).  NotFoundMadeNothing speaks of    *)
(* two steps of a PUT with others in between: the row that its check found *)
(* is still there, or has been deleted since (SinceAt).                    *)
(*                                                                         *)
(* The second part is about the database that holds the table: the safety  *)
(* of DatabaseStartup for any number of processes and keys.                *)
(***************************************************************************)
EXTENDS Connections, DatabaseStartup, FiniteSetTheorems, TLAPS

(* What a handler knows of its own request at each step.                   *)
RequestAt(r) ==
    /\ resp[r] # "none" => pc[r] = "done"
    /\ pc[r] \in {"idle", "check"} => r \notin made
    /\ pc[r] = "check" => op[r].kind = "put"
    /\ pc[r] = "prepare" => op[r].kind \in {"post", "put"}
    /\ pc[r] \in {"check", "prepare"} => item[r] \in Paths \cup {Remote}
    /\ pc[r] = "store" /\ op[r].kind # "delete" => item[r] \in Dirs \cup {Remote}

(* What has happened to the name of a request since the request came.      *)
SinceAt(r) ==
    LET name == op[r].name
    IN  /\ pc[r] # "idle" => before[r] <= deleted[name]
        /\ op[r].kind = "put" /\ pc[r] \in {"prepare", "store"}
             => table[name] # Absent \/ deleted[name] > before[r]
        /\ r \in made /\ op[r].kind = "put" /\ resp[r] = "not_found" => deleted[name] > before[r]

(* The deletions that were answered are the ones that happened.            *)
DeletionsCounted == \A n \in Names : deleted[n] = Cardinality(Answered("deleted", n))

IInv ==
    /\ TypeOK /\ AnswersAccountForTable /\ DeletionsCounted
    /\ \A r \in Requests : RequestAt(r) /\ SinceAt(r)

(* The requests with a given answer can be counted.                        *)
LEMMA AnsweredFinite ==
    ASSUME NEW a, NEW n
    PROVE  /\ IsFiniteSet(Answered(a, n)) /\ Cardinality(Answered(a, n)) \in Nat
           /\ Cardinality(Answered(a, n)) <= Cardinality(Requests)
           /\ Cardinality(Requests) \in Nat
<1>1. Answered(a, n) \in SUBSET Requests
  BY DEF Answered
<1>2. QED
  BY <1>1, RequestsAssumption, FS_Subset, FS_CardinalityType

(* Nobody is answered, and the table is empty, initially.                  *)
LEMMA InitIInv == Init => IInv
<1> SUFFICES ASSUME Init PROVE IInv
  OBVIOUS
<1>1. Cardinality(Requests) \in Nat
  BY RequestsAssumption, FS_CardinalityType
<1>2. TypeOK
  BY <1>1 DEF Init, TypeOK, Ops
<1>3. \A a \in {"created", "deleted"}, n \in Names : Answered(a, n) = {}
  BY DEF Init, Answered
<1>4. AnswersAccountForTable /\ DeletionsCounted
  BY <1>3, FS_EmptySet DEF Init, AnswersAccountForTable, DeletionsCounted
<1>5. \A r \in Requests : RequestAt(r) /\ SinceAt(r)
  BY DEF Init, RequestAt, SinceAt
<1>6. QED
  BY <1>2, <1>4, <1>5 DEF IInv

(* A step that answers nobody with "created" or "deleted" keeps the        *)
(* account.                                                                *)
LEMMA AccountKept ==
    ASSUME AnswersAccountForTable, DeletionsCounted, UNCHANGED deleted,
           \A n \in Names : table'[n] = Absent <=> table[n] = Absent,
           \A a \in {"created", "deleted"}, n \in Names : Answered(a, n)' = Answered(a, n)
    PROVE  AnswersAccountForTable' /\ DeletionsCounted'
BY DEF AnswersAccountForTable, DeletionsCounted

(* An answer that is given to one request adds it to the requests with     *)
(* that answer and to no others.                                           *)
LEMMA AnsweredBy ==
    ASSUME TypeOK, NEW r \in Requests, RequestAt(r), pc[r] # "done",
           NEW how, resp' = [resp EXCEPT ![r] = how],
           \A u \in Requests \ {r} : op'[u] = op[u]
    PROVE  \A a \in {"created", "deleted"}, n \in Names :
              /\ r \notin Answered(a, n)
              /\ Answered(a, n)' = IF a = how /\ n = op'[r].name THEN Answered(a, n) \cup {r}
                                                                   ELSE Answered(a, n)
<1>1. resp[r] = "none" /\ resp'[r] = how /\ \A u \in Requests \ {r} : resp'[u] = resp[u]
  BY DEF TypeOK, RequestAt
<1>2. QED
  BY <1>1 DEF Answered

(* A row disappears only by a deletion, which is counted.                  *)
RowsCounted ==
    \A n \in Names : /\ deleted[n] \in Nat /\ deleted'[n] \in Nat /\ deleted[n] <= deleted'[n]
                     /\ table[n] # Absent /\ table'[n] = Absent => deleted[n] < deleted'[n]

(* What is true of a request survives the steps of the others.             *)
LEMMA Frame ==
    ASSUME TypeOK, NEW u \in Requests, RequestAt(u), SinceAt(u), RowsCounted,
           UNCHANGED <<op[u], pc[u], item[u], resp[u], before[u]>>, u \in made' <=> u \in made
    PROVE  RequestAt(u)' /\ SinceAt(u)'
<1>1. op[u].name \in Names /\ before[u] \in Int
  BY DEF TypeOK
<1>2. RequestAt(u)'
  BY DEF RequestAt
<1>3. SinceAt(u)'
  BY <1>1 DEF SinceAt, RowsCounted
<1>4. QED
  BY <1>2, <1>3

(* One step of the handler of r touches the variables of r only.           *)
LEMMA OthersUntouched ==
    ASSUME TypeOK, NEW r \in Requests,
           Handle(r) \/ \E kind \in Ops, name \in Names, settings \in Paths \cup {Remote} :
                            Receive(r, kind, name, settings),
           NEW u \in Requests, u # r
    PROVE  UNCHANGED <<op[u], pc[u], item[u], resp[u], before[u]>> /\ (u \in made' <=> u \in made)
<1> USE DEF TypeOK, Goto, Answer
<1>1. CASE Handle(r)
  BY <1>1 DEF Handle, Check, Prepare, DatabaseFails, Create, Replace, Delete
<1>2. CASE \E kind \in Ops, name \in Names, settings \in Paths \cup {Remote} :
              Receive(r, kind, name, settings)
  BY <1>2 DEF Receive
<1>3. QED
  BY <1>1, <1>2

(* Only Create and Delete change which rows there are; the other steps     *)
(* answer nobody with "created" or "deleted".                              *)
LEMMA PlainStep ==
    ASSUME IInv, NEW r \in Requests, TypeOK', pc[r] # "done", UNCHANGED deleted,
           \A n \in Names : table'[n] = Absent <=> table[n] = Absent,
           \A u \in Requests : u # r =>
              UNCHANGED <<op[u], pc[u], item[u], resp[u], before[u]>> /\ (u \in made' <=> u \in made),
           resp'[r] \notin {"created", "deleted"}, RequestAt(r)', SinceAt(r)'
    PROVE  IInv'
<1>1. TypeOK /\ RequestAt(r) /\ AnswersAccountForTable /\ DeletionsCounted
  BY DEF IInv
<1>2. \A a \in {"created", "deleted"}, n \in Names : Answered(a, n)' = Answered(a, n)
  BY <1>1 DEF Answered, RequestAt, TypeOK
<1>3. AnswersAccountForTable' /\ DeletionsCounted'
  BY <1>1, <1>2, AccountKept
<1>4. RowsCounted
  BY <1>1, RequestsAssumption, FS_CardinalityType DEF RowsCounted, TypeOK
<1>5. \A u \in Requests \ {r} : RequestAt(u)' /\ SinceAt(u)'
  BY <1>1, <1>4, Frame DEF IInv
<1>6. QED
  BY <1>3, <1>5 DEF IInv

(* A request begins with the number of deletions of its name so far.       *)
LEMMA ReceiveIInv ==
    ASSUME IInv, NEW r \in Requests, NEW kind \in Ops, NEW name \in Names,
           NEW settings \in Paths \cup {Remote}, Receive(r, kind, name, settings)
    PROVE  IInv'
<1>1. TypeOK /\ RequestAt(r) /\ Cardinality(Requests) \in Nat
  BY RequestsAssumption, FS_CardinalityType DEF IInv
<1>2. TypeOK'
  <2>1. op' \in [Requests -> [kind : Ops \cup {"none"}, name : Names]]
    BY <1>1 DEF Receive, TypeOK
  <2>2. item' \in [Requests -> Paths \cup Dirs \cup {Remote, Absent}]
    BY <1>1 DEF Receive, TypeOK
  <2>3. before' \in [Requests -> 0..Cardinality(Requests)]
    BY <1>1 DEF Receive, TypeOK
  <2>4. QED
    BY <1>1, <2>1, <2>2, <2>3 DEF Receive, TypeOK, Goto, Answer
<1>3. RequestAt(r)'
  BY <1>1 DEF Receive, RequestAt, TypeOK, Ops, Goto, Answer
<1>4. SinceAt(r)'
  <2>1. deleted[name] \in Nat
    BY <1>1 DEF TypeOK
  <2>2. QED
    BY <1>1, <2>1 DEF Receive, RequestAt, SinceAt, TypeOK, Ops, Goto, Answer
<1>5. resp'[r] \notin {"created", "deleted"} /\ UNCHANGED <<deleted, table>> /\ pc[r] # "done"
  BY <1>1 DEF Receive, RequestAt, TypeOK, Answer
<1>6. QED
  BY <1>1, <1>2, <1>3, <1>4, <1>5, PlainStep, OthersUntouched

(* The steps of a handler before it stores.                                *)
LEMMA PrepareIInv ==
    ASSUME IInv, NEW r \in Requests, Check(r) \/ Prepare(r) \/ DatabaseFails(r) PROVE IInv'
<1>1. TypeOK /\ RequestAt(r) /\ SinceAt(r) /\ Cardinality(Requests) \in Nat
  BY RequestsAssumption, FS_CardinalityType DEF IInv
<1>2. TypeOK'
  <2>1. item' \in [Requests -> Paths \cup Dirs \cup {Remote, Absent}]
    BY <1>1, ResolvedAssumption DEF Check, Prepare, DatabaseFails, TypeOK
  <2>2. dirs' \in SUBSET Dirs /\ made' \in SUBSET Requests
    BY <1>1, ResolvedAssumption DEF Check, Prepare, DatabaseFails, TypeOK
  <2>3. UNCHANGED <<op, table, deleted, before>>
    BY DEF Check, Prepare, DatabaseFails
  <2>4. /\ pc' \in [Requests -> {"idle", "check", "prepare", "store", "done"}]
        /\ resp' \in [Requests -> {"none", "created", "replaced", "deleted", "exists",
                                   "not_found", "invalid", "failed"}]
    BY <1>1 DEF Check, Prepare, DatabaseFails, TypeOK, Goto, Answer
  <2>5. QED
    BY <1>1, <2>1, <2>2, <2>3, <2>4 DEF TypeOK
<1>3. RequestAt(r)'
  BY <1>1, ResolvedAssumption DEF Check, Prepare, DatabaseFails, RequestAt, TypeOK, Goto, Answer
<1>4. SinceAt(r)'
  BY <1>1 DEF Check, Prepare, DatabaseFails, RequestAt, SinceAt, TypeOK, Goto, Answer
<1>5. resp'[r] \notin {"created", "deleted"} /\ UNCHANGED <<deleted, table>> /\ pc[r] # "done"
  BY <1>1 DEF Check, Prepare, DatabaseFails, RequestAt, TypeOK, Answer
<1>6. QED
  BY <1>1, <1>2, <1>3, <1>4, <1>5, PlainStep, OthersUntouched DEF Handle

(* An UPDATE keeps the row, and finds none only if it was deleted since.   *)
LEMMA ReplaceIInv == ASSUME IInv, NEW r \in Requests, Replace(r) PROVE IInv'
<1>1. TypeOK /\ RequestAt(r) /\ SinceAt(r) /\ Cardinality(Requests) \in Nat
  BY RequestsAssumption, FS_CardinalityType DEF IInv
<1>2. op[r].name \in Names /\ item[r] \in Dirs \cup {Remote}
  BY <1>1 DEF Replace, RequestAt, TypeOK
<1>3. TypeOK'
  BY <1>1, <1>2 DEF Replace, TypeOK, Goto, Answer
<1>4. RequestAt(r)'
  BY <1>1 DEF Replace, RequestAt, TypeOK, Goto, Answer
<1>5. SinceAt(r)'
  BY <1>1 DEF Replace, SinceAt, TypeOK, Goto, Answer
<1>6. \A n \in Names : table'[n] = Absent <=> table[n] = Absent
  BY <1>1, <1>2, AbsentAssumption DEF Replace, TypeOK
<1>7. resp'[r] \notin {"created", "deleted"} /\ UNCHANGED deleted /\ pc[r] # "done"
  BY <1>1 DEF Replace, TypeOK, Answer
<1>8. QED
  BY <1>1, <1>3, <1>4, <1>5, <1>6, <1>7, PlainStep, OthersUntouched DEF Handle

(* An INSERT that succeeds is the first since the row was deleted.         *)
LEMMA CreateIInv == ASSUME IInv, NEW r \in Requests, Create(r) PROVE IInv'
<1> DEFINE name == op[r].name
<1>1. TypeOK /\ RequestAt(r) /\ SinceAt(r) /\ AnswersAccountForTable /\ DeletionsCounted
  BY DEF IInv
<1>2. name \in Names /\ item[r] \in Dirs \cup {Remote} /\ pc[r] # "done"
      /\ Cardinality(Requests) \in Nat
  BY <1>1, RequestsAssumption, FS_CardinalityType DEF Create, RequestAt, TypeOK
<1>3. TypeOK'
  BY <1>1, <1>2 DEF Create, TypeOK, Goto, Answer
<1>4. RequestAt(r)' /\ SinceAt(r)'
  <2>1. RequestAt(r)'
    BY <1>1 DEF Create, RequestAt, TypeOK, Goto, Answer
  <2>2. SinceAt(r)'
    BY <1>1 DEF Create, SinceAt, TypeOK, Goto, Answer
  <2>3. QED
    BY <2>1, <2>2
<1>5. CASE table[name] # Absent
  <2>1. UNCHANGED <<table, deleted>> /\ resp'[r] = "exists"
    BY <1>1, <1>5 DEF Create, TypeOK, Answer
  <2>2. QED
    BY <1>2, <1>3, <1>4, <2>1, PlainStep, OthersUntouched, <1>1 DEF Handle
<1>6. CASE table[name] = Absent
  <2>1. /\ table' = [table EXCEPT ![name] = item[r]] /\ resp' = [resp EXCEPT ![r] = "created"]
        /\ UNCHANGED <<op, deleted>>
    BY <1>6 DEF Create, Answer
  <2>2. \A n \in Names :
           /\ r \notin Answered("created", n)
           /\ Answered("created", n)' = IF n = name THEN Answered("created", n) \cup {r}
                                                    ELSE Answered("created", n)
           /\ Answered("deleted", n)' = Answered("deleted", n)
    BY <1>1, <1>2, <2>1, AnsweredBy
  <2>3. AnswersAccountForTable'
    <3> SUFFICES ASSUME NEW n \in Names
                 PROVE  (Cardinality(Answered("created", n)) - Cardinality(Answered("deleted", n))
                           = (IF table[n] = Absent THEN 0 ELSE 1))'
      BY DEF AnswersAccountForTable
    <3>1. CASE n = name
      <4>1. table'[n] # Absent
        BY <1>1, <1>2, <2>1, <3>1, AbsentAssumption DEF TypeOK
      <4>2. Cardinality(Answered("created", n))' = Cardinality(Answered("created", n)) + 1
        BY <2>2, <3>1, AnsweredFinite, FS_AddElement
      <4>3. Cardinality(Answered("created", n)) - Cardinality(Answered("deleted", n)) = 0
        BY <1>1, <1>6, <3>1 DEF AnswersAccountForTable
      <4>4. QED
        BY <2>2, <4>1, <4>2, <4>3, AnsweredFinite
    <3>2. CASE n # name
      BY <1>1, <1>2, <2>1, <2>2, <3>2 DEF AnswersAccountForTable, TypeOK
    <3>3. QED
      BY <3>1, <3>2
  <2>4. DeletionsCounted'
    BY <1>1, <2>1, <2>2 DEF DeletionsCounted
  <2>5. RowsCounted
    BY <1>1, <1>2, <1>3, <2>1, AbsentAssumption DEF RowsCounted, TypeOK
  <2>6. \A u \in Requests \ {r} : RequestAt(u)' /\ SinceAt(u)'
    BY <1>1, <2>5, Frame, OthersUntouched DEF IInv, Handle
  <2>7. QED
    BY <1>3, <1>4, <2>3, <2>4, <2>6 DEF IInv
<1>7. QED
  BY <1>5, <1>6

(* A DELETE that succeeds took the only row.                               *)
LEMMA DeleteIInv == ASSUME IInv, NEW r \in Requests, Delete(r) PROVE IInv'
<1>1. PICK name \in Names : name = op[r].name
  BY DEF IInv, TypeOK
<1>2. TypeOK /\ RequestAt(r) /\ SinceAt(r) /\ AnswersAccountForTable /\ DeletionsCounted
  BY DEF IInv
<1>3. pc[r] # "done" /\ op[r].kind = "delete" /\ Cardinality(Requests) \in Nat
  BY <1>1, <1>2, RequestsAssumption, FS_CardinalityType DEF Delete, TypeOK
<1>4. RequestAt(r)'
  BY <1>1, <1>2 DEF Delete, RequestAt, TypeOK, Goto, Answer
<1>5. CASE table[name] = Absent
  <2>1. UNCHANGED <<table, deleted>> /\ resp'[r] = "not_found"
    BY <1>1, <1>2, <1>5 DEF Delete, TypeOK, Answer
  <2>2. TypeOK'
    BY <1>1, <1>2, <2>1 DEF Delete, TypeOK, Goto, Answer
  <2>3. SinceAt(r)'
    BY <1>1, <1>2, <2>1 DEF Delete, SinceAt, TypeOK, Goto, Answer
  <2>4. QED
    BY <1>1, <1>2, <1>3, <1>4, <2>1, <2>2, <2>3, PlainStep, OthersUntouched DEF Handle
<1>6. CASE table[name] # Absent
  <2>1. /\ table' = [table EXCEPT ![name] = Absent] /\ resp' = [resp EXCEPT ![r] = "deleted"]
        /\ deleted' = [deleted EXCEPT ![name] = @ + 1] /\ UNCHANGED op
    BY <1>1, <1>6 DEF Delete, Answer
  <2>2. \A n \in Names :
           /\ r \notin Answered("deleted", n)
           /\ Answered("deleted", n)' = IF n = name THEN Answered("deleted", n) \cup {r}
                                                    ELSE Answered("deleted", n)
           /\ Answered("created", n)' = Answered("created", n)
    BY <1>1, <1>2, <1>3, <2>1, AnsweredBy
  <2>3. Cardinality(Answered("deleted", name))' = Cardinality(Answered("deleted", name)) + 1
    BY <2>2, AnsweredFinite, FS_AddElement
  <2>4. DeletionsCounted'
    <3>1. ASSUME NEW n \in Names PROVE deleted'[n] = Cardinality(Answered("deleted", n))'
      <4>1. deleted'[n] = IF n = name THEN deleted[n] + 1 ELSE deleted[n]
        BY <1>1, <1>2, <2>1 DEF TypeOK
      <4>2. deleted[n] = Cardinality(Answered("deleted", n))
        BY <1>1, <1>2 DEF DeletionsCounted
      <4>3. CASE n = name
        BY <2>3, <4>1, <4>2, <4>3
      <4>4. CASE n # name
        BY <2>2, <4>1, <4>2, <4>4
      <4>5. QED
        BY <4>3, <4>4
    <3>2. QED
      BY <3>1 DEF DeletionsCounted
  <2>5. deleted[name] + 1 \in 0..Cardinality(Requests)
    <3>1. Answered("deleted", name)' \in SUBSET Requests
      BY DEF Answered
    <3>2. Cardinality(Answered("deleted", name)') <= Cardinality(Requests)
      BY <3>1, RequestsAssumption, FS_Subset
    <3>3. QED
      BY <1>1, <1>2, <1>3, <2>3, <3>2, AnsweredFinite DEF DeletionsCounted
  <2>6. TypeOK'
    BY <1>1, <1>2, <1>3, <2>1, <2>5 DEF Delete, TypeOK, Goto, Answer
  <2>7. AnswersAccountForTable'
    <3> SUFFICES ASSUME NEW n \in Names
                 PROVE  (Cardinality(Answered("created", n)) - Cardinality(Answered("deleted", n))
                           = (IF table[n] = Absent THEN 0 ELSE 1))'
      BY DEF AnswersAccountForTable
    <3>1. CASE n = name
      <4>1. table'[n] = Absent
        BY <1>1, <1>2, <1>3, <2>1, <3>1 DEF TypeOK
      <4>2. Cardinality(Answered("created", n)) - Cardinality(Answered("deleted", n)) = 1
        BY <1>1, <1>2, <1>6, <3>1 DEF AnswersAccountForTable
      <4>3. Cardinality(Answered("created", n)) \in Nat /\ Cardinality(Answered("deleted", n)) \in Nat
        BY AnsweredFinite
      <4>4. /\ Cardinality(Answered("created", n))' = Cardinality(Answered("created", n))
            /\ Cardinality(Answered("deleted", n))' = Cardinality(Answered("deleted", n)) + 1
        BY <2>2, <2>3, <3>1
      <4>5. QED
        BY <4>1, <4>2, <4>3, <4>4
    <3>2. CASE n # name
      BY <1>1, <1>2, <1>3, <2>1, <2>2, <3>2 DEF AnswersAccountForTable, TypeOK
    <3>3. QED
      BY <3>1, <3>2
  <2>8. RowsCounted
    BY <1>1, <1>2, <1>3, <2>1 DEF RowsCounted, TypeOK
  <2>9. SinceAt(r)'
    BY <1>1, <1>2, <1>3, <2>1 DEF Delete, SinceAt, TypeOK, Goto, Answer
  <2>10. \A u \in Requests \ {r} : RequestAt(u)' /\ SinceAt(u)'
    BY <1>1, <1>2, <2>8, Frame, OthersUntouched DEF IInv, Handle
  <2>11. QED
    BY <1>4, <2>4, <2>6, <2>7, <2>9, <2>10 DEF IInv
<1>7. QED
  BY <1>5, <1>6

(* Every step keeps the inductive invariant.                               *)
LEMMA NextIInv == IInv /\ [Next]_vars => IInv'
<1> SUFFICES ASSUME IInv, [Next]_vars PROVE IInv'
  OBVIOUS
<1>1. ASSUME NEW r \in Requests, Handle(r) PROVE IInv'
  BY <1>1, PrepareIInv, CreateIInv, ReplaceIInv, DeleteIInv DEF Handle
<1>2. CASE UNCHANGED vars
  BY <1>2 DEF vars, IInv, TypeOK, AnswersAccountForTable, DeletionsCounted, Answered, RequestAt,
     SinceAt
<1>3. QED
  BY <1>1, <1>2, ReceiveIInv DEF Next

(* The inductive invariant holds in every reachable state.                 *)
THEOREM Invariance == Spec => []IInv
BY InitIInv, NextIInv, PTL DEF Spec

(* The state stays within its types; a name is deleted at most as often as *)
(* there are requests.                                                     *)
THEOREM TypeCorrect == Spec => []TypeOK
<1>1. IInv => TypeOK
  BY DEF IInv
<1>2. QED
  BY <1>1, Invariance, PTL

(* The answers of the connection endpoints account for the table in every  *)
(* interleaving of their handlers.                                         *)
THEOREM AnswersAccount == Spec => []AnswersAccountForTable
<1>1. IInv => AnswersAccountForTable
  BY DEF IInv
<1>2. QED
  BY <1>1, Invariance, PTL

(* replace_connection creates a directory for a connection that it does    *)
(* not find only if the connection was deleted meanwhile.                  *)
THEOREM NotFoundIsClean == Spec => []NotFoundMadeNothing
<1>1. IInv => NotFoundMadeNothing
  BY DEF IInv, TypeOK, SinceAt, NotFoundMadeNothing
<1>2. QED
  BY <1>1, Invariance, PTL

----------------------------------------------------------------------------
(***************************************************************************)
(* The start of the service on the same database: the safety of            *)
(* DatabaseStartup for any number of processes and keys.                   *)
(*                                                                         *)
(* ServesCompleteDatabase is not inductive: a process that serves must     *)
(* know that nobody else fills, completes or moves the database.  That is  *)
(* what the flock gives it (OneOwner), and what an earlier start can have  *)
(* left behind is bounded by the order of initialize: the key check is the *)
(* last thing a new database gets (MarkerLast), and credentials are stored *)
(* under that key only, except by threads that outlived a move of the file *)
(* (SecretsOfMarker); a process that only outlived its lock still has the  *)
(* key of the key check (OwnerAt).                                         *)
(***************************************************************************)
Holding == {"locked", "creating", "recovering", "starting", "serving"}

(* Between the flock and its end a process is the owner of the database.   *)
OneOwner == \A p \in Procs : proc[p] \in Holding => owner = p

(* A database with a key check has its whole schema.                       *)
MarkerLast == marker # NoKey => created = 4

(* Credentials are encrypted with the key of the key check, and there are  *)
(* none before it is stored, stray threads apart.                          *)
SecretsOfMarker == \A k \in secrets : k = marker \/ k \in StrayKeys

(* A database is filled only while it has no key check, and used only with *)
(* the key that its key check was made with.                               *)
OwnerAt ==
    \A p \in Procs :
        /\ proc[p] = "creating" => marker = NoKey
        /\ proc[p] \in {"recovering", "starting", "serving", "lingering"} => marker = key[p]

Ownership == StartupTypeOK /\ OneOwner /\ MarkerLast /\ OwnerAt

StartupInv == Ownership /\ SecretsOfMarker

(* A database without a table has no key check.                            *)
LEMMA NoTables == ASSUME StartupTypeOK, MarkerLast, existing = {} PROVE marker = NoKey
<1>1. SUFFICES ASSUME created = 4 PROVE FALSE
  BY DEF MarkerLast
<1>2. Schema[1] = "metadata" /\ 1 \in 1..created
  BY <1>1 DEF Schema
<1>3. "metadata" \in existing
  BY <1>2 DEF existing, Tables
<1>4. QED
  BY <1>3

(* Every step of every process, whatever the others have done, keeps the   *)
(* database and the lock consistent.                                       *)
LEMMA NextOwnership ==
    ASSUME StartupInv, [StartupNext]_startupVars PROVE Ownership'
<1> USE NoProcAssumption, NoKeyAssumption
        DEF StartupInv, Ownership, StartupTypeOK, OneOwner, MarkerLast, OwnerAt, Holding, Lives,
            Become
<1>1. ASSUME NEW p \in Procs, TakeLock(p) PROVE Ownership'
  BY <1>1 DEF TakeLock
<1>2. ASSUME NEW p \in Procs, Inspect(p) PROVE Ownership'
  <2>1. CASE existing = {} /\ Become(p, "creating") /\ UNCHANGED owner
    BY <1>2, <2>1, NoTables DEF Inspect
  <2>2. CASE End(p, "unusable") \/ End(p, "wrong_key")
    BY <1>2, <2>2 DEF Inspect, End
  <2>3. CASE marker = key[p] /\ Become(p, "recovering") /\ UNCHANGED owner
    BY <1>2, <2>3 DEF Inspect
  <2>4. QED
    BY <1>2, <2>1, <2>2, <2>3 DEF Inspect
<1>3. ASSUME NEW p \in Procs, CreateNext(p) PROVE Ownership'
  BY <1>3 DEF CreateNext, End
<1>4. ASSUME NEW p \in Procs, Commit(p) PROVE Ownership'
  BY <1>4 DEF Commit, End
<1>5. ASSUME NEW p \in Procs, OpenLog(p) PROVE Ownership'
  BY <1>5 DEF OpenLog, End
<1>6. ASSUME NEW p \in Procs, StoreSecret(p) PROVE Ownership'
  BY <1>6 DEF StoreSecret
<1>7. ASSUME NEW p \in Procs, Exit(p) PROVE Ownership'
  BY <1>7 DEF Exit, End
<1>8. CASE MoveAside
  BY <1>8 DEF MoveAside
<1>9. CASE UNCHANGED startupVars
  BY <1>9 DEF startupVars
<1>10. ASSUME NEW p \in Procs, ReleaseLock(p) PROVE Ownership'
  BY <1>10 DEF ReleaseLock, End
<1>11. QED
  BY <1>1, <1>2, <1>3, <1>4, <1>5, <1>6, <1>7, <1>8, <1>9, <1>10 DEF StartupNext

(* A process becomes stray by a move of the database only, and stays it.   *)
LEMMA StraysStay ==
    ASSUME StartupInv, NEW p \in Procs, NEW life, Become(p, life), proc[p] # "stray", UNCHANGED key
    PROVE  StrayKeys \subseteq StrayKeys'
BY DEF StrayKeys, Become, StartupInv, Ownership, StartupTypeOK

(* Credentials stay those of the key check and of stray threads: a key     *)
(* check is stored only where there was none, which only credentials of    *)
(* stray threads precede.                                                  *)
LEMMA NextSecrets ==
    ASSUME StartupInv, [StartupNext]_startupVars PROVE SecretsOfMarker'
<1>1. ASSUME NEW p \in Procs, NEW life, Become(p, life), proc[p] # "stray",
             UNCHANGED <<key, marker, secrets>>
      PROVE  SecretsOfMarker'
  BY <1>1, StraysStay DEF StartupInv, SecretsOfMarker
<1>2. ASSUME NEW p \in Procs,
             TakeLock(p) \/ Inspect(p) \/ OpenLog(p) \/ ReleaseLock(p) \/ Exit(p)
      PROVE  SecretsOfMarker'
  <2>1. proc[p] # "stray" /\ UNCHANGED <<key, marker, secrets>>
    BY <1>2 DEF TakeLock, Inspect, OpenLog, ReleaseLock, Exit
  <2>2. \E life \in Lives : Become(p, life)
    BY <1>2 DEF TakeLock, Inspect, OpenLog, ReleaseLock, Exit, End, Lives
  <2>3. QED
    BY <1>1, <2>1, <2>2
<1>3. ASSUME NEW p \in Procs, CreateNext(p) PROVE SecretsOfMarker'
  <2>1. proc[p] # "stray" /\ UNCHANGED <<key, marker, secrets>>
    BY <1>3 DEF CreateNext
  <2>2. CASE UNCHANGED proc
    BY <2>1, <2>2 DEF StartupInv, SecretsOfMarker, StrayKeys
  <2>3. CASE Become(p, "dead")
    BY <1>1, <2>1, <2>3
  <2>4. QED
    BY <1>3, <2>2, <2>3 DEF CreateNext, End
<1>4. ASSUME NEW p \in Procs, Commit(p) PROVE SecretsOfMarker'
  <2>1. proc[p] # "stray" /\ UNCHANGED <<key, secrets>>
    BY <1>4 DEF Commit
  <2>2. CASE UNCHANGED marker
    <3>1. \E life \in Lives : Become(p, life)
      BY <1>4 DEF Commit, End, Lives
    <3>2. QED
      BY <1>1, <2>1, <2>2, <3>1
  <2>3. CASE marker' # marker
    <3>1. proc[p] = "creating" /\ Become(p, "starting")
      BY <1>4, <2>3 DEF Commit
    <3>2. marker = NoKey /\ secrets \subseteq Keys
      BY <3>1 DEF StartupInv, Ownership, OwnerAt, StartupTypeOK
    <3>3. secrets \subseteq StrayKeys
      BY <3>2, NoKeyAssumption DEF StartupInv, SecretsOfMarker
    <3>4. QED
      BY <2>1, <3>1, <3>3, StraysStay DEF SecretsOfMarker
  <2>4. QED
    BY <2>2, <2>3
<1>5. ASSUME NEW p \in Procs, StoreSecret(p) PROVE SecretsOfMarker'
  <2>1. StrayKeys' = StrayKeys /\ UNCHANGED marker
    BY <1>5 DEF StoreSecret, StrayKeys
  <2>2. key[p] = marker \/ key[p] \in StrayKeys
    BY <1>5 DEF StoreSecret, StrayKeys, StartupInv, Ownership, OwnerAt
  <2>3. QED
    BY <1>5, <2>1, <2>2 DEF StoreSecret, StartupInv, SecretsOfMarker
<1>6. CASE MoveAside
  BY <1>6 DEF MoveAside, SecretsOfMarker
<1>7. CASE UNCHANGED startupVars
  BY <1>7 DEF startupVars, StartupInv, SecretsOfMarker, StrayKeys
<1>8. QED
  BY <1>2, <1>3, <1>4, <1>5, <1>6, <1>7 DEF StartupNext


(* The inductive invariant holds in every reachable state.                 *)
THEOREM StartupInvariance == StartupSpec => []StartupInv
<1>1. StartupInit => StartupInv
  BY DEF StartupInit, StartupInv, Ownership, StartupTypeOK, OneOwner, MarkerLast, SecretsOfMarker, OwnerAt, Holding,
         Lives
<1>2. StartupInv /\ [StartupNext]_startupVars => StartupInv'
  BY NextOwnership, NextSecrets DEF StartupInv
<1>3. QED
  BY <1>1, <1>2, PTL DEF StartupSpec

(* The state stays within its types: the lock, the lives of the processes  *)
(* and the contents of the database file.                                  *)
THEOREM StartupTypes == StartupSpec => []StartupTypeOK
<1>1. StartupInv => StartupTypeOK
  BY DEF StartupInv, Ownership
<1>2. QED
  BY <1>1, StartupInvariance, PTL

(* The flock of DatabaseOwnerLock: two processes never hold the database   *)
(* at once, whatever the order in which they start, die and start again.   *)
THEOREM MutualExclusion ==
    StartupSpec => [](\A p, q \in Procs : proc[p] \in Holding /\ proc[q] \in Holding => p = q)
<1>1. StartupInv => \A p, q \in Procs : proc[p] \in Holding /\ proc[q] \in Holding => p = q
  BY DEF StartupInv, Ownership, OneOwner
<1>2. QED
  BY <1>1, StartupInvariance, PTL

(* A process that open_app lets serve has a database with the whole schema *)
(* and with a key check of its own key.                                    *)
THEOREM ServesComplete == StartupSpec => []ServesCompleteDatabase
<1>1. StartupInv => ServesCompleteDatabase
  BY NoKeyAssumption DEF StartupInv, Ownership, StartupTypeOK, MarkerLast, OwnerAt, ServesCompleteDatabase
<1>2. QED
  BY <1>1, StartupInvariance, PTL

(* ConnectionStore.get of the serving process can decrypt every stored     *)
(* credential that no stray thread has stored.                             *)
THEOREM CredentialsReadable == StartupSpec => []SecretsReadable
<1>1. StartupInv => SecretsReadable
  BY DEF StartupInv, Ownership, SecretsOfMarker, OwnerAt, SecretsReadable
<1>2. QED
  BY <1>1, StartupInvariance, PTL

=============================================================================

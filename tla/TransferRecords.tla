-------------------------- MODULE TransferRecords --------------------------
(***************************************************************************)
(* What a transfer record promises its reader, without processes, threads  *)
(* or connectors.  A record is started, may announce that its destination  *)
(* is about to be replaced, and settles exactly once.  The promise is in   *)
(* two of the ways it settles:                                             *)
(*                                                                         *)
(*   "completed"  the destination holds the transferred file;              *)
(*   "unchanged"  the transfer failed or was interrupted before it         *)
(*                announced publication: it has not touched its            *)
(*                destination and never will.                              *)
(*                                                                         *)
(* "uncertain" (a failed or interrupted publication) promises neither.     *)
(***************************************************************************)
CONSTANT Transfers

VARIABLES
    outcome,    \* what the record says of each transfer
    published   \* whether the transfer has replaced or created its destination

vars == <<outcome, published>>

Outcomes == {"none", "running", "publishing", "completed", "unchanged", "uncertain"}

TypeOK ==
    /\ outcome \in [Transfers -> Outcomes]
    /\ published \in [Transfers -> BOOLEAN]

Init ==
    /\ outcome = [t \in Transfers |-> "none"]
    /\ published = [t \in Transfers |-> FALSE]

Start(t) ==
    /\ outcome[t] = "none"
    /\ outcome' = [outcome EXCEPT ![t] = "running"]
    /\ UNCHANGED published

Announce(t) ==
    /\ outcome[t] = "running"
    /\ outcome' = [outcome EXCEPT ![t] = "publishing"]
    /\ UNCHANGED published

(* A transfer whose thread outlives the service may still publish after    *)
(* its record has settled as uncertain, but never in any other state.      *)
Publish(t) ==
    /\ outcome[t] \in {"publishing", "uncertain"}
    /\ ~published[t]
    /\ published' = [published EXCEPT ![t] = TRUE]
    /\ UNCHANGED outcome

Complete(t) ==
    /\ outcome[t] = "publishing"
    /\ published[t]
    /\ outcome' = [outcome EXCEPT ![t] = "completed"]
    /\ UNCHANGED published

(* One handler settles one record; startup recovery settles every open one. *)
Settle(S) ==
    /\ \A t \in S : outcome[t] \in {"running", "publishing"}
    /\ \E verdict \in [S -> {"unchanged", "uncertain"}] :
         /\ \A t \in S : outcome[t] = "publishing" => verdict[t] = "uncertain"
         /\ outcome' = [t \in Transfers |-> IF t \in S THEN verdict[t] ELSE outcome[t]]
    /\ UNCHANGED published

Next ==
    \/ \E t \in Transfers : Start(t) \/ Announce(t) \/ Publish(t) \/ Complete(t)
    \/ \E S \in SUBSET Transfers : Settle(S)

Spec == Init /\ [][Next]_vars

=============================================================================

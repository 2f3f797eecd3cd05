-------------------------------- MODULE Sink ---------------------------------
(***************************************************************************)
(* What Connector.write promises the transfer that uses it, for local      *)
(* directories and SFTP servers alike (databridge/connectors/base.py), and *)
(* all that TransferService relies on: the destination changes only when   *)
(* the whole file is stored, and what the exit of the context says of the  *)
(* destination stays true.                                                 *)
(*                                                                         *)
(*   "ok"         the destination holds the file;                          *)
(*   "unchanged"  an error: the destination never changes by this write;   *)
(*   "unknown"    an error of the publication itself: the destination may  *)
(*                have changed, or may change later.                       *)
(***************************************************************************)
CONSTANT Sinks

VARIABLES
    stored,   \* whether the staged file is whole
    changed,  \* whether it has become the destination
    told      \* what the exit of the context has said

vars == <<stored, changed, told>>

Init ==
    /\ stored \in [Sinks -> BOOLEAN]
    /\ changed = [s \in Sinks |-> FALSE]
    /\ told = [s \in Sinks |-> "nothing"]

(* The last byte arrives.                                                  *)
Store(s) ==
    /\ stored' = [stored EXCEPT ![s] = TRUE]
    /\ UNCHANGED <<changed, told>>

(* The publication takes effect; a request whose reply was lost may do so  *)
(* after the error.                                                        *)
Publish(s) ==
    /\ stored[s] /\ told[s] \in {"nothing", "unknown"}
    /\ changed' = [changed EXCEPT ![s] = TRUE]
    /\ UNCHANGED <<stored, told>>

(* The context exits, as a step of its own or with the publication; or the *)
(* step that stores the last byte fails.                                   *)
Exit(s, how) ==
    /\ told[s] = "nothing" /\ told' = [told EXCEPT ![s] = how]
    /\ UNCHANGED changed \/ (stored[s] /\ changed' = [changed EXCEPT ![s] = TRUE])
    /\ how = "ok" => changed'[s]
    /\ how = "unchanged" => ~changed'[s]
    /\ stored' \in {stored, [stored EXCEPT ![s] = TRUE]}

Next == \E s \in Sinks :
    Store(s) \/ Publish(s) \/ \E how \in {"ok", "unchanged", "unknown"} : Exit(s, how)

Spec == Init /\ [][Next]_vars

=============================================================================

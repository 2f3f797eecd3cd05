--------------------------- MODULE SftpWriteProofs ---------------------------
(***************************************************************************)
(* The safety of SftpWrite for uploads of any size and any window.         *)
(*                                                                         *)
(* What makes the upload whole is that a write is forgotten only when its  *)
(* status was received (Acknowledged) and that finish collects them all    *)
(* before the publication can begin (Drained); the size check is not       *)
(* needed for it.  What the client says is right because a publishing      *)
(* request that is answered late belongs to a session that is down and to  *)
(* a client that reported the loss (LateAt, Reported).                     *)
(***************************************************************************)
EXTENDS SftpWrite, TLAPS

Publishing == {"fsync", "close", "stat", "setstat", "ready", "check", "rename"}
Exited == {"recheck", "cleanup", "done"}

(* The staged file holds every chunk.                                      *)
Whole == \A i \in 1..size : wr[i] = "ok"

(* What the exit of the context has said, in the words of the contract.    *)
Told == CASE result = "none" -> "nothing"
          [] result = "ok" -> "ok"
          [] result = "maybe" \/ garbled -> "unknown"
          [] OTHER -> "unchanged"

(* As long as the upload has not failed, every status received is a        *)
(* success, and nothing was sent beyond the last request.                  *)
Acknowledged ==
    /\ pc \notin Exited => \A i \in 1..acked : wr[i] = "ok"
    /\ \A i \in sent + 1..MaxChunks : wr[i] = "none"

(* Every chunk is sent before finish, and acknowledged after it.           *)
Drained ==
    /\ pc = "drain" => sent = size
    /\ pc \in Publishing => sent = size /\ acked = size

(* The result is set when the context exits; it admits what was done.      *)
Reported ==
    /\ result = "none" <=> pc \notin Exited
    /\ result = "ok" => wrote
    /\ pc = "recheck" => result = "error"
    /\ wrote => Whole /\ (result \in {"ok", "maybe"} \/ garbled)
    /\ garbled => result # "none"

(* A request is late only when its session is down and its client gave up; *)
(* a late rename has the whole file staged, and its client said so.        *)
LateAt ==
    /\ late # "none" => link = "down" /\ pc \in Exited
    /\ late = "rename" => result = "maybe" /\ Whole

(* No stage before OPEN; none after the exit that the client could remove. *)
StageAt ==
    /\ pc = "inspect" => ~stage
    /\ NoStageLeft

(* Another user's file that a rename may meet came after the last check.   *)
Collision ==
    ~overwrite /\ dest = "foreign" /\ (pc = "rename" \/ late = "rename") => intruder

IInv ==
    /\ TypeOK /\ Acknowledged /\ Drained /\ Reported /\ LateAt /\ StageAt /\ Collision

USE DEF Publishing, Exited

(* Initially nothing is sent, staged or said.                              *)
LEMMA InitIInv == Init => IInv
<1> SUFFICES ASSUME Init PROVE IInv
  OBVIOUS
<1>1. TypeOK
  <2>1. sent \in 0..size /\ acked \in 0..sent
    BY MaxChunksAssumption DEF Init
  <2>2. wr \in [1..MaxChunks -> {"none", "queued", "ok", "failed"}]
    BY DEF Init
  <2>3. QED
    BY <2>1, <2>2, Zenon DEF Init, TypeOK, Steps
<1>2. Acknowledged
  BY MaxChunksAssumption DEF Init, Acknowledged
<1>3. Drained /\ Reported /\ LateAt /\ StageAt /\ Collision
  BY DEF Init, Drained, Reported, LateAt, StageAt, NoStageLeft, Collision
<1>4. QED
  BY <1>1, <1>2, <1>3 DEF IInv

(* An upload that was sent and acknowledged in full is whole.              *)
LEMMA PublishingWhole == ASSUME IInv, pc \in Publishing PROVE Whole
BY DEF IInv, Acknowledged, Drained, Whole

(* The numbers of the pipeline stay in their ranges: a status is received  *)
(* only for a request that was sent, and no chunk is sent twice.           *)
LEMMA PipelineType ==
    ASSUME TypeOK, [Next]_vars
    PROVE  /\ size' \in 0..MaxChunks /\ sent' \in 0..size' /\ acked' \in 0..sent'
           /\ wr' \in [1..MaxChunks -> {"none", "queued", "ok", "failed"}]
<1> USE MaxChunksAssumption, WindowAssumption DEF TypeOK, input, server, client
<1>1. CASE Copy
  BY <1>1 DEF Copy, ReceiveStatus
<1>2. CASE Drain
  BY <1>2 DEF Drain, ReceiveStatus
<1>3. CASE ServeWrite
  BY <1>3 DEF ServeWrite
<1>4. CASE UNCHANGED <<size, sent, acked, wr>>
  BY <1>4
<1>5. QED
  BY <1>1, <1>2, <1>3, <1>4
     DEF Next, Client, vars, Inspect, OpenStage, Settle, Verify, Exit, Check, Rename, Recheck,
         CleanUp, ServeLate, Drop, Expire, Foreign, CallFails, CallSucceeds

(* Every step keeps the types.                                             *)
LEMMA NextTypeOK == ASSUME TypeOK, [Next]_vars PROVE TypeOK'
<1> DEFINE Rest ==
      /\ overwrite \in BOOLEAN /\ replaces \in BOOLEAN /\ posixRename \in BOOLEAN
      /\ link \in {"up", "down"}
      /\ pc \in Steps /\ result \in {"none", "ok", "maybe", "error"}
      /\ stage \in BOOLEAN /\ dest \in {"absent", "foreign", "ours"}
      /\ late \in {"none", "open", "rename", "remove"}
      /\ wrote \in BOOLEAN /\ intruder \in BOOLEAN /\ garbled \in BOOLEAN /\ leaked \in BOOLEAN
<1>a. Rest
  BY Zenon DEF TypeOK
<1>b. SUFFICES Rest'
  BY PipelineType, Zenon DEF TypeOK
<1> USE <1>a DEF input, server, client, notes, Steps
<1>1. CASE Inspect
  BY <1>1 DEF Inspect, CallSucceeds
<1>2. CASE OpenStage
  BY <1>2, Zenon DEF OpenStage, Fail
<1>3. CASE Copy \/ Drain
  BY <1>3 DEF Copy, Drain, ReceiveStatus, Fail
<1>4. CASE Settle \/ Verify \/ Exit \/ Check \/ Recheck
  BY <1>4 DEF Settle, Verify, Exit, Check, Recheck, CallFails, CallSucceeds, Fail
<1>5. CASE Rename
  BY <1>5, Zenon DEF Rename, Refused, Unknown, RenameDone
<1>6. CASE CleanUp
  <2>1. UNCHANGED <<overwrite, replaces, posixRename, result, dest, wrote, intruder, garbled>>
    BY <1>6 DEF CleanUp
  <2>2. link' \in {"up", "down"} /\ pc' \in Steps /\ late' \in {"none", "open", "rename", "remove"}
    BY <1>6 DEF CleanUp
  <2>3. stage' \in BOOLEAN /\ leaked' \in BOOLEAN
    BY <1>6, Zenon DEF CleanUp
  <2>4. QED
    BY <2>1, <2>2, <2>3, Zenon
<1>7. CASE ServeWrite \/ Drop \/ Expire
  BY <1>7 DEF ServeWrite, Drop, Expire
<1>8. CASE ServeLate
  <2>1. UNCHANGED <<overwrite, replaces, posixRename, link, pc, result, intruder, garbled, leaked>>
    BY <1>8 DEF ServeLate
  <2>2. dest' \in {"absent", "foreign", "ours"} /\ late' \in {"none", "open", "rename", "remove"}
    BY <1>8 DEF ServeLate, RenameDone
  <2>3. stage' \in BOOLEAN /\ wrote' \in BOOLEAN
    BY <1>8, Zenon DEF ServeLate, RenameDone
  <2>4. QED
    BY <2>1, <2>2, <2>3
<1>9. CASE Foreign
  <2>1. UNCHANGED <<overwrite, replaces, posixRename, link, pc, result, stage, late, wrote, garbled,
                    leaked>>
    BY <1>9 DEF Foreign
  <2>2. dest' \in {"absent", "foreign", "ours"}
    BY <1>9 DEF Foreign
  <2>3. intruder' \in BOOLEAN
    BY <1>9, Zenon DEF Foreign
  <2>4. QED
    BY <2>1, <2>2, <2>3
<1>10. CASE UNCHANGED vars
  BY <1>10 DEF vars
<1>11. QED
  BY <1>1, <1>2, <1>3, <1>4, <1>5, <1>6, <1>7, <1>8, <1>9, <1>10 DEF Next, Client

(* Every step of the client, the server, the network and the other users   *)
(* keeps the inductive invariant.                                          *)
LEMMA NextIInv == IInv /\ [Next]_vars => IInv'
<1> SUFFICES ASSUME IInv, [Next]_vars PROVE IInv'
  OBVIOUS
<1> DEFINE Parts == Acknowledged /\ Drained /\ Reported /\ LateAt /\ StageAt /\ Collision
<1>a. TypeOK /\ TypeOK'
  BY NextTypeOK DEF IInv
<1>b. SUFFICES Parts'
  BY <1>a DEF IInv
<1> USE MaxChunksAssumption, WindowAssumption, <1>a
        DEF IInv, TypeOK, Steps, Acknowledged, Drained, Reported, LateAt, StageAt, NoStageLeft,
            Collision, Whole, input, server, client, notes
<1>1. CASE Inspect
  BY <1>1 DEF Inspect, CallSucceeds
<1>2. CASE OpenStage
  BY <1>2 DEF OpenStage, Fail
<1>3. CASE Copy
  <2>0. pc = "copy" /\ (sent - acked >= Window => acked < sent)
    BY <1>3 DEF Copy
  <2>1. Acknowledged'
    <3>1. CASE acked < sent /\ ReceiveStatus /\ UNCHANGED <<sent, wr>>
      BY <1>3, <3>1 DEF ReceiveStatus, Fail
    <3>2. CASE /\ sent < size /\ sent' = sent + 1 /\ wr' = [wr EXCEPT ![sent + 1] = "queued"]
               /\ UNCHANGED <<pc, acked>>
      <4>1. \A i \in 1..MaxChunks : i # sent + 1 => wr'[i] = wr[i]
        BY <3>2
      <4>2. \A i \in sent' + 1..MaxChunks : i \in sent + 1..MaxChunks /\ i # sent + 1
        BY <3>2
      <4>3. \A i \in 1..acked : i \in 1..MaxChunks /\ i # sent + 1
        OBVIOUS
      <4>4. QED
        BY <3>2, <4>1, <4>2, <4>3
    <3>3. CASE (pc' = "drain" \/ Fail) /\ UNCHANGED <<sent, acked, wr>>
      BY <2>0, <3>3
    <3>4. QED
      BY <1>3, <2>0, <3>1, <3>2, <3>3 DEF Copy, Fail
  <2>2. Drained' /\ StageAt' /\ Collision'
    BY <1>3 DEF Copy, ReceiveStatus, Fail
  <2>3. ~wrote /\ late # "rename"
    BY <1>3 DEF Copy
  <2>4. Reported' /\ LateAt'
    BY <1>3, <2>3 DEF Copy, ReceiveStatus, Fail
  <2>5. QED
    BY <2>1, <2>2, <2>4
<1>4. CASE Drain
  BY <1>4 DEF Drain, ReceiveStatus, Fail
<1>5. CASE Settle
  BY <1>5 DEF Settle, CallFails, CallSucceeds, Fail
<1>6. CASE Verify
  BY <1>6 DEF Verify, CallFails, CallSucceeds, Fail
<1>7. CASE Exit
  BY <1>7 DEF Exit, Fail
<1>8. CASE Check
  BY <1>8 DEF Check, CallFails, CallSucceeds, Fail
<1>9. CASE Rename
  <2>1. Whole' /\ UNCHANGED <<overwrite, size, sent, acked, wr, intruder, leaked>>
    BY <1>9, PublishingWhole DEF Rename
  <2>2. pc' \in Exited /\ result' # "none"
    BY <1>9 DEF Rename, Refused, Unknown
  <2>3. Acknowledged' /\ Drained'
    BY <2>1, <2>2
  <2>4. Reported'
    BY <1>9, <2>1, <2>2 DEF Rename, Refused, Unknown, RenameDone
  <2>5. LateAt'
    BY <1>9, <2>1, <2>2 DEF Rename, Refused, Unknown, RenameDone
  <2>6. StageAt'
    BY <1>9, <2>1, <2>2 DEF Rename, Refused, Unknown, RenameDone
  <2>7. Collision'
    BY <1>9, <2>1, <2>2 DEF Rename, Refused, Unknown, RenameDone
  <2>8. QED
    BY <2>3, <2>4, <2>5, <2>6, <2>7
<1>10. CASE Recheck
  BY <1>10 DEF Recheck, CallFails, Fail
<1>11. CASE CleanUp
  BY <1>11 DEF CleanUp
<1>12. CASE ServeWrite
  BY <1>12 DEF ServeWrite, Oldest
<1>13. CASE ServeLate
  <2>1. /\ UNCHANGED <<overwrite, size, link, pc, result, sent, acked, wr, intruder, garbled, leaked>>
        /\ link = "down" /\ late' = "none"
    BY <1>13 DEF ServeLate
  <2>2. Acknowledged' /\ Drained' /\ LateAt'
    BY <2>1
  <2>3. Reported'
    BY <1>13, <2>1 DEF ServeLate, RenameDone
  <2>4. StageAt'
    BY <1>13, <2>1 DEF ServeLate, RenameDone
  <2>5. Collision'
    BY <1>13, <2>1 DEF ServeLate, RenameDone
  <2>6. QED
    BY <2>2, <2>3, <2>4, <2>5
<1>14. CASE Drop \/ Expire
  BY <1>14 DEF Drop, Expire
<1>15. CASE Foreign
  BY <1>15 DEF Foreign, AfterCheck
<1>16. CASE UNCHANGED vars
  BY <1>16 DEF vars
<1>17. QED
  BY <1>1, <1>2, <1>3, <1>4, <1>5, <1>6, <1>7, <1>8, <1>9, <1>10, <1>11, <1>12, <1>13, <1>14,
     <1>15, <1>16 DEF Next, Client

(* The inductive invariant holds in every reachable state.                 *)
THEOREM Invariance == Spec => []IInv
BY InitIInv, NextIInv, PTL DEF Spec

(* The state stays within its types; in particular _Upload never waits for *)
(* the status of a write that it has not sent.                             *)
THEOREM TypeCorrect == Spec => []TypeOK
<1>1. IInv => TypeOK
  BY DEF IInv
<1>2. QED
  BY <1>1, Invariance, PTL

(* Whatever _publish renames over the destination, at once or by a late    *)
(* request, is the whole upload.                                           *)
THEOREM PublishesWhole == Spec => []PublishedIsWhole
<1>1. IInv => PublishedIsWhole
  BY DEF IInv, Reported, Whole, PublishedIsWhole
<1>2. QED
  BY <1>1, Invariance, PTL

(* write leaves no stage that it could remove.                             *)
THEOREM StageRemoved == Spec => []NoStageLeft
<1>1. IInv => NoStageLeft
  BY DEF IInv, StageAt
<1>2. QED
  BY <1>1, Invariance, PTL

(* Without overwrite, _publish replaces another user's file only on a      *)
(* server whose RENAME replaces, and only one that came after the check.   *)
THEOREM ForeignFileKept == Spec => NoClobber
<1>1. ASSUME IInv, [Next]_vars, dest = "foreign", dest' = "ours", ~overwrite
      PROVE  replaces /\ intruder
  <2>1. CASE Rename
    BY <1>1, <2>1 DEF IInv, Collision, Rename, RenameAllowed
  <2>2. CASE ServeLate
    BY <1>1, <2>2 DEF IInv, Collision, ServeLate, RenameAllowed
  <2>3. CASE dest' \in {dest, "absent", "foreign"}
    BY <1>1, <2>3
  <2>4. QED
    BY <1>1, <2>1, <2>2, <2>3
       DEF Next, Client, vars, server, Inspect, OpenStage, Copy, Drain, Settle, Verify, Exit, Check,
           Recheck, CleanUp, ServeWrite, Drop, Expire, Foreign, CallFails, CallSucceeds
<1>2. IInv /\ [Next]_vars
        => [dest = "foreign" /\ dest' = "ours" /\ ~overwrite => replaces /\ intruder]_vars
  BY <1>1
<1>3. QED
  BY <1>2, Invariance, PTL DEF Spec, NoClobber

(* What one step does to the parts of the state that the contract of a     *)
(* sink speaks of: it may store, or publish, or tell and perhaps publish.  *)
StoresOnly == UNCHANGED <<wrote, Told>> /\ (Whole => Whole')
PublishesOnly == /\ Whole /\ Whole' /\ Told \in {"nothing", "unknown"}
                 /\ wrote' /\ Told' = Told
Tells == /\ Told = "nothing" /\ Told' \in {"ok", "unchanged", "unknown"} /\ (Whole' <=> Whole)
         /\ UNCHANGED wrote \/ (Whole /\ wrote')
         /\ Told' = "ok" => wrote'
         /\ Told' = "unchanged" => ~wrote'

(* Every step is of one of these kinds.                                    *)
LEMMA StepKind == ASSUME IInv, [Next]_vars PROVE StoresOnly \/ PublishesOnly \/ Tells
<1> USE DEF input, server, client, notes
<1>1. TypeOK /\ Acknowledged /\ Drained /\ Reported /\ LateAt
  BY DEF IInv
<1>2. CASE UNCHANGED <<result, garbled, wrote>> /\ (Whole => Whole')
  BY <1>2 DEF StoresOnly, Told
<1>3. CASE /\ result = "none" /\ result' = "error" /\ ~wrote /\ UNCHANGED <<garbled, wrote, size, wr>>
  BY <1>1, <1>3 DEF Tells, Told, Whole, Reported
<1>4. CASE Rename
  <2>1. Whole /\ (Whole' <=> Whole) /\ Told = "nothing" /\ ~wrote /\ ~garbled
    BY <1>1, <1>4, PublishingWhole DEF Rename, Whole, Told, Reported
  <2>2. QED
    BY <1>4, <2>1 DEF Rename, Refused, Unknown, RenameDone, Tells, Told
<1>5. CASE ServeLate
  BY <1>1, <1>5 DEF ServeLate, RenameDone, PublishesOnly, StoresOnly, Told, Whole, LateAt
<1>6. CASE ServeWrite
  <2>1. Whole => Whole'
    BY <1>1, <1>6 DEF ServeWrite, Oldest, Whole, TypeOK
  <2>2. QED
    BY <1>2, <1>6, <2>1 DEF ServeWrite
<1>7. CASE Copy
  <2>1. CASE sent' = sent + 1
    <3>1. sent + 1 \in 1..size /\ wr[sent + 1] = "none"
      BY <1>1, <1>7, <2>1, MaxChunksAssumption DEF Copy, ReceiveStatus, TypeOK, Acknowledged
    <3>2. ~Whole
      BY <3>1 DEF Whole
    <3>3. UNCHANGED <<result, garbled, wrote>>
      BY <1>1, <1>7, <2>1 DEF Copy, TypeOK
    <3>4. QED
      BY <1>2, <3>2, <3>3
  <2>2. CASE UNCHANGED <<sent, wr>>
    BY <1>1, <1>2, <1>3, <1>7, <2>2 DEF Copy, ReceiveStatus, Fail, Whole, Reported
  <2>3. QED
    BY <1>7, <2>1, <2>2 DEF Copy
<1>8. CASE Recheck \/ CleanUp
  BY <1>1, <1>2, <1>8 DEF Recheck, CleanUp, CallFails, Fail, Whole, Reported
<1>9. CASE Inspect \/ OpenStage \/ Drain \/ Settle \/ Verify \/ Exit \/ Check
  BY <1>1, <1>2, <1>3, <1>9
     DEF Inspect, OpenStage, Drain, ReceiveStatus, Settle, Verify, Exit, Check, CallFails,
         CallSucceeds, Fail, Whole, Reported
<1>10. CASE Drop \/ Expire \/ Foreign \/ UNCHANGED vars
  BY <1>2, <1>10 DEF Drop, Expire, Foreign, vars, Whole
<1>11. QED
  BY <1>4, <1>5, <1>6, <1>7, <1>8, <1>9, <1>10 DEF Next, Client

(* The SFTP connector keeps the contract of Connector.write: the           *)
(* destination changes only by a whole upload, and what the exit of write  *)
(* said of the destination stays true.                                     *)
THEOREM Refinement == Spec => SinkImplemented
<1> DEFINE stored == [s \in {"upload"} |-> Whole]
           changed == [s \in {"upload"} |-> wrote]
           told == [s \in {"upload"} |-> Told]
<1>1. Init => Contract!Init
  BY Zenon DEF Init, Contract!Init
<1>2. IInv /\ [Next]_vars => [Contract!Next]_(Contract!vars)
  <2> SUFFICES ASSUME IInv, [Next]_vars
               PROVE  Contract!Next \/ UNCHANGED <<stored, changed, told>>
    BY DEF Contract!vars, Whole, Told
  <2>1. CASE StoresOnly
    <3>1. UNCHANGED <<changed, told>>
      BY <2>1 DEF StoresOnly
    <3>2. CASE Whole'
      <4>1. stored' = [stored EXCEPT !["upload"] = TRUE]
        BY <3>2
      <4>2. Contract!Store("upload")
        BY <3>1, <4>1 DEF Contract!Store, Whole, Told
      <4>3. QED
        BY <4>2 DEF Contract!Next
    <3>3. CASE ~Whole'
      <4>1. Whole = FALSE /\ Whole' = FALSE
        BY <2>1, <3>3 DEF StoresOnly, Whole
      <4>2. stored' = stored
        BY <4>1
      <4>3. QED
        BY <3>1, <4>2
    <3>4. QED
      BY <3>2, <3>3
  <2>2. CASE PublishesOnly
    BY <2>2 DEF PublishesOnly, Contract!Next, Contract!Publish, Whole, Told
  <2>3. CASE Tells
    BY <2>3 DEF Tells, Contract!Next, Contract!Exit, Whole, Told
  <2>4. QED
    BY <2>1, <2>2, <2>3, StepKind
<1>3. QED
  BY <1>1, <1>2, Invariance, PTL DEF Spec, SinkImplemented, Contract!Spec

=============================================================================

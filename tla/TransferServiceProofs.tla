----------------------- MODULE TransferServiceProofs -----------------------
(***************************************************************************)
(* The safety of TransferService for any number of transfers, processes,   *)
(* slots and chunks.                                                       *)
(*                                                                         *)
(* The invariants of TransferService are not inductive: what a record may  *)
(* say depends on how far its thread has come.  Consistent(t) ties the     *)
(* record and the destination of t to the step, the phase and the          *)
(* exception of its thread; it survives the steps of other processes       *)
(* because the only thing recovery does to an open record is to settle it  *)
(* with the message that its status, and hence its thread's step, allows.  *)
(***************************************************************************)
EXTENDS TransferService, FiniteSetTheorems, TLAPS

Ending == {"release", "done", "killed"}
Leaving == {"sink_exit", "source_exit"}

(* Nothing has happened before the record is inserted.                     *)
Fresh(t) ==
    pc[t] \in {"idle", "start"} =>
        /\ status[t] = "none" /\ phase[t] = "source_lookup" /\ exc[t] = "none"
        /\ copied[t] = 0 /\ stored[t] = 0 /\ bytes[t] = 0
        /\ resp[t] = "none" /\ blame[t] = "nobody" /\ culprit[t] = "nobody"

(* The phase that _Transfer.phase holds at each step that can still fail.  *)
PhaseAt(t) ==
    /\ pc[t] \in {"source_lookup", "destination_lookup", "source_open", "destination_open"}
         => phase[t] = pc[t]
    /\ pc[t] = "read" => phase[t] = "source_read"
    /\ pc[t] \in {"write", "checkpoint", "finish"} => phase[t] = "destination_write"
    /\ pc[t] \in {"mark", "publish", "complete"} => phase[t] = "publication"

(* The copy loop: how many chunks have been taken and stored.              *)
Progress(t) ==
    /\ stored[t] <= copied[t]
    /\ pc[t] \in {"source_lookup", "destination_lookup", "source_open"} => copied[t] = 0
    /\ pc[t] \in {"read", "checkpoint", "destination_open"} => copied[t] <= size[t]
    /\ pc[t] = "write" => copied[t] < size[t]
    /\ pc[t] = "finish" => copied[t] = size[t]
    /\ pc[t] \in {"mark", "publish"} => copied[t] = size[t] /\ stored[t] = size[t]

(* The record, as far as the step of the thread allows it to have come.    *)
RecordAt(t) ==
    /\ status[t] = "none" =>
         /\ pc[t] \in {"idle", "start"} \cup Ending
         /\ resp[t] \in {"none", "invalid", "capacity", "not_started"}
    /\ status[t] \in {"publishing", "completed"} =>
         /\ pc[t] \in {"publish", "complete", "fail"} \cup Leaving \cup Ending
         /\ phase[t] = "publication"
         /\ copied[t] = size[t] /\ stored[t] = size[t] /\ bytes[t] = size[t]
    /\ failure[t] = "interrupted_publishing" =>
         /\ pc[t] \in {"publish", "complete", "fail"} \cup Leaving \cup Ending
         /\ stored[t] = size[t] /\ bytes[t] = size[t]
    /\ status[t] = "completed" => wrote[t] /\ pc[t] \in Ending
    /\ status[t] # "failed" => failure[t] = "none"
    /\ pc[t] = "publish" =>
         \/ status[t] = "publishing"
         \/ status[t] = "failed" /\ failure[t] = "interrupted_publishing"

(* The destination: touched only after the record announced it.            *)
DestinationAt(t) ==
    /\ wrote[t] =>
         /\ pc[t] \in {"complete", "fail"} \cup Leaving \cup Ending
         /\ phase[t] = "publication"
         /\ \/ status[t] \in {"publishing", "completed"}
            \/ status[t] = "failed" /\ failure[t] \in {"publication", "interrupted_publishing"}
    /\ published[t] => wrote[t] /\ pc[t] \in {"source_exit", "complete"} \cup Ending
    /\ pc[t] = "complete" => published[t]
    /\ pc[t] = "sink_exit" /\ exc[t] = "none" => wrote[t]
    /\ published[t] \/ (pc[t] = "sink_exit" /\ exc[t] = "none") =>
         \/ status[t] \in {"publishing", "completed"}
         \/ status[t] = "failed" /\ failure[t] = "interrupted_publishing"

(* A publishing request that is still with the server: its sender has gone *)
(* past the publication without success, and its record allows for it.     *)
LateAt(t) ==
    t \in late =>
        /\ ~wrote[t] /\ phase[t] = "publication"
        /\ pc[t] \in {"fail"} \cup Leaving \cup Ending
        /\ \/ status[t] = "publishing"
           \/ status[t] = "failed" /\ failure[t] \in {"publication", "interrupted_publishing"}

(* The exception in flight, and the side its message would name.           *)
ExceptionAt(t) ==
    /\ pc[t] \in Steps \ ({"fail", "complete"} \cup Leaving \cup Ending)
         => exc[t] = "none"
    /\ exc[t] # "none" /\ ~published[t] => Attributed(exc[t], phase[t]) \in {"nobody", culprit[t]}
    /\ pc[t] = "fail" => exc[t] # "none"
    /\ pc[t] = "source_exit" /\ exc[t] = "none" => published[t]
    /\ blame[t] # "nobody" => pc[t] \in Ending
    /\ blame[t] \in {"nobody", culprit[t]}

(* The answer is given last and agrees with the record.                    *)
AnswerAt(t) ==
    /\ resp[t] # "none" => pc[t] \in Ending
    /\ resp[t] = "created" => status[t] = "completed"
    /\ resp[t] = "unrecorded" =>
         /\ wrote[t]
         /\ \/ status[t] = "publishing"
            \/ status[t] = "failed" /\ failure[t] = "interrupted_publishing"
    /\ resp[t] = "failed" => ~published[t] /\ status[t] \notin {"none", "completed"}
    /\ resp[t] \in {"invalid", "capacity", "not_started"} => status[t] = "none"

Consistent(t) ==
    /\ Fresh(t) /\ PhaseAt(t) /\ Progress(t) /\ RecordAt(t)
    /\ DestinationAt(t) /\ LateAt(t) /\ ExceptionAt(t) /\ AnswerAt(t)

(* A request that was received belongs to a process, which is alive as     *)
(* long as the thread is at work.                                          *)
AtHome ==
    \A t \in Transfers :
        /\ pc[t] # "idle" => home[t] \in Procs
        /\ pc[t] \notin {"idle", "done", "killed"} => proc[home[t]] \in {"serving", "stopping"}

(* While its process owns the database, no recovery settles the record of  *)
(* a thread.                                                               *)
OwnRecord ==
    \A t \in Transfers :
        pc[t] \notin {"idle", "done", "killed"} /\ proc[home[t]] = "serving" =>
            failure[t] \notin {"interrupted_copying", "interrupted_publishing"}

IInv ==
    /\ TypeOK /\ OneOwner /\ AtHome /\ SlotsAccounted /\ OwnRecord
    /\ \A t \in Transfers : Consistent(t)

USE DEF Ending, Leaving

(* Initially no request has been received and every slot is free.          *)
LEMMA InitIInv == Init => IInv
<1> SUFFICES ASSUME Init PROVE IInv
  OBVIOUS
<1>1. TypeOK
  BY CapacityAssumption, MaxChunksAssumption DEF Init, TypeOK, Steps, Phases, SourcePhases, Exceptions,
     Responses, Statuses, Failures, Sides
<1>2. OneOwner /\ AtHome /\ OwnRecord
  BY DEF Init, OneOwner, AtHome, OwnRecord
<1>3. SlotsAccounted
  <2>1. \A p \in Procs : Holders(p) = {}
    BY DEF Init, Holders
  <2>2. QED
    BY <2>1, FS_EmptySet, CapacityAssumption DEF Init, SlotsAccounted
<1>4. \A t \in Transfers : Consistent(t)
  BY DEF Init, Consistent, Fresh, PhaseAt, Progress, RecordAt, DestinationAt, LateAt, ExceptionAt,
     AnswerAt, Attributed, Steps
<1>5. QED
  BY <1>1, <1>2, <1>3, <1>4 DEF IInv

(* What is true of a request depends on its own part of the state only.    *)
LEMMA Frame ==
    ASSUME NEW u, Consistent(u),
           UNCHANGED <<pc[u], phase[u], exc[u], size[u], copied[u], published[u], resp[u],
                       status[u], bytes[u], failure[u], blame[u], stored[u], culprit[u], wrote[u]>>,
           u \in late' => u \in late
    PROVE  Consistent(u)'
BY DEF Consistent, Fresh, PhaseAt, Progress, RecordAt, DestinationAt, LateAt, ExceptionAt,
       AnswerAt, Attributed

(* A set of threads is finite, so it can be counted.                       *)
LEMMA HoldersFinite ==
    ASSUME NEW p PROVE IsFiniteSet(Holders(p)) /\ Cardinality(Holders(p)) \in Nat
BY TransfersAssumption, FS_Subset, FS_CardinalityType DEF Holders

(* A step that neither admits nor ends a thread leaves the slots alone.    *)
LEMMA SlotsKept ==
    ASSUME SlotsAccounted, UNCHANGED <<free, home>>,
           \A u \in Transfers : pc'[u] \in {"idle", "done", "killed"}
                                  <=> pc[u] \in {"idle", "done", "killed"},
           \A p \in Procs : proc'[p] # "dead" => proc[p] # "dead"
    PROVE  SlotsAccounted'
<1>1. \A p \in Procs : Holders(p)' = Holders(p)
  BY DEF Holders
<1>2. QED
  BY <1>1 DEF SlotsAccounted

(* The part of the invariant that a step of one thread can disturb: the    *)
(* types, and what is true of that thread.                                 *)
LEMMA ThreadStep ==
    ASSUME IInv, NEW t \in Transfers, Thread(t)
    PROVE  TypeOK' /\ Consistent(t)'
<1> DEFINE Local == TypeOK' /\ Consistent(t)'
<1>0. /\ TypeOK /\ Consistent(t) /\ AtHome
      /\ MaxChunks \in Nat
  BY MaxChunksAssumption DEF IInv
<1>1. CASE StartTransfer(t)
  <2>1. TypeOK'
    BY <1>0, <1>1 DEF StartTransfer, Goto, TypeOK, Steps, Statuses, Responses,
       procVars, diskVars
  <2>2. Consistent(t)'
    BY <1>0, <1>1 DEF StartTransfer, Goto, TypeOK, Unsettled, procVars, diskVars,
       Consistent, Fresh, PhaseAt, Progress,
       RecordAt, DestinationAt, LateAt, ExceptionAt, AnswerAt, Attributed, SourcePhases, Phases, Steps
  <2>3. QED
    BY <2>1, <2>2
<1>2. ASSUME NEW side \in {"source", "destination"}, Lookup(t, side) PROVE Local
  <2>1. TypeOK'
    BY <1>0, <1>2 DEF Lookup, ConnectorFails, Raise, Goto, TypeOK, Steps, Phases, SourcePhases,
       Exceptions, procVars, recordVars, diskVars
  <2>2. Consistent(t)'
    BY <1>0, <1>2 DEF Lookup, ConnectorFails, Raise, Goto, TypeOK, procVars, recordVars,
       diskVars, Consistent, Fresh, PhaseAt, Progress,
       RecordAt, DestinationAt, LateAt, ExceptionAt, AnswerAt, Attributed, SourcePhases, Phases, Steps
  <2>3. QED
    BY <2>1, <2>2
<1>3. CASE OpenSource(t)
  <2>1. TypeOK'
    BY <1>0, <1>3 DEF OpenSource, ConnectorFails, Raise, Goto, TypeOK, Steps, Phases, SourcePhases, Exceptions,
       procVars, recordVars, diskVars
  <2>2. Consistent(t)'
    BY <1>0, <1>3 DEF OpenSource, ConnectorFails, Raise, Goto, TypeOK, Unsettled, procVars, recordVars, diskVars,
       Consistent, Fresh, PhaseAt, Progress,
       RecordAt, DestinationAt, LateAt, ExceptionAt, AnswerAt, Attributed, SourcePhases, Phases, Steps
  <2>3. QED
    BY <2>1, <2>2
<1>4. CASE OpenDestination(t)
  <2>1. stage' \in SUBSET Transfers
    BY <1>0, <1>4 DEF OpenDestination, TypeOK
  <2>2. TypeOK'
    BY <1>0, <1>4, <2>1 DEF OpenDestination, ConnectorFails, Raise, Goto, TypeOK, Steps, Phases, SourcePhases, Exceptions,
       procVars, recordVars
  <2>3. Consistent(t)'
    BY <1>0, <1>4 DEF OpenDestination, ConnectorFails, Raise, Goto, TypeOK, Unsettled, procVars, recordVars,
       Consistent, Fresh, PhaseAt, Progress,
       RecordAt, DestinationAt, LateAt, ExceptionAt, AnswerAt, Attributed, SourcePhases, Phases, Steps
  <2>4. QED
    BY <2>2, <2>3
<1>5. CASE Read(t)
  <2>1. TypeOK'
    BY <1>0, <1>5 DEF Read, ConnectorFails, Raise, Goto, TypeOK, Steps, Phases, SourcePhases, Exceptions,
       procVars, recordVars, diskVars
  <2>2. Fresh(t)' /\ PhaseAt(t)' /\ Progress(t)'
    BY <1>0, <1>5 DEF Read, ConnectorFails, Raise, Goto, TypeOK, diskVars, Consistent, Fresh, PhaseAt,
       Progress
  <2>3. RecordAt(t)' /\ DestinationAt(t)' /\ LateAt(t)' /\ AnswerAt(t)'
    BY <1>0, <1>5 DEF Read, ConnectorFails, Raise, Goto, TypeOK, recordVars, diskVars, Consistent,
       RecordAt, DestinationAt, LateAt, AnswerAt
  <2>4. ExceptionAt(t)'
    BY <1>0, <1>5 DEF Read, ConnectorFails, Raise, Goto, TypeOK, recordVars, Consistent, PhaseAt,
       ExceptionAt, Attributed, SourcePhases, Steps
  <2>5. QED
    BY <2>1, <2>2, <2>3, <2>4 DEF Consistent
<1>6. CASE Write(t)
  <2>1. copied' \in [Transfers -> 0..MaxChunks] /\ stored' \in [Transfers -> 0..MaxChunks]
    BY <1>0, <1>6 DEF Write, TypeOK, Consistent, Progress
  <2>2. TypeOK'
    BY <1>0, <1>6, <2>1 DEF Write, ConnectorFails, Raise, Goto, TypeOK, Steps, Exceptions,
       procVars, recordVars
  <2>3. Consistent(t)'
    BY <1>0, <1>6 DEF Write, ConnectorFails, Raise, Goto, TypeOK, Unsettled, procVars, recordVars,
       Consistent, Fresh, PhaseAt, Progress,
       RecordAt, DestinationAt, LateAt, ExceptionAt, AnswerAt, Attributed, SourcePhases, Phases, Steps
  <2>4. QED
    BY <2>2, <2>3
<1>7. CASE Checkpoint(t)
  <2>1. TypeOK'
    BY <1>0, <1>7 DEF Checkpoint, Goto, TypeOK, Steps, Phases, SourcePhases,
       procVars, diskVars
  <2>2. Consistent(t)'
    BY <1>0, <1>7 DEF Checkpoint, Goto, TypeOK, Unsettled, procVars, diskVars,
       Consistent, Fresh, PhaseAt, Progress,
       RecordAt, DestinationAt, LateAt, ExceptionAt, AnswerAt, Attributed, SourcePhases, Phases, Steps
  <2>3. QED
    BY <2>1, <2>2
<1>8. CASE FinishSink(t)
  <2>1. TypeOK'
    BY <1>0, <1>8 DEF FinishSink, ConnectorFails, Raise, Goto, TypeOK, Steps, Phases, SourcePhases, Exceptions,
       procVars, recordVars, diskVars
  <2>2. Consistent(t)'
    BY <1>0, <1>8 DEF FinishSink, ConnectorFails, Raise, Goto, TypeOK, Unsettled, procVars, recordVars, diskVars,
       Consistent, Fresh, PhaseAt, Progress,
       RecordAt, DestinationAt, LateAt, ExceptionAt, AnswerAt, Attributed, SourcePhases, Phases, Steps
  <2>3. QED
    BY <2>1, <2>2
<1>9. CASE MarkPublishing(t)
  <2>1. TypeOK'
    BY <1>0, <1>9 DEF MarkPublishing, Raise, Goto, TypeOK, Steps, Statuses, Exceptions,
       procVars, diskVars
  <2>2. Consistent(t)'
    BY <1>0, <1>9 DEF MarkPublishing, Raise, Goto, TypeOK, Unsettled, procVars, diskVars,
       Consistent, Fresh, PhaseAt, Progress,
       RecordAt, DestinationAt, LateAt, ExceptionAt, AnswerAt, Attributed, SourcePhases, Phases, Steps
  <2>3. QED
    BY <2>1, <2>2
<1>10. CASE Publish(t)
  <2>1. stage' \in SUBSET Transfers /\ late' \in SUBSET Transfers /\ wrote' \in [Transfers -> BOOLEAN]
    BY <1>0, <1>10 DEF Publish, TypeOK
  <2>2. /\ pc' \in [Transfers -> Steps] /\ exc' \in [Transfers -> Exceptions]
        /\ culprit' \in [Transfers -> {"nobody", "source", "destination", "ledger"}]
    BY <1>0, <1>10 DEF Publish, ConnectorFails, Raise, Goto, TypeOK, Steps, Exceptions
  <2>3. TypeOK'
    BY <1>0, <1>10, <2>1, <2>2 DEF Publish, TypeOK, procVars, recordVars
  <2>4. Consistent(t)'
    BY <1>0, <1>10 DEF Publish, ConnectorFails, Raise, Goto, TypeOK, Unsettled, procVars, recordVars,
       Consistent, Fresh, PhaseAt, Progress,
       RecordAt, DestinationAt, LateAt, ExceptionAt, AnswerAt, Attributed, SourcePhases, Phases, Steps
  <2>5. QED
    BY <2>3, <2>4
<1>11. CASE ExitSink(t)
  <2>1. stage' \in SUBSET Transfers
    BY <1>0, <1>11 DEF ExitSink, TypeOK
  <2>2. TypeOK'
    BY <1>0, <1>11, <2>1 DEF ExitSink, Goto, TypeOK, Steps,
       procVars, recordVars
  <2>3. Consistent(t)'
    BY <1>0, <1>11 DEF ExitSink, Goto, TypeOK, Unsettled, procVars, recordVars,
       Consistent, Fresh, PhaseAt, Progress,
       RecordAt, DestinationAt, LateAt, ExceptionAt, AnswerAt, Attributed, SourcePhases, Phases, Steps
  <2>4. QED
    BY <2>2, <2>3
<1>12. CASE ExitSource(t)
  <2>1. TypeOK'
    BY <1>0, <1>12 DEF ExitSource, Goto, TypeOK, Steps, Exceptions,
       procVars, recordVars, diskVars
  <2>2. Consistent(t)'
    BY <1>0, <1>12 DEF ExitSource, Goto, TypeOK, Unsettled, procVars, recordVars, diskVars,
       Consistent, Fresh, PhaseAt, Progress,
       RecordAt, DestinationAt, LateAt, ExceptionAt, AnswerAt, Attributed, SourcePhases, Phases, Steps
  <2>3. QED
    BY <2>1, <2>2
<1>13. CASE Complete(t)
  <2>1. TypeOK'
    BY <1>0, <1>13 DEF Complete, Goto, TypeOK, Steps, Statuses, Responses,
       procVars, diskVars
  <2>2. Consistent(t)'
    BY <1>0, <1>13 DEF Complete, Goto, TypeOK, Unsettled, procVars, diskVars,
       Consistent, Fresh, PhaseAt, Progress,
       RecordAt, DestinationAt, LateAt, ExceptionAt, AnswerAt, Attributed, SourcePhases, Phases, Steps
  <2>3. QED
    BY <2>1, <2>2
<1>14. CASE Fail(t)
  <2>1. TypeOK'
    BY <1>0, <1>14 DEF Fail, Goto, Attributed, TypeOK, Steps, Statuses, Responses, Failures, Sides, Unsettled,
       procVars, recordVars, diskVars
  <2>2. Consistent(t)'
    BY <1>0, <1>14 DEF Fail, Goto, Attributed, TypeOK, Unsettled, procVars, recordVars, diskVars,
       Consistent, Fresh, PhaseAt, Progress,
       RecordAt, DestinationAt, LateAt, ExceptionAt, AnswerAt, Attributed, SourcePhases, Phases, Steps
  <2>3. QED
    BY <2>1, <2>2
<1>15. CASE ReleaseSlot(t)
  <2>1. free' \in [Procs -> 0..Capacity]
    <3>1. home[t] \in Procs /\ proc[home[t]] # "dead" /\ t \in Holders(home[t])
      BY <1>0, <1>15 DEF ReleaseSlot, AtHome, Holders
    <3>2. Cardinality(Holders(home[t])) > 0
      BY <3>1, HoldersFinite, FS_EmptySet
    <3>3. free[home[t]] + Cardinality(Holders(home[t])) = Capacity
      BY <3>1 DEF IInv, SlotsAccounted
    <3>4. QED
      BY <1>0, <1>15, <3>1, <3>2, <3>3, HoldersFinite, CapacityAssumption DEF ReleaseSlot, TypeOK
  <2>2. TypeOK'
    BY <1>0, <1>15, <2>1 DEF ReleaseSlot, Goto, TypeOK, Steps, recordVars, diskVars
  <2>3. Consistent(t)'
    BY <1>0, <1>15 DEF ReleaseSlot, Goto, TypeOK, recordVars, diskVars, Consistent, Fresh, PhaseAt, Progress,
       RecordAt, DestinationAt, LateAt, ExceptionAt, AnswerAt, Attributed, SourcePhases, Phases, Steps
  <2>4. QED
    BY <2>2, <2>3
<1>16. QED
  BY <1>1, <1>2, <1>3, <1>4, <1>5, <1>6, <1>7, <1>8, <1>9, <1>10, <1>11, <1>12, <1>13, <1>14, <1>15 DEF Thread, Copy

(* A step of one thread preserves the invariant of the whole service.      *)
LEMMA ThreadIInv ==
    ASSUME IInv, NEW t \in Transfers, Thread(t)
    PROVE  IInv'
<1>0. /\ TypeOK /\ OneOwner /\ AtHome /\ SlotsAccounted /\ OwnRecord
      /\ \A u \in Transfers : Consistent(u)
  BY DEF IInv
<1>1. TypeOK' /\ Consistent(t)'
  BY ThreadStep
<1>2. /\ UNCHANGED <<owner, proc, home>>
      /\ pc[t] \notin {"idle", "done", "killed"}
      /\ pc' = [pc EXCEPT ![t] = pc'[t]]
      /\ pc'[t] \notin {"idle", "killed"}
  BY <1>0 DEF Thread, StartTransfer, Lookup, OpenSource, OpenDestination, Copy, Read, Write,
     Checkpoint, FinishSink, MarkPublishing, Publish, ExitSink, ExitSource, Complete, Fail,
     ReleaseSlot, ConnectorFails, Raise, Goto, TypeOK, procVars
<1>3. ASSUME NEW u \in Transfers, u # t PROVE Consistent(u)'
  <2>1. /\ UNCHANGED <<pc[u], phase[u], exc[u], size[u], copied[u], published[u], resp[u],
                       status[u], bytes[u], failure[u], blame[u], stored[u], culprit[u], wrote[u]>>
        /\ u \in late' => u \in late
    BY <1>0, <1>3 DEF Thread, StartTransfer, Lookup, OpenSource, OpenDestination, Copy, Read, Write,
       Checkpoint, FinishSink, MarkPublishing, Publish, ExitSink, ExitSource, Complete, Fail,
       ReleaseSlot, ConnectorFails, Raise, Goto, TypeOK, procVars, recordVars, diskVars
  <2>2. QED
    BY <1>0, <2>1, Frame
<1>4. OneOwner' /\ AtHome' /\ OwnRecord'
  <2>1. \A u \in Transfers : failure'[u] \in {failure[u]} \cup Phases
    BY <1>0 DEF Thread, StartTransfer, Lookup, OpenSource, OpenDestination, Copy, Read, Write,
       Checkpoint, FinishSink, MarkPublishing, Publish, ExitSink, ExitSource, Complete, Fail,
       ReleaseSlot, TypeOK, recordVars
  <2>2. OneOwner' /\ AtHome'
    BY <1>0, <1>2 DEF OneOwner, AtHome, TypeOK
  <2>3. \A u \in Transfers : pc'[u] \notin {"idle", "done", "killed"} =>
                                pc[u] \notin {"idle", "done", "killed"}
    BY <1>0, <1>2 DEF TypeOK
  <2>4. OwnRecord'
    BY <1>0, <1>2, <2>1, <2>3 DEF OwnRecord, Phases, SourcePhases
  <2>5. QED
    BY <2>2, <2>4
<1>5. SlotsAccounted'
  <2>1. CASE ReleaseSlot(t)
    <3>1. home[t] \in Procs /\ t \in Holders(home[t])
      BY <1>0, <2>1 DEF ReleaseSlot, AtHome, Holders
    <3>2. Holders(home[t])' = Holders(home[t]) \ {t}
      BY <1>0, <2>1 DEF ReleaseSlot, Goto, Holders, TypeOK
    <3>3. \A q \in Procs : q # home[t] => Holders(q)' = Holders(q)
      BY <1>0, <2>1 DEF ReleaseSlot, Goto, Holders, TypeOK
    <3>4. Cardinality(Holders(home[t]))' = Cardinality(Holders(home[t])) - 1
      BY <3>1, <3>2, HoldersFinite, FS_RemoveElement
    <3>5. /\ free'[home[t]] = free[home[t]] + 1
          /\ \A q \in Procs : free[q] \in Nat /\ (q # home[t] => free'[q] = free[q])
      BY <1>0, <2>1, <3>1, CapacityAssumption DEF ReleaseSlot, TypeOK
    <3>6. QED
      BY <1>0, <1>2, <3>1, <3>3, <3>4, <3>5, HoldersFinite, CapacityAssumption DEF SlotsAccounted
  <2>2. CASE ~ReleaseSlot(t)
    <3>1. pc'[t] # "done" /\ UNCHANGED free
      BY <1>0, <2>2 DEF Thread, StartTransfer, Lookup, OpenSource, OpenDestination, Copy, Read,
         Write, Checkpoint, FinishSink, MarkPublishing, Publish, ExitSink, ExitSource, Complete,
         Fail, ConnectorFails, Raise, Goto, TypeOK, procVars
    <3>2. \A u \in Transfers : pc'[u] \in {"idle", "done", "killed"}
                                 <=> pc[u] \in {"idle", "done", "killed"}
      BY <1>0, <1>2, <3>1 DEF TypeOK
    <3>3. QED
      BY <1>0, <1>2, <3>1, <3>2, SlotsKept
  <2>3. QED
    BY <2>1, <2>2
<1>6. QED
  BY <1>1, <1>3, <1>4, <1>5 DEF IInv

(* Admission takes at most one slot.                                       *)
LEMMA AdmitIInv ==
    ASSUME IInv, NEW t \in Transfers, NEW p \in Procs, Admit(t, p)
    PROVE  IInv'
<1>0. /\ TypeOK /\ OneOwner /\ AtHome /\ SlotsAccounted /\ OwnRecord
      /\ \A u \in Transfers : Consistent(u)
      /\ Capacity \in Nat /\ MaxChunks \in Nat
  BY CapacityAssumption, MaxChunksAssumption DEF IInv
<1>1. TypeOK'
  BY <1>0 DEF Admit, Goto, TypeOK, Steps, Responses, recordVars, diskVars
<1>2. Consistent(t)'
  BY <1>0 DEF Admit, Goto, TypeOK, recordVars, diskVars, Consistent, Fresh, PhaseAt, Progress,
     RecordAt, DestinationAt, LateAt, ExceptionAt, AnswerAt, Attributed, SourcePhases, Phases, Steps
<1>3. ASSUME NEW u \in Transfers, u # t PROVE Consistent(u)'
  <2>1. /\ UNCHANGED <<pc[u], phase[u], exc[u], size[u], copied[u], published[u], resp[u],
                       status[u], bytes[u], failure[u], blame[u], stored[u], culprit[u], wrote[u]>>
        /\ u \in late' => u \in late
    BY <1>0, <1>3 DEF Admit, Goto, TypeOK, recordVars, diskVars
  <2>2. QED
    BY <1>0, <2>1, Frame
<1>4. OneOwner' /\ AtHome' /\ OwnRecord'
  <2>1. OneOwner' /\ AtHome'
    BY <1>0 DEF Admit, Goto, OneOwner, AtHome, TypeOK
  <2>2. failure[t] = "none"
    BY <1>0 DEF Admit, Consistent, Fresh, RecordAt
  <2>3. OwnRecord'
    BY <1>0, <2>2 DEF Admit, Goto, OwnRecord, TypeOK, recordVars
  <2>4. QED
    BY <2>1, <2>3
<1>5. SlotsAccounted'
  <2>0. t \notin Holders(p) /\ \A q \in Procs : t \notin Holders(q)
    BY <1>0 DEF Admit, Holders
  <2>1. CASE pc'[t] = "start"
    <3>1. /\ Holders(p)' = Holders(p) \cup {t}
          /\ \A q \in Procs : q # p => Holders(q)' = Holders(q)
      BY <1>0, <2>0, <2>1 DEF Admit, Goto, Holders, TypeOK
    <3>2. Cardinality(Holders(p))' = Cardinality(Holders(p)) + 1
      BY <2>0, <3>1, HoldersFinite, FS_AddElement
    <3>3. /\ free'[p] = free[p] - 1
          /\ \A q \in Procs : free[q] \in Nat /\ (q # p => free'[q] = free[q])
          /\ UNCHANGED proc
      BY <1>0, <2>1 DEF Admit, Goto, TypeOK
    <3>4. ASSUME NEW q \in Procs, proc'[q] # "dead"
          PROVE  free'[q] + Cardinality(Holders(q))' = Capacity
      <4>1. free[q] + Cardinality(Holders(q)) = Capacity
        BY <1>0, <3>3, <3>4 DEF SlotsAccounted
      <4>2. CASE q = p
        BY <1>0, <3>2, <3>3, <4>1, <4>2, HoldersFinite
      <4>3. CASE q # p
        BY <3>1, <3>3, <4>1, <4>3
      <4>4. QED
        BY <4>2, <4>3
    <3>5. QED
      BY <3>4 DEF SlotsAccounted
  <2>2. CASE pc'[t] # "start"
    <3>1. UNCHANGED <<free, proc>> /\ \A q \in Procs : Holders(q)' = Holders(q)
      BY <1>0, <2>0, <2>2 DEF Admit, Goto, Holders, TypeOK
    <3>2. QED
      BY <1>0, <3>1 DEF SlotsAccounted
  <2>3. QED
    BY <2>1, <2>2
<1>6. QED
  BY <1>1, <1>2, <1>3, <1>4, <1>5 DEF IInv

(* A request that outlived its sender changes the destination only.        *)
LEMMA LateIInv ==
    ASSUME IInv, NEW t \in Transfers, PublishLate(t)
    PROVE  IInv'
<1>0. /\ TypeOK /\ OneOwner /\ AtHome /\ SlotsAccounted /\ OwnRecord
      /\ \A u \in Transfers : Consistent(u)
  BY DEF IInv
<1>1. TypeOK' /\ OneOwner' /\ AtHome' /\ OwnRecord'
  BY <1>0 DEF PublishLate, TypeOK, OneOwner, AtHome, OwnRecord, procVars, threadVars, recordVars
<1>2. SlotsAccounted'
  BY <1>0, SlotsKept DEF PublishLate, procVars, threadVars
<1>3. ASSUME NEW u \in Transfers PROVE Consistent(u)'
  BY <1>0 DEF PublishLate, TypeOK, procVars, threadVars, recordVars, Consistent, Fresh, PhaseAt,
     Progress, RecordAt, DestinationAt, LateAt, ExceptionAt, AnswerAt, Attributed
<1>4. QED
  BY <1>1, <1>2, <1>3 DEF IInv

(* Starting, recovering, stopping and dying.                               *)
LEMMA ProcessIInv ==
    ASSUME IInv, NEW p \in Procs, Process(p)
    PROVE  IInv'
<1>0. /\ TypeOK /\ OneOwner /\ AtHome /\ SlotsAccounted /\ OwnRecord
      /\ \A u \in Transfers : Consistent(u)
      /\ NoProc \notin Procs
  BY NoProcAssumption DEF IInv
<1>1. CASE TakeLock(p) \/ ReleaseLock(p)
  <2>1. TypeOK' /\ OneOwner' /\ AtHome' /\ OwnRecord'
    BY <1>0, <1>1 DEF TakeLock, ReleaseLock, TypeOK, OneOwner, AtHome, OwnRecord, threadVars, recordVars, diskVars
  <2>2. SlotsAccounted'
    BY <1>0, <1>1, SlotsKept DEF TakeLock, ReleaseLock, TypeOK, threadVars
  <2>3. ASSUME NEW u \in Transfers PROVE Consistent(u)'
    BY <1>0, <1>1, Frame DEF TakeLock, ReleaseLock, threadVars, recordVars, diskVars
  <2>4. QED
    BY <2>1, <2>2, <2>3 DEF IInv
<1>2. CASE Recover(p)
  <2>1. TypeOK'
    BY <1>0, <1>2 DEF Recover, TypeOK, Statuses, Unsettled, Failures, threadVars, diskVars
  <2>2. OneOwner' /\ AtHome' /\ OwnRecord'
    <3>1. OneOwner' /\ AtHome'
      BY <1>0, <1>2 DEF Recover, TypeOK, OneOwner, AtHome, threadVars
    <3>2. ASSUME NEW u \in Transfers, pc[u] \notin {"idle", "done", "killed"}
          PROVE  proc[home[u]] = "stopping" /\ home[u] # p /\ home[u] \in Procs
      BY <1>0, <1>2, <3>2 DEF Recover, OneOwner, AtHome
    <3>3. OwnRecord'
      BY <1>0, <1>2, <3>2 DEF Recover, OwnRecord, TypeOK, threadVars
    <3>4. QED
      BY <3>1, <3>3
  <2>3. SlotsAccounted'
    BY <1>0, <1>2, SlotsKept DEF Recover, TypeOK, threadVars
  <2>4. ASSUME NEW u \in Transfers PROVE Consistent(u)'
    BY <1>0, <1>2 DEF Recover, TypeOK, Statuses, Unsettled, threadVars, diskVars, Consistent, Fresh,
       PhaseAt, Progress, RecordAt, DestinationAt, LateAt, ExceptionAt, AnswerAt, Attributed
  <2>5. QED
    BY <2>1, <2>2, <2>3, <2>4 DEF IInv
<1>3. CASE Crash(p)
  <2>1. TypeOK'
    BY <1>0, <1>3 DEF Crash, TypeOK, Steps, recordVars, diskVars
  <2>2. OneOwner' /\ AtHome' /\ OwnRecord'
    BY <1>0, <1>3 DEF Crash, TypeOK, OneOwner, AtHome, OwnRecord, recordVars
  <2>3. SlotsAccounted'
    <3>1. \A q \in Procs : q # p => Holders(q)' = Holders(q)
      BY <1>0, <1>3 DEF Crash, Holders
    <3>2. QED
      BY <1>0, <1>3, <3>1 DEF Crash, TypeOK, SlotsAccounted
  <2>4. ASSUME NEW u \in Transfers PROVE Consistent(u)'
    BY <1>0, <1>3 DEF Crash, TypeOK, AtHome, recordVars, diskVars, Consistent, Fresh,
       PhaseAt, Progress, RecordAt, DestinationAt, LateAt, ExceptionAt, AnswerAt, Attributed, Steps
  <2>5. QED
    BY <2>1, <2>2, <2>3, <2>4 DEF IInv
<1>4. QED
  BY <1>1, <1>2, <1>3 DEF Process

(* The invariant is inductive.                                             *)
LEMMA NextIInv == IInv /\ [Next]_vars => IInv'
<1> SUFFICES ASSUME IInv, [Next]_vars PROVE IInv'
  OBVIOUS
<1>1. CASE Next
  BY <1>1, ThreadIInv, LateIInv, AdmitIInv, ProcessIInv DEF Next
<1>2. CASE UNCHANGED vars
  BY <1>2 DEF vars, IInv, TypeOK, OneOwner, AtHome, OwnRecord, SlotsAccounted, Holders, Consistent, Fresh,
     PhaseAt, Progress, RecordAt, DestinationAt, LateAt, ExceptionAt, AnswerAt, Attributed
<1>3. QED
  BY <1>1, <1>2

(* Every reachable state satisfies the inductive invariant.                *)
THEOREM Invariance == Spec => []IInv
<1>1. QED
  BY InitIInv, NextIInv, PTL DEF Spec

(* Types hold for every number of transfers, processes and slots; in       *)
(* particular the semaphore of run is never released beyond its bound.     *)
THEOREM TypeCorrect == Spec => []TypeOK
<1>1. IInv => TypeOK
  BY DEF IInv
<1>2. QED
  BY <1>1, Invariance, PTL

(* A record that denies a change of its destination never belongs to a     *)
(* transfer that published, whatever threads outlive their process.        *)
THEOREM DenialIsTrue == Spec => []UnchangedIsUnchanged
<1>1. IInv => UnchangedIsUnchanged
  BY DEF IInv, Consistent, DestinationAt, UnchangedIsUnchanged
<1>2. QED
  BY <1>1, Invariance, PTL

(* Publishing and completed records, and those that recovery found         *)
(* publishing, stand for a whole, verified file.                           *)
THEOREM StoredInFull == Spec => []StagedInFull
<1>1. IInv => StagedInFull
  BY DEF IInv, Consistent, RecordAt, StagedInFull
<1>2. QED
  BY <1>1, Invariance, PTL

(* A failure is never attributed to the side that did not cause it.        *)
THEOREM AttributionIsRight == Spec => []BlameIsRight
<1>1. IInv => BlameIsRight
  BY DEF IInv, Consistent, ExceptionAt, BlameIsRight
<1>2. QED
  BY <1>1, Invariance, PTL

(* No path through run loses or duplicates a slot.                         *)
THEOREM SlotsAreAccounted == Spec => []SlotsAccounted
<1>1. IInv => SlotsAccounted
  BY DEF IInv
<1>2. QED
  BY <1>1, Invariance, PTL

(* One process at a time is between taking and giving up the lock.         *)
THEOREM OwnerIsAlone == Spec => []OneOwner
<1>1. IInv => OneOwner
  BY DEF IInv
<1>2. QED
  BY <1>1, Invariance, PTL

(* A settled record never changes.                                         *)
THEOREM Finality == Spec => SettledIsFinal
<1> DEFINE Frozen == \A t \in Transfers : status[t] \in {"completed", "failed"} =>
                       UNCHANGED <<status[t], bytes[t], failure[t], blame[t]>>
<1>1. IInv /\ [Next]_vars => [Frozen]_vars
  <2> SUFFICES ASSUME IInv, Next PROVE Frozen
    BY DEF vars
  <2>0. TypeOK /\ \A t \in Transfers : Consistent(t)
    BY DEF IInv
  <2>1. ASSUME NEW t \in Transfers, Thread(t) PROVE Frozen
    BY <2>0, <2>1 DEF Thread, StartTransfer, Lookup, OpenSource, OpenDestination, Copy, Read, Write,
       Checkpoint, FinishSink, MarkPublishing, Publish, ExitSink, ExitSource, Complete, Fail,
       ReleaseSlot, Unsettled, TypeOK, recordVars, Consistent, Fresh
  <2>2. ASSUME NEW t \in Transfers, NEW p \in Procs, Admit(t, p) PROVE Frozen
    BY <2>2 DEF Admit, recordVars
  <2>3. ASSUME NEW p \in Procs, Process(p) PROVE Frozen
    BY <2>3 DEF Process, TakeLock, Recover, ReleaseLock, Crash, Unsettled, recordVars
  <2>4. ASSUME NEW t \in Transfers, PublishLate(t) PROVE Frozen
    BY <2>4 DEF PublishLate, recordVars
  <2>5. QED
    BY <2>1, <2>2, <2>3, <2>4 DEF Next
<1>2. QED
  BY <1>1, Invariance, PTL DEF Spec, SettledIsFinal

(* Startup recovery never settles the record of a transfer that the        *)
(* serving owner is running.                                               *)
THEOREM RecoveryIsSafe == Spec => RecoverySparesOwnThreads
<1> DEFINE Spares == \A t \in Transfers, p \in Procs :
             /\ status[t] \in Unsettled
             /\ failure'[t] \in {"interrupted_copying", "interrupted_publishing"}
             => ~(proc[p] = "serving" /\ t \in Holders(p))
<1>1. IInv /\ [Next]_vars => [Spares]_vars
  <2> SUFFICES ASSUME IInv, Next PROVE Spares
    BY DEF vars
  <2>0. TypeOK /\ OneOwner /\ \A t \in Transfers : Consistent(t)
    BY DEF IInv
  <2>1. ASSUME NEW p \in Procs, Recover(p) PROVE Spares
    BY <2>0, <2>1 DEF Recover, OneOwner, TypeOK
  <2>2. ASSUME NEW t \in Transfers, Thread(t) PROVE Spares
    <3>1. ASSUME NEW u \in Transfers, status[u] \in Unsettled
          PROVE  failure'[u] \in {"none"} \cup Phases
      BY <2>0, <2>2, <3>1 DEF Thread, StartTransfer, Lookup, OpenSource, OpenDestination, Copy,
         Read, Write, Checkpoint, FinishSink, MarkPublishing, Publish, ExitSink, ExitSource,
         Complete, Fail, ReleaseSlot, Unsettled, TypeOK, recordVars, Consistent, RecordAt
    <3>2. QED
      BY <3>1 DEF Phases, SourcePhases
  <2>3. ASSUME UNCHANGED failure PROVE Spares
    BY <2>0, <2>3 DEF Consistent, RecordAt, Unsettled
  <2>4. ASSUME NEW t \in Transfers, NEW p \in Procs, Admit(t, p) PROVE UNCHANGED failure
    BY <2>4 DEF Admit, recordVars
  <2>5. ASSUME NEW p \in Procs, TakeLock(p) \/ ReleaseLock(p) \/ Crash(p) PROVE UNCHANGED failure
    BY <2>5 DEF TakeLock, ReleaseLock, Crash, recordVars
  <2>6. ASSUME NEW t \in Transfers, PublishLate(t) PROVE UNCHANGED failure
    BY <2>6 DEF PublishLate, recordVars
  <2>7. QED
    BY <2>1, <2>2, <2>3, <2>4, <2>5, <2>6 DEF Next, Process
<1>2. QED
  BY <1>1, Invariance, PTL DEF Spec, RecoverySparesOwnThreads

(* What the answer says of the destination is true for good; the record    *)
(* behind "was published" is publishing or was found so by recovery, and   *)
(* the latter when the answer is given only if the thread has outlived its *)
(* process's ownership.                                                    *)
THEOREM AnswersAreTrue == Spec => ResponseTellsOutcome
<1> DEFINE Current == \A t \in Transfers : resp[t] = "none" /\ resp'[t] = "unrecorded" =>
                        status'[t] = "publishing" \/ proc[home[t]] = "stopping"
<1>1. IInv /\ [Next]_vars => [Current]_vars
  <2> SUFFICES ASSUME IInv, Next PROVE Current
    BY DEF vars
  <2>0. TypeOK /\ AtHome /\ OwnRecord /\ \A t \in Transfers : Consistent(t)
    BY DEF IInv
  <2>1. ASSUME NEW t \in Transfers, Complete(t) PROVE Current
    <3>1. proc[home[t]] \in {"serving", "stopping"}
      BY <2>0, <2>1 DEF Complete, AtHome
    <3>2. proc[home[t]] = "serving" => status[t] = "publishing"
      BY <2>0, <2>1 DEF Complete, OwnRecord, Consistent, RecordAt, DestinationAt
    <3>3. \A u \in Transfers : resp[u] = "none" /\ resp'[u] = "unrecorded" =>
                                u = t /\ UNCHANGED status
      BY <2>0, <2>1 DEF Complete, TypeOK
    <3>4. QED
      BY <3>1, <3>2, <3>3
  <2>2. ASSUME NEW t \in Transfers, Thread(t), ~Complete(t) PROVE Current
    BY <2>0, <2>2 DEF Thread, StartTransfer, Lookup, OpenSource, OpenDestination, Copy, Read, Write,
       Checkpoint, FinishSink, MarkPublishing, Publish, ExitSink, ExitSource, Fail, ReleaseSlot, TypeOK
  <2>3. ASSUME NEW t \in Transfers, NEW p \in Procs, Admit(t, p) PROVE Current
    BY <2>0, <2>3 DEF Admit, TypeOK
  <2>4. ASSUME NEW p \in Procs, Process(p) PROVE Current
    BY <2>4 DEF Process, TakeLock, Recover, ReleaseLock, Crash, threadVars
  <2>5. ASSUME NEW t \in Transfers, PublishLate(t) PROVE Current
    BY <2>5 DEF PublishLate, threadVars
  <2>6. QED
    BY <2>1, <2>2, <2>3, <2>4, <2>5 DEF Next
<1>2. IInv' => AnswerFitsRecord'
  BY DEF IInv, Consistent, AnswerAt, AnswerFitsRecord
<1>3. QED
  BY <1>1, <1>2, Invariance, PTL DEF Spec, ResponseTellsOutcome

(* Every step of the service is a step of TransferRecords or leaves the    *)
(* promises of the records alone: the detailed service implements them.    *)
THEOREM Refinement == Spec => RecordsImplemented
<1> DEFINE out == [t \in Transfers |-> Outcome(t)]
<1>1. Init => Records!Init
  BY DEF Init, Records!Init, Outcome
<1>2. IInv /\ [Next]_vars => [Records!Next]_(Records!vars)
  <2> SUFFICES ASSUME IInv, [Next]_vars PROVE Records!Next \/ UNCHANGED <<out, wrote>>
    BY DEF Records!vars
  <2>0. TypeOK /\ \A t \in Transfers : Consistent(t)
    BY DEF IInv
  <2>1. ASSUME UNCHANGED <<status, failure, wrote>> PROVE UNCHANGED <<out, wrote>>
    BY <2>1 DEF Outcome
  <2>2. ASSUME NEW t \in Transfers, StartTransfer(t) PROVE Records!Next \/ UNCHANGED <<out, wrote>>
    <3>1. CASE status' = [status EXCEPT ![t] = "running"]
      <4>1. Outcome(t) = "none" /\ Outcome(t)' = "running" /\ UNCHANGED wrote
        BY <2>0, <2>2, <3>1 DEF StartTransfer, Outcome, TypeOK, Consistent, Fresh, diskVars
      <4>2. out' = [out EXCEPT ![t] = "running"]
        BY <2>0, <2>2, <3>1, <4>1 DEF StartTransfer, Outcome, TypeOK
      <4>3. Records!Start(t)
        BY <4>1, <4>2 DEF Records!Start
      <4>4. QED
        BY <4>3 DEF Records!Next
    <3>2. CASE UNCHANGED status
      BY <2>1, <2>2, <3>2 DEF StartTransfer, diskVars
    <3>3. QED
      BY <2>2, <3>1, <3>2 DEF StartTransfer
  <2>3. ASSUME NEW t \in Transfers, MarkPublishing(t)
        PROVE  Records!Next \/ UNCHANGED <<out, wrote>>
    <3>1. CASE status[t] = "running" /\ status' = [status EXCEPT ![t] = "publishing"]
      <4>1. Outcome(t) = "running" /\ Outcome(t)' = "publishing" /\ UNCHANGED wrote
        BY <2>0, <2>3, <3>1 DEF MarkPublishing, Outcome, TypeOK, diskVars
      <4>2. out' = [out EXCEPT ![t] = "publishing"]
        BY <2>0, <2>3, <3>1, <4>1 DEF MarkPublishing, Outcome, TypeOK
      <4>3. Records!Announce(t)
        BY <4>1, <4>2 DEF Records!Announce
      <4>4. QED
        BY <4>3 DEF Records!Next
    <3>2. CASE UNCHANGED status
      BY <2>1, <2>3, <3>2 DEF MarkPublishing, diskVars
    <3>3. QED
      BY <2>3, <3>1, <3>2 DEF MarkPublishing
  <2>4. ASSUME NEW t \in Transfers, Publish(t) PROVE Records!Next \/ UNCHANGED <<out, wrote>>
    <3>1. CASE wrote' = [wrote EXCEPT ![t] = TRUE]
      <4>1. Outcome(t) \in {"publishing", "uncertain"} /\ ~wrote[t]
        BY <2>0, <2>4 DEF Publish, Outcome, Consistent, RecordAt, DestinationAt
      <4>2. UNCHANGED out
        BY <2>4 DEF Publish, Outcome, recordVars
      <4>3. Records!Publish(t)
        BY <3>1, <4>1, <4>2 DEF Records!Publish
      <4>4. QED
        BY <4>3 DEF Records!Next
    <3>2. CASE UNCHANGED wrote
      BY <2>1, <2>4, <3>2 DEF Publish, recordVars
    <3>3. QED
      BY <2>4, <3>1, <3>2 DEF Publish
  <2>5. ASSUME NEW t \in Transfers, Complete(t) PROVE Records!Next \/ UNCHANGED <<out, wrote>>
    <3>1. CASE status[t] = "publishing" /\ status' = [status EXCEPT ![t] = "completed"]
      <4>1. /\ Outcome(t) = "publishing" /\ Outcome(t)' = "completed"
            /\ wrote[t] /\ UNCHANGED wrote
        BY <2>0, <2>5, <3>1 DEF Complete, Outcome, TypeOK, Consistent, DestinationAt, diskVars
      <4>2. out' = [out EXCEPT ![t] = "completed"]
        BY <2>0, <2>5, <3>1, <4>1 DEF Complete, Outcome, TypeOK
      <4>3. Records!Complete(t)
        BY <4>1, <4>2 DEF Records!Complete
      <4>4. QED
        BY <4>3 DEF Records!Next
    <3>2. CASE UNCHANGED status
      BY <2>1, <2>5, <3>2 DEF Complete, diskVars
    <3>3. QED
      BY <2>5, <3>1, <3>2 DEF Complete
  <2>6. ASSUME NEW S \in SUBSET Transfers, UNCHANGED wrote,
               \A u \in S : status[u] \in Unsettled /\ Outcome(u)' \in {"unchanged", "uncertain"},
               \A u \in S : status[u] = "publishing" => Outcome(u)' = "uncertain",
               \A u \in Transfers \ S : Outcome(u)' = Outcome(u)
        PROVE  Records!Next
    <3> DEFINE verdict == [u \in S |-> Outcome(u)']
    <3>1. verdict \in [S -> {"unchanged", "uncertain"}]
      BY <2>6
    <3>2. \A u \in S : out[u] = status[u]
      BY <2>6 DEF Outcome, Unsettled
    <3>3. out' = [u \in Transfers |-> IF u \in S THEN verdict[u] ELSE out[u]]
      BY <2>6
    <3>4. Records!Settle(S)
      BY <2>6, <3>1, <3>2, <3>3 DEF Records!Settle, Unsettled
    <3>5. QED
      BY <3>4 DEF Records!Next
  <2>7. ASSUME NEW t \in Transfers, Fail(t) PROVE Records!Next \/ UNCHANGED <<out, wrote>>
    <3>1. CASE status[t] \in Unsettled /\ status' = [status EXCEPT ![t] = "failed"]
                 /\ failure' = [failure EXCEPT ![t] = phase[t]]
      <4>1. UNCHANGED wrote /\ Outcome(t)' \in {"unchanged", "uncertain"}
        BY <2>0, <2>7, <3>1 DEF Fail, Outcome, TypeOK, diskVars
      <4>2. status[t] = "publishing" => Outcome(t)' = "uncertain"
        BY <2>0, <2>7, <3>1 DEF Fail, Outcome, TypeOK, Consistent, RecordAt
      <4>3. \A u \in Transfers \ {t} : Outcome(u)' = Outcome(u)
        BY <2>0, <3>1 DEF Outcome, TypeOK
      <4>4. QED
        BY <2>6, <3>1, <4>1, <4>2, <4>3
    <3>2. CASE UNCHANGED recordVars
      BY <2>1, <2>7, <3>2 DEF Fail, recordVars, diskVars
    <3>3. QED
      BY <2>7, <3>1, <3>2 DEF Fail
  <2>8. ASSUME NEW p \in Procs, Recover(p) PROVE Records!Next
    <3> DEFINE S == {u \in Transfers : status[u] \in Unsettled}
    <3>1. \A u \in S : status[u] \in Unsettled /\ Outcome(u)' \in {"unchanged", "uncertain"}
      BY <2>8 DEF Recover, Outcome, Unsettled
    <3>2. \A u \in S : status[u] = "publishing" => Outcome(u)' = "uncertain"
      BY <2>8 DEF Recover, Outcome, Unsettled
    <3>3. \A u \in Transfers \ S : Outcome(u)' = Outcome(u)
      BY <2>8 DEF Recover, Outcome, Unsettled
    <3>4. UNCHANGED wrote
      BY <2>8 DEF Recover, diskVars
    <3>5. QED
      BY <2>6, <3>1, <3>2, <3>3, <3>4
  <2>9. ASSUME NEW t \in Transfers, Thread(t) PROVE Records!Next \/ UNCHANGED <<out, wrote>>
    <3>1. CASE (\E side \in {"source", "destination"} : Lookup(t, side)) \/ OpenSource(t)
                 \/ OpenDestination(t) \/ Copy(t) \/ FinishSink(t) \/ ExitSink(t) \/ ExitSource(t)
                 \/ ReleaseSlot(t)
      BY <2>1, <3>1 DEF Lookup, OpenSource, OpenDestination, Copy, Read, Write, Checkpoint,
         FinishSink, ExitSink, ExitSource, ReleaseSlot, recordVars, diskVars
    <3>2. QED
      BY <2>2, <2>3, <2>4, <2>5, <2>7, <2>9, <3>1 DEF Thread
  <2>10. ASSUME NEW t \in Transfers, NEW p \in Procs, Admit(t, p) PROVE UNCHANGED <<out, wrote>>
    BY <2>1, <2>10 DEF Admit, recordVars, diskVars
  <2>11. ASSUME NEW p \in Procs, TakeLock(p) \/ ReleaseLock(p) \/ Crash(p)
         PROVE  UNCHANGED <<out, wrote>>
    BY <2>1, <2>11 DEF TakeLock, ReleaseLock, Crash, recordVars, diskVars
  <2>12. ASSUME NEW t \in Transfers, PublishLate(t) PROVE Records!Next
    <3>1. Outcome(t) \in {"publishing", "uncertain"} /\ ~wrote[t]
      BY <2>0, <2>12 DEF PublishLate, Outcome, Consistent, LateAt
    <3>2. UNCHANGED out
      BY <2>12 DEF PublishLate, Outcome, recordVars
    <3>3. Records!Publish(t)
      BY <2>12, <3>1, <3>2 DEF PublishLate, Records!Publish
    <3>4. QED
      BY <3>3 DEF Records!Next
  <2>13. CASE UNCHANGED vars
    BY <2>1, <2>13 DEF vars
  <2>14. QED
    BY <2>8, <2>9, <2>10, <2>11, <2>12, <2>13 DEF Next, Process
<1>3. QED
  BY <1>1, <1>2, Invariance, PTL DEF Spec, RecordsImplemented, Records!Spec

=============================================================================

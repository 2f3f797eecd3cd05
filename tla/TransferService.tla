-------------------------- MODULE TransferService --------------------------
(***************************************************************************)
(* The core of DataBridge: POST /transfers from the admission of the       *)
(* request to its response (databridge/transfer.py), the transfer ledger   *)
(* it writes (databridge/store.py), and the service processes that own the *)
(* database one after another (DatabaseOwnerLock, open_app).               *)
(*                                                                         *)
(* Each transfer runs in a worker thread of one process.  Between any two  *)
(* of its steps the process can be killed, or can stop serving and give up *)
(* the database lock while the worker thread is still running (Uvicorn's   *)
(* forced exit): the next process then starts, and its startup recovery    *)
(* settles records whose threads are still at work.                        *)
(*                                                                         *)
(* Connectors appear here only through the contract of connectors/base.py: *)
(* every step may fail, a sink may accept bytes it fails to store until    *)
(* finish() finds out, and a publication may take effect although its      *)
(* reply is lost.  A unit of size is one chunk.                            *)
(***************************************************************************)
EXTENDS Integers, FiniteSets

CONSTANTS
    Transfers,   \* the POST /transfers requests of a behaviour
    Procs,       \* the service processes of a behaviour
    NoProc,      \* not a process: the lock is free, or the request is not yet received
    Capacity,    \* MAX_CONCURRENT_TRANSFERS
    MaxChunks    \* bound: the largest source file, in chunks

ASSUME NoProcAssumption == NoProc \notin Procs
ASSUME CapacityAssumption == Capacity \in Nat \ {0}
ASSUME MaxChunksAssumption == MaxChunks \in Nat
ASSUME TransfersAssumption == IsFiniteSet(Transfers)

VARIABLES
    owner,      \* the process that holds the flock of the database
    proc,       \* the life of each process
    free,       \* the free slots of each process's BoundedSemaphore
    home,       \* the process whose thread runs the request
    pc,         \* the next step of each request's thread
    phase,      \* _Transfer.phase
    exc,        \* the exception in flight
    size,       \* chunks the source held when it was opened
    copied,     \* _Transfer.copied
    published,  \* the local flag of _Transfer.run
    resp,       \* the answer to the request
    status,     \* the record: status column, "none" while no row exists
    bytes,      \* the record: bytes_copied
    failure,    \* the record: failure_phase, interruption split by its message
    blame,      \* the record: the side that the error message names
    stage,      \* the transfers whose staging file exists
    stored,     \* chunks the staging file really holds
    late,       \* the transfers whose publishing request is still with the server
    culprit,    \* history: the party that raised the exception
    wrote       \* history: the transfers that have changed their destination

procVars   == <<owner, proc, free, home>>
threadVars == <<pc, phase, exc, size, copied, published, resp>>
recordVars == <<status, bytes, failure, blame>>
diskVars   == <<stage, stored, late, wrote>>
vars == <<owner, proc, free, home, pc, phase, exc, size, copied, published, resp,
          status, bytes, failure, blame, stage, stored, late, culprit, wrote>>

SourcePhases == {"source_lookup", "source_open", "source_read"}
Phases == SourcePhases \cup
    {"destination_lookup", "destination_open", "destination_write", "publication"}

Exceptions == {"none", "domain", "other", "record"}
Sides == {"nobody", "source", "destination"}

Responses == {"none", "invalid", "capacity", "not_started", "created", "unrecorded", "failed"}

Steps == {"idle", "start", "source_lookup", "destination_lookup", "source_open",
          "destination_open", "read", "write", "checkpoint", "finish", "mark", "publish",
          "sink_exit", "source_exit", "complete", "fail", "release", "done", "killed"}

Statuses == {"none", "running", "publishing", "completed", "failed"}
Unsettled == {"running", "publishing"}
Failures == Phases \cup {"none", "interrupted_copying", "interrupted_publishing"}

TypeOK ==
    /\ owner \in Procs \cup {NoProc}
    /\ proc \in [Procs -> {"off", "starting", "serving", "stopping", "dead"}]
    /\ free \in [Procs -> 0..Capacity]
    /\ home \in [Transfers -> Procs \cup {NoProc}]
    /\ pc \in [Transfers -> Steps]
    /\ phase \in [Transfers -> Phases]
    /\ exc \in [Transfers -> Exceptions]
    /\ size \in [Transfers -> 0..MaxChunks]
    /\ copied \in [Transfers -> 0..MaxChunks]
    /\ published \in [Transfers -> BOOLEAN]
    /\ resp \in [Transfers -> Responses]
    /\ status \in [Transfers -> Statuses]
    /\ bytes \in [Transfers -> 0..MaxChunks]
    /\ failure \in [Transfers -> Failures]
    /\ blame \in [Transfers -> Sides]
    /\ stage \in SUBSET Transfers /\ late \in SUBSET Transfers
    /\ stored \in [Transfers -> 0..MaxChunks]
    /\ culprit \in [Transfers -> {"nobody", "source", "destination", "ledger"}]
    /\ wrote \in [Transfers -> BOOLEAN]

Init ==
    /\ owner = NoProc
    /\ proc = [p \in Procs |-> "off"]
    /\ free = [p \in Procs |-> Capacity]
    /\ home = [t \in Transfers |-> NoProc]
    /\ pc = [t \in Transfers |-> "idle"]
    /\ phase = [t \in Transfers |-> "source_lookup"]
    /\ exc = [t \in Transfers |-> "none"]
    /\ size = [t \in Transfers |-> 0]
    /\ copied = [t \in Transfers |-> 0]
    /\ published = [t \in Transfers |-> FALSE]
    /\ resp = [t \in Transfers |-> "none"]
    /\ status = [t \in Transfers |-> "none"]
    /\ bytes = [t \in Transfers |-> 0]
    /\ failure = [t \in Transfers |-> "none"]
    /\ blame = [t \in Transfers |-> "nobody"]
    /\ stage = {} /\ late = {}
    /\ stored = [t \in Transfers |-> 0]
    /\ culprit = [t \in Transfers |-> "nobody"]
    /\ wrote = [t \in Transfers |-> FALSE]

----------------------------------------------------------------------------
(* The processes.                                                          *)

(* Mutant: the flock is not exclusive.                                     *)
TakeLockShared(p) ==
    /\ proc[p] = "off"
    /\ owner' = p
    /\ proc' = [proc EXCEPT ![p] = "starting"]
    /\ UNCHANGED <<free, home, threadVars, recordVars, diskVars, culprit>>

(* DatabaseOwnerLock.__enter__: a second process is refused and exits.     *)
TakeLock(p) ==
    /\ proc[p] = "off"
    /\ \/ owner = NoProc /\ owner' = p /\ proc' = [proc EXCEPT ![p] = "starting"]
       \/ owner # NoProc /\ owner' = owner /\ proc' = [proc EXCEPT ![p] = "dead"]
    /\ UNCHANGED <<free, home, threadVars, recordVars, diskVars, culprit>>

(* ConnectionStore.initialize, its one UPDATE over the transfers: every    *)
(* record left open is settled, with a message chosen by its old status.   *)
Recover(p) ==
    /\ proc[p] = "starting"
    /\ proc' = [proc EXCEPT ![p] = "serving"]
    /\ status' = [t \in Transfers |->
                    IF status[t] \in Unsettled THEN "failed" ELSE status[t]]
    /\ failure' = [t \in Transfers |->
                    CASE status[t] = "running" -> "interrupted_copying"
                      [] status[t] = "publishing" -> "interrupted_publishing"
                      [] OTHER -> failure[t]]
    /\ UNCHANGED <<owner, free, home, threadVars, bytes, blame, diskVars, culprit>>

(* Leaving open_app: the lock is released.  After a forced exit the        *)
(* interpreter still waits for the worker threads, which go on.            *)
ReleaseLock(p) ==
    /\ proc[p] = "serving"
    /\ owner' = NoProc
    /\ proc' = [proc EXCEPT ![p] = "stopping"]
    /\ UNCHANGED <<free, home, threadVars, recordVars, diskVars, culprit>>

(* The process is killed: its threads are gone and the operating system    *)
(* releases its lock.  A publishing request may have left before.          *)
Crash(p) ==
    /\ proc[p] \in {"starting", "serving", "stopping"}
    /\ proc' = [proc EXCEPT ![p] = "dead"]
    /\ owner' = IF owner = p THEN NoProc ELSE owner
    /\ pc' = [t \in Transfers |->
                IF home[t] = p /\ pc[t] # "done" THEN "killed" ELSE pc[t]]
    /\ \E sent \in SUBSET {t \in Transfers : home[t] = p /\ pc[t] = "publish"} :
         late' = late \cup sent
    /\ UNCHANGED <<free, home, phase, exc, size, copied, published, resp,
                   recordVars, stage, stored, wrote, culprit>>

----------------------------------------------------------------------------
(* One transfer.                                                           *)

Goto(t, step) == pc' = [pc EXCEPT ![t] = step]

(* An exception leaves the current step; the enclosing blocks unwind to    *)
(* `step` first.                                                           *)
Raise(t, kind, party, step) ==
    /\ exc' = [exc EXCEPT ![t] = kind]
    /\ culprit' = [culprit EXCEPT ![t] = party]
    /\ Goto(t, step)

(* What a connector call may raise: a DataBridgeError, or an exception     *)
(* that breaks its contract.                                               *)
ConnectorFails(t, party, step) ==
    \E kind \in {"domain", "other"} : Raise(t, kind, party, step)

(* Mutant: the try of run starts only after the record is inserted, so a   *)
(* failing insert never gives its slot back.                               *)
StartTransferLeaksSlot(t) ==
    /\ pc[t] = "start"
    /\ \/ /\ status' = [status EXCEPT ![t] = "running"]
          /\ Goto(t, "source_lookup")
          /\ UNCHANGED resp
       \/ /\ resp' = [resp EXCEPT ![t] = "not_started"]
          /\ Goto(t, "done")
          /\ UNCHANGED status
    /\ UNCHANGED <<procVars, phase, exc, size, copied, published,
                   bytes, failure, blame, diskVars, culprit>>

(* TransferService.run up to the try: filenames, SAME_FILE, then a slot    *)
(* taken without blocking.                                                 *)
Admit(t, p) ==
    /\ pc[t] = "idle"
    /\ proc[p] = "serving"
    /\ home' = [home EXCEPT ![t] = p]
    /\ \/ /\ Goto(t, "done")
          /\ resp' = [resp EXCEPT ![t] = "invalid"]
          /\ UNCHANGED free
       \/ /\ free[p] = 0
          /\ Goto(t, "done")
          /\ resp' = [resp EXCEPT ![t] = "capacity"]
          /\ UNCHANGED free
       \/ /\ free[p] > 0
          /\ free' = [free EXCEPT ![p] = @ - 1]
          /\ Goto(t, "start")
          /\ UNCHANGED resp
    /\ UNCHANGED <<owner, proc, phase, exc, size, copied, published, recordVars, diskVars, culprit>>

(* ledger.start_transfer: the row is inserted, or nothing is and the error *)
(* cites no id.                                                            *)
StartTransfer(t) ==
    /\ pc[t] = "start"
    /\ \/ /\ status' = [status EXCEPT ![t] = "running"]
          /\ Goto(t, "source_lookup")
          /\ UNCHANGED resp
       \/ /\ resp' = [resp EXCEPT ![t] = "not_started"]
          /\ Goto(t, "release")
          /\ UNCHANGED status
    /\ UNCHANGED <<procVars, phase, exc, size, copied, published,
                   bytes, failure, blame, diskVars, culprit>>

(* _connector for both sides.                                              *)
Lookup(t, side) ==
    LET here == IF side = "source" THEN "source_lookup" ELSE "destination_lookup"
        then == IF side = "source" THEN "destination_lookup" ELSE "source_open"
    IN  /\ pc[t] = here
        /\ \/ /\ Goto(t, then)
              /\ phase' = [phase EXCEPT ![t] = then]
              /\ UNCHANGED <<exc, culprit>>
           \/ /\ ConnectorFails(t, side, "fail")
              /\ UNCHANGED phase
        /\ UNCHANGED <<procVars, size, copied, published, resp, recordVars, diskVars>>

(* Entering source.read: the size is fixed when the file is opened.        *)
OpenSource(t) ==
    /\ pc[t] = "source_open"
    /\ \/ /\ \E n \in 0..MaxChunks : size' = [size EXCEPT ![t] = n]
          /\ phase' = [phase EXCEPT ![t] = "destination_open"]
          /\ Goto(t, "destination_open")
          /\ UNCHANGED <<exc, culprit>>
       \/ /\ ConnectorFails(t, "source", "fail")
          /\ UNCHANGED <<size, phase>>
    /\ UNCHANGED <<procVars, copied, published, resp, recordVars, diskVars>>

(* Entering destination.write: the stage is created, or the connector      *)
(* fails, removing a stage that was created nevertheless if it can.        *)
OpenDestination(t) ==
    /\ pc[t] = "destination_open"
    /\ \/ /\ stage' = stage \cup {t}
          /\ phase' = [phase EXCEPT ![t] = "source_read"]
          /\ Goto(t, "read")
          /\ UNCHANGED <<exc, culprit>>
       \/ /\ ConnectorFails(t, "destination", "source_exit")
          /\ stage' \in {stage, stage \cup {t}}
          /\ UNCHANGED phase
    /\ UNCHANGED <<procVars, size, copied, published, resp, recordVars, stored, late, wrote>>

(* Mutant: the phase is not set again before writer.finish.                *)
ReadKeepsPhase(t) ==
    /\ pc[t] = "read"
    /\ \/ /\ phase' = IF copied[t] < size[t]
                     THEN [phase EXCEPT ![t] = "destination_write"] ELSE phase
          /\ Goto(t, IF copied[t] < size[t] THEN "write" ELSE "finish")
          /\ UNCHANGED <<exc, culprit>>
       \/ /\ ConnectorFails(t, "source", "sink_exit")
          /\ UNCHANGED phase
    /\ UNCHANGED <<procVars, size, copied, published, resp, recordVars, diskVars>>

(* Mutant: the end of the file is noticed one chunk late.                  *)
ReadPastEnd(t) ==
    /\ pc[t] = "read"
    /\ phase' = [phase EXCEPT ![t] = "destination_write"]
    /\ Goto(t, IF copied[t] <= size[t] THEN "write" ELSE "finish")
    /\ UNCHANGED <<procVars, exc, size, copied, published, resp, recordVars, diskVars, culprit>>

(* reader.read in _copy: a chunk, the end of the file, or an error (a      *)
(* source that became shorter included).  At the end the phase becomes     *)
(* destination_write before writer.finish.                                 *)
Read(t) ==
    /\ pc[t] = "read"
    /\ \/ /\ phase' = [phase EXCEPT ![t] = "destination_write"]
          /\ Goto(t, IF copied[t] < size[t] THEN "write" ELSE "finish")
          /\ UNCHANGED <<exc, culprit>>
       \/ /\ ConnectorFails(t, "source", "sink_exit")
          /\ UNCHANGED phase
    /\ UNCHANGED <<procVars, size, copied, published, resp, recordVars, diskVars>>

(* Mutant: the byte count is not advanced, and the same chunk comes again. *)
WriteNotCounted(t) ==
    /\ pc[t] = "write"
    /\ Goto(t, "checkpoint")
    /\ UNCHANGED <<procVars, phase, exc, size, copied, published, resp, recordVars, diskVars, culprit>>

(* writer.write in _copy: the sink takes the chunk, which it may yet fail  *)
(* to store, or raises.                                                    *)
Write(t) ==
    /\ pc[t] = "write"
    /\ \/ /\ copied' = [copied EXCEPT ![t] = @ + 1]
          /\ \E n \in {0, 1} : stored' = [stored EXCEPT ![t] = @ + n]
          /\ Goto(t, "checkpoint")
          /\ UNCHANGED <<exc, culprit>>
       \/ /\ ConnectorFails(t, "destination", "sink_exit")
          /\ UNCHANGED <<copied, stored>>
    /\ UNCHANGED <<procVars, phase, size, published, resp, recordVars, stage, late, wrote>>

(* _checkpoint: progress is saved when it is due and the record is still   *)
(* running; a database failure or a conflict is only logged.               *)
Checkpoint(t) ==
    /\ pc[t] = "checkpoint"
    /\ phase' = [phase EXCEPT ![t] = "source_read"]
    /\ Goto(t, "read")
    /\ \/ status[t] = "running" /\ bytes' = [bytes EXCEPT ![t] = copied[t]]
       \/ UNCHANGED bytes
    /\ UNCHANGED <<procVars, exc, size, copied, published, resp, status, failure, blame,
                   diskVars, culprit>>

(* Mutant: finish returns before every write result has arrived.           *)
FinishSinkEarly(t) ==
    /\ pc[t] = "finish"
    /\ phase' = [phase EXCEPT ![t] = "publication"]
    /\ Goto(t, "mark")
    /\ UNCHANGED <<procVars, exc, size, copied, published, resp, recordVars, diskVars, culprit>>

(* writer.finish: every byte is proved to be stored, or it raises.         *)
FinishSink(t) ==
    /\ pc[t] = "finish"
    /\ \/ /\ stored[t] = copied[t]
          /\ phase' = [phase EXCEPT ![t] = "publication"]
          /\ Goto(t, "mark")
          /\ UNCHANGED <<exc, culprit>>
       \/ /\ ConnectorFails(t, "destination", "sink_exit")
          /\ UNCHANGED phase
    /\ UNCHANGED <<procVars, size, copied, published, resp, recordVars, diskVars>>

(* Mutant: a failing mark_publishing is logged like failing progress.      *)
MarkPublishingLenient(t) ==
    /\ pc[t] = "mark"
    /\ Goto(t, "publish")
    /\ \/ /\ status[t] = "running"
          /\ status' = [status EXCEPT ![t] = "publishing"]
          /\ bytes' = [bytes EXCEPT ![t] = copied[t]]
       \/ UNCHANGED <<status, bytes>>
    /\ UNCHANGED <<procVars, phase, exc, size, copied, published, resp, failure, blame,
                   diskVars, culprit>>

(* Mutant: the UPDATE does not test the status it replaces.                *)
MarkPublishingBlind(t) ==
    /\ pc[t] = "mark"
    /\ status' = [status EXCEPT ![t] = "publishing"]
    /\ bytes' = [bytes EXCEPT ![t] = copied[t]]
    /\ Goto(t, "publish")
    /\ UNCHANGED <<procVars, phase, exc, size, copied, published, resp, failure, blame,
                   diskVars, culprit>>

(* ledger.mark_publishing: compare-and-set on 'running'.                   *)
MarkPublishing(t) ==
    /\ pc[t] = "mark"
    /\ \/ /\ status[t] = "running"
          /\ status' = [status EXCEPT ![t] = "publishing"]
          /\ bytes' = [bytes EXCEPT ![t] = copied[t]]
          /\ Goto(t, "publish")
          /\ UNCHANGED <<exc, culprit>>
       \/ /\ Raise(t, "record", "ledger", "sink_exit")
          /\ UNCHANGED <<status, bytes>>
    /\ UNCHANGED <<procVars, phase, size, copied, published, resp, failure, blame, diskVars>>

(* Leaving destination.write without an exception: the stage becomes the   *)
(* destination.  The rename takes the stage's name away, the hard link     *)
(* leaves it for the clean-up.  As Sink says, an error usually means no    *)
(* effect; but when the reply to a rename is lost, it may have been        *)
(* carried out, or may be carried out later.                               *)
Publish(t) ==
    /\ pc[t] = "publish"
    /\ \/ /\ wrote' = [wrote EXCEPT ![t] = TRUE]
          /\ stage' \in {stage, stage \ {t}}
          /\ Goto(t, "sink_exit")
          /\ UNCHANGED <<exc, culprit, late>>
       \/ /\ wrote' = [wrote EXCEPT ![t] = TRUE]
          /\ stage' = stage \ {t}
          /\ Raise(t, "domain", "destination", "sink_exit")
          /\ UNCHANGED late
       \/ /\ late' = late \cup {t}
          /\ Raise(t, "domain", "destination", "sink_exit")
          /\ UNCHANGED <<wrote, stage>>
       \/ /\ ConnectorFails(t, "destination", "sink_exit")
          /\ UNCHANGED <<wrote, stage, late>>
    /\ UNCHANGED <<procVars, phase, size, copied, published, resp, recordVars, stored>>

(* The server carries out a rename whose sender has given up or is dead.   *)
PublishLate(t) ==
    /\ t \in late /\ t \in stage
    /\ late' = late \ {t} /\ stage' = stage \ {t}
    /\ wrote' = [wrote EXCEPT ![t] = TRUE]
    /\ UNCHANGED <<procVars, threadVars, recordVars, stored, culprit>>

(* The connector's finally: the stage is removed, and a failing removal    *)
(* is only logged.  Without an exception `published` is then set.          *)
ExitSink(t) ==
    /\ pc[t] = "sink_exit"
    /\ stage' \in {stage, stage \ {t}}
    /\ published' = [published EXCEPT ![t] = (exc[t] = "none")]
    /\ Goto(t, "source_exit")
    /\ UNCHANGED <<procVars, phase, exc, size, copied, resp, recordVars, stored, late, wrote, culprit>>

(* Mutant: every exception of the with statements fails the transfer.      *)
ExitSourceFails(t) ==
    /\ pc[t] = "source_exit"
    /\ \/ UNCHANGED <<exc, culprit>>
       \/ /\ exc[t] = "none"
          /\ exc' = [exc EXCEPT ![t] = "other"]
          /\ culprit' = [culprit EXCEPT ![t] = "source"]
    /\ Goto(t, IF exc'[t] = "none" THEN "complete" ELSE "fail")
    /\ UNCHANGED <<procVars, phase, size, copied, published, resp, recordVars, diskVars>>

(* Leaving source.read, and the except clause of run.  Releasing the       *)
(* source may itself raise; once `published` is set that is only logged.   *)
ExitSource(t) ==
    /\ pc[t] = "source_exit"
    /\ \/ UNCHANGED <<exc, culprit>>
       \/ /\ exc[t] = "none"
          /\ exc' = [exc EXCEPT ![t] = "other"]
          /\ culprit' = [culprit EXCEPT ![t] = "source"]
    /\ Goto(t, IF published[t] THEN "complete" ELSE "fail")
    /\ UNCHANGED <<procVars, phase, size, copied, published, resp, recordVars, diskVars>>

(* _finish: compare-and-set on 'publishing'.  A database failure, which    *)
(* may come in any state of the record, and a conflict with a recovery     *)
(* that has settled the record get one answer: the file was published and  *)
(* its record "stays 'publishing'".                                        *)
Complete(t) ==
    /\ pc[t] = "complete"
    /\ \/ /\ status[t] = "publishing"
          /\ status' = [status EXCEPT ![t] = "completed"]
          /\ resp' = [resp EXCEPT ![t] = "created"]
       \/ /\ resp' = [resp EXCEPT ![t] = "unrecorded"]
          /\ UNCHANGED status
    /\ Goto(t, "release")
    /\ UNCHANGED <<procVars, phase, exc, size, copied, published, bytes, failure, blame,
                   diskVars, culprit>>

(* The side that the error message names: none for an exception that the   *)
(* ledger raised or that has no code of its own in this phase.             *)
Attributed(kind, ph) ==
    IF kind = "record" \/ (kind = "other" /\ ph \notin {"source_read", "destination_write"})
    THEN "nobody"
    ELSE IF ph \in SourcePhases THEN "source" ELSE "destination"

(* Mutant: the UPDATE of fail_transfer does not test the status.           *)
FailBlind(t) ==
    /\ pc[t] = "fail"
    /\ status' = [status EXCEPT ![t] = "failed"]
    /\ bytes' = [bytes EXCEPT ![t] = copied[t]]
    /\ failure' = [failure EXCEPT ![t] = phase[t]]
    /\ blame' = [blame EXCEPT ![t] = Attributed(exc[t], phase[t])]
    /\ resp' = [resp EXCEPT ![t] = "failed"]
    /\ Goto(t, "release")
    /\ UNCHANGED <<procVars, phase, exc, size, copied, published, diskVars, culprit>>

(* _fail: compare-and-set on an unsettled record; a record that cannot be  *)
(* changed is only logged.                                                 *)
Fail(t) ==
    /\ pc[t] = "fail"
    /\ \/ /\ status[t] \in Unsettled
          /\ status' = [status EXCEPT ![t] = "failed"]
          /\ bytes' = [bytes EXCEPT ![t] = copied[t]]
          /\ failure' = [failure EXCEPT ![t] = phase[t]]
          /\ blame' = [blame EXCEPT ![t] = Attributed(exc[t], phase[t])]
       \/ UNCHANGED recordVars
    /\ resp' = [resp EXCEPT ![t] = "failed"]
    /\ Goto(t, "release")
    /\ UNCHANGED <<procVars, phase, exc, size, copied, published, diskVars, culprit>>

(* The finally of TransferService.run.                                     *)
ReleaseSlot(t) ==
    /\ pc[t] = "release"
    /\ free' = [free EXCEPT ![home[t]] = @ + 1]
    /\ Goto(t, "done")
    /\ UNCHANGED <<owner, proc, home, phase, exc, size, copied, published, resp, recordVars,
                   diskVars, culprit>>

----------------------------------------------------------------------------
Copy(t) == Read(t) \/ Write(t) \/ Checkpoint(t)

(* A worker thread after admission.                                        *)
Thread(t) ==
    \/ StartTransfer(t)
    \/ \E side \in {"source", "destination"} : Lookup(t, side)
    \/ OpenSource(t) \/ OpenDestination(t)
    \/ Copy(t)
    \/ FinishSink(t) \/ MarkPublishing(t) \/ Publish(t)
    \/ ExitSink(t) \/ ExitSource(t)
    \/ Complete(t) \/ Fail(t) \/ ReleaseSlot(t)

Process(p) == TakeLock(p) \/ Recover(p) \/ ReleaseLock(p) \/ Crash(p)

Next ==
    \/ \E p \in Procs : Process(p)
    \/ \E t \in Transfers, p \in Procs : Admit(t, p)
    \/ \E t \in Transfers : Thread(t) \/ PublishLate(t)

Spec == Init /\ [][Next]_vars

(* Every I/O step of a transfer returns: local calls finish and the SFTP   *)
(* watchdog bounds every remote one but the closing of a session whose     *)
(* server has stopped reading (Held of SftpSession), which is              *)
(* left out here.  Nothing is assumed of clients, process starts, crashes  *)
(* or the database.                                                        *)
FairSpec == Spec /\ \A t \in Transfers : WF_vars(Thread(t))

----------------------------------------------------------------------------
(* A record that promises a stored file: `publishing` means that every     *)
(* byte of the source is staged and verified (the comment at the call of   *)
(* writer.finish), the message of a recovery that found it publishing says *)
(* that the destination may contain the new file, and `completed` that it  *)
(* is the destination; all of them report the full size.                   *)
StagedInFull ==
    \A t \in Transfers :
        /\ status[t] \in {"publishing", "completed"} \/ failure[t] = "interrupted_publishing" =>
             stored[t] = size[t] /\ bytes[t] = size[t]
        /\ status[t] = "completed" => wrote[t]

(* A record that says its destination is unchanged tells the truth, now    *)
(* and ever after: a failure before the publication phase, and the startup *)
(* message "the destination is unchanged", belong to transfers that never  *)
(* published, even if their threads outlived the process that ran them.    *)
UnchangedIsUnchanged ==
    \A t \in Transfers :
        /\ status[t] = "failed"
        /\ failure[t] \notin {"publication", "interrupted_publishing"}
        => ~wrote[t]

(* What the client is told about the destination is true for good: 201     *)
(* only with a completed record, "was published" only if it was, and then  *)
(* with a record that is `publishing` or was found so by a recovery (which *)
(* of the two, ResponseTellsOutcome says), a failure never for a           *)
(* publication the connector confirmed, and no record behind a request     *)
(* that was refused.                                                       *)
AnswerFitsRecord ==
    \A t \in Transfers :
        /\ resp[t] = "created" => status[t] = "completed"
        /\ resp[t] = "unrecorded" =>
             /\ wrote[t]
             /\ \/ status[t] = "publishing"
                \/ status[t] = "failed" /\ failure[t] = "interrupted_publishing"
        /\ resp[t] = "failed" => ~published[t] /\ status[t] \notin {"none", "completed"}
        /\ resp[t] \in {"invalid", "capacity", "not_started"} => status[t] = "none"

(* The error message never names the wrong side, late write failures that  *)
(* surface only in writer.finish included.                                 *)
BlameIsRight == \A t \in Transfers : blame[t] \in {"nobody", culprit[t]}

(* The threads of process p that hold one of its slots.                    *)
Holders(p) == {t \in Transfers : home[t] = p /\ pc[t] \notin {"idle", "done", "killed"}}

(* No path through run loses or duplicates a slot: in a living process the *)
(* free slots and the transfers in progress add up to the capacity.        *)
SlotsAccounted ==
    \A p \in Procs : proc[p] # "dead" => free[p] + Cardinality(Holders(p)) = Capacity

(* The owner lock: one process at most is between taking the lock and      *)
(* giving it up, and it is the owner.                                      *)
OneOwner == \A p \in Procs : proc[p] \in {"starting", "serving"} => owner = p

(* Compare-and-set: a record that has settled never changes again,         *)
(* whatever a thread of an earlier process does late.                      *)
SettledIsFinal ==
    [][\A t \in Transfers : status[t] \in {"completed", "failed"} =>
         UNCHANGED <<status[t], bytes[t], failure[t], blame[t]>>]_vars

(* Startup recovery marks only transfers that no thread of the owning      *)
(* process is running (the reason DatabaseOwnerLock gives for the lock).   *)
RecoverySparesOwnThreads ==
    [][\A t \in Transfers, p \in Procs :
         /\ status[t] \in Unsettled
         /\ failure'[t] \in {"interrupted_copying", "interrupted_publishing"}
         => ~(proc[p] = "serving" /\ t \in Holders(p))]_vars

(* The client is told what happened.  The answer fits the record from then *)
(* on; and what _finish says, that the record stays 'publishing', is true  *)
(* when it is said, if the process still owns the database: only a thread  *)
(* that outlived the ownership of its process can say so of a record that  *)
(* the next owner has already marked as interrupted.                       *)
ResponseTellsOutcome ==
    [][/\ AnswerFitsRecord'
       /\ \A t \in Transfers : resp[t] = "none" /\ resp'[t] = "unrecorded" =>
            status'[t] = "publishing" \/ proc[home[t]] = "stopping"]_vars

(* Every admitted request is answered unless its process is killed.        *)
EveryTransferReturns ==
    \A t \in Transfers : pc[t] = "start" ~> pc[t] \in {"done", "killed"}

(* What the record of a transfer promises, in the words of TransferRecords. *)
Outcome(t) ==
    IF status[t] # "failed" THEN status[t]
    ELSE IF failure[t] \in {"publication", "interrupted_publishing"}
         THEN "uncertain" ELSE "unchanged"

Records == INSTANCE TransferRecords WITH
    outcome <- [t \in Transfers |-> Outcome(t)],
    published <- wrote

(* The service implements the promise of its records.                      *)
RecordsImplemented == Records!Spec

=============================================================================

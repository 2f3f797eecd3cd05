----------------------------- MODULE LocalWrite -----------------------------
(***************************************************************************)
(* LocalConnector.write (databridge/connectors/local.py): several writers  *)
(* stage and publish a file under one destination name, while other        *)
(* programs create and remove that name, the process is killed, or the     *)
(* machine loses power.                                                    *)
(*                                                                         *)
(* The directory entry of the destination is a history: `hist` lists what  *)
(* the name has referred to, and entries up to `low` are on disk.  A power *)
(* loss may take the entry back to any later point of the history, and     *)
(* cuts a file that was never synced short.  A unit of data is one chunk.  *)
(*                                                                         *)
(* Writers reach this name from roots of their own: directly, when it is   *)
(* an entry of the root, or through a symbolic link in the root, which     *)
(* _resolve follows into a directory below.                                *)
(***************************************************************************)
EXTENDS Integers, Sequences, SequencesExt

CONSTANTS
    Writers,      \* the writes of a behaviour, each with a staging id of its own
    Direct,       \* the writers whose root holds the destination's entry itself
    MaxChunks,    \* bound: chunks of one file
    MaxHistory    \* bound: changes of the destination's directory entry

ASSUME WritersAssumption == {"absent", "foreign"} \cap Writers = {}
ASSUME DirectAssumption == Direct \subseteq Writers
ASSUME MaxChunksAssumption == MaxChunks \in Nat
ASSUME MaxHistoryAssumption == MaxHistory \in Nat \ {0}

VARIABLES
    overwrite,  \* the argument of each write
    size,       \* chunks the caller will write
    pc,         \* the next step of each write
    result,     \* how the context exited
    written,    \* _FileSink.bytes_written
    data,       \* chunks the staged inode holds
    synced,     \* whether they are on disk
    stage,      \* the writers whose staging name exists
    hist, low,  \* the destination's directory entry, see above
    pubAt,      \* history: where in hist a writer published, 0 if nowhere
    dirSynced,  \* history: _sync_directory succeeded after the publication
    leaked      \* history: removing the stage failed, or power was lost

vars == <<overwrite, size, pc, result, written, data, synced, stage, hist, low,
          pubAt, dirSynced, leaked>>

dest == Last(hist)

Steps == {"idle", "inspect", "create", "write", "finish", "ready", "publish", "sync", "cleanup",
          "done", "dead"}

TypeOK ==
    /\ overwrite \in [Writers -> BOOLEAN]
    /\ size \in [Writers -> 0..MaxChunks]
    /\ pc \in [Writers -> Steps]
    /\ result \in [Writers -> {"none", "ok", "error"}]
    /\ written \in [Writers -> 0..MaxChunks]
    /\ data \in [Writers -> 0..MaxChunks]
    /\ synced \in [Writers -> BOOLEAN]
    /\ stage \in SUBSET Writers
    /\ hist \in Seq(Writers \cup {"absent", "foreign"}) /\ Len(hist) \in 1..MaxHistory
    /\ low \in 1..Len(hist)
    /\ pubAt \in [Writers -> 0..MaxHistory]
    /\ dirSynced \in [Writers -> BOOLEAN]
    /\ leaked \in [Writers -> BOOLEAN]

Init ==
    /\ overwrite \in [Writers -> BOOLEAN]
    /\ size \in [Writers -> 0..MaxChunks]
    /\ pc = [w \in Writers |-> "idle"]
    /\ result = [w \in Writers |-> "none"]
    /\ written = [w \in Writers |-> 0]
    /\ data = [w \in Writers |-> 0]
    /\ synced = [w \in Writers |-> FALSE]
    /\ stage = {}
    /\ hist \in {<<"absent">>, <<"foreign">>} /\ low = 1
    /\ pubAt = [w \in Writers |-> 0]
    /\ dirSynced = [w \in Writers |-> FALSE]
    /\ leaked = [w \in Writers |-> FALSE]

Goto(w, step) == pc' = [pc EXCEPT ![w] = step]
Finish(w, how) == result' = [result EXCEPT ![w] = how]

(* An error unwinds to the finally clause, or past it if the stage was     *)
(* never opened.                                                           *)
Unwind(w) == Goto(w, "cleanup") /\ Finish(w, "error")
Refuse(w) == Goto(w, "done") /\ Finish(w, "error")

disk == <<stage, hist, low>>
sink == <<written, data, synced>>
notes == <<pubAt, dirSynced, leaked>>

(* _resolve: the root is there and the name stays inside it.               *)
Resolve(w) ==
    /\ pc[w] = "idle"
    /\ \/ Goto(w, "inspect") /\ UNCHANGED result
       \/ Refuse(w)
    /\ UNCHANGED <<overwrite, size, sink, disk, notes>>

(* _existing_file: an existing destination is refused unless overwriting.  *)
Inspect(w) ==
    /\ pc[w] = "inspect"
    /\ \/ /\ dest = "absent" \/ overwrite[w]
          /\ Goto(w, "create") /\ UNCHANGED result
       \/ Refuse(w)
    /\ UNCHANGED <<overwrite, size, sink, disk, notes>>

(* os.open with O_CREAT | O_EXCL.                                          *)
Create(w) ==
    /\ pc[w] = "create"
    /\ \/ w \notin stage /\ stage' = stage \cup {w} /\ Goto(w, "write") /\ UNCHANGED result
       \/ Refuse(w) /\ UNCHANGED stage
    /\ UNCHANGED <<overwrite, size, sink, hist, low, notes>>

(* _FileSink.write until the caller has no more chunks; the caller, or     *)
(* os.write, may raise instead.                                            *)
Write(w) ==
    /\ pc[w] = "write"
    /\ \/ /\ written[w] < size[w]
          /\ written' = [written EXCEPT ![w] = @ + 1]
          /\ data' = [data EXCEPT ![w] = @ + 1]
          /\ UNCHANGED <<pc, result>>
       \/ written[w] = size[w] /\ Goto(w, "finish") /\ UNCHANGED <<written, data, result>>
       \/ Unwind(w) /\ UNCHANGED <<written, data>>
    /\ UNCHANGED <<overwrite, size, synced, disk, notes>>

(* Mutant: the stage is published without waiting for the disk.            *)
FinishSinkUnsynced(w) ==
    /\ pc[w] = "finish"
    /\ Goto(w, "ready")
    /\ UNCHANGED <<overwrite, size, result, sink, disk, notes>>

(* _persist: the stage is on disk, and holds every byte written.           *)
Persist(w) == synced' = [synced EXCEPT ![w] = TRUE] /\ data[w] = written[w]

(* _FileSink.finish: fsync, the size check and close, any of which may     *)
(* fail.                                                                   *)
FinishSink(w) ==
    /\ pc[w] = "finish"
    /\ \/ Persist(w) /\ Goto(w, "ready") /\ UNCHANGED result
       \/ synced' \in {synced, [synced EXCEPT ![w] = TRUE]} /\ Unwind(w)
    /\ UNCHANGED <<overwrite, size, written, data, disk, notes>>

(* Between finish and the exit of the context the caller may still raise,  *)
(* as when mark_publishing fails.                                          *)
Exit(w) ==
    /\ pc[w] = "ready"
    /\ \/ Goto(w, "publish") /\ UNCHANGED result
       \/ Unwind(w)
    /\ UNCHANGED <<overwrite, size, sink, disk, notes>>

Record(value) == hist' = Append(hist, value)

(* Mutant: the collision check before the copy is relied on.               *)
PublishByRename(w) ==
    /\ pc[w] = "publish"
    /\ Len(hist) < MaxHistory
    /\ Record(w)
    /\ stage' = stage \ {w}
    /\ pubAt' = [pubAt EXCEPT ![w] = Len(hist) + 1]
    /\ Goto(w, "sync")
    /\ UNCHANGED <<overwrite, size, result, sink, low, dirSynced, leaked>>

(* _publish: os.replace moves the stage onto the destination, os.link adds *)
(* a second name unless the destination exists.                            *)
Publish(w) ==
    /\ pc[w] = "publish"
    /\ \/ /\ Len(hist) < MaxHistory
          /\ overwrite[w] \/ dest = "absent"
          /\ Record(w)
          /\ stage' = IF overwrite[w] THEN stage \ {w} ELSE stage
          /\ pubAt' = [pubAt EXCEPT ![w] = Len(hist) + 1]
          /\ Goto(w, "sync") /\ UNCHANGED result
       \/ Unwind(w) /\ UNCHANGED <<hist, stage, pubAt>>
    /\ UNCHANGED <<overwrite, size, sink, low, dirSynced, leaked>>

(* fsync of the writer's root puts the destination's entry on disk if the  *)
(* root holds it.                                                          *)
SyncRoot(w) == low' = IF w \in Direct THEN Len(hist) ELSE low

(* Mutant: a failing directory sync fails the write.                       *)
SyncDirectoryStrict(w) ==
    /\ pc[w] = "sync"
    /\ \/ SyncRoot(w) /\ dirSynced' = [dirSynced EXCEPT ![w] = TRUE] /\ Finish(w, "ok")
       \/ UNCHANGED <<low, dirSynced>> /\ Finish(w, "error")
    /\ Goto(w, "cleanup")
    /\ UNCHANGED <<overwrite, size, sink, stage, hist, pubAt, leaked>>

(* Mutant: the staging file's own descriptor is synced, not its directory. *)
SyncDirectoryNothing(w) ==
    /\ pc[w] = "sync"
    /\ dirSynced' = [dirSynced EXCEPT ![w] = TRUE]
    /\ Finish(w, "ok") /\ Goto(w, "cleanup")
    /\ UNCHANGED <<overwrite, size, sink, disk, pubAt, leaked>>

(* _sync_directory(root): a failure is only logged.                        *)
SyncDirectory(w) ==
    /\ pc[w] = "sync"
    /\ \/ SyncRoot(w) /\ dirSynced' = [dirSynced EXCEPT ![w] = TRUE]
       \/ UNCHANGED <<low, dirSynced>>
    /\ Finish(w, "ok") /\ Goto(w, "cleanup")
    /\ UNCHANGED <<overwrite, size, sink, stage, hist, pubAt, leaked>>

(* Mutant: the stage is removed after failures only, as for SFTP.          *)
CleanUpFailures(w) ==
    /\ pc[w] = "cleanup"
    /\ stage' = IF result[w] = "error" THEN stage \ {w} ELSE stage
    /\ Goto(w, "done")
    /\ UNCHANGED <<overwrite, size, result, sink, hist, low, notes>>

(* The finally clause: sink.release and _remove, whose failure is logged.  *)
CleanUp(w) ==
    /\ pc[w] = "cleanup"
    /\ \/ stage' = stage \ {w} /\ UNCHANGED leaked
       \/ UNCHANGED stage /\ leaked' = [leaked EXCEPT ![w] = TRUE]
    /\ Goto(w, "done")
    /\ UNCHANGED <<overwrite, size, result, sink, hist, low, pubAt, dirSynced>>

(* Other programs create and remove the destination.                       *)
Foreign ==
    /\ Len(hist) < MaxHistory
    /\ Record(IF dest = "absent" THEN "foreign" ELSE "absent")
    /\ UNCHANGED <<overwrite, size, pc, result, sink, stage, low, notes>>

Dying == {w \in Writers : pc[w] \notin {"idle", "done"}}

(* The process is killed; the operating system keeps every file.           *)
Kill ==
    /\ Dying # {}
    /\ pc' = [w \in Writers |-> IF w \in Dying THEN "dead" ELSE pc[w]]
    /\ UNCHANGED <<overwrite, size, result, sink, disk, notes>>

(* The machine stops: what was not synced may be lost, a removal included. *)
PowerLoss ==
    /\ pc' = [w \in Writers |-> IF w \in Dying THEN "dead" ELSE pc[w]]
    /\ \E n \in low..Len(hist) : hist' = SubSeq(hist, 1, n) /\ low' = n
    /\ \E kept \in [Writers -> 0..MaxChunks] :
         /\ \A w \in Writers : kept[w] <= data[w] /\ (synced[w] => kept[w] = data[w])
         /\ data' = kept
    /\ stage' \in SUBSET {w \in Writers : pc[w] \notin {"idle", "inspect", "create"}}
    /\ leaked' = [w \in Writers |-> leaked[w] \/ pc[w] # "idle"]
    /\ UNCHANGED <<overwrite, size, result, written, synced, pubAt, dirSynced>>

Step(w) ==
    \/ Resolve(w) \/ Inspect(w) \/ Create(w) \/ Write(w) \/ FinishSink(w) \/ Exit(w)
    \/ Publish(w) \/ SyncDirectory(w) \/ CleanUp(w)

Next == (\E w \in Writers : Step(w)) \/ Foreign \/ Kill \/ PowerLoss

Spec == Init /\ [][Next]_vars

----------------------------------------------------------------------------
(* Whoever looks at the destination, at any moment and after any power     *)
(* loss, finds no file of DataBridge's or a whole one.                     *)
NeverTorn == dest \in Writers => data[dest] = size[dest]

Contract == INSTANCE Sink WITH
    Sinks <- Writers,
    stored <- [w \in Writers |-> synced[w] /\ data[w] = size[w]],
    changed <- [w \in Writers |-> pubAt[w] > 0],
    told <- [w \in Writers |-> CASE result[w] = "none" -> "nothing"
                                 [] result[w] = "ok" -> "ok"
                                 [] OTHER -> "unchanged"]

(* The connector contract: only a file that is whole and on disk becomes   *)
(* the destination, and after an error the write has not changed it, so a  *)
(* failure that strikes after the publication must not become an error.    *)
SinkImplemented == Contract!Spec

(* A stage stays behind a write that returned only if its removal failed   *)
(* or a later power loss undid it; the hard link of a publication without  *)
(* overwrite leaves one to remove.                                         *)
NoStageLeft == \A w \in stage : pc[w] = "done" => leaked[w]

(* Whatever the destination was just before a write without overwrite      *)
(* became it, it was no file: not one that appeared after _existing_file   *)
(* looked, nor one that a power loss brought back.                         *)
NoClobber ==
    \A i \in 2..Len(hist) :
        hist[i] \in Writers /\ ~overwrite[hist[i]] => hist[i - 1] = "absent"

(* The publication of w is still part of the destination's history.        *)
Lasts(w) == pubAt[w] \in 1..Len(hist) /\ hist[pubAt[w]] = w

(* A write whose directory sync succeeded survives every later power loss, *)
(* if its root is the directory that holds the destination's entry.  Of a  *)
(* destination behind a symbolic link it is false: write syncs the root,   *)
(* and the entry is in the directory the link leads to.                    *)
SyncedSurvives == \A w \in Direct : dirSynced[w] => Lasts(w)

=============================================================================

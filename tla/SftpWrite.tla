------------------------------ MODULE SftpWrite ------------------------------
(***************************************************************************)
(* SFTPConnector.write with _Upload, _publish and _Requests                *)
(* (databridge/connectors/sftp.py): one upload over one SSH session.       *)
(*                                                                         *)
(* Writes are pipelined: up to Window requests await their status, and the *)
(* server answers each of them on its own.  Every other request waits for  *)
(* its reply.  The session may be lost at any moment, by the network or by *)
(* the watchdog that closes it when a reply is overdue; a request that was *)
(* in flight may still be carried out by the server, long after the client *)
(* has given up.  The server and the other users of its directory are      *)
(* external.  A write request carries one chunk.                           *)
(***************************************************************************)
EXTENDS Integers

CONSTANTS
    Window,      \* WINDOW: requests in flight
    MaxChunks    \* bound: chunks of the upload

ASSUME WindowAssumption == Window \in Nat \ {0}
ASSUME MaxChunksAssumption == MaxChunks \in Nat

VARIABLES
    overwrite, size,  \* the request: may the destination be replaced, chunks to write
    replaces,         \* whether the server's RENAME replaces an existing file
    posixRename,      \* whether the server has posix-rename@openssh.com
    link,             \* the session, "up" or "down"
    pc, result,       \* the client's next step, and how the context exited
    sent, acked,      \* _Upload: requests sent, and statuses received, in order
    wr,               \* the server's view of each write
    stage, dest,      \* the server's files
    late,             \* the request that was in flight when the session was lost
    wrote,            \* history: the upload has become the destination
    intruder,         \* history: another user's file appeared after the last check
    garbled,          \* history: the reply to a rename that was done could not be parsed
    leaked            \* history: the server refused to remove the stage

client == <<pc, result, sent, acked>>
server == <<wr, stage, dest, late>>
input == <<overwrite, size, replaces, posixRename>>
notes == <<wrote, intruder, garbled, leaked>>
vars == <<overwrite, size, replaces, posixRename, link, pc, result, sent, acked, wr, stage, dest,
          late, wrote, intruder, garbled, leaked>>

Steps == {"inspect", "open", "copy", "drain", "fsync", "close", "stat", "setstat", "ready",
          "check", "rename", "recheck", "cleanup", "done"}
AfterCheck == {"rename", "recheck", "cleanup", "done"}

TypeOK ==
    /\ overwrite \in BOOLEAN /\ size \in 0..MaxChunks
    /\ replaces \in BOOLEAN /\ posixRename \in BOOLEAN
    /\ link \in {"up", "down"}
    /\ pc \in Steps /\ result \in {"none", "ok", "maybe", "error"}
    /\ sent \in 0..size /\ acked \in 0..sent
    /\ wr \in [1..MaxChunks -> {"none", "queued", "ok", "failed"}]
    /\ stage \in BOOLEAN /\ dest \in {"absent", "foreign", "ours"}
    /\ late \in {"none", "open", "rename", "remove"}
    /\ wrote \in BOOLEAN /\ intruder \in BOOLEAN /\ garbled \in BOOLEAN /\ leaked \in BOOLEAN

Init ==
    /\ overwrite \in BOOLEAN /\ size \in 0..MaxChunks
    /\ replaces \in BOOLEAN /\ posixRename \in BOOLEAN
    /\ link = "up" /\ pc = "inspect" /\ result = "none"
    /\ sent = 0 /\ acked = 0
    /\ wr = [i \in 1..MaxChunks |-> "none"]
    /\ stage = FALSE /\ dest \in {"absent", "foreign"}
    /\ late = "none"
    /\ wrote = FALSE /\ intruder = FALSE /\ garbled = FALSE /\ leaked = FALSE

----------------------------------------------------------------------------
(* The client.                                                             *)

(* An error inside the try of write: its finally clause comes next.        *)
Fail == pc' = "cleanup" /\ result' = "error"

(* A call that is refused, answered with an unusable reply or not answered *)
(* changes nothing on the server that the client relies on.                *)
CallFails ==
    /\ Fail
    /\ link' \in {link, "down"}
    /\ UNCHANGED <<sent, acked, server, notes>>

(* A call that only asks or settles: it succeeds over a living session.    *)
CallSucceeds(next) ==
    /\ link = "up"
    /\ pc' = next
    /\ UNCHANGED <<link, result, sent, acked, server, notes>>

(* _replaceable_mode, before the try of write.                             *)
Inspect ==
    /\ pc = "inspect"
    /\ \/ (dest = "absent" \/ overwrite) /\ CallSucceeds("open")
       \/ /\ pc' = "done" /\ result' = "error" /\ link' \in {link, "down"}
          /\ UNCHANGED <<sent, acked, server, notes>>
    /\ UNCHANGED input

(* Mutant: only an upload that was opened is cleaned up.                   *)
OpenStageOutsideTry ==
    /\ pc = "open"
    /\ \/ /\ link = "up" /\ stage' = TRUE /\ pc' = "copy"
          /\ UNCHANGED <<link, result, late>>
       \/ /\ link = "up" /\ stage' = TRUE /\ pc' = "done" /\ result' = "error"
          /\ UNCHANGED <<link, late>>
    /\ UNCHANGED <<input, sent, acked, wr, dest, notes>>

(* OPEN of the stage with CREATE | EXCL.  The server may create the file   *)
(* although its reply fails or is lost.                                    *)
OpenStage ==
    /\ pc = "open"
    /\ \/ /\ link = "up" /\ stage' = TRUE /\ pc' = "copy"
          /\ UNCHANGED <<link, result, late>>
       \/ /\ link = "up" /\ stage' = TRUE /\ Fail
          /\ UNCHANGED <<link, late>>
       \/ /\ link = "up" /\ link' = "down" /\ late' = "open" /\ Fail
          /\ UNCHANGED stage
       \/ Fail /\ UNCHANGED <<link, stage, late>>
    /\ UNCHANGED <<input, sent, acked, wr, dest, notes>>

(* receive of the oldest unacknowledged write.  A reply that came with an  *)
(* earlier one is at hand even when the session is lost.                   *)
ReceiveStatus ==
    \/ /\ wr[acked + 1] = "ok" /\ acked' = acked + 1
       /\ UNCHANGED <<pc, result>>
    \/ /\ link = "down" \/ wr[acked + 1] = "failed"
       /\ Fail /\ acked' = acked + 1

(* _Upload.write for each chunk: a full window waits for a status first.   *)
(* The caller's source may fail instead, and ends with finish.             *)
Copy ==
    /\ pc = "copy"
    /\ \/ /\ sent < size /\ sent - acked >= Window
          /\ ReceiveStatus /\ UNCHANGED <<sent, wr>>
       \/ /\ sent < size /\ sent - acked < Window
          /\ \/ /\ link = "up" /\ sent' = sent + 1 /\ wr' = [wr EXCEPT ![sent + 1] = "queued"]
                /\ UNCHANGED <<pc, result>>
             \/ link = "down" /\ Fail /\ UNCHANGED <<sent, wr>>
          /\ UNCHANGED acked
       \/ sent = size /\ pc' = "drain" /\ UNCHANGED <<result, sent, acked, wr>>
       \/ Fail /\ UNCHANGED <<sent, acked, wr>>
    /\ UNCHANGED <<input, link, stage, dest, late, notes>>

(* Mutant: the replies still in flight at close are ignored, as by         *)
(* paramiko's SFTPFile.                                                    *)
DrainNothing ==
    /\ pc = "drain" /\ pc' = "fsync"
    /\ UNCHANGED <<input, link, result, sent, acked, server, notes>>

(* _Upload.finish: every write status is collected ...                     *)
Drain ==
    /\ pc = "drain"
    /\ \/ acked < sent /\ ReceiveStatus
       \/ acked = sent /\ pc' = "fsync" /\ UNCHANGED <<result, acked>>
    /\ UNCHANGED <<input, link, sent, server, notes>>

(* ... the file is synced where the server can, and closed ...             *)
Settle ==
    /\ \/ pc = "fsync" /\ (CallSucceeds("close") \/ CallFails)
       \/ pc = "close" /\ (CallSucceeds("stat") \/ CallFails)
    /\ UNCHANGED input

(* The size that STAT reports: a write that failed before one that did not *)
(* leaves a hole, which the size does not show.                            *)
StageSize == CHOOSE n \in 0..MaxChunks :
    /\ \A i \in n + 1..MaxChunks : wr[i] # "ok"
    /\ n > 0 => wr[n] = "ok"

(* ... its size is verified, and it takes the replaced file's mode.        *)
Verify ==
    /\ \/ pc = "stat" /\ ((StageSize = sent /\ CallSucceeds("setstat")) \/ CallFails)
       \/ pc = "setstat" /\ (CallSucceeds("ready") \/ CallFails)
    /\ UNCHANGED input

(* The context exits; the caller may have raised since finish, as when     *)
(* mark_publishing fails.                                                  *)
Exit ==
    /\ pc = "ready"
    /\ \/ pc' = (IF overwrite THEN "rename" ELSE "check") /\ UNCHANGED <<result>>
       \/ Fail
    /\ UNCHANGED <<input, link, sent, acked, server, notes>>

(* Mutant: RENAME is trusted never to replace a file.                      *)
CheckNothing ==
    /\ pc = "check" /\ pc' = "rename"
    /\ UNCHANGED <<input, link, result, sent, acked, server, notes>>

(* _publish without overwrite: the collision check.                        *)
Check ==
    /\ pc = "check"
    /\ (dest = "absent" /\ CallSucceeds("rename")) \/ CallFails
    /\ UNCHANGED input

(* What the server does with a rename request.                             *)
RenameAllowed == IF overwrite THEN posixRename ELSE dest = "absent" \/ replaces
RenameDone == dest' = "ours" /\ stage' = FALSE /\ wrote' = TRUE

(* The error for a lost session says that the destination may already      *)
(* contain the new file.                                                   *)
Unknown == pc' = "cleanup" /\ result' = "maybe"

(* A reply other than success.  Without overwrite a plain failure is       *)
(* looked into; the status codes of a lost connection count as one.        *)
Refused ==
    \/ pc' \in {IF overwrite THEN "cleanup" ELSE "recheck", "cleanup"} /\ result' = "error"
    \/ Unknown

(* Mutant: a publish request without a reply is reported like a refusal.   *)
RenameLossHidden ==
    /\ pc = "rename"
    /\ \/ /\ link = "up" /\ RenameAllowed /\ RenameDone
          /\ pc' = "done" /\ result' = "ok" /\ UNCHANGED <<link, late>>
       \/ /\ link = "up" /\ link' = "down" /\ late' = "rename" /\ Fail
          /\ UNCHANGED <<stage, dest, wrote>>
    /\ UNCHANGED <<input, sent, acked, wr, intruder, garbled, leaked>>

(* _publish: the request is answered with success or with a refusal, or    *)
(* its answer is lost.  A reply that cannot be parsed counts as a refusal, *)
(* also when the request was carried out.                                  *)
Rename ==
    /\ pc = "rename"
    /\ \/ /\ link = "up" /\ RenameAllowed /\ RenameDone
          /\ pc' = "done" /\ result' = "ok" /\ UNCHANGED <<link, late, garbled>>
       \/ link = "up" /\ Refused /\ UNCHANGED <<link, late, stage, dest, wrote, garbled>>
       \/ /\ link = "up" /\ RenameAllowed /\ RenameDone
          /\ Refused /\ garbled' = TRUE /\ UNCHANGED <<link, late>>
       \/ /\ link = "up" /\ link' = "down" /\ late' = "rename"
          /\ Unknown /\ UNCHANGED <<stage, dest, wrote, garbled>>
       \/ link = "down" /\ Unknown /\ UNCHANGED <<link, late, stage, dest, wrote, garbled>>
    /\ UNCHANGED <<input, sent, acked, wr, intruder, leaked>>

(* The second check decides only which error is raised.                    *)
Recheck == pc = "recheck" /\ CallFails /\ UNCHANGED input

(* The finally clause of write: release, which ignores the replies still   *)
(* expected and closes the handle, then remove_quietly.                    *)
CleanUp ==
    /\ pc = "cleanup"
    /\ \/ link = "up" /\ stage' = FALSE /\ UNCHANGED <<link, late, leaked>>
       \/ link = "up" /\ leaked' = TRUE /\ UNCHANGED <<link, stage, late>>
       \/ link = "up" /\ link' = "down" /\ late' = "remove" /\ UNCHANGED <<stage, leaked>>
       \/ link = "down" /\ UNCHANGED <<link, stage, late, leaked>>
    /\ pc' = "done"
    /\ UNCHANGED <<input, result, sent, acked, wr, dest, wrote, intruder, garbled>>

----------------------------------------------------------------------------
(* The server and the network.                                             *)

Oldest(i) == wr[i] = "queued" /\ \A j \in 1..i - 1 : wr[j] # "queued"

ServeWrite ==
    /\ \E i \in 1..MaxChunks, outcome \in {"ok", "failed"} :
         Oldest(i) /\ wr' = [wr EXCEPT ![i] = outcome]
    /\ UNCHANGED <<input, link, client, stage, dest, late, notes>>

(* A request that outlived its session is carried out.                     *)
ServeLate ==
    /\ late # "none" /\ late' = "none"
    /\ \/ late = "open" /\ stage' = TRUE /\ UNCHANGED <<dest, wrote>>
       \/ late = "remove" /\ stage' = FALSE /\ UNCHANGED <<dest, wrote>>
       \/ late = "rename" /\ RenameAllowed /\ RenameDone
    /\ UNCHANGED <<input, link, client, wr, intruder, garbled, leaked>>

Drop ==
    /\ link = "up" /\ link' = "down"
    /\ UNCHANGED <<input, client, server, notes>>

(* The client waits in receive for a status that has not come.             *)
Waiting ==
    /\ \/ pc = "copy" /\ sent < size /\ sent - acked >= Window
       \/ pc = "drain" /\ acked < sent
    /\ wr[acked + 1] = "queued"

(* Mutant: nothing bounds the wait for a reply.                            *)
ExpireNever == FALSE /\ UNCHANGED vars

(* _Watchdog closes the transport of an overdue step.                      *)
Expire == Waiting /\ Drop

(* Another user of the server creates or removes the destination.          *)
Foreign ==
    /\ \/ dest = "absent" /\ dest' = "foreign" /\ intruder' = (intruder \/ pc \in AfterCheck)
       \/ dest = "foreign" /\ dest' = "absent" /\ UNCHANGED intruder
    /\ UNCHANGED <<input, link, client, wr, stage, late, wrote, garbled, leaked>>

Client ==
    \/ Inspect \/ OpenStage \/ Copy \/ Drain \/ Settle \/ Verify \/ Exit \/ Check \/ Rename
    \/ Recheck \/ CleanUp

Next == Client \/ ServeWrite \/ ServeLate \/ Drop \/ Expire \/ Foreign

Spec == Init /\ [][Next]_vars

(* The client's thread runs, and the watchdog's deadline passes.  Nothing  *)
(* is assumed of the server.                                               *)
FairSpec == Spec /\ WF_vars(Client) /\ WF_vars(Expire)

----------------------------------------------------------------------------
(* What becomes the destination is the whole upload: a hole left by a      *)
(* write that the server refused, which the size check cannot see, is      *)
(* found before publication.                                               *)
PublishedIsWhole == wrote => \A i \in 1..size : wr[i] = "ok"

Contract == INSTANCE Sink WITH
    Sinks <- {"upload"},
    stored <- [s \in {"upload"} |-> \A i \in 1..size : wr[i] = "ok"],
    changed <- [s \in {"upload"} |-> wrote],
    told <- [s \in {"upload"} |-> CASE result = "none" -> "nothing"
                                    [] result = "ok" -> "ok"
                                    [] result = "maybe" \/ garbled -> "unknown"
                                    [] OTHER -> "unchanged"]

(* The connector contract: an error without the words "may already contain *)
(* the new file" means that the destination is not and never will be       *)
(* changed by this upload, not even by a request still in flight.  The     *)
(* exception is a rename whose reply could not be parsed.                  *)
SinkImplemented == Contract!Spec

(* The stage is removed after every failure, including an OPEN whose reply *)
(* failed, unless the session was lost or the server refused.              *)
NoStageLeft == pc = "done" /\ stage => link = "down" \/ leaked

(* Without overwrite another user's file is replaced only by a server      *)
(* whose RENAME replaces, and only if it appeared after the last check.    *)
NoClobber ==
    [][dest = "foreign" /\ dest' = "ours" /\ ~overwrite => replaces /\ intruder]_vars

(* The write returns, however the server behaves.                          *)
WriteReturns == <>(pc = "done")

=============================================================================

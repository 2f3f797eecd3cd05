------------------------------ MODULE Directory -------------------------------
(***************************************************************************)
(* list_files and check_access of both connectors                          *)
(* (databridge/connectors/local.py, sftp.py) with bounded_listing          *)
(* (databridge/connectors/base.py).                                        *)
(*                                                                         *)
(* The directory is what the other side says: any entries, without an end  *)
(* if it likes.  An SFTP server sends them in pages, and may leave out the *)
(* mode of an entry, which LSTAT then asks for, up to Window entries ahead *)
(* of the consumer.  Every call may be refused, answered badly or lost     *)
(* with the session; that each call returns is the subject of SftpSession. *)
(***************************************************************************)
EXTENDS Integers, Sequences, FiniteSets, SequencesExt

CONSTANTS
    MaxScan,     \* MAX_LIST_SCAN
    MaxResults,  \* MAX_LIST_RESULTS
    Window,      \* WINDOW
    MaxPage      \* bound: entries of one READDIR reply

ASSUME CapsAssumption == MaxScan \in Nat /\ MaxResults \in Nat
ASSUME PagesAssumption == Window \in Nat \ {0} /\ MaxPage \in Nat \ {0}

VARIABLES
    request,    \* "list" or "check"
    backend,    \* "local" or "sftp"
    pc, link,   \* the next step, and the session, "up" or "down"
    handle,     \* whether the directory is open
    page,       \* entries of the last READDIR reply that no batch holds yet
    batch,      \* entries of the current batch that were not yielded yet
    lookups,    \* LSTAT requests whose reply is neither received nor ignored
    seen,       \* history: for each entry that bounded_listing got, whether it is a file to list
    files,      \* files, as positions in seen
    result,     \* "none", "listed", "truncated", "writable", "readonly" or "error"
    ended,      \* history: the directory's end was reported
    served,     \* history: entries that the directory had delivered by then
    probe,      \* whether the probe exists
    late,       \* the request that was in flight when the session was lost
    stuck       \* history: the removal of the probe was refused

entries == <<handle, page, batch, lookups, served, ended>>
listing == <<seen, files>>
probing == <<probe, late, stuck>>
vars == <<request, backend, pc, link, handle, page, batch, lookups, seen, files, result, ended,
          served, probe, late, stuck>>

(* "file": a regular file whose name validate_filename accepts; "bare":    *)
(* one whose mode READDIR left out; "other": anything else, names that are *)
(* not UTF-8 or reserved included.                                         *)
Kinds == {"file", "bare", "other"}
Pages == BoundedSeq(Kinds, MaxPage) \ {<<>>}
Bare(s) == Cardinality({i \in DOMAIN s : s[i] = "bare"})

TypeOK ==
    /\ request \in {"list", "check"} /\ backend \in {"local", "sftp"}
    /\ pc \in {"open", "scan", "readdir", "batch", "yield", "close", "probe", "remove", "cleanup",
               "done"}
    /\ link \in {"up", "down"} /\ handle \in BOOLEAN /\ ended \in BOOLEAN
    /\ page \in Seq(Kinds) /\ batch \in Seq(Kinds) /\ lookups \in 0..Window
    /\ seen \in Seq(BOOLEAN) /\ files \subseteq DOMAIN seen /\ served \in Nat
    /\ result \in {"none", "listed", "truncated", "writable", "readonly", "error"}
    /\ probe \in BOOLEAN /\ late \in {"none", "create", "remove"} /\ stuck \in BOOLEAN

Init ==
    /\ request \in {"list", "check"} /\ backend \in {"local", "sftp"}
    /\ pc = "open" /\ link = "up" /\ result = "none"
    /\ handle = FALSE /\ page = <<>> /\ batch = <<>> /\ lookups = 0 /\ served = 0 /\ ended = FALSE
    /\ seen = <<>> /\ files = {}
    /\ probe = FALSE /\ late = "none" /\ stuck = FALSE

----------------------------------------------------------------------------
(* bounded_listing.                                                        *)

(* The listing is complete, cut short or failed; what was opened is closed *)
(* next, and lookups still in flight are ignored.                          *)
Return(how) == pc' = "close" /\ result' = how /\ lookups' = 0

(* Mutant: the scan cap counts what it lets through.                       *)
ConsumeAtCap(isFile, pending) ==
    /\ seen' = Append(seen, isFile)
    /\ IF Len(seen') >= MaxScan \/ (isFile /\ Cardinality(files) >= MaxResults)
       THEN Return("truncated") /\ UNCHANGED files
       ELSE /\ files' = IF isFile THEN files \cup {Len(seen')} ELSE files
            /\ lookups' = pending /\ UNCHANGED <<pc, result>>

(* One turn of the loop; pending lookups are left if it goes on.           *)
Consume(isFile, pending) ==
    /\ seen' = Append(seen, isFile)
    /\ IF Len(seen') > MaxScan \/ (isFile /\ Cardinality(files) >= MaxResults)
       THEN Return("truncated") /\ UNCHANGED files
       ELSE /\ files' = IF isFile THEN files \cup {Len(seen')} ELSE files
            /\ lookups' = pending /\ UNCHANGED <<pc, result>>

----------------------------------------------------------------------------
(* Entries.                                                                *)

(* A call that raises; a lost session stays lost.                          *)
Raises == link' \in (IF backend = "sftp" THEN {link, "down"} ELSE {"up"})

(* scandir or OPENDIR.  check_access of SFTP asks no more than that.       *)
OpenDirectory ==
    /\ pc = "open"
    /\ \/ /\ handle' = TRUE
          /\ pc' = IF backend = "local" THEN "scan" ELSE IF request = "list" THEN "readdir" ELSE "close"
          /\ UNCHANGED <<link, result>>
       \/ pc' = "done" /\ result' = "error" /\ Raises /\ UNCHANGED handle
    /\ UNCHANGED <<request, backend, page, batch, lookups, served, ended, listing, probing>>

(* LocalConnector.list_files.                                              *)
Scan ==
    /\ pc = "scan"
    /\ \/ /\ served' = served + 1 /\ UNCHANGED ended
          /\ \E isFile \in BOOLEAN : Consume(isFile, lookups)
       \/ ended' = TRUE /\ Return("listed") /\ UNCHANGED <<served, listing>>
       \/ Return("error") /\ UNCHANGED <<served, ended, listing>>
    /\ UNCHANGED <<request, backend, link, handle, page, batch, probing>>

(* Mutant: a page without entries is one like any other.                   *)
ReaddirEmpty ==
    /\ pc = "readdir"
    /\ \/ \E p \in Pages \cup {<<>>} :
             /\ page' = p /\ served' = served + Len(p) /\ pc' = "batch"
             /\ UNCHANGED <<result, lookups, ended, link>>
       \/ ended' = TRUE /\ Return("listed") /\ UNCHANGED <<page, served, link>>
    /\ UNCHANGED <<request, backend, handle, batch, listing, probing>>

(* _entries: a page, the end of the directory, or an error; a page without *)
(* entries is one, and so is a lost session.                               *)
Readdir ==
    /\ pc = "readdir"
    /\ \/ \E p \in Pages :
             /\ page' = p /\ served' = served + Len(p) /\ pc' = "batch"
             /\ UNCHANGED <<result, lookups, ended, link>>
       \/ ended' = TRUE /\ Return("listed") /\ UNCHANGED <<page, served, link>>
       \/ Return("error") /\ Raises /\ UNCHANGED <<page, served, ended>>
    /\ UNCHANGED <<request, backend, handle, batch, listing, probing>>

(* _classified: LSTAT is sent for the bare entries of a batch, before the  *)
(* try whose finally gives lookups up; a send fails with its session only. *)
Batch ==
    /\ pc = "batch"
    /\ LET n == IF Len(page) < Window THEN Len(page) ELSE Window
           next == SubSeq(page, 1, n)
       IN  \/ page = <<>> /\ pc' = "readdir" /\ UNCHANGED <<page, batch, lookups, result, link>>
           \/ /\ page # <<>> /\ batch' = next /\ page' = SubSeq(page, n + 1, Len(page))
              /\ lookups' = Bare(next) /\ pc' = "yield" /\ UNCHANGED <<result, link>>
           \/ /\ Bare(next) > 0 /\ lookups' \in 1..Bare(next) /\ link' = "down"
              /\ pc' = "close" /\ result' = "error" /\ UNCHANGED <<page, batch>>
    /\ UNCHANGED <<request, backend, handle, served, ended, listing, probing>>

(* One entry of the batch.  An entry removed or hidden since READDIR is    *)
(* none to list; any other failure of LSTAT ends the listing.              *)
Yield ==
    /\ pc = "yield"
    /\ \/ batch = <<>> /\ pc' = "batch" /\ UNCHANGED <<batch, lookups, listing, result, link>>
       \/ /\ batch # <<>> /\ Head(batch) # "bare" /\ batch' = Tail(batch)
          /\ Consume(Head(batch) = "file", lookups) /\ UNCHANGED link
       \/ /\ batch # <<>> /\ Head(batch) = "bare" /\ batch' = Tail(batch)
          /\ \/ (\E isFile \in BOOLEAN : Consume(isFile, lookups - 1)) /\ UNCHANGED link
             \/ Return("error") /\ Raises /\ UNCHANGED listing
    /\ UNCHANGED <<request, backend, handle, page, served, ended, probing>>

(* The generator's finally clauses, or scandir's exit.                     *)
CloseDirectory ==
    /\ pc = "close"
    /\ IF request = "check" /\ result # "error"
       THEN pc' = "probe" /\ result' = "none"
       ELSE pc' = "done" /\ UNCHANGED result
    /\ \/ link = "up" /\ handle' = FALSE /\ UNCHANGED link
       \/ backend = "sftp" /\ link' = "down" /\ UNCHANGED handle
    /\ UNCHANGED <<request, backend, page, batch, lookups, served, ended, listing, probing>>

----------------------------------------------------------------------------
(* The probe of check_access.                                              *)

Answered(how, next) == result' = how /\ pc' = next

(* An error of the local check, or of the SFTP check, whose finally clause *)
(* comes next.                                                             *)
ProbeFails == Answered("error", IF backend = "local" THEN "done" ELSE "cleanup")

(* A request whose reply is lost: the server may carry it out later.       *)
Lose(what) ==
    /\ backend = "sftp" /\ link' = "down"
    /\ late' \in (IF link = "up" THEN {what, "none"} ELSE {late})
    /\ UNCHANGED <<probe, stuck>>

(* The probe is created exclusively, under a name of its own.  A server    *)
(* may create it although its reply is a failure; only SFTP_PERMISSION_-   *)
(* DENIED is taken, as check_access takes it, to mean that it did not.     *)
CreateProbe ==
    /\ pc = "probe"
    /\ \/ /\ link = "up" /\ probe' = TRUE /\ pc' = "remove" /\ UNCHANGED <<link, late, stuck, result>>
       \/ /\ link = "up" /\ Answered("readonly", IF backend = "local" THEN "done" ELSE "cleanup")
          /\ UNCHANGED <<link, probing>>
       \/ /\ link = "up" /\ ProbeFails /\ probe' \in {FALSE, backend = "sftp"}
          /\ UNCHANGED <<link, late, stuck>>
       \/ Lose("create") /\ ProbeFails
    /\ UNCHANGED <<request, backend, entries, listing>>

(* What becomes of a request to remove the probe.                          *)
Removed == link = "up" /\ probe' = FALSE /\ UNCHANGED <<link, late, stuck>>
NotRemoved == \/ link = "up" /\ stuck' = TRUE /\ UNCHANGED <<link, probe, late>>
              \/ Lose("remove")

(* Mutant: whether the probe is gone is not looked at.                     *)
RemoveProbeUnchecked ==
    /\ pc = "remove" /\ Answered("writable", "done")
    /\ Removed \/ NotRemoved
    /\ UNCHANGED <<request, backend, entries, listing>>

(* A probe that cannot be removed fails the check; so does a reply that    *)
(* cannot be parsed.                                                       *)
RemoveProbe ==
    /\ pc = "remove"
    /\ \/ Removed /\ Answered("writable", "done")
       \/ Removed /\ backend = "sftp" /\ ProbeFails
       \/ NotRemoved /\ ProbeFails
    /\ UNCHANGED <<request, backend, entries, listing>>

(* remove_quietly, in the finally clause of the SFTP check.                *)
CleanUp ==
    /\ pc = "cleanup" /\ pc' = "done"
    /\ Removed \/ NotRemoved
    /\ UNCHANGED <<request, backend, entries, listing, result>>

(* The server carries out a request that outlived its session.             *)
ServeLate ==
    /\ late # "none" /\ probe' = (late = "create") /\ late' = "none"
    /\ UNCHANGED <<request, backend, pc, link, entries, listing, result, stuck>>

Client ==
    \/ OpenDirectory \/ Scan \/ Readdir \/ Batch \/ Yield \/ CloseDirectory
    \/ CreateProbe \/ RemoveProbe \/ CleanUp

Next == Client \/ ServeLate

Spec == Init /\ [][Next]_vars

(* The thread runs, and each of its calls returns.                         *)
FairSpec == Spec /\ WF_vars(Client)

----------------------------------------------------------------------------
Listable == {i \in DOMAIN seen : seen[i]}

(* A listing is called truncated exactly when the directory has more than  *)
(* MaxScan entries or more than MaxResults files among them; otherwise the *)
(* end of the directory was reported and every entry delivered until then  *)
(* was looked at; and it holds the first files, no other and none twice.   *)
ListingExact == result \in {"listed", "truncated"} =>
    /\ result = "truncated" <=> Len(seen) > MaxScan \/ Cardinality(Listable) > MaxResults
    /\ result = "listed" => ended /\ Len(seen) = served
    /\ files = {i \in Listable : i <= MaxScan /\ Cardinality({j \in Listable : j <= i}) <= MaxResults}

(* A healthcheck that says writable or read-only has left no probe, now or *)
(* later, and one that fails leaves a probe only if the session was lost   *)
(* or the removal refused.                                                 *)
CheckLeavesNothing ==
    pc = "done" /\ (probe \/ late = "create") => result = "error" /\ (link = "down" \/ stuck)

(* Both requests end, whatever a server sends; a lookup is outstanding or  *)
(* the directory open only in a session that was lost.                     *)
RequestReturns == <>(pc = "done" /\ (handle \/ lookups > 0 => link = "down"))

=============================================================================

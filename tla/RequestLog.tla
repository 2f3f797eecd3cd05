----------------------------- MODULE RequestLog -----------------------------
(***************************************************************************)
(* RequestLog (databridge/request_log.py) as RequestContextMiddleware._log *)
(* (databridge/web.py) uses it: one event per request is appended to a     *)
(* file that is rotated by size into numbered backups.                     *)
(*                                                                         *)
(* The event loop runs one write at a time, but every call it makes to the *)
(* operating system may fail, and the service may be restarted between two *)
(* of them.  An event that the stream could not flush stays in the         *)
(* stream's buffer and goes out with a later one.  An event is its number, *)
(* and lines[e] is the size of its line; a line is written whole or not at *)
(* all.                                                                    *)
(***************************************************************************)
EXTENDS Integers, Sequences, SequencesExt

CONSTANTS
    MaxBytes,   \* max_bytes
    Backups,    \* backups; the service keeps LOG_BACKUPS = 3
    MaxLine,    \* bound: the size of a line
    MaxEvents,  \* bound: the requests of a behaviour
    NoFile      \* a path that names no file

ASSUME SizesAssumption == MaxLine \in Nat \ {0} /\ MaxBytes \in Nat /\ MaxLine <= MaxBytes
ASSUME BackupsAssumption == Backups \in Nat \ {0}
ASSUME MaxEventsAssumption == MaxEvents \in Nat

VARIABLES
    file, backup,  \* the events in path, and in the backup of each number
    stream,        \* _stream: "open", "none", or "closed" by a failed close
    pending,       \* events in the buffer of the stream
    size,          \* _size
    pc, slot,      \* the next step of write, and the number _rotate is at
    lines,         \* the size of each event's line
    outcome        \* of each write that ended

vars == <<file, backup, stream, pending, size, pc, slot, lines, outcome>>

Events == 1..MaxEvents
Files == Seq(Events) \cup {NoFile}
Content(f) == IF f = NoFile THEN <<>> ELSE f
Bytes(events) ==
    IF events = <<>> THEN 0 ELSE FoldSeq(LAMBDA e, total : lines[e] + total, 0, events)

ASSUME NoFileAssumption == NoFile \notin Seq(Events)

TypeOK ==
    /\ file \in Files /\ backup \in [1..Backups -> Files]
    /\ stream \in {"open", "none", "closed"}
    /\ pending \in Seq(Events) /\ size \in Nat
    /\ pc \in {"idle", "close", "shift", "open", "append"} /\ slot \in 0..Backups
    /\ lines \in Seq(1..MaxLine) /\ Len(lines) <= MaxEvents
    /\ outcome \in Seq({"logged", "failed", "raised"})
    /\ Len(lines) = Len(outcome) + IF pc = "idle" THEN 0 ELSE 1

Init ==
    /\ file = <<>> /\ backup = [n \in 1..Backups |-> NoFile]
    /\ stream = "open" /\ pending = <<>> /\ size = 0
    /\ pc = "idle" /\ slot = 0 /\ lines = <<>> /\ outcome = <<>>

event == Len(lines)

(* The write ends: _log catches an OSError, and nothing else.              *)
End(how) == pc' = "idle" /\ outcome' = Append(outcome, how)
Fails == End("failed")

----------------------------------------------------------------------------
(* write: a line that does not fit rotates the log first.                  *)
Write(s) ==
    /\ pc = "idle" /\ event < MaxEvents
    /\ lines' = Append(lines, s)
    /\ pc' = IF size > 0 /\ size + s > MaxBytes THEN "close" ELSE "append"
    /\ UNCHANGED <<file, backup, stream, pending, size, slot, outcome>>

(* _rotate begins with close, which flushes the buffer.  If that fails,    *)
(* the stream is closed and its buffer lost, and _stream still names it.   *)
Close ==
    /\ pc = "close"
    /\ \/ /\ pc' = "shift" /\ slot' = Backups /\ stream' = "none"
          /\ file' = IF stream = "open" THEN file \o pending ELSE file
          /\ UNCHANGED outcome
       \/ /\ Fails /\ stream = "open" /\ stream' = "closed"
          /\ \E n \in 0..Len(pending) : file' = file \o SubSeq(pending, 1, n)
          /\ UNCHANGED slot
    /\ pending' = <<>>
    /\ UNCHANGED <<backup, size, lines>>

(* Mutant: the backups are shifted from the newest to the oldest.          *)
ShiftUpwards ==
    /\ pc = "shift"
    /\ LET n == Backups + 1 - slot
           source == IF n = 1 THEN file ELSE backup[n - 1]
       IN  \/ /\ slot > 0 /\ slot' = slot - 1
              /\ backup' = IF source = NoFile THEN backup ELSE [backup EXCEPT ![n] = source]
              /\ file' = IF n = 1 THEN NoFile ELSE file
              /\ UNCHANGED pc
           \/ slot = 0 /\ pc' = "open" /\ UNCHANGED <<slot, backup, file>>
    /\ UNCHANGED <<stream, pending, size, lines, outcome>>

(* _rotate: each file that exists takes the next number, the oldest first. *)
Shift ==
    /\ pc = "shift"
    /\ LET source == IF slot = 1 THEN file ELSE backup[slot - 1]
       IN  \/ /\ slot > 0 /\ source = NoFile /\ slot' = slot - 1
              /\ UNCHANGED <<pc, outcome, backup, file>>
           \/ /\ slot > 0 /\ source # NoFile /\ slot' = slot - 1
              /\ IF slot = 1
                 THEN backup' = [backup EXCEPT ![1] = file] /\ file' = NoFile
                 ELSE /\ backup' = [backup EXCEPT ![slot] = source, ![slot - 1] = NoFile]
                      /\ UNCHANGED file
              /\ UNCHANGED <<pc, outcome>>
           \/ slot > 0 /\ source # NoFile /\ Fails /\ UNCHANGED <<slot, backup, file>>
           \/ slot = 0 /\ pc' = "open" /\ UNCHANGED <<slot, backup, file, outcome>>
    /\ UNCHANGED <<stream, pending, size, lines>>

(* open: the file is created if need be, and its size is read.  The calls  *)
(* on the new descriptor do not fail.                                      *)
OpenStream ==
    /\ file' = Content(file) /\ size' = Bytes(Content(file)) /\ stream' = "open"

Open ==
    /\ pc = "open"
    /\ \/ OpenStream /\ pc' = "append" /\ UNCHANGED outcome
       \/ Fails /\ UNCHANGED <<file, size, stream>>
    /\ UNCHANGED <<backup, pending, slot, lines>>

(* write: the line is appended and flushed.  A failing flush writes some   *)
(* of the buffer and keeps the rest; a stream that is not open raises a    *)
(* RuntimeError, a closed one a ValueError.                                *)
Flush ==
    /\ pc = "append"
    /\ LET buffer == Append(pending, event)
       IN  \/ /\ stream = "open" /\ End("logged")
              /\ file' = file \o buffer /\ pending' = <<>> /\ size' = size + lines[event]
           \/ /\ stream = "open" /\ Fails /\ UNCHANGED size
              /\ \E n \in 0..Len(pending) :
                   /\ file' = file \o SubSeq(buffer, 1, n)
                   /\ pending' = SubSeq(buffer, n + 1, Len(buffer))
           \/ stream # "open" /\ End("raised") /\ UNCHANGED <<file, pending, size>>
    /\ UNCHANGED <<backup, stream, slot, lines>>

(* Mutant: the log is truncated at start.                                  *)
RestartTruncates ==
    /\ file' = <<>> /\ size' = 0 /\ stream' = "open" /\ pending' = <<>> /\ pc' = "idle"
    /\ outcome' = IF pc = "idle" THEN outcome ELSE Append(outcome, "failed")
    /\ UNCHANGED <<backup, slot, lines>>

(* The service stops, in order or not, and open_app opens the log again.   *)
Restart ==
    /\ \E kept \in {<<>>, pending} :
         /\ file' = Content(file) \o kept /\ size' = Bytes(Content(file) \o kept)
    /\ stream' = "open" /\ pending' = <<>> /\ pc' = "idle"
    /\ outcome' = IF pc = "idle" THEN outcome ELSE Append(outcome, "failed")
    /\ UNCHANGED <<backup, slot, lines>>

Next == (\E s \in 1..MaxLine : Write(s)) \/ Close \/ Shift \/ Open \/ Flush \/ Restart

Spec == Init /\ [][Next]_vars

----------------------------------------------------------------------------
(* The log as a reader sees it: path, and behind it the backups, of which  *)
(* a higher number is an older one.                                        *)
Part(n) == Content(IF n = 0 THEN file ELSE backup[n])
Logged == UNION {Range(Part(n)) : n \in 0..Backups}

Ascending(s) == \A i, j \in DOMAIN s : i < j => s[i] < s[j]
Before(s, t) == \A x \in Range(s), y \in Range(t) : x < y

(* No event is logged twice or out of order, whichever step of a rotation  *)
(* failed or was cut short, and though an event that could not be flushed  *)
(* is written with a later one.                                            *)
InOrder ==
    /\ \A n \in 0..Backups : Ascending(Part(n)) /\ Before(Part(n), pending)
    /\ \A m, n \in 0..Backups : m < n => Before(Part(n), Part(m))
    /\ Ascending(pending)

(* An event whose write succeeded is in the log until newer ones push it   *)
(* out: the log never has a gap, and never loses its newest event.         *)
KeepsTheNewest ==
    \A e \in 1..Len(outcome) :
        outcome[e] = "logged" => Logged # {} /\ (e \in Logged \/ \A x \in Logged : e < x)

=============================================================================

------------------------------ MODULE LocalRead -------------------------------
(***************************************************************************)
(* LocalConnector.read with _FileSource (databridge/connectors/local.py),  *)
(* and the two loops that read from it: _copy of a transfer and            *)
(* _read_prefix of a preview (databridge/preview.py).                      *)
(*                                                                         *)
(* Only counts are modelled: a read continues where the last one ended.    *)
(* Other programs shorten and extend the file at any time, and os.read     *)
(* returns as much of what it was asked for as it likes.  The operating    *)
(* system and those programs are external.                                 *)
(***************************************************************************)
EXTENDS Integers, FiniteSetsExt

CONSTANTS
    Budget,    \* MAX_PREVIEW_BYTES, in units
    ChunkSize, \* CHUNK_SIZE, in units
    MaxSize    \* bound: the size of the file

ASSUME ReadAssumption == Budget \in Nat /\ ChunkSize \in Nat \ {0} /\ MaxSize \in Nat

VARIABLES
    reader,      \* "copy" or "preview"
    readPc,      \* the next step: "open", "read", "close" or "done"
    fileSize,    \* the file's current size
    opened,      \* its size by fstat
    taken,       \* units read so far; _remaining is their difference to target
    descriptor,  \* whether the file is open
    outcome,     \* "none", "end", "changed" or "error"
    shrunk       \* history: the file was shorter than what was promised of it

readVars == <<reader, readPc, fileSize, opened, taken, descriptor, outcome, shrunk>>

(* A preview limits what it reads; a copy takes the file as it was opened. *)
Target == IF reader = "preview" THEN Min({opened, Budget + 1}) ELSE opened

(* at_limit: the preview does not see the whole file.                      *)
AtLimit == taken > Budget

ReadTypeOK ==
    /\ reader \in {"copy", "preview"} /\ readPc \in {"open", "read", "close", "done"}
    /\ fileSize \in 0..MaxSize /\ opened \in 0..MaxSize /\ taken \in 0..Target
    /\ descriptor \in BOOLEAN /\ shrunk \in BOOLEAN
    /\ outcome \in {"none", "end", "changed", "error"}

ReadInit ==
    /\ reader \in {"copy", "preview"} /\ readPc = "open"
    /\ fileSize \in 0..MaxSize /\ opened = 0 /\ taken = 0
    /\ descriptor = FALSE /\ outcome = "none" /\ shrunk = FALSE

----------------------------------------------------------------------------
(* _resolve, os.open and fstat; a name that leaves the root, a missing or  *)
(* unreadable file, a link put in its place and a special file are errors. *)
Open ==
    /\ readPc = "open"
    /\ \/ readPc' = "read" /\ opened' = fileSize /\ descriptor' = TRUE /\ UNCHANGED outcome
       \/ readPc' = "done" /\ outcome' = "error" /\ UNCHANGED <<opened, descriptor>>
       \/ readPc' = "close" /\ descriptor' = TRUE /\ outcome' = "error" /\ UNCHANGED opened
    /\ UNCHANGED <<reader, fileSize, taken, shrunk>>

(* What the loop asks for; a preview stops when it has passed its budget.  *)
Wanted == IF reader = "preview" THEN Budget + 1 - taken ELSE ChunkSize

(* Mutant: no more data is the end, as for os.read.                        *)
ReadToEnd ==
    /\ readPc = "read"
    /\ IF Wanted > 0 /\ fileSize > taken
       THEN /\ \E n \in 1..Min({Wanted, fileSize - taken}) : taken' = taken + n
            /\ UNCHANGED <<readPc, outcome>>
       ELSE readPc' = "close" /\ outcome' = "end" /\ UNCHANGED taken
    /\ UNCHANGED <<reader, fileSize, opened, descriptor, shrunk>>

(* One turn of the loop with _FileSource.read.                             *)
Read ==
    /\ readPc = "read"
    /\ \/ /\ Wanted > 0 /\ taken < Target
          /\ \/ /\ \E n \in 1..Min({Wanted, Target - taken, fileSize - taken}) : taken' = taken + n
                /\ UNCHANGED <<readPc, outcome>>
             \/ fileSize <= taken /\ readPc' = "close" /\ outcome' = "changed" /\ UNCHANGED taken
             \/ readPc' = "close" /\ outcome' = "error" /\ UNCHANGED taken
       \/ (Wanted = 0 \/ taken = Target) /\ readPc' = "close" /\ outcome' = "end" /\ UNCHANGED taken
    /\ UNCHANGED <<reader, fileSize, opened, descriptor, shrunk>>

(* The finally clause of read.  The file is of no interest any more.       *)
Close ==
    /\ readPc = "close" /\ readPc' = "done" /\ descriptor' = FALSE /\ fileSize' = 0
    /\ UNCHANGED <<reader, opened, taken, outcome, shrunk>>

Resize ==
    /\ readPc \in {"open", "read"} /\ \E n \in 0..MaxSize \ {fileSize} : fileSize' = n
    /\ shrunk' = (shrunk \/ (readPc = "read" /\ fileSize' < Target))
    /\ UNCHANGED <<reader, readPc, opened, taken, descriptor, outcome>>

ReadNext == Open \/ Read \/ Close \/ Resize

----------------------------------------------------------------------------
(* The promise of ByteSource: the end is reported when the caller has all  *)
(* that the file held when it was opened, or all that a preview looks at,  *)
(* whatever became of the file meanwhile; a change only when the file was  *)
(* shorter; a preview that met no error knows whether the file is longer   *)
(* than its budget; and the descriptor is closed.                          *)
SourceContract == readPc = "done" =>
    /\ outcome = "end" => taken = Target
    /\ outcome = "changed" => shrunk
    /\ reader = "preview" /\ outcome = "end" => (AtLimit <=> opened > Budget)
    /\ ~descriptor

=============================================================================

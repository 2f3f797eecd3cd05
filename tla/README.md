# A TLA+ model of DataBridge

DataBridge is a local HTTP service that copies files between named connections:
directories of the machine and roots on SFTP servers. This directory holds TLA+
modules that model its core from the source under `src/databridge/`, TLC
configurations that check them on small instances, and TLAPS proofs of the
safety of every modelled component but the parsers of the preview. `PROJECT.json` maps every definition to the
lines it models and lists the runs, the mutants, the findings, the hazards and
the theorems.

    tlc -config TransferService.cfg TransferService     # a run
    tlapm TransferServiceProofs.tla                      # the proofs

## 1. Inventory

| component | state | operations | hard because | module |
|---|---|---|---|---|
| transfer service (`transfer.py`) | slots of a semaphore; per transfer the phase, bytes copied, the flag `published` | `TransferService.run`, `_Transfer.run`, `_copy`, `_checkpoint`, `_finish`, `_fail` | every step can fail; failures come late; the process can die, or lose the lock, between any two steps | TransferService |
| transfer ledger (`store.py`) | one row per transfer | `start_transfer`, `record_progress`, `mark_publishing`, `finish_transfer`, `fail_transfer`, recovery in `initialize` | written by threads of two processes; a record is a statement about a file that the database cannot see | TransferService, TransferRecords |
| database ownership and initialization (`store.py`, `api.py`, `__main__.py`) | the flock; schema, metadata with the key check | `DatabaseOwnerLock`, `initialize`, `_verify_existing`, `open_app` | crashes between statements; starts with another key | DatabaseStartup |
| connection store (`store.py`, `api.py`) | the connections table; directories | POST, PUT, DELETE of `/connections`, `prepare` | check, directory and row are three steps | Connections |
| local connector, write (`connectors/local.py`) | the staging file, the destination entry | `write`, `_FileSink`, `_publish`, `_sync_directory`, `_remove` | other programs, kills, power loss | LocalWrite |
| SFTP connector, upload (`connectors/sftp.py`) | unacknowledged requests, server files | `write`, `_Upload`, `_publish` | pipelining, lost replies, requests that outlive their session | SftpWrite |
| SFTP connector, download | pending requests, leftover bytes | `read`, `_Download` | short and reordered replies, a file that changes | SftpRead |
| SFTP session (`_Requests`, `_Watchdog`, `_session`) | replies, ignored numbers, the deadline, `expired`, the transport | `_trust`, `_connect`, `send`, `receive`, `ignore`, `step`, `_watch`, `stop` | two threads and a clock; replies in any order, twice or never | SftpSession |
| request log (`request_log.py`, `web.py`) | the stream, its buffer, `_size`, the backups | `write`, `_rotate`, `open`, `close` | a rotation is many calls, each of which can fail | RequestLog |
| listings and access checks (`base.py`, both connectors) | files found so far, lookups in flight; the probe | `list_files`, `bounded_listing`, `_entries`, `_classified`, `check_access` | caps at their limits; directories without end; ambiguous creation and removal | Directory |
| local connector, read | bytes remaining | `read`, `_FileSource`, `_copy`, `_read_prefix` | short reads; a file that others change | LocalRead |
| preview (`preview.py`) | – | CSV and JSON heads, nesting and row limits, inferred types | budgets at their limits; texts cut anywhere | Preview |
| HTTP boundary (`web.py`, `api.py`) | – | Host and Origin checks, error envelope | – | not modelled |
| settings, errors, models, registry, scripts | – | – | – | not modelled |

How they interact. `open_app` takes the lock, initializes the database, which
settles what earlier processes left unsettled, and opens the request log; then
handlers run in worker threads. `POST /transfers` takes a slot, inserts a
record, looks both connections up, opens the source, opens the destination,
copies, calls `finish` on the sink, marks the record *publishing*, leaves the
destination's context, which publishes the file, and completes the record.
Connectors know nothing of the record; they are tied to it only by the order of
those steps, which is what the main properties are about. Uvicorn's forced exit
leaves `open_app` while worker threads still run, so that the next process can
recover records whose threads are alive.

What makes each part correct:

* service and ledger: a record never denies a publication that took place or
  may still take place, never announces one before all bytes are staged, and
  never changes once settled; what the response says of file and record is true
  when it is said; errors name the side that failed; slots come back;
* startup: who serves has a complete database made with its own key;
* connections: the answers explain the table, and a request that finds no
  connection at its first look leaves nothing behind;
* local write: the destination is always a whole file, never an unrelated
  file's replacement unless asked for, and durable once its directory is synced;
* SFTP transfers: only whole files are published, errors do not deny a
  publication, a download is in order and whole or fails, and no server can
  hold a thread;
* SFTP session: a reply reaches the request it answers, a timeout is called a
  timeout, an idle session is left alone, and no step can be held by the server;
* listings and checks: truncated exactly when it is, and no probe is left
  behind silently;
* preview: the head of the file or the right error, never half a record;
* request log: in order, without gaps.

## 2. Modules

`TransferRecords` is the abstract promise of the service to those who read
`/transfers`: a transfer is running, then publishing, then completed or failed;
a failure is either of a kind that denies a change of the destination or of one
that does not, and the destination changes only while that is allowed.

`TransferService` is the core. A transfer is a thread whose program counter
names the next step of `_Transfer.run`; processes are started, serve, stop and
are killed. Each transaction of the ledger is one step with its compare-and-set
guard; a failing transaction, and a conflict, are alternatives of that step.
Every connector step may fail with a `DataBridgeError` or with another
exception. Connectors appear through their contract alone: `stored` may lag
behind `copied` until `FinishSink` finds out, `Publish` may take effect
although it raises, and a publishing request whose sender gave up, or was
killed, stays in `late` and may be carried out at any later moment
(`PublishLate`), after the record was settled or recovered too. `wrote` and
`culprit` are history variables. `Recover` is the UPDATE of `initialize`; it
distinguishes, as the message does, whether the record was publishing.
`Complete` is `_finish`: a failing transaction and a conflict with recovery get
the same answer there, *unrecorded*; `ResponseTellsOutcome` says when its claim
that the record stays publishing is true. `RecordsImplemented` maps a record to the outcome that
`TransferRecords` speaks of.

`Sink` is the abstract promise of a connector's `write`, the same for both
backends: the destination changes only when the whole file is stored, and what
the exit of the context says of the destination (it has the file; it is
unchanged and stays so; it may change or have changed) is true from then on.
`LocalWrite` and `SftpWrite` implement it (`SinkImplemented`, by the mapping
`Contract` of each), and it is all that `FinishSink`, `Publish` and
`PublishLate` of `TransferService` rely on.

`LocalWrite`: several writers of one name. The destination's directory entry is
a history with a synced prefix, and a power loss goes back to any later entry
and shortens files that were not synced. `Kill` ends every write in progress.
The writers in `Direct` have the destination's entry in their root; for the
others the name is a symbolic link that `_resolve` has followed into a
subdirectory, while `write` syncs the root (`SyncRoot`). `NoClobber` is about
the whole history: whatever entry a publication without overwrite follows, it
is an absent one.
Permission bits are left out. `O_EXCL` never meets a leftover, because a
staging name holds the transfer's id.

`SftpWrite`: one upload. `wr` is what the server did with each pipelined write;
`late` is the one synchronous request that was in flight when the session was
lost, and `ServeLate` carries it out at any later moment. The server may refuse
anything, may or may not have posix-rename, and its RENAME may or may not
replace a file. A reply to a rename that was carried out may be one that cannot
be parsed. The docstring of `Connector` promises that "after any error the
destination is absent or unchanged"; no client can promise that of a rename
whose reply is lost, and the code does not: the error then says that the
destination may already contain the new file. `Sink` therefore knows the
outcome `unknown`, and `SinkImplemented` is the promise that the code keeps,
with one exception that the mapping names (`garbled`, see section 3).

`SftpRead`: one download. A unit of data stands for its offset, so that order
and completeness are visible. The server answers in any order and with any
non-empty part of a range, and the file's size changes meanwhile. The content
of a unit that is overwritten in place is not modelled; the code makes no
promise about it.

`SftpSession`: one `_session` used by the most general operation, which sends
requests and waits for or ignores the reply to each of them in any order. The
deadline is absent, ahead or past; `Pass` lets it pass. The watchdog's thread
sets `expired` in one step and closes the transport in another, as the code
releases the lock between the two. The server answers any request any number
of times, or not at all, and may stop reading, which blocks `send` and, outside
every step of the watchdog, the closing of the channel (`CloseChannel`). paramiko's
part is modelled from its use here: it numbers requests, drops replies that it
does not expect, and a closed transport wakes every blocked call. `SftpWrite`
and `SftpRead` use what this module shows in the form of their action `Expire`.

`Directory`: `list_files` and `check_access` of both backends. An entry is a
file to list, one whose mode READDIR left out, or anything else; the directory
is whatever the other side says, without an end if it likes, and the run still
ends because of the caps. A send that fails inside a batch leaves the lookups
already sent outstanding, as it comes before the `try` that gives them up; the
session is lost then. The probe's requests may be refused after they were
carried out, or be carried out after the session is gone; with one exception
that the code makes too: a refusal of the probe's OPEN with permission denied is
taken to mean that nothing was created.

`LocalRead`: `_FileSource` under the two loops that use it. Only counts are
modelled. It has no run of its own, as `Preview` extends it: a behaviour of
`Preview` is a copy, or a preview that reads the file, parses what it got and
infers the type of one field.

`Preview`: a token is one unit of the byte budget. CSV texts are characters,
commas, quotes and line ends, tokenized as `csv.reader` with `strict=True`
does; JSON texts are brackets, commas, blanks and `o`, a small object. Which
text a file holds is chosen when it is parsed, so that a run covers every text
of at most `Budget` tokens, and `PreviewFaithful` compares the result with that
of every longer text it is a prefix of, parsed as a whole. A row's values are
not in the tokens: `Observe` is one turn of the loop of `_schema`, for a value
of any kind, and `Infer` the end of that loop. Each operator is named after the
function of `preview.py` that it translates; loops over a text are folds and
recursive functions.

`DatabaseStartup`: the statements of `_SCHEMA` one at a time, because the
`sqlite3` module opens a transaction only for INSERT, UPDATE and DELETE, so
that each CREATE is committed by itself. A process ends in one of the states
`refused`, `unusable`, `wrong_key` or `dead`; `MoveAside` is the user following
the error message while no process holds the lock. A process whose threads
outlive the lock is `lingering`, and `stray` once the file was moved: its
threads open the path anew for each operation and can store credentials under
their old key in the new database. `SecretsReadable` excepts such keys by name
(`StrayKeys`), and nothing else.

`Connections` (with `MCConnections` for its constants): handlers as threads;
every store method is one transaction; `prepare` may fail before or after it
created the directory. Nobody else removes directories in the model.

`RequestLog`: the events in each file, in the stream's buffer, and the steps of
`write` and `_rotate`. A line is written whole or not at all. The branch for
`backups == 0` is left out, as the service never uses it, and so is a failure
of `fchmod` or `fstat` on a descriptor just opened.

The theorems, with their lemmas and inductive invariants, are in modules of
their own. `TransferServiceProofs`, `SftpWriteProofs`, `SftpReadProofs`,
`SftpSessionProofs`, `DirectoryProofs` and `RequestLogProofs` extend the module
they are named after. Two modules are about two components each: `StoreProofs`
extends `Connections` and `DatabaseStartup`, and `LocalProofs` extends
`LocalWrite` and `Preview`, and with it `LocalRead`. For that the names of the
two modules differ: the specifications are `StartupSpec` and `PreviewSpec` where
the others say `Spec`, and so on.

Operators named "Mutant" in a comment are wrong variants of the definition
that follows; they are no part of the model. `PROJECT.json` names the property
that each of them violates.

## 3. Runs

| run | instance | shows |
|---|---|---|
| transfer | 1 transfer, 3 processes, 2 chunks | the invariants, action properties, refinement and termination of the core |
| transfer_slots | 2 transfers, 1 process, capacity 1, 1 chunk | slots are neither lost nor invented |
| local_write | 2 writers, one of them behind a link, 1 chunk, 4 changes of the entry | atomic, durable, non-clobbering publication; `Sink` |
| sftp_write | window 2, 3 chunks | whole files, cleanup, termination; `Sink` |
| sftp_read | window 2, requests of 2 units, 5 units, reads of up to 3 | order, completeness, termination |
| sftp_session | 2 requests, 1 repeated reply | replies reach their requests; timeouts are told from losses; the session ends unless its closing is held |
| directory | caps of 5 entries and 3 files, batches of 2, pages of up to 4 | exact truncation, no silent leftovers, termination |
| preview | budget 5, files of up to 7, 1 or 2 rows, nesting 2, 3 values | the head of the file or the right error; the source's contract; types independent of order |
| database_startup | 4 processes, 2 keys | complete database, right key, also next to threads of earlier processes |
| connections | 3 requests, 2 names, 2 paths of one directory, an SFTP setting | answers and table agree |
| request_log | 2 backups, files of 3, lines of 1 or 2, 5 events | order, no gaps |
| database_crash | 2 processes | a violation: a crash between two CREATE statements leaves a file that every later start refuses |

The violation is a `finding` with the sentence it contradicts. Other places
where the code and its words part, which the models show but no run is devoted
to; for the first three, the property named is what does hold, and TLC finds
the counterexample as soon as its exception is taken out:

* when a published file's record cannot be completed, the client is told that
  it "could not be completed and stays 'publishing'" (`transfer.py:180`; also
  `spec.md:59` and `test_unrecorded_completion_is_reported_and_left_publishing`).
  The message is the same when the completion fails because the next process
  has recovered the record, which is `failed` then. `ResponseTellsOutcome`: this
  happens only to a thread that outlives its process's lock;
* `_sync_directory` is to "persist the new directory entry" (`local.py:325`),
  but what `write` syncs is the root (`local.py:268`), and the entry is in a
  subdirectory if the name is a symbolic link that leads into one. A power loss
  can then undo a publication after a successful sync. `SyncedSurvives`: it
  cannot for destinations in the root itself;
* the watchdog exists because a server "could hold a worker thread forever"
  (`sftp.py:325`), but `sftp.close()` (`sftp.py:836`) sends on the socket
  outside every step of the watchdog and before `watchdog.stop`: a server that
  has stopped reading holds the thread there. `SessionEnds`: it can hold it
  nowhere else;
* an unparsable reply to a rename that was carried out becomes an ordinary
  refusal, under the comment "The server answered, so nothing was published"
  (`sftp.py:795`); `Rename` of `SftpWrite` notes it in `garbled`;
* a PUT that a DELETE overtakes between its lookup and its update creates the
  directory and then answers CONNECTION_NOT_FOUND, although "a missing
  connection must not create a local directory" (`api.py:289`);
  `NotFoundMadeNothing` excepts exactly that case;
* after a rotation that failed, the log is closed while `_size` keeps its
  value, and the next line that fits raises an exception that `_log` does not
  catch; the line is lost (`Flush` of `RequestLog`, outcome `raised`);
* a line whose flush failed is written by a later flush but never added to
  `_size`, so that a file can outgrow `max_bytes`;
* a JSON file that is blank up to the byte budget is called malformed
  (`preview.py:158`), although more bytes could make it an array, which
  `spec.md` reserves for PREVIEW_LIMIT_EXCEEDED; `PreviewFaithful` excepts it
  by name (`BlankPrefix`).

Why the bounds are enough. The transfers of `TransferService` interact only
through slots and through recovery, which treats every record alike: one
transfer suffices for the record's properties, two for the slots, and the
proofs cover all numbers. Three processes give a thread that outlives its
process, a process that recovers its record, and one more recovery. Two chunks
let a write be stored late, and a checkpoint fall between two writes. In
`LocalWrite` two writers, other programs and four changes of the entry let a
publication be replaced, removed and repeated. In the SFTP modules a window of
two is smaller than the transfer, so that it fills, drains and has a request
overtaken; three chunks allow a hole in the middle; five units need three
requests, with a short last one and reads that end inside a reply. In
`DatabaseStartup` four processes allow a crash, a refused start, a fresh start
after the file was moved aside and a start with the other key. In
`SftpSession` two requests overtake each other, and one repeated reply can meet
a request that is settled, ignored or still waited for. In `Directory` the caps
are reached inside a batch, at its end and at the end of a page, and pages of
four need two batches. In `Preview` five tokens hold a header and two rows, a
quoted line end or three levels of nesting, and two more continue what was cut.
In `RequestLog` five events fill the file and both backups and push the oldest
out.

Deadlock is not checked where a behaviour ends when all its requests are
answered or all its processes have ended.

Fairness. `TransferService` assumes weak fairness of each transfer's thread: a
started thread goes on, and each of its calls returns. For the file system and
the database that is the operating system's promise (SQLite waits five seconds
for a lock); for SFTP it is what `WriteReturns` and `ReadReturns` establish,
from weak fairness of the client's own steps and of `Expire`, the watchdog
that closes the transport of an overdue step. That there is such a watchdog is
`SessionEnds` of `SftpSession`, which assumes weak fairness of the operation's
thread, of the watchdog's thread, which polls, and of the clock; connecting is
bounded by the timeouts that `_connect` gives paramiko. `Directory` assumes
weak fairness of its thread, each call of which returns for the same reason.
What these four properties say of an SFTP operation therefore ends where
`_session` closes the channel: a server that has stopped reading can hold the
thread there, as section 3 says, and a transfer that is held so does
not return.
Nothing is assumed of servers, the network, other programs or callers, and
processes may be killed at any time. A killed thread counts as returned.

## 4. Proofs

The runs check small instances; the theorems hold for every value of the
constants that satisfies the assumptions of the module (its `ASSUME`s, which
TLC evaluates in every run). Each proof module states an inductive invariant,
`IInv` unless said otherwise, proves that it holds initially and is kept by
every action, and derives the properties from it. All of these invariants were
also checked by TLC on the instances of the runs.

| module | theorem | states |
|---|---|---|
| TransferServiceProofs | `TypeCorrect`, `StoredInFull`, `DenialIsTrue`, `AnswersAreTrue`, `AttributionIsRight`, `SlotsAreAccounted`, `OwnerIsAlone` | `TypeOK`, `StagedInFull`, `UnchangedIsUnchanged`, `ResponseTellsOutcome`, `BlameIsRight`, `SlotsAccounted`; a process that starts or serves holds the lock |
| | `Finality`, `RecoveryIsSafe`, `Refinement` | `SettledIsFinal`, `RecoverySparesOwnThreads`, `RecordsImplemented` |
| StoreProofs | `AnswersAccount`, `NotFoundIsClean` | `AnswersAccountForTable`, `NotFoundMadeNothing` |
| | `ServesComplete`, `CredentialsReadable`, `MutualExclusion` | `ServesCompleteDatabase`, `SecretsReadable`; one owner at a time |
| LocalProofs | `DestinationWhole`, `StageRemoved`, `SyncLasts`, `NameInUseKept`, `Refinement` | `NeverTorn`, `NoStageLeft`, `SyncedSurvives`, `NoClobber`, `SinkImplemented` |
| | `SourceKeepsContract`, `SchemaJoins` | `SourceContract`, `SchemaIsJoin` |
| SftpWriteProofs | `PublishesWhole`, `StageRemoved`, `ForeignFileKept`, `Refinement` | `PublishedIsWhole`, `NoStageLeft`, `NoClobber`, `SinkImplemented` |
| SftpReadProofs | `ReadsInOrder`, `EndIsWhole` | `InOrder`, `EndsWhole` |
| SftpSessionProofs | `RepliesReachTheirRequest`, `OverdueReported`, `IdleKept` | `RepliesMatched`, `OverdueIsTimeout`, `IdleNeverExpires` |
| | `StepsAreWatched`, `NothingLeftOpen` | no step waits unguarded; an operation that returned has left neither an open transport nor a thread |
| DirectoryProofs | `ListedExactly`, `ProbeRemoved` | `ListingExact`, `CheckLeavesNothing` |
| | `NothingLeftOpen` | a request that returned has no lookup outstanding and no open directory in a session that is up |
| RequestLogProofs | `LogInOrder`, `NewestKept`, `OverwritesOldestOnly` | `InOrder`, `KeepsTheNewest`; a backup that is not the last stays or takes the next number |

`TypeOK` of every other component is proved too (`TypeCorrect`, `StartupTypes`,
`PreviewTypes`), with one exception: of `RequestLog`, `Typed` leaves out that
`size` is a number.

Assumptions. Most say that a bound is a natural number, positive where the code
could not work otherwise (a window, a request size, a capacity). The others:
the transfers of `TransferService` and the requests of `Connections` are finite
sets, because slots and answers are counted; a marker (`NoProc`, `NoKey`,
`Absent`, the words `absent` and `foreign` for the destination of `LocalWrite`)
is none of the things it is told apart from, and `NoFile` of `RequestLog` is no
list of events; and local paths, directories and SFTP settings of `Connections`
are different things.

Why the invariants are as they are:

* **TransferService.** That a record denying a change is right depends on the
  thread's position: a thread may be at the publishing step only if its record
  was publishing when it got there, and since then only recovery can have
  changed it, to *interrupted while publishing*, which does not deny. `IInv`
  therefore adds, for every transfer, what its program counter says about
  phase, exception, flag, record and staged bytes, and for every process what
  its life says about the lock and its threads. Steps of a thread change only
  that thread's part of the state, which `ThreadStep` states once for all of
  them; the slot count is kept by an argument about cardinalities
  (`HoldersFinite`, `SlotsKept`). A request that outlives its sender is covered
  by `LateAt`: a transfer in `late` has all bytes staged and a record that does
  not, and never will, deny a change, so that `PublishLate` can come after
  anything (`LateIInv`). `AnswersAreTrue` needs one thing more: a transfer
  whose process still serves was never recovered (`OwnRecord`).
* **DatabaseStartup.** A serving process must know that nobody else fills,
  completes or moves the database: the lock has one owner (`OneOwner`), the key
  check is the last thing a new database gets (`MarkerLast`), and credentials
  are stored under that key only, stray threads apart (`SecretsOfMarker`); a
  process that lingers still has the key of the key check, because whoever
  removes it makes the process a stray one (`OwnerAt`).
* **Connections.** `AnswersAccountForTable` is nearly inductive: a request that
  has not ended has no answer, and what it stores is prepared (`RequestAt`).
  `NotFoundMadeNothing` relates two steps of a PUT with others in between: the
  row that its check found is still there, or was deleted since (`SinceAt`,
  `DeletionsCounted`).
* **LocalWrite.** A power loss may bring back any entry that was not synced, so
  the invariant is about all of the history, not its end (`HistoryAt`), and
  about what each step has established of the staged file and of the result
  (`FileAt`, `ResultAt`); `SyncLasts` follows the position of a publication from
  the rename to the sync of the directory (`PublishedAt`), for the writers in
  `Direct`. `NameInUseKept` is about every position of the history, the
  ones that a power loss brings back included.
* **SftpWrite.** The upload is whole because a write is forgotten only when its
  status was received (`Acknowledged`) and `finish` collects them all before the
  publication (`Drained`). What the client says stays true because a request
  answered late belongs to a session that is down and to a client that reported
  the loss (`LateAt`, `Reported`, `Collision`).
* **SftpRead.** `InOrder` says that the requests in flight follow what the
  caller has; it is kept only if the last of them ends at `nextOffset`, where
  the next is sent from, and if `leftover` is empty whenever a reply replaces it
  (`Chained`, `Control`). At the end of the file the chain has no requests, and
  what the caller has is `target` units long.
* **LocalRead and Preview.** While the loop runs, the file has as much as is
  wanted of it or has shrunk since it was opened (`ReadInv`);
  the type observed so far is the join of the values seen so far (`SchemaInv`),
  which makes the inference independent of their order.
* **SftpSession.** One invariant for each property: the deadline exists
  only inside a step (`ClockInv`); a loss is reported only after the transport
  was closed, which the watchdog does after it set its flag (`ReportInv`); and
  of all replies on the wire only the first with an expected number is
  delivered (`RequestInv`). The watchdog's thread ends only after it was told to
  or has closed the transport, and the client is closed only after the thread
  has ended (`WatchInv`).
* **Directory.** Again one for each: the lookups outstanding are the bare entries of
  the batch, or belong to a lost session (`TypeInv`); while the loop runs every file seen is listed, and what
  was seen, the batch and the page are all that was delivered (`ListingInv`),
  from which the truncated case is a count of the files up to the last entry;
  a request outlives only a lost session, with a result that says `error` if it
  creates the probe (`ProbeInv`); and past the listing a handle is open only in
  a lost session (`HandleInv`).
* **RequestLog.** A renaming of a rotation may only overwrite the last
  backup: the number that the next file takes is free unless it is the last
  (`GapAt`), also when an earlier rotation failed half-way and left a hole. That
  the newest event stays needs a rotation to begin only when the file has
  something in it, so that no backup is empty (`RotationAt`). `StreamAt` says
  when events may wait in the buffer, and `PastOnly` that the log holds nothing
  that has not happened. Both properties are stated over pairs of files instead of
  one concatenation, so that no induction over the backups is needed.

The two proofs of `SinkImplemented` and that of `RecordsImplemented` are step by
step: the initial states map to initial states, and each action to an abstract
action or a stutter. With the first two, what `TransferService` assumes of a
connector is proved of both.

Only model-checked:

* liveness (`EveryTransferReturns`, `WriteReturns`, `ReadReturns`,
  `SessionEnds`, `RequestReturns`): fairness and ENABLED are out of the
  prover's reach;
* `PreviewFaithful` and `LimitIsReal`: what the parsers of `Preview` compute for
  every text needs induction over texts;
* that `size` of `RequestLog` stays a number: it is a sum over the lines of a
  file, about which nothing can be shown without induction over sequences.

Not modelled: the Host and Origin checks, the error envelope and the OpenAPI
examples of the HTTP boundary, settings, error codes, data models and the
connector registry, which keep no state; permission bits; the byte layout of
SFTP replies; SQLite's own detection of damage; in the preview, characters cut
by the budget inside their UTF-8 encoding, unpaired surrogates, numbers out of
range and the grammars of single values; the scripts and fixtures.

## 5. Plan

Done, in this order: TransferRecords and TransferService with their proofs,
LocalWrite, SftpWrite, DatabaseStartup, Connections, RequestLog, SftpRead,
SftpSession, Directory, LocalRead, Preview, Sink with its two refinements, late
publications in TransferService, and the proofs of DatabaseStartup, SftpWrite,
LocalWrite, SftpSession, Connections, SftpRead, Directory, RequestLog, LocalRead
and the type inference of Preview; the safety half of the liveness properties
of SftpSession and Directory.

Worth doing next:

1. The proof that the sizes of `RequestLog` are numbers, and the two properties
   of the parsers, with a prover that can do induction over sequences.
2. Lemmas that the proof modules state more than once, moved to a place of
   their own.

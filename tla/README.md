# TLA+ specifications of the RFID Bridge

The RFID Bridge runs on a gateway next to the RFID readers of a warehouse. Odoo
tells it to start and stop reading for a session (a picking). The bridge drives
the reader, stores every tag it sees as an event in its own database, and
delivers the events to Odoo. This directory specifies that core in TLA+, checks
it with TLC on small instances, and proves its most important properties with
TLAPS for every number of events, sessions, workers and web processes.

Paths below are relative to the repository; `bridge_core/` holds all the code.

## 1. The system

### Processes and shared state

| process | code | state it keeps |
|---|---|---|
| control worker, one per reader | `management/commands/run_final_rfid_worker.py`, `final_worker_cycle.py`, `final_runtime_orchestrator.py`, `final_runtime_state.py`, `final_reader_executor.py`, `final_capture_service.py` | `LocalReaderRuntime`, the reader connection and its buffer of tag frames, the capture thread and its error; all lost when the process ends |
| delivery worker, one per reader | `management/commands/run_final_rfid_delivery_worker.py`, `final_delivery_cycle.py`, `delivery_cycle.py`, `delivery_service.py`, `queue_service.py`, `final_odoo_event_sender.py` | the rows it has selected and the attempt it has in hand |
| web application, two gunicorn processes | `views.py`, `forms.py`, `admin.py`, `middleware.py`, `runtime_controls.py` | the settings row a request has loaded, until it saves it or obeys it |
| legacy worker and scan | `management/commands/run_rfid_worker.py`, `management/commands/run_active_rfid_session_scan.py`, `worker_cycle.py` | a scan in progress |
| database | `models.py` | `RFIDSession` (active, closed, cancelled), `RawRFIDEvent` (queue state), `DeliveryAttempt` (outcome, next_retry_at), one row of `OperationalConfiguration` |
| Odoo, reader | external | stored events, commands; whether inventory is on |

The processes meet only in the database. The control worker writes sessions and
creates QUEUED events; the delivery worker moves events from QUEUED to a settled
state; the control worker reads those states again in the delivery barrier
before it acknowledges STOP. Inside the control worker the control thread and
the capture thread share the executor and the session row, without a lock on
the executor. The web application edits the settings the delivery worker reads
once when it starts, and contacts the reader or Odoo itself from its test pages.

### Components, and what makes each correct

* **Queue policy** (`queue_policy.py`). The legal transitions of a queue state and
  the delay of a retry. SENT, REJECTED and DEAD must be final; every delay must
  be computable from the settings the operational form accepts.
* **Event delivery**. A cycle dead-letters the events of cancelled sessions and
  the exhausted retries, selects the oldest candidates, and for each starts an
  attempt (a transaction), calls Odoo, and completes the attempt (another
  transaction). Correct when an event has one sender at a time, SENT means Odoo
  stored it, retries respect limit and delay, and every event settles. Hard
  because rows are selected without a lock and used later, answers are lost or
  late, and a worker may die between the two transactions.
* **STOP delivery barrier** (`final_delivery_barrier.py`). STOP is acknowledged
  only when all events of the closed session are SENT.
* **Tag ingestion** (`final_tag_ingestion.py`). One transaction creates the events
  of a batch of frames in an ACTIVE session, once per session and EPC.
* **Session service** (`final_session_service.py`). One ACTIVE session per
  reader; closed and cancelled sessions are never reopened.
* **Orchestrator and runtime state**. START, STOP and ABORT as sequences of
  external effects, each of which may fail; revisions detect stale and repeated
  commands. Correct when an IDLE runtime has a stopped reader, a READING one has
  everything reading needs, and an ACK tells the truth.
* **Executor and capture service**. Own the connection, the buffered frames and
  the capture thread. Correct when frames reach their own session and the
  threads do not use the connection together.
* **Control worker process**. Stops the reader at boot, on SIGTERM and after an
  exception.
* **Reader protocol** (`reader_protocol.py`). Frames with a CRC, tag payloads
  with optional fields, and a decoder that finds frames in a byte stream.
  Correct when what the reader sent is what is parsed, damage is noticed, and no
  intact frame is lost to the noise before it, however the bytes are cut.
* **Inventory clients** (`reader_transport.py`, `reader_client.py`,
  `physical_reader_backend.py`, `reader_result_adapter.py`). Correct when a
  result is complete and the reader is asked to stop whatever happens.
* **Active session scan** (`views.py`, `run_active_rfid_session_scan.py`,
  `ingestion.py`, `session_assignment*.py`). Scan, compare with the session's
  tags, store, assign. Hard because each query is a transaction of its own and
  the session may end, or a second scan run, in between. Correct when a session
  has one event per tag and PASS means that nothing was lost.
* **Web interface and configuration** (`middleware.py`, `views.py`, `forms.py`,
  `admin.py`, `runtime_controls.py`, `deployment_policy.py`). Middleware and
  decorators decide which pages a user reaches; settings forms save the whole
  row they loaded; test pages contact the reader or Odoo on the strength of the
  row as they found it. Correct when what the forms saved satisfies their rules,
  no form switches on a contact that nobody confirmed, and reader and Odoo are not
  contacted together. Hard because requests in two processes interleave between
  loading the row and saving or obeying it.
* **Odoo connection and inventory tests** (`odoo_connection.py`,
  `odoo_inventory_count_poc.py`). What they demand of the settings, and the
  order of their requests.
* **Odoo client** (`odoo_api_v1.py`), **legacy worker**, **operator commands**,
  **deployment**: see section 7.

## 2. Modules

| module | contents |
|---|---|
| `QueuePolicy` | queue states, transition table, outcomes, the retry delay: definitions only |
| `EventDelivery` | delivery workers, sessions, ingestion, STOP ACK, Odoo and the network |
| `DeliveryPromise` | what delivery promises, without workers, attempts or network |
| `ReaderControl` | the control worker of one reader with its capture thread |
| `FinalBridge` | control worker and delivery workers over the same sessions and events |
| `ProtocolConstants` | SOF, the least length and the bytes: definitions only |
| `FrameFormat` | CRC, frames and tag payloads; the transmission of one tag report with damage |
| `FrameDecoder` | `FrameStreamDecoder.feed` over a stream in chunks |
| `InventoryScan` | one active inventory of the reader over TCP |
| `SessionScan` | the scan of a session started from the web page |
| `WebConsole` | the pages that change settings or contact reader or Odoo |
| `MCEventDelivery`, `MCFinalBridge`, `MCSessionScan`, `MCWebConsole` | TLC instances of these modules |
| `MCReaderProtocol` | `FrameFormat`, `FrameDecoder` and `InventoryScan` in one run: their instances |
| `EventDeliveryProofs`, `ReaderControlProofs`, `FinalBridgeProofs`, `FrameDecoderProofs`, `FrameFormatProofs`, `InventoryScanProofs`, `SessionScanProofs`, `WebConsoleProofs` | the proofs |

### EventDelivery

An event is a (session, EPC) pair: its identity exists before its row does
(`queue[e] = "absent"`). `session`, `queue`, `attempts` and `due` are the
database: `attempts[e]` is the sequence of attempt outcomes by attempt number,
`due[e]` says whether the clock has passed `next_retry_at` of the last one.
`received` keeps the order of `received_at`. Per worker, `phase`, `todo`, `job`,
`result` are the program counter and locals of `run_final_delivery_cycle`.

Each database transaction is one action, each piece of code between two
transactions a step other processes can interleave with:
`SelectCancelled`, `SelectExhausted` and `DeadLetter` are the two dead-letter
passes; `SelectCandidates`, `StartAttempt`, `StartRefused`, `SendRequest`,
`SenderRaises`, `NoVerdict`, `CompleteAttempt`, `CompleteFails`, `EndCycle` the
delivery of a batch; `Crash` and `Restart` the process. A selected row carries
the state it was selected in (`i.seen`), which the later transaction compares
with the row. `OpenSession`, `EndSession`, `Ingest` and `StopAck` are the control
process seen from here. `Ingest` rolls back as a whole when a row that exists is
rejected or dead.

Odoo is external: a posted request is in `wire` until it is processed or lost,
possibly long after the worker gave up waiting (`NoVerdict`); Odoo stores an
event once per UUID and does not reject one it has stored.

`AttemptLedger`, `OneSender`, `AttemptsWithinLimit`, `TerminalIsFinal`,
`SentMeansAccepted`, `AckedMeansDelivered` and `DeadIsJustified` are its safety;
`KeepsPromise` is the refinement of `DeliveryPromise`.

`due` replaces times: `CompleteAttempt` sets it to FALSE, `RetryFallsDue` may set
it at any later moment. The amount of the delay is `QueuePolicy!RetryDelay`, whose
definedness and monotony `WebConsole!RetryComputable` checks for the settings a
delivery worker may have read, unless the admin site stored them.

### ReaderControl

`pc` and `op` are the control thread: `op` is the command, clean-up or shutdown
being executed, `pc` the next external effect of it. The stopping sequence
(signal and join the capture thread, stop the reader, drain the buffered
frames, settle the session) is the same code in STOP, ABORT, the clean-up of a
failed START and the shutdown; the actions are shared and `op` decides what
follows. An exception goes to `pc = "failed"`, whose actions are the handlers.
`rt` is `LocalReaderRuntime` (`done` is the completed command), `key` the
executor's active session key, `pending` its buffered frames, `cap` the capture
service with its thread. `created` is the result of `synchronize_start_command`
that the clean-up looks at. A frame is represented by the session it was read
for, a batch by a set of sessions: that is all `FramesBelong` needs.

`Interrupt` is SIGTERM: the handler raises KeyboardInterrupt, which no handler
of a command catches, so the shutdown begins from any step. During the START
handshake `key` is not set yet. An interrupted `executor.stop` still closes the
connection in its `finally`. `CycleFails` is any other exception that leaves
`run_once`. `Kill` ends the process anywhere. `Boot` stops the reader first and
then refuses to go on if a session is ACTIVE.

Odoo may deliver any command in any order and again; a poll is a sequence of
`TakeCommand`, `TakeDuplicate`, `RejectCommand` between `BeginCycle` and
`EndCycle`, which both check the health of the capture. Any step may fail. The
reader may miss a request, or act on it and have its answer lost; a reader whose
STOP was answered is off, and a reader does not switch itself on.

Not modelled, because no reachable state of the code takes them: `start` on an
active executor, `stop` on an inactive one outside ABORT, and the identity
mismatches of one reader with itself. A state that did reach one would have no
step of its operation; since `Kill` is always possible TLC would not report it as
a deadlock, but as a violation of `OperationsEnd`, because the operation would
never end.

The worker restores the previous SIGTERM handler before it stops the reader at
the end (`run_final_rfid_worker.py:279`): a second SIGTERM during that shutdown
ends the process at once, which is `Kill`, with the difference that systemd does
not start a unit again that it was told to stop.

### FinalBridge

`FinalBridge` extends `ReaderControl` and instantiates `EventDelivery` with the
same `session`; `EventDelivery`'s acknowledged sessions are `stopAcked`, while
`ReaderControl`'s `acked` is the last ACK of the running process only. Most steps
belong to one side and leave the other alone (`ControlStep`, `SessionStep`,
`DeliveryStep`). Three belong to both. `DrainStep` and `IngestStep` are
`ingest_final_active_tag_frames`: the frames that `ReaderControl` drains or
captures become rows of events of that session (`Ingested`), all of them or,
when one is refused, none. `AckStep` sends the success ACK; a STOP passes the
delivery barrier in the same step, a repeated STOP too. When the barrier is not
passed the ACK is not sent and the worker goes on, as in `ReaderControl`.

`ImplementsDelivery` says that the control worker, with all its failures, crashes
and repeated commands, does to sessions and events only what `EventDelivery`
assumes of it. `AckedSessionComplete` is the promise of the whole: a session
whose STOP was acknowledged is complete in Odoo for good, and no reader, thread
or buffer holds anything that could still be added to it.

### FrameFormat and FrameDecoder

`FrameFormat` has one operator per function of `reader_protocol.py`, on sequences
of bytes and with the widths of the code. Its behaviours send one tag report and
damage it once on the way: two neighbouring bytes are disturbed (`Burst`), the
frame is cut (`CutFrame`), or the reader frames a payload that is not whole
(`CutPayload`). `build_frame`'s own range checks are left out: its callers pass
constants and configured addresses. Python's `^` of two bytes is the constant
`Xor`, a table that `MCReaderProtocol` computes with the community module
`Bitwise`; `XorAssumption` and `CrcAssumption` are what the proofs need of it and
of the polynomial, and TLC evaluates both for all bytes. The CRC is a recursive
function of the number of bytes, the eight shifts a function of the register.

`FrameDecoder` does not copy the buffer: what is in it is always a piece of the
stream, given by `fed` (the bytes passed to `feed`) and `head` (the bytes deleted).
A frame is given by the positions of its ends. Each round of the loop of `feed`
is one of `SkipNoise`, `BadLength`, `BadCandidate`, `GoodFrame`, `Return`.
`parse_frame` is the constant operator `Accepts`, so that what is proved holds for
any notion of an intact frame; TLC gets `Parses` of `FrameFormat`, tabulated.
The test for more than 65535 bytes in `feed` is never true of a two-byte length.

### InventoryScan

`client` is the frame of `ActiveInventoryReaderClient.run` with that of `receive`:
`reads` counts the calls of `recv`, `error` is an exception that waits while the
`finally` block runs. A frame is its command, its EPC, and whether the client
accepts it, which stands for address, status and payload. `recv` may return any
number of the frames under way, none included (a piece of a frame, or noise).
`Interrupt` is an exception from outside: gunicorn's SIGABRT after its timeout
of 45 s, which a scan of up to 60 s can exceed, or Ctrl-C. Outside the `try`
nothing asks the reader to stop, which `StopAsked` excludes by name.

`MCReaderProtocol` runs the three modules of the reader protocol side by side:
`piece` says whose behaviour it is, and the variables of the other two stay as
they are. An inventory's frames are records, not bytes; decoder and format are
joined by a theorem (`ReportsArrive`, section 4).

### SessionScan

`scan[s]` is the process of one request: the session the command found and the sets of tags read,
stored and assigned. Every query is a step; an assignment is one transaction. An
event is identified by its scan and tag, because its key contains the token of
the scan. Scans may overlap: the web service has two processes, and its proxy
gives up after 30 s, so that a request may be made again while the first is
being executed; `beside` remembers which scans ran at the same time. Sessions are ended by a control worker. The
number of new events the page shows, a difference of two counts, is left out.
`CaptureOf` is `capture_from_result`, the key under which a read is stored.

### WebConsole

`row` is the `OperationalConfiguration` row, by the form that edits its columns,
text reduced to whether it is filled. `request[p]` is the request a gunicorn
process executes: `admitted` by the middleware and the decorators, `loaded` with
the row a form was bound to, `command` while the called scan command has not
loaded the row itself, or in contact with reader or Odoo (`reading`,
`authenticating`, `counting`). A form that is not valid, a closed gate and a
missing setting are `Refuse`. `Write` stores the whole row of a ModelForm, the
columns of other forms as they were loaded, and marks the requests it overtook
as `raced`; the setup wizard alone names the column it saves. `approved` and
`completed` are history variables: which switches were ever confirmed, and
whether the setup was ever completed. `delivery` holds the settings the delivery
worker read when it started.

The form rules (`ControlRules`, `OperationalRules`, `IntegrationRules`) are the
`clean` methods. The change page of the Django admin site applies none of them:
`SaveAdmin` stores any mixture of values. So what the forms promise can only be
promised of the columns the admin site left alone. `row.unchecked` is a history
component, carried along when a row is loaded and written back: the groups of
columns whose values were last changed in the admin site. A form that saves its
own group takes it out again; saving the admin page as it was shown adds nothing.

The environment's switches `EnvReader`, `EnvOdoo` are constants,
`SENDER_BACKEND` is "disabled" and `READER_BACKEND` "fake" as installed. A contact
longer than gunicorn's timeout (45 s, where the forms accept up to 60 and 300)
ends in `ProcessKilled`.

## 3. Properties and runs

| run | instance | checks |
|---|---|---|
| `delivery_pair` | 2 workers with limits 1 and 2, 2 events of one session, batch 2, no faults | `AttemptLedger`, `OneSender`, `AttemptsWithinLimit`, `TerminalIsFinal` |
| `delivery_single` | 1 worker, limit 2, an event in each of 2 sessions, batch 1, 1 fault, fair | `SentMeansAccepted`, `AckedMeansDelivered`, `DeadIsJustified`, `KeepsPromise`, `RetryNotEarly`, `CancelledNotSent`, `EveryEventSettles` |
| `control` | 2 sessions, revisions 1 to 3, fair | `IdleMeansStopped`, `AcksHold`, `ReadingIsBacked`, `FramesBelong`, `ClosedNotRead`, `OneReaderUser`, `UnattendedReaderStops`, `OperationsEnd` |
| `final_bridge` | 1 session, revisions 1 to 3, 1 event, 1 delivery worker, 1 fault | `AckedSessionComplete`, `ImplementsDelivery` |
| `reader_protocol` | 32 tags with every burst of 24 patterns at every byte and every cut; 243 streams of up to three pieces in chunks of every size; 2 tags, 3 reports, 2 reads per receive; fair | `TagArrives`, `DamageDetected`, `FramesSound`, `NoFrameLost`, `ChunksDoNotMatter`, `DoneMeansStopped`, `DoneIsComplete`, `StopAsked`, `FeedReturns`, `RunEnds` |
| `session_scan` | 2 scans, 2 tags, 3 sessions, one of them of another operation | `DoubleNeedsOverlap`, `PassedMeansStored`, `AttachedWhileActive` |
| `web_console` | 2 processes, 10 control, 2 operational, 4 integration inputs, 2 of the admin site | `RowConsistent`, `EnabledWasApproved`, `OdooContactAfterSetup`, `ContactsExclude`, `RetryComputable`, `OverwriteNeedsRace` |
| `delivery_crash_liveness`, `control_sigterm`, `control_parser`, `session_scan_twice`, `web_stale` | smallest instance that shows it | one property each, violated: section 5 |

The type invariants of `EventDelivery`, `ReaderControl`, `FrameDecoder` and
`WebConsole` are proved (section 4) and not run.

What the properties say is written above each of them in the modules. Each
property of a passing run has a mutant: a change of one definition, as a
plausible bug would make it, with which TLC finds the property violated. The
mutants stand before the definitions they replace and are used by nothing else.

**Bounds.** `MaxFaults` bounds crashes and failed completions of the delivery
workers, `MaxRevision` the revisions, `Limit` the attempts; nothing else is cut.
Two workers are enough for one to act on what the other changed; the different
limits of `delivery_pair` are workers started before and after a change of the
setting, and let one dead-letter what the other may still attempt; a batch of
two lets a worker keep a row while it sends another, and the batch of one in
`delivery_single` makes every batch full, with the other event left behind. One fault allows a crash
and what follows it; the proofs hold for any number. Two sessions are enough for
what is left over from one to reach the next; three revisions allow START, STOP
and a further command of the same session, older and repeated ones included.
`final_bridge` has one of everything: what it adds to its two parts is their
interleaving, crashes of the control worker (unbounded) and of the delivery
worker (one) included, and `FinalBridgeProofs` covers all other instances.

The streams of `reader_protocol` put an intact frame behind each kind of noise,
false start and damaged frame, one with a frame in its payload included.
`MaxReads` is 2 where the code has 32, and enough for a read without an expected
frame followed by one with it or by the limit. Two reports of a tag and one
between them need three reports. Two scans, two tags: one of a scan's events may
fail after another was stored.

Two web processes are what is deployed. The inputs of `web_console` contain, for
each form, ones that keep its rules and ones that break them, both switches
together included; durations are below and above gunicorn's timeout;
`RetriesShown` is 12, past the attempt at which the delay reaches its cap. The
admin site may submit what the forms may have left (its page saved as it was
shown, or over another state), and what no form accepts: both switches on with
the fake backend, a longest delay below the initial one, and an authentication
method whether or not a credential is stored.

**Fairness.** `EventDelivery!FairSpec`: each worker's next step is eventually
taken (the process loops for ever and systemd restarts it), and the clock
advances past `next_retry_at`. Nothing is assumed of Odoo: every request to it
has a timeout, which is `NoVerdict`. `ReaderControl!FairSpec`: the control thread
goes on with an operation under way, because each of its calls has a timeout,
and systemd boots the worker again after a failure (`Restart=on-failure`), not
after a clean end by SIGTERM. The capture thread gets no fairness: it may hang,
which is what the join timeout is for. That a boot eventually succeeds includes
that the reader answers STOP. `FrameDecoder!FairSpec` and `InventoryFairSpec`
assume that the one thread goes on (the socket has a timeout) and that time
passes; nothing is assumed of the reader. `MCReaderProtocol!PieceSpec` takes over
both. `final_bridge`, `session_scan` and `web_console` check safety only.

## 4. What is proved

`EventDeliveryProofs` proves about `EventDelivery`, for every finite set of
events, any sets of sessions and workers, and any limits (`DeliveryAssumption`):

| theorem | property |
|---|---|
| `TypeCorrect` | `TypeOK` |
| `Invariance` | `IInv`, the inductive invariant |
| `LedgerCorrect` | `AttemptLedger` |
| `SingleSender` | `OneSender` |
| `SentCorrect` | `SentMeansAccepted` |
| `AckCorrect` | `AckedMeansDelivered` |
| `DeadLetterCorrect` | `DeadIsJustified` |
| `RetriesBounded` | `AttemptsWithinLimit` |
| `TerminalForever` | `TerminalIsFinal` |
| `TransitionsFollowPolicy` | `TransitionsLegal`: every change of a queue state is in the policy's table |
| `HistoryImmutable` | `HistoryKept`: finished attempts are never changed |
| `Refinement` | `KeepsPromise` |
| `CycleInvariance` | `CycleInv`, the invariant of the cycle of a single worker |
| `RetriesWait` | `RetryNotEarly`, with a single worker |
| `CancelledStayUnsent` | `CancelledNotSent`, with a single worker |

None of the safety properties is inductive alone. `OneSender` holds because an
attempt starts only from QUEUED or RETRY and an event in somebody's hand is
INFLIGHT; `AttemptLedger` needs `OneSender`, since a second sender could complete
the attempt of the first; `DeadIsJustified` needs to know that a row kept from
an earlier selection still deserves what the pass does to it
(`SelectionSound`: sessions stay cancelled and attempts only grow);
`SentMeansAccepted` needs that a SENT answer in hand is backed by Odoo
(`AnswerSound`); `AckedMeansDelivered` needs that closed sessions take no events.
`IInv` is their conjunction with the types. The proof has one lemma per group of
actions, and under it one step per conjunct. `TerminalForever` and `Refinement`
follow from `IInv` step by step; `Refinement` also needs that only existing
events are ever posted (`RequestsKnown`).

The last three theorems assume `OneWorker`, that there is at most one delivery
worker. The installed unit `rfid-final-delivery.service` runs one process, but
nothing in the code keeps a second one from being started, and with two of them
both properties fail (section 5 has how a retry comes too early). With one, the
batch it selected is still what it found: only it completes attempts, so an event
in it that waits for a retry is still due (`BatchDue`), and of the sessions it saw
cancelled everything that could be sent was dead-lettered in the pass before,
while a cancelled session takes no more events (`SweptHandled`).

`FrameDecoderProofs` proves about `FrameDecoder`, for every set of streams, every
way to cut them into chunks, and every notion of an intact frame:

| theorem | property |
|---|---|
| `Invariance` | `IInv`, the inductive invariant |
| `TypeCorrect` | `TypeOK` |
| `Soundness` | `FramesSound` |
| `DeletionCorrect` | `DeletedRightly` |
| `Completeness` | `NoFrameLost` |
| `ChunkingIrrelevant` | `ChunksDoNotMatter` |

Here the invariant is close to the properties: `FramesSound` and `DeletedRightly`
are inductive with the types, and `NoFrameLost` follows from `DeletedRightly` and
from what is at the front of the buffer when `feed` has returned
(`RestsBeforeFrame`), since a position at which an intact frame begins is not
hopeless. For `ChunksDoNotMatter`, the part `OnTheWay` of the invariant says that
the frames returned and those that the bytes from `head` on hold are always the
frames of the whole; deleting hopeless bytes changes neither.

`FrameFormatProofs` proves about `FrameFormat`, for every set of tags that
`RFIDTagData` can represent (`LineAssumption`: absent fields, EPC and TID of up to
255 bytes, signed 16- and 32-bit numbers) and all error patterns of two bytes:

| theorem | property |
|---|---|
| `TagsArrive` | `TagArrives` |
| `DamageIsDetected` | `DamageDetected` |
| `ReportsArrive` | `ReportsReceived`: format and decoder together |

The run has 32 tags and 24 patterns; these hold for payloads of every length.
`TagsArrive` follows the payload field by field: each begins where
`parse_tag_data` looks for it (`EndsAre`), and the two's complement of a number is
read back (`ShortIsRead`, `CountIsRead`). `DamageIsDetected` rests on two facts
about the polynomial (`CrcAssumption`): after eight shifts the byte that entered
at the top can be told from the low byte of the register, and what was at the
bottom has reached the top unchanged. So a disturbance of two neighbouring bytes
leaves a different register (`TwoSteps`), a register that differs stays different
through every equal byte (`CrcDiffersAfter`), and the cases of the length field,
the CRC itself and the byte before it are apart (`BurstNotParsed`). `ReportsArrive`
puts `FrameFormat!Parses` in the place of `Accepts`: of a stream of reports, in
chunks of any size, the decoder returns each report as soon as its last byte has
arrived and nothing else, and each is parsed to the tag the reader reported.

`ReaderControlProofs` proves about `ReaderControl`, for every set of sessions and
every bound of the revisions:

| theorem | property |
|---|---|
| `Invariance` | `IInv`, the inductive invariant |
| `TypeCorrect` | `TypeOK` |
| `IdleCorrect` | `IdleMeansStopped` |
| `AcksCorrect` | `AcksHold` |
| `ReadingCorrect` | `ReadingIsBacked` |
| `FramesCorrect` | `FramesBelong` |
| `ClosedCorrect` | `ClosedNotRead` |
| `ReaderUserCorrect` | `OneReaderUser` |

The code is a sequence of effects with a handler at each, so the invariant says
what is true at each step: which operation it belongs to (`StepsFit`), what the
steps before it have done (`StepsDone`), that runtime, connection, reader and
capture thread are busy with the same session (`RuntimeKnows`), that an IDLE
runtime has none of them (`IdleIsQuiet`), what a READING one stands on between
commands (`ReadingBacked`), whose the buffered frames are (`FramesOwned`), what
the completed command has brought about (`DoneHolds`), and that an ended process
has no memory (`EndedIsEmpty`). `FramesOwned` is the delicate one: a STOP forgets the
session before its buffer is drained, so that an interruption there leaves frames
of a session the runtime no longer knows; only the shutdown can come next, which
without a session never drains.

`FinalBridgeProofs` proves about `FinalBridge`, for every instance that satisfies
`ControlAssumption` and `BridgeAssumption`:

| theorem | what it says |
|---|---|
| `ImplementsControl` | the whole implements `ReaderControl!Spec` |
| `ControlInvariance` | so the invariant of `ReaderControlProofs` holds in it |
| `BridgeDelivers` | `ImplementsDelivery`: with that invariant, the whole implements `EventDelivery!Spec` |
| `AckedComplete` | `AckedSessionComplete` |
| `BridgeKeepsPromise` | the whole implements `DeliveryPromise!Spec` |

`BridgeKeepsPromise` is `BridgeDelivers` followed by `EventDeliveryProofs!Refinement`.
`AckedComplete` joins everything: `BridgeDelivers` carries
`EventDeliveryProofs!AckCorrect` over to the whole, so the acknowledged session
is closed and delivered; `ClosedNotRead` says that neither reader nor capture
thread works for it; and `BuffersOpen`, one more invariant of the control
worker, that nothing of a closed session is buffered.

`WebConsoleProofs` proves about `WebConsole`, for any inputs and any number of
processes:

| theorem | property |
|---|---|
| `ConsoleTypes` | `TypeOK` |
| `RowKeepsRules` | `RowConsistent` |
| `SwitchesWereApproved` | `EnabledWasApproved` |
| `OdooAfterSetup` | `OdooContactAfterSetup` |
| `OneContactUnlessRaced` | `ContactsExclude` |
| `OnlyRacesOverwrite` | `OverwriteNeedsRace` |
| `DelaysComputable` | `RetryComputable` |

Nothing is assumed of what is typed, neither into the forms nor into the admin
site; `RowKeepsRules`, `SwitchesWereApproved` and `DelaysComputable` speak of the
columns, and the delivery settings, that the admin site did not change last. The
invariant says of the stored row and of every loaded one that it is consistent
and approved (`GoodRow`), and of a request what its gates have established
(`GoodRequest`). `DelaysComputable` needs besides that the powers of two, a
recursive function in `QueuePolicy`, exist and grow (`PowersExist`).

`InventoryScanProofs` proves about `InventoryScan`, for any tags, any
`maximum_reads` and any number of reports:

| theorem | property |
|---|---|
| `Invariance` | `IInv`, the inductive invariant |
| `DoneStopped` | `DoneMeansStopped` |
| `DoneComplete` | `DoneIsComplete` |
| `StopWasAsked` | `StopAsked` |

`DoneMeansStopped` rests on an order: START is sent once and before STOP, so that
nothing follows STOP on its way to the reader (`StopIsLast`), and an accepted
STOP response, on the wire or in the client's hands, means that the reader is off
and has nothing left to obey (`ConfirmedIsOff`). `DoneIsComplete` is inductive
as long as no exception waits (`TagsComplete`); its step is `FirstOfConcat`: the
first report in two sequences is that of the first, if it has one.

`SessionScanProofs` proves about `SessionScan`, for any number of scans and any
sets of sessions and tags:

| theorem | property |
|---|---|
| `Invariance` | `IInv`, the inductive invariant |
| `OverlapNeeded` | `DoubleNeedsOverlap` |
| `PassCorrect` | `PassedMeansStored` |
| `AttachmentCorrect` | `AttachedWhileActive` |

`DoubleNeedsOverlap` compares two scans that did not run at the same time, so the
invariant orders them (`Ordered`): one was over before the other began
(`Before`), and then what it attached to a session is seen by the later one, or
the session is closed and takes nothing any more. `PassedMeansStored` needs that
every tag read stays accounted for (`ReadAccounted`) while it is filtered,
stored and assigned.

Every invariant and action property of a passing run is thus stated by a theorem.
Only model-checked are the liveness properties, which are outside the prover's
reach: `EveryEventSettles`, `UnattendedReaderStops`, `OperationsEnd`, `FeedReturns`
and `RunEnds`. Where a recursive function had to be reasoned about (the frames of
a stream, the CRC of a frame, the powers of two, the reports of a stream), the
induction is by contradiction: the least argument at which the claim fails
(`Least`, from the well-foundedness of the natural numbers) cannot exist. The
model keeps such definitions as functions, not as RECURSIVE operators.

## 5. Where code and documentation disagree

* `EveryAttemptCompletes` (`delivery_crash_liveness`): a delivery worker that dies
  between start and completion leaves the event INFLIGHT; nothing selects
  INFLIGHT events, so it is neither retried nor given up, and the STOP of its
  session stays pending.
* `ShutdownStopsReader` (`control_sigterm`): SIGTERM during the START handshake,
  or inside `executor.stop`, ends the worker cleanly with the reader still on.
* `CaptureErrorSurvived` (`control_parser`): a tag that cannot be parsed ends the
  capture thread, and then the worker.
* `UniqueInSession` (`session_scan_twice`): two scans at a time each store an event
  of the same tag in the same session.
* `ContactNeedsPhrase` (`web_stale`): a settings form that was loaded before contact
  was switched off writes the whole row back and switches it on again, without
  the confirmation phrase, and without being staff.

More were met and have no run. The admin site (`admin.py:182-206`) edits the row
with none of the form rules: staff can turn on both switches there without the
phrase, select an authentication method without a credential, and store a longest
delay below the initial one, with which `calculate_retry_delay_seconds` raises at
every retry of a delivery worker started since. `WebConsole` has these saves, and
its properties exempt what they changed and nothing else. gunicorn's timeout of 45 s is
shorter than the scans its pages accept. With two delivery workers, which are not
deployed, a stale selection starts a retry before its time, because
`start_delivery_attempt` compares the state but not `next_retry_at`. And STOP and
START in one poll lose the error of the first capture thread, because
`FinalCaptureService.start` clears it before a health check has seen it.

## 6. Plan

Done, in this order:

1. `QueuePolicy`, `EventDelivery`, `DeliveryPromise` and their proofs: the
   delivery of events is what the bridge is for.
2. `ReaderControl`: commands, capture and shutdown of one reader.
3. `FrameFormat`, `FrameDecoder` and its proofs: every read enters through them.
4. `InventoryScan`, `SessionScan`: the scan of one session started from the web.
5. `ReaderControlProofs`; `FinalBridge` and its proofs: control and delivery
   composed, the barrier in its place.
6. The retry delay; `WebConsole` and its proofs: gates, middleware, settings row.
7. `SessionScanProofs` and `InventoryScanProofs`.
8. `FrameFormatProofs`, and the action properties of a single delivery worker.

Left:

9. `CachedInventory`: handshake, statistics and one request per cached row.
10. Several readers under one gateway, whose polls share payloads.

## 7. Not modelled

* The cached inventory client: planned above; a contact through it is one step
  of `WebConsole`.
* The legacy worker: its gates exclude running it beside the final workers, and
  it ingests and assigns as `SessionScan` does.
* `odoo_api_v1.py`: HTTP and JSON; each outcome it can have is an outcome of the
  actions that call it. The same holds of the requests of the Odoo test pages.
* Pages that only show rows; the forms for readers and sites, which validate
  and save single rows; operator commands, run once by hand.
* Environment settings, which are constants; the encryption of the credential,
  reduced to whether one is stored.
* Deployment scripts; the units enter as restart policy, processes and timeouts.
* Changing rows by hand in the database, and through the admin site other rows
  than the settings row.

## 8. Running

    tlc -config delivery_pair.cfg MCEventDelivery.tla
    tlc -config control.cfg ReaderControl.tla
    tlc -config final_bridge.cfg MCFinalBridge.tla
    tlc -config reader_protocol.cfg MCReaderProtocol.tla
    tlc -config session_scan.cfg MCSessionScan.tla
    tlc -config web_console.cfg MCWebConsole.tla
    tlapm FinalBridgeProofs.tla
    tlapm FrameFormatProofs.tla

`PROJECT.json` names module and configuration of every run. The largest,
`web_console`, has about 1.9 million states and takes a minute and a half;
`reader_protocol` takes up to two minutes, the others less than one.

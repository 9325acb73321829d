--------------------------- MODULE ReaderControl ---------------------------
(***************************************************************************)
(* The control worker of one reader: run_final_rfid_worker.                *)
(*                                                                         *)
(* The control thread polls Odoo for START, STOP and ABORT commands and    *)
(* executes each as a sequence of steps on the local session, the reader   *)
(* connection and the capture thread.  The capture thread polls tag frames *)
(* off the same connection and ingests them.  SIGTERM may arrive between   *)
(* any two steps, the process may be killed, and systemd boots it again.   *)
(*                                                                         *)
(* A tag frame is represented by the session whose START made the reader   *)
(* report it, and a batch of frames by the set of their sessions.  The     *)
(* reader itself and Odoo, which may send any command in any order and     *)
(* deliver it again, are external.                                         *)
(***************************************************************************)
EXTENDS Integers, FiniteSets

CONSTANTS
    Sessions,     \* external session keys
    MaxRevision,  \* bound: command revisions are 1 .. MaxRevision
    NoSession     \* "no session key"

ASSUME ControlAssumption ==
    /\ IsFiniteSet(Sessions)
    /\ MaxRevision \in Nat \ {0}
    /\ NoSession \notin Sessions

Keys == Sessions \cup {NoSession}

Commands == [session : Sessions, command : {"start", "stop", "abort"}, revision : 1 .. MaxRevision]

NoCommand == [session |-> NoSession, command |-> "none", revision |-> 0]

\* What the control thread is doing: a command, the clean-up after a failed
\* START, or the shutdown of the process on SIGTERM or after an exception.
Operations == {"none", "start", "stop", "abort", "cleanup", "term", "abend"}

Shutdown == {"term", "abend"}

\* The process is not running: it ended cleanly, it ended SIGTERM's shutdown
\* with an error, or it was killed or ended by an exception.
Ended == {"exited", "errored", "down"}

Steps == Ended \cup
    {"loop", "commands", "sync", "connect", "handshake", "capture", "join",
     "joining", "stop", "drain", "settle", "ack", "failed"}

\* Where the capture thread is.  "unstarted" is a Thread object whose start()
\* failed.
Alive == {"check", "poll", "ingest"}
ThreadStates == Alive \cup {"none", "unstarted", "ended"}

VARIABLES
    pc,         \* the control thread's next step
    op,         \* its operation
    cmd,        \* the command it executes
    target,     \* the session the operation is about
    created,    \* SessionSyncResult.created of the START being executed
    rt,         \* LocalReaderRuntime
    acked,      \* the success ACK last sent, until the next command is taken
    key,        \* the executor's _active_session_key: set while it is active
    pending,    \* the executor's _pending_tag_frames
    cap,        \* FinalCaptureService and its thread
    session,    \* RFIDSession.status, "none" before the row exists
    stored,     \* the frames ingested into each session
    inventory   \* the session the reader reports tags for (external)

commandVars == <<op, cmd, target, created>>
readerVars  == <<key, pending, inventory>>
storeVars   == <<session, stored>>
vars == <<pc, op, cmd, target, created, rt, acked, key, pending, cap,
          session, stored, inventory>>

Offline == [state |-> "offline", key |-> NoSession, revision |-> 0, done |-> NoCommand]

\* A capture service that has just been created or started.
CaptureOf(thread, k) == [thread |-> thread, key |-> k, stopping |-> FALSE,
                         error |-> FALSE, hand |-> {}]

NoCapture == CaptureOf("none", NoSession)

Init ==
    /\ pc = "down"
    /\ op = "none"
    /\ cmd = NoCommand
    /\ target = NoSession
    /\ created = FALSE
    /\ rt = Offline
    /\ acked = NoCommand
    /\ key = NoSession
    /\ pending = {}
    /\ cap = NoCapture
    /\ session = [s \in Sessions |-> "none"]
    /\ stored = [s \in Sessions |-> {}]
    /\ inventory = NoSession

\* What the reader reports now.
Reads == IF inventory = NoSession THEN {} ELSE {inventory}

Goto(step) == pc' = step

-----------------------------------------------------------------------------
(* Process life cycle.                                                     *)

\* The process ends: its memory, its threads and its connection are gone, the
\* reader is left as it is.
Die(how) ==
    /\ Goto(how)
    /\ op' = "none"
    /\ cmd' = NoCommand
    /\ target' = NoSession
    /\ created' = FALSE
    /\ rt' = Offline
    /\ acked' = NoCommand
    /\ key' = NoSession
    /\ pending' = {}
    /\ cap' = NoCapture
    /\ UNCHANGED <<storeVars, inventory>>

\* Mutant: the local sessions are looked at before the reader is stopped.
BootSessionsFirst ==
    /\ pc \in Ended
    /\ IF \E s \in Sessions : session[s] = "active"
       THEN Goto("down") /\ UNCHANGED <<rt, inventory>>
       ELSE Goto("loop") /\ rt' = [rt EXCEPT !.state = "idle"] /\ inventory' = NoSession
    /\ UNCHANGED <<commandVars, acked, key, pending, cap, storeVars>>

\* Startup: verify_idle stops the reader before the local sessions are looked
\* at; a session left ACTIVE refuses the start.
Boot ==
    /\ pc \in Ended
    /\ inventory' = NoSession
    /\ IF \E s \in Sessions : session[s] = "active"
       THEN Goto("down") /\ UNCHANGED rt
       ELSE Goto("loop") /\ rt' = [rt EXCEPT !.state = "idle"]
    /\ UNCHANGED <<commandVars, acked, key, pending, cap, storeVars>>

Kill == pc \notin Ended /\ Die("down")

\* The KeyboardInterrupt of the SIGTERM handler, or another exception that
\* leaves run_once, reaches _safe_shutdown_reader.
BeginShutdown(how, k) ==
    /\ Goto("join")
    /\ op' = how
    /\ cmd' = NoCommand
    /\ target' = k
    /\ created' = FALSE
    /\ key' = k

\* SIGTERM.  No handler of the command catches KeyboardInterrupt; an
\* interrupted executor.stop still closes the connection, its STOP sent or not,
\* and an interrupted drain loses the frames it took.
Interrupt ==
    /\ pc \notin Ended
    /\ op \notin Shutdown
    /\ \E k \in {key} \cup (IF pc = "stop" THEN {NoSession} ELSE {}) :
           BeginShutdown("term", k)
    /\ inventory' \in {inventory} \cup (IF pc = "stop" THEN {NoSession} ELSE {})
    /\ pending' \in {pending} \cup (IF pc = "drain" THEN {{}} ELSE {})
    /\ UNCHANGED <<rt, acked, cap, storeVars>>

\* run_once begins: capture is healthy and the commands are fetched.
BeginCycle ==
    /\ pc = "loop"
    /\ ~cap.error
    /\ Goto("commands")
    /\ UNCHANGED <<commandVars, rt, acked, cap, readerVars, storeVars>>

\* run_once ends and begins again with the health check.
EndCycle ==
    /\ pc = "commands"
    /\ ~cap.error
    /\ Goto("loop")
    /\ UNCHANGED <<commandVars, rt, acked, cap, readerVars, storeVars>>

\* run_once raises: capture has failed, or Odoo answered something that is no
\* command (a transport failure is retried, the loop goes on).
CycleFails ==
    /\ pc \in {"loop", "commands"}
    /\ BeginShutdown("abend", key)
    /\ UNCHANGED <<rt, acked, pending, cap, storeVars, inventory>>

-----------------------------------------------------------------------------
(* Commands: validate_command and plan_command.                            *)

SameRevisionSession(c) ==
    c.session = (IF rt.key # NoSession THEN rt.key ELSE rt.done.session)

\* Mutant: the revision alone makes a command a duplicate.
DuplicateRevision(c) ==
    SameRevisionSession(c) /\ c.revision = rt.revision /\ rt.done # NoCommand

Duplicate(c) ==
    SameRevisionSession(c) /\ c.revision = rt.revision /\ c = rt.done

NewCommand(c) == SameRevisionSession(c) => c.revision > rt.revision

MayPlan(c) ==
    CASE c.command = "start" -> rt.state = "idle" /\ rt.key = NoSession
      [] c.command = "stop"  -> rt.state = "reading" /\ rt.key = c.session
      [] c.command = "abort" -> rt.key \in {NoSession, c.session}

\* The planned runtime is in force from the first step on.
TakeCommand(c) ==
    /\ pc = "commands"
    /\ NewCommand(c)
    /\ MayPlan(c)
    /\ rt' = [state    |-> IF c.command = "start" THEN "starting" ELSE "stopping",
              key      |-> c.session,
              revision |-> c.revision,
              done     |-> NoCommand]
    /\ Goto(IF c.command = "start" THEN "sync" ELSE "join")
    /\ op' = c.command
    /\ cmd' = c
    /\ target' = c.session
    /\ created' = FALSE
    /\ acked' = NoCommand
    /\ UNCHANGED <<cap, readerVars, storeVars>>

\* The completed command again: only its ACK is sent again.
TakeDuplicate(c) ==
    /\ pc = "commands"
    /\ Duplicate(c)
    /\ Goto("ack")
    /\ op' = c.command
    /\ cmd' = c
    /\ target' = c.session
    /\ acked' = NoCommand
    /\ UNCHANGED <<created, rt, cap, readerVars, storeVars>>

\* Anything else gets a failure ACK and changes nothing.
RejectCommand(c) ==
    /\ pc = "commands"
    /\ ~Duplicate(c)
    /\ ~(NewCommand(c) /\ MayPlan(c))
    /\ acked' = NoCommand
    /\ UNCHANGED <<pc, commandVars, rt, cap, readerVars, storeVars>>

\* The command has been dealt with.
NextCommand ==
    /\ Goto("commands")
    /\ op' = "none"
    /\ cmd' = NoCommand
    /\ target' = NoSession
    /\ created' = FALSE

\* _send_completed_success_ack: Odoo may not be reached, and the delivery
\* barrier may hold back the ACK of a STOP.
SendAck ==
    /\ pc = "ack"
    /\ acked' \in {cmd, NoCommand}
    /\ NextCommand
    /\ UNCHANGED <<rt, cap, readerVars, storeVars>>

\* mark_command_completed.
Completed == rt' = [rt EXCEPT !.done = cmd]

-----------------------------------------------------------------------------
(* START.                                                                  *)

\* synchronize_start_command: reuse the active session or create it, unless it
\* has ended or another one is active.
SyncSession ==
    /\ pc = "sync"
    /\ \/ session[target] = "active"
       \/ session[target] = "none" /\ \A s \in Sessions : session[s] # "active"
    /\ created' = (session[target] = "none")
    /\ session' = [session EXCEPT ![target] = "active"]
    /\ Goto("connect")
    /\ UNCHANGED <<op, cmd, target, rt, acked, cap, readerVars, stored>>

SyncFails ==
    /\ pc = "sync"
    /\ Goto("failed")
    /\ UNCHANGED <<commandVars, rt, acked, cap, readerVars, storeVars>>

\* executor.start connects and sends START INVENTORY; the reader may get it.
SendStart ==
    /\ pc = "connect"
    /\ key = NoSession
    /\ inventory' \in {inventory, target}
    /\ Goto("handshake")
    /\ UNCHANGED <<commandVars, rt, acked, key, pending, cap, storeVars>>

ConnectFails ==
    /\ pc = "connect"
    /\ Goto("failed")
    /\ UNCHANGED <<commandVars, rt, acked, cap, readerVars, storeVars>>

\* Tag frames that arrive before the awaited response are kept.
KeepFrames == pending' \in {pending, pending \cup Reads}

\* The reader accepts START: it reads for the session from here on.
StartAccepted ==
    /\ pc = "handshake"
    /\ inventory = target
    /\ KeepFrames
    /\ key' = target
    /\ rt' = [rt EXCEPT !.state = "reading"]
    /\ Goto("capture")
    /\ UNCHANGED <<commandVars, acked, cap, storeVars, inventory>>

\* Rejected or not answered: the connection is closed and no STOP is sent.
StartNotAccepted ==
    /\ pc = "handshake"
    /\ KeepFrames
    /\ Goto("failed")
    /\ UNCHANGED <<commandVars, rt, acked, key, cap, storeVars, inventory>>

\* Mutant: a thread that does not start is not noticed.
StartCaptureUnnoticed(thread) ==
    /\ pc = "capture"
    /\ cap.thread \notin Alive
    /\ cap' = CaptureOf(thread, target)
    /\ Goto("ack") /\ Completed
    /\ UNCHANGED <<commandVars, acked, readerVars, storeVars>>

\* FinalCaptureService.start: earlier errors are forgotten.  The new thread
\* may not be startable, its object stays.
StartCapture(thread) ==
    /\ pc = "capture"
    /\ cap.thread \notin Alive
    /\ cap' = CaptureOf(thread, target)
    /\ IF thread = "unstarted"
       THEN Goto("failed") /\ UNCHANGED rt
       ELSE Goto("ack") /\ Completed
    /\ UNCHANGED <<commandVars, acked, readerVars, storeVars>>

-----------------------------------------------------------------------------
(* Stopping: STOP, ABORT, the clean-up after a failed START and the        *)
(* shutdown share these steps, in this order.                              *)

\* FinalCaptureService.stop signals the thread, if there is one.
StopCapture ==
    /\ pc = "join"
    /\ target # NoSession => cap.key \in {NoSession, target}
    /\ IF cap.thread = "none"
       THEN cap' = [cap EXCEPT !.key = NoSession] /\ Goto("stop")
       ELSE cap' = [cap EXCEPT !.stopping = TRUE] /\ Goto("joining")
    /\ UNCHANGED <<commandVars, rt, acked, readerVars, storeVars>>

CaptureJoined ==
    /\ pc = "joining"
    /\ cap.thread = "ended"
    /\ cap' = [cap EXCEPT !.thread = "none", !.key = NoSession]
    /\ Goto("stop")
    /\ UNCHANGED <<commandVars, rt, acked, readerVars, storeVars>>

\* Mutants: a thread that is still alive is not noticed; join has no timeout.
JoinUnnoticed ==
    /\ pc = "joining"
    /\ cap.thread # "ended"
    /\ Goto("stop")
    /\ UNCHANGED <<commandVars, rt, acked, cap, readerVars, storeVars>>

JoinForever ==
    /\ pc = "joining"
    /\ cap.thread = "unstarted"
    /\ Goto("failed")
    /\ UNCHANGED <<commandVars, rt, acked, cap, readerVars, storeVars>>

\* The thread outlives the join timeout, or it never was started.
JoinFails ==
    /\ pc = "joining"
    /\ cap.thread # "ended"
    /\ Goto("failed")
    /\ UNCHANGED <<commandVars, rt, acked, cap, readerVars, storeVars>>

\* An active executor is stopped over its connection; an ABORT without one
\* has verify_idle stop the reader over a fresh connection.
NeedsStop == key # NoSession \/ op = "abort"

KeepStopFrames == IF key # NoSession THEN KeepFrames ELSE UNCHANGED pending

\* Mutant: an ABORT without a connection takes the reader to be idle.
StopUnverified ==
    /\ pc = "stop"
    /\ NeedsStop
    /\ inventory' = IF key # NoSession THEN NoSession ELSE inventory
    /\ KeepStopFrames
    /\ key' = NoSession
    /\ rt' = IF op \in {"stop", "abort"}
             THEN [rt EXCEPT !.state = "idle", !.key = NoSession] ELSE rt
    /\ Goto("drain")
    /\ UNCHANGED <<commandVars, acked, cap, storeVars>>

StopAnswered ==
    /\ pc = "stop"
    /\ NeedsStop
    /\ inventory' = NoSession
    /\ KeepStopFrames
    /\ key' = NoSession
    /\ rt' = IF op \in {"stop", "abort"}
             THEN [rt EXCEPT !.state = "idle", !.key = NoSession] ELSE rt
    /\ Goto("drain")
    /\ UNCHANGED <<commandVars, acked, cap, storeVars>>

\* Mutant: a missing answer is ignored.
StopUnanswered ==
    /\ pc = "stop"
    /\ NeedsStop
    /\ inventory' \in {inventory, NoSession}
    /\ KeepStopFrames
    /\ key' = NoSession
    /\ Goto("drain")
    /\ UNCHANGED <<commandVars, rt, acked, cap, storeVars>>

\* No answer or a refusal: the connection is closed all the same.
StopNotAnswered ==
    /\ pc = "stop"
    /\ NeedsStop
    /\ inventory' \in {inventory, NoSession}
    /\ KeepStopFrames
    /\ key' = NoSession
    /\ Goto("failed")
    /\ UNCHANGED <<commandVars, rt, acked, cap, storeVars>>

\* Mutant: what is buffered stays there.
DrainLater ==
    /\ pc = "drain"
    /\ Goto("settle")
    /\ UNCHANGED <<commandVars, rt, acked, cap, readerVars, storeVars>>

\* drain_pending_tags ingests what is buffered; nothing buffered, nothing to do.
Drain ==
    /\ pc = "drain"
    /\ pending # {} => session[target] = "active"
    /\ stored' = [stored EXCEPT ![target] = @ \cup pending]
    /\ pending' = {}
    /\ Goto("settle")
    /\ UNCHANGED <<commandVars, rt, acked, key, cap, session, inventory>>

\* Ingestion raises: the frames were taken from the buffer and are lost.
DrainFails ==
    /\ pc = "drain"
    /\ pending # {}
    /\ pending' = {}
    /\ Goto("failed")
    /\ UNCHANGED <<commandVars, rt, acked, key, cap, storeVars, inventory>>

EndSession(status) ==
    session' = [session EXCEPT ![target] = IF @ = "active" THEN status ELSE @]

\* STOP closes the local session, unless it is missing or cancelled.
SettleStop ==
    /\ pc = "settle"
    /\ op = "stop"
    /\ session[target] \in {"active", "closed"}
    /\ EndSession("closed")
    /\ Completed
    /\ Goto("ack")
    /\ UNCHANGED <<commandVars, acked, cap, readerVars, stored>>

\* ABORT cancels it; that it is missing or has ended is no error.
SettleAbort ==
    /\ pc = "settle"
    /\ op = "abort"
    /\ EndSession("cancelled")
    /\ Completed
    /\ Goto("ack")
    /\ UNCHANGED <<commandVars, acked, cap, readerVars, stored>>

SettleFails ==
    /\ pc = "settle"
    /\ op \in {"stop", "abort"}
    /\ Goto("failed")
    /\ UNCHANGED <<commandVars, rt, acked, cap, readerVars, storeVars>>

Degrade == rt' = [rt EXCEPT !.state = "degraded", !.done = NoCommand]

\* A failed START cancels the session it created (an error is swallowed),
\* degrades the runtime and sends a failure ACK.
SettleCleanup ==
    /\ pc = "settle"
    /\ op = "cleanup"
    /\ \/ created /\ EndSession("cancelled")
       \/ UNCHANGED session
    /\ Degrade
    /\ NextCommand
    /\ UNCHANGED <<acked, cap, readerVars, stored>>

\* A connection that was not active is closed without a STOP.  The local
\* session stays ACTIVE.
ShutdownEnds ==
    /\ op \in Shutdown
    /\ pc = "settle" \/ (pc = "stop" /\ key = NoSession)
    /\ Die(IF op = "term" THEN "exited" ELSE "down")

\* The handler of the exception that the last step raised.
StartFails ==
    /\ pc = "failed"
    /\ op = "start"
    /\ op' = "cleanup"
    /\ Goto(IF key # NoSession THEN "join" ELSE "settle")
    /\ UNCHANGED <<cmd, target, created, rt, acked, cap, readerVars, storeVars>>

CleanupFails ==
    /\ pc = "failed"
    /\ op = "cleanup"
    /\ Goto("settle")
    /\ UNCHANGED <<commandVars, rt, acked, cap, readerVars, storeVars>>

StopOrAbortFails ==
    /\ pc = "failed"
    /\ op \in {"stop", "abort"}
    /\ Degrade
    /\ NextCommand
    /\ UNCHANGED <<acked, cap, readerVars, storeVars>>

ShutdownFails ==
    /\ pc = "failed"
    /\ op \in Shutdown
    /\ Die(IF op = "term" THEN "errored" ELSE "down")

-----------------------------------------------------------------------------
(* The capture thread: FinalCaptureService._run.                           *)

CaptureGoes(thread, hand) == cap' = [cap EXCEPT !.thread = thread, !.hand = hand]

CaptureError ==
    cap' = [cap EXCEPT !.thread = "ended", !.stopping = TRUE, !.error = TRUE, !.hand = {}]

CaptureCheck ==
    /\ cap.thread = "check"
    /\ CaptureGoes(IF cap.stopping THEN "ended" ELSE "poll", {})
    /\ UNCHANGED <<pc, commandVars, rt, acked, readerVars, storeVars>>

\* poll_tag_frames takes the buffered frames or else receives new ones.
CapturePoll ==
    /\ cap.thread = "poll"
    /\ \E frames \in IF pending # {} THEN {pending}
                     ELSE {{}} \cup (IF key # NoSession THEN {Reads} ELSE {}) :
           CaptureGoes(IF frames = {} THEN "check" ELSE "ingest", frames)
    /\ pending' = {}
    /\ UNCHANGED <<pc, commandVars, rt, acked, key, inventory, storeVars>>

CaptureIngest ==
    /\ cap.thread = "ingest"
    /\ session[cap.key] = "active"
    /\ stored' = [stored EXCEPT ![cap.key] = @ \cup cap.hand]
    /\ CaptureGoes("check", {})
    /\ UNCHANGED <<pc, commandVars, rt, acked, readerVars, session>>

\* Receiving raises: the error is kept, and so are frames of the batch that
\* were buffered before the bad one.
CapturePollFails ==
    /\ cap.thread = "poll"
    /\ pending = {} /\ key # NoSession
    /\ KeepFrames
    /\ CaptureError
    /\ UNCHANGED <<pc, commandVars, rt, acked, key, inventory, storeVars>>

\* Ingestion raises: the error is kept, the frames are lost.
CaptureIngestFails ==
    /\ cap.thread = "ingest"
    /\ CaptureError
    /\ UNCHANGED <<pc, commandVars, rt, acked, readerVars, storeVars>>

-----------------------------------------------------------------------------
Receive == \E c \in Commands : TakeCommand(c) \/ TakeDuplicate(c) \/ RejectCommand(c)

\* The steps of an operation under way.
OperationStep ==
    \/ SyncSession \/ SyncFails
    \/ SendStart \/ ConnectFails
    \/ StartAccepted \/ StartNotAccepted
    \/ StartCapture("check") \/ StartCapture("unstarted")
    \/ StopCapture \/ CaptureJoined \/ JoinFails
    \/ StopAnswered \/ StopNotAnswered
    \/ Drain \/ DrainFails
    \/ SettleStop \/ SettleAbort \/ SettleFails \/ SettleCleanup
    \/ ShutdownEnds \/ SendAck
    \/ StartFails \/ CleanupFails \/ StopOrAbortFails \/ ShutdownFails

CaptureStep ==
    \/ CaptureCheck
    \/ CapturePoll \/ CapturePollFails
    \/ CaptureIngest \/ CaptureIngestFails

Next ==
    \/ Boot \/ Kill \/ Interrupt
    \/ BeginCycle \/ EndCycle \/ CycleFails
    \/ Receive
    \/ OperationStep
    \/ CaptureStep

Spec == Init /\ [][Next]_vars

\* The control thread runs on, nothing is assumed of the capture thread, of
\* Odoo or of the reader.  systemd restarts the worker after a failure
\* (Restart=on-failure), not after a SIGTERM.
FairSpec ==
    /\ Spec
    /\ WF_vars(OperationStep)
    /\ WF_vars(pc = "down" /\ Boot)

-----------------------------------------------------------------------------
(* Correctness.                                                            *)

\* The value every variable may take.
TypeOK ==
    /\ pc \in Steps
    /\ op \in Operations
    /\ cmd \in Commands \cup {NoCommand}
    /\ target \in Keys
    /\ created \in BOOLEAN
    /\ rt \in [state : {"offline", "idle", "starting", "reading", "stopping", "degraded"},
               key : Keys, revision : 0 .. MaxRevision, done : Commands \cup {NoCommand}]
    /\ acked \in Commands \cup {NoCommand}
    /\ key \in Keys
    /\ pending \in SUBSET Sessions
    /\ cap \in [thread : ThreadStates, key : Keys, stopping : BOOLEAN,
                error : BOOLEAN, hand : SUBSET Sessions]
    /\ session \in [Sessions -> {"none", "active", "closed", "cancelled"}]
    /\ stored \in [Sessions -> SUBSET Sessions]
    /\ inventory \in Keys

\* A runtime that calls itself idle has stopped the reader and given up the
\* connection, whichever of START, STOP, ABORT failed at which step before.
IdleMeansStopped ==
    rt.state = "idle" => inventory = NoSession /\ key = NoSession

\* A success ACK still holds while the next command is being awaited: the
\* reader reads for the started session, is off after a STOP or an ABORT, and
\* the stopped session is closed, the aborted one no longer active.
AcksHold ==
    acked # NoCommand /\ pc \in {"loop", "commands"} =>
        CASE acked.command = "start" -> /\ key = acked.session
                                        /\ inventory = acked.session
                                        /\ session[acked.session] = "active"
          [] acked.command = "stop"  -> /\ inventory = NoSession
                                        /\ session[acked.session] = "closed"
          [] acked.command = "abort" -> /\ inventory = NoSession
                                        /\ session[acked.session] # "active"

\* Between commands a READING runtime has everything reading needs: an active
\* session, the connection, and a capture thread for it or its error to report.
ReadingIsBacked ==
    rt.state = "reading" /\ pc \in {"loop", "commands"} =>
        /\ session[rt.key] = "active"
        /\ key = rt.key
        /\ inventory = rt.key
        /\ cap.key = rt.key
        /\ cap.thread \in Alive \/ cap.error

\* No tag read for one session is ever stored under another, however frames
\* were left in the buffer by a failed command.
FramesBelong ==
    \A s \in Sessions : stored[s] \subseteq {s}

\* A closed session is read for by neither the reader nor the capture thread.
ClosedNotRead ==
    \A s \in Sessions : session[s] = "closed" =>
        inventory # s /\ key # s /\ ~(cap.thread \in Alive /\ cap.key = s)

\* The control thread uses the reader connection only while no capture thread
\* does: the executor has no lock of its own.
OneReaderUser ==
    pc \in {"connect", "handshake", "stop", "drain"} => cap.thread \notin Alive

\* After a failure the reader does not go on unattended: the restarted worker
\* stops it, even when it then refuses to start.
UnattendedReaderStops ==
    pc = "down" /\ inventory # NoSession ~> inventory = NoSession

\* Every command, clean-up and shutdown comes to an end, even when the capture
\* thread hangs in a receive or in the database.
OperationsEnd ==
    op # "none" ~> op = "none"

\* A worker that ended cleanly on SIGTERM has stopped the reader.
ShutdownStopsReader ==
    pc = "exited" => inventory = NoSession

\* No capture failure, a tag payload that cannot be parsed among them, ends the
\* worker process.
CaptureErrorSurvived ==
    op = "abend" => ~cap.error

=============================================================================

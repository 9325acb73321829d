------------------------ MODULE ReaderControlProofs ------------------------
(***************************************************************************)
(* Safety of the control worker for every set of sessions and every bound  *)
(* on the revisions.                                                       *)
(*                                                                         *)
(* The inductive invariant says which operation each step belongs to, what *)
(* is true of runtime, connection, reader and capture thread at that step, *)
(* and to which session the frames under way belong.                       *)
(***************************************************************************)
EXTENDS ReaderControl, TLAPS

\* The command, the operation and its step fit together.
StepsFit ==
    /\ pc \in Ended \cup {"loop", "commands"} => op = "none"
    /\ pc \in {"sync", "connect", "handshake", "capture"} => op = "start"
    /\ pc \in {"join", "joining", "stop", "drain", "settle"}
         => op \in {"stop", "abort", "cleanup"} \cup Shutdown
    /\ pc = "ack" => op \in {"start", "stop", "abort"}
    /\ pc = "failed" => op # "none"
    /\ op \in {"start", "stop", "abort"} => cmd \in Commands /\ cmd.command = op
    /\ op = "cleanup" => cmd \in Commands /\ cmd.command = "start"
    /\ op \in {"start", "stop", "abort", "cleanup"} => target = cmd.session

\* A process that is not running has no memory.
EndedIsEmpty ==
    pc \in Ended => /\ key = NoSession
                    /\ pending = {}
                    /\ cap = NoCapture
                    /\ rt.state = "offline" /\ rt.key = NoSession /\ rt.done = NoCommand
                    /\ acked = NoCommand

\* The runtime knows the session the connection, the reader and the capture
\* thread are busy with.
RuntimeKnows ==
    /\ key # NoSession => key = rt.key
    /\ pc \notin Ended => inventory \in {NoSession, rt.key}
    /\ cap.thread \in Alive => cap.key = rt.key /\ rt.key # NoSession
    /\ op \in {"start", "cleanup"} => rt.key = target /\ rt.state \in {"starting", "reading"}
    /\ op \in {"stop", "abort"} /\ pc \notin {"ack", "drain", "settle", "failed"} => rt.key = target
    /\ op \in Shutdown /\ key # NoSession => target = key
    /\ op \in Shutdown /\ pc = "drain" => target = rt.key

\* An idle runtime has neither connection nor capture thread, and its reader is
\* stopped.
IdleIsQuiet ==
    rt.state = "idle" => /\ key = NoSession /\ inventory = NoSession
                         /\ rt.key = NoSession
                         /\ cap.thread = "none"

\* What the steps of START, STOP and ABORT have done so far.
StepsDone ==
    /\ pc \in {"sync", "connect", "handshake"} => /\ rt.state = "starting"
                                                  /\ key = NoSession
    /\ pc = "capture" => rt.state = "reading" /\ key = target /\ inventory = target
    /\ pc \in {"connect", "handshake", "capture"} => session[target] = "active"
    /\ pc \in {"sync", "connect", "handshake", "capture", "stop", "drain"} => cap.thread = "none"
    /\ pc \in {"drain", "settle"} /\ op \in {"stop", "abort"} => rt.state = "idle"

\* Whom the frames under way belong to.
FramesOwned ==
    /\ cap.thread = "ingest" => cap.hand \subseteq {cap.key}
    /\ \/ pending \subseteq {rt.key}
       \/ op \in {"stop", "abort"} /\ pc = "drain" /\ pending \subseteq {target}
       \/ /\ op \in Shutdown /\ key = NoSession /\ rt.key = NoSession
          /\ pc \in {"join", "joining", "stop", "failed"}

\* What a reading runtime stands on between commands.
ReadingBacked ==
    rt.state = "reading" /\ pc \in {"loop", "commands", "ack"} =>
        /\ rt.key # NoSession
        /\ session[rt.key] = "active"
        /\ key = rt.key /\ inventory = rt.key /\ cap.key = rt.key
        /\ (cap.thread \in Alive /\ ~cap.stopping) \/ cap.error

\* What the completed command has brought about.
DoneHolds ==
    /\ acked \in {NoCommand, rt.done}
    /\ op \in {"start", "stop", "abort", "cleanup"} => acked = NoCommand
    /\ pc \in {"loop", "commands", "ack"} =>
         /\ rt.done.command = "start" => rt.state = "reading" /\ rt.key = rt.done.session
         /\ rt.done.command = "stop"  => rt.state = "idle" /\ session[rt.done.session] = "closed"
         /\ rt.done.command = "abort" => rt.state = "idle" /\ session[rt.done.session] # "active"
    /\ pc = "ack" => rt.done = cmd

Safe ==
    /\ StepsFit
    /\ EndedIsEmpty
    /\ RuntimeKnows
    /\ IdleIsQuiet
    /\ StepsDone
    /\ FramesOwned
    /\ FramesBelong
    /\ ClosedNotRead
    /\ ReadingBacked
    /\ DoneHolds

IInv == TypeOK /\ Safe

-----------------------------------------------------------------------------
(* The runtime and the capture thread as records.                          *)

Runtimes == [state : {"offline", "idle", "starting", "reading", "stopping", "degraded"},
             key : Keys, revision : 0 .. MaxRevision, done : Commands \cup {NoCommand}]

Captures == [thread : ThreadStates, key : Keys, stopping : BOOLEAN,
             error : BOOLEAN, hand : SUBSET Sessions]

\* A command is not the absence of one, and it names a session.
LEMMA NoCommandIsNone ==
  /\ NoCommand.command = "none" /\ NoCommand.session = NoSession
  /\ \A c \in Commands : /\ c.session \in Sessions /\ c.session # NoSession
                         /\ c.command \in {"start", "stop", "abort"}
                         /\ c.revision \in 1 .. MaxRevision /\ c # NoCommand
  BY ControlAssumption DEF NoCommand, Commands

\* The runtime and the capture service of a process that just began.
LEMMA ConstantTypes ==
  /\ Offline \in Runtimes /\ NoCapture \in Captures /\ NoSession \in Keys
  BY ControlAssumption DEF Offline, NoCapture, CaptureOf, Runtimes, Captures, Keys, ThreadStates, Alive

\* A capture service that has just been started.
LEMMA Started ==
  ASSUME NEW thread \in ThreadStates, NEW k \in Keys
  PROVE  CaptureOf(thread, k) \in Captures
  BY DEF CaptureOf, Captures

\* An ended process leaves well-typed variables.
LEMMA TypeDie ==
  ASSUME TypeOK, NEW how \in Ended, Die(how)
  PROVE  TypeOK'
<1>1. rt' \in Runtimes /\ cap' \in Captures /\ key' \in Keys /\ target' \in Keys
  BY ConstantTypes DEF Die
<1> QED
  BY <1>1 DEF TypeOK, Runtimes, Captures, Die, Ended, Steps, Operations, storeVars, Goto

\* So do the steps of the process's life cycle,
LEMMA TypeLife ==
  ASSUME TypeOK, Boot \/ Kill \/ Interrupt \/ BeginCycle \/ EndCycle \/ CycleFails
  PROVE  TypeOK'
<1> USE DEF TypeOK, Goto, storeVars, commandVars, readerVars, Steps, Operations, Ended, Shutdown, Keys
<1>1. CASE Boot
  BY <1>1 DEF Boot
<1>2. CASE Kill
  BY <1>2, TypeDie DEF Kill
<1>3. CASE Interrupt
  <2>1. PICK k \in {key, NoSession} : BeginShutdown("term", k)
    BY <1>3 DEF Interrupt
  <2>2. inventory' \in Keys /\ pending' \in SUBSET Sessions
    BY <1>3 DEF Interrupt
  <2> QED
    BY <1>3, <2>1, <2>2 DEF Interrupt, BeginShutdown
<1>4. CASE BeginCycle \/ EndCycle
  BY <1>4 DEF BeginCycle, EndCycle
<1>5. CASE CycleFails
  BY <1>5 DEF CycleFails, BeginShutdown
<1> QED
  BY <1>1, <1>2, <1>3, <1>4, <1>5

\* the arrival of a command,
LEMMA TypeReceive ==
  ASSUME TypeOK, Receive
  PROVE  TypeOK'
<1> USE DEF TypeOK, Goto, storeVars, commandVars, readerVars, Steps, Operations, Keys
<1> PICK c \in Commands : TakeCommand(c) \/ TakeDuplicate(c) \/ RejectCommand(c)
  BY DEF Receive
<1> c.session \in Sessions /\ c.command \in {"start", "stop", "abort"} /\ c.revision \in 0 .. MaxRevision
  BY ControlAssumption DEF Commands
<1>1. CASE TakeCommand(c)
  BY <1>1 DEF TakeCommand
<1>2. CASE TakeDuplicate(c)
  BY <1>2 DEF TakeDuplicate
<1>3. CASE RejectCommand(c)
  BY <1>3 DEF RejectCommand
<1> QED
  BY <1>1, <1>2, <1>3

\* the steps of the capture thread,
LEMMA TypeCapture ==
  ASSUME TypeOK, CaptureStep
  PROVE  TypeOK'
<1> USE DEF TypeOK, storeVars, commandVars, readerVars, CaptureGoes, CaptureError, ThreadStates, Alive
<1>1. CASE CaptureCheck
  BY <1>1 DEF CaptureCheck
<1>2. CASE CapturePoll
  <2>1. Reads \in SUBSET Sessions
    BY DEF Reads, Keys
  <2>2. PICK frames \in SUBSET Sessions :
            CaptureGoes(IF frames = {} THEN "check" ELSE "ingest", frames)
    BY <1>2, <2>1 DEF CapturePoll
  <2>3. cap' \in Captures
    BY <2>2 DEF Captures
  <2> QED
    BY <1>2, <2>3 DEF CapturePoll, Captures
<1>3. CASE CapturePollFails
  BY <1>3 DEF CapturePollFails, KeepFrames, Reads, Keys
<1>4. CASE CaptureIngest
  BY <1>4 DEF CaptureIngest
<1>5. CASE CaptureIngestFails
  BY <1>5 DEF CaptureIngestFails
<1> QED
  BY <1>1, <1>2, <1>3, <1>4, <1>5 DEF CaptureStep

\* and the steps of an operation under way.
LEMMA TypeOperation ==
  ASSUME TypeOK, OperationStep
  PROVE  TypeOK'
<1> USE DEF TypeOK, Goto, storeVars, commandVars, readerVars, Steps, Operations, Keys, Completed,
     Degrade, NextCommand, EndSession, Reads, KeepFrames, KeepStopFrames
<1>1. CASE SyncSession \/ SyncFails \/ SendStart \/ ConnectFails
  BY <1>1 DEF SyncSession, SyncFails, SendStart, ConnectFails
<1>2. CASE StartAccepted \/ StartNotAccepted
  BY <1>2 DEF StartAccepted, StartNotAccepted
<1>3. CASE StartCapture("check") \/ StartCapture("unstarted")
  <2>1. cap' \in Captures
    <3>1. PICK thread \in {"check", "unstarted"} : StartCapture(thread)
      BY <1>3
    <3>2. thread \in ThreadStates /\ target \in Keys
      BY DEF ThreadStates, Alive
    <3>3. cap' = CaptureOf(thread, target)
      BY <3>1 DEF StartCapture
    <3> QED
      BY <3>2, <3>3, Started
  <2> QED
    BY <1>3, <2>1 DEF StartCapture, Captures
<1>4. CASE StopCapture \/ CaptureJoined \/ JoinFails
  BY <1>4 DEF StopCapture, CaptureJoined, JoinFails, ThreadStates, Alive
<1>5. CASE StopAnswered \/ StopNotAnswered
  BY <1>5 DEF StopAnswered, StopNotAnswered
<1>6. CASE Drain \/ DrainFails
  BY <1>6 DEF Drain, DrainFails
<1>7. CASE SettleStop \/ SettleAbort \/ SettleFails \/ SettleCleanup
  <2>1. CASE SettleStop
    BY <1>7, <2>1 DEF SettleStop
  <2>2. CASE SettleAbort
    BY <1>7, <2>2 DEF SettleAbort
  <2>3. CASE SettleFails
    BY <1>7, <2>3 DEF SettleFails
  <2>4. CASE SettleCleanup
    BY <1>7, <2>4 DEF SettleCleanup
  <2> QED
    BY <1>7, <2>1, <2>2, <2>3, <2>4
<1>8. CASE ShutdownEnds \/ ShutdownFails
  BY <1>8, TypeDie DEF ShutdownEnds, ShutdownFails, Ended
<1>9. CASE SendAck
  BY <1>9 DEF SendAck
<1>10. CASE StartFails \/ CleanupFails \/ StopOrAbortFails
  BY <1>10 DEF StartFails, CleanupFails, StopOrAbortFails
<1> QED
  BY <1>1, <1>2, <1>3, <1>4, <1>5, <1>6, <1>7, <1>8, <1>9, <1>10 DEF OperationStep

\* Every step keeps every variable in its type.
LEMMA TypeStep == TypeOK /\ [Next]_vars => TypeOK'
<1> SUFFICES ASSUME TypeOK, [Next]_vars PROVE TypeOK'
  OBVIOUS
<1>1. CASE UNCHANGED vars
  BY <1>1 DEF TypeOK, vars
<1> QED
  BY <1>1, TypeLife, TypeReceive, TypeCapture, TypeOperation DEF Next

-----------------------------------------------------------------------------
(* Every step keeps the invariant.                                         *)

\* The life of the process.
LEMMA SafeLife ==
  ASSUME IInv, TypeOK', Boot \/ Kill \/ Interrupt \/ BeginCycle \/ EndCycle \/ CycleFails
  PROVE  Safe'
<1> USE NoCommandIsNone, ControlAssumption
    DEF Safe, StepsFit, EndedIsEmpty, RuntimeKnows, IdleIsQuiet, StepsDone, FramesOwned,
        FramesBelong, ClosedNotRead, ReadingBacked, DoneHolds, IInv, TypeOK, Keys, Ended,
        Shutdown, Alive, Goto, storeVars, commandVars, readerVars, Steps, ThreadStates
<1>1. CASE Boot
  <2>1. cap.thread = "none" /\ cap.error = FALSE
    BY <1>1 DEF Boot, NoCapture, CaptureOf
  <2>2. StepsFit'
    BY <1>1, <2>1, SMTT(30) DEF Boot
  <2>3. EndedIsEmpty'
    BY <1>1, <2>1, SMTT(30) DEF Boot
  <2>4. RuntimeKnows'
    BY <1>1, <2>1, SMTT(30) DEF Boot
  <2>5. IdleIsQuiet'
    BY <1>1, <2>1, SMTT(30) DEF Boot
  <2>6. StepsDone'
    BY <1>1, <2>1, SMTT(30) DEF Boot
  <2>7. FramesOwned'
    BY <1>1, <2>1, SMTT(30) DEF Boot
  <2>8. FramesBelong'
    BY <1>1, <2>1, SMTT(30) DEF Boot
  <2>9. ClosedNotRead'
    BY <1>1, <2>1, SMTT(30) DEF Boot
  <2>10. ReadingBacked'
    BY <1>1, <2>1, SMTT(30) DEF Boot
  <2>11. DoneHolds'
    BY <1>1, <2>1, SMTT(30) DEF Boot
  <2> QED
    BY <2>2, <2>3, <2>4, <2>5, <2>6, <2>7, <2>8, <2>9, <2>10, <2>11
<1>2. CASE Kill
  BY <1>2, SMTT(30) DEF Kill, Die, Offline, NoCapture, CaptureOf
<1>3. CASE Interrupt
  BY <1>3, SMTT(30) DEF Interrupt, BeginShutdown
<1>4. CASE BeginCycle
  BY <1>4, SMTT(30) DEF BeginCycle
<1>5. CASE EndCycle
  BY <1>5, SMTT(30) DEF EndCycle
<1>6. CASE CycleFails
  BY <1>6, SMTT(30) DEF CycleFails, BeginShutdown
<1> QED
  BY <1>1, <1>2, <1>3, <1>4, <1>5, <1>6

\* START.
LEMMA SafeStart ==
  ASSUME IInv, TypeOK', SyncSession \/ SyncFails \/ SendStart \/ ConnectFails
            \/ StartAccepted \/ StartNotAccepted \/ StartCapture("check") \/ StartCapture("unstarted")
  PROVE  Safe'
<1> USE NoCommandIsNone, ControlAssumption
    DEF Safe, StepsFit, EndedIsEmpty, RuntimeKnows, IdleIsQuiet, StepsDone, FramesOwned,
        FramesBelong, ClosedNotRead, ReadingBacked, DoneHolds, IInv, TypeOK, Keys, Ended,
        Shutdown, Alive, Goto, storeVars, commandVars, readerVars, Steps, ThreadStates
<1>1. CASE SyncSession
  BY <1>1, SMTT(30) DEF SyncSession
<1>2. CASE SyncFails
  BY <1>2, SMTT(30) DEF SyncFails
<1>3. CASE SendStart
  BY <1>3, SMTT(30) DEF SendStart
<1>4. CASE ConnectFails
  BY <1>4, SMTT(30) DEF ConnectFails
<1>5. CASE StartAccepted
  BY <1>5, SMTT(30) DEF StartAccepted, KeepFrames, Reads
<1>6. CASE StartNotAccepted
  BY <1>6, SMTT(30) DEF StartNotAccepted, KeepFrames, Reads
<1>7. CASE StartCapture("check")
  <2>1. StepsFit'
    BY <1>7, SMTT(30) DEF StartCapture, CaptureOf, Completed
  <2>2. EndedIsEmpty'
    BY <1>7, SMTT(30) DEF StartCapture, CaptureOf, Completed
  <2>3. RuntimeKnows'
    BY <1>7, SMTT(30) DEF StartCapture, CaptureOf, Completed
  <2>4. IdleIsQuiet'
    BY <1>7, SMTT(30) DEF StartCapture, CaptureOf, Completed
  <2>5. StepsDone'
    BY <1>7, SMTT(30) DEF StartCapture, CaptureOf, Completed
  <2>6. FramesOwned'
    BY <1>7, SMTT(30) DEF StartCapture, CaptureOf, Completed
  <2>7. FramesBelong'
    BY <1>7, SMTT(30) DEF StartCapture, CaptureOf, Completed
  <2>8. ClosedNotRead'
    BY <1>7, SMTT(30) DEF StartCapture, CaptureOf, Completed
  <2>9. ReadingBacked'
    BY <1>7, SMTT(30) DEF StartCapture, CaptureOf, Completed
  <2>10. DoneHolds'
    BY <1>7, SMTT(30) DEF StartCapture, CaptureOf, Completed
  <2> QED
    BY <2>1, <2>2, <2>3, <2>4, <2>5, <2>6, <2>7, <2>8, <2>9, <2>10
<1>8. CASE StartCapture("unstarted")
  BY <1>8, SMTT(30) DEF StartCapture, CaptureOf, Completed
<1> QED
  BY <1>1, <1>2, <1>3, <1>4, <1>5, <1>6, <1>7, <1>8

\* The steps that stop the reader.
LEMMA SafeStop ==
  ASSUME IInv, TypeOK', StopCapture \/ CaptureJoined \/ JoinFails
            \/ StopAnswered \/ StopNotAnswered \/ Drain \/ DrainFails
  PROVE  Safe'
<1> USE NoCommandIsNone, ControlAssumption
    DEF Safe, StepsFit, EndedIsEmpty, RuntimeKnows, IdleIsQuiet, StepsDone, FramesOwned,
        FramesBelong, ClosedNotRead, ReadingBacked, DoneHolds, IInv, TypeOK, Keys, Ended,
        Shutdown, Alive, Goto, storeVars, commandVars, readerVars, Steps, ThreadStates
<1>1. CASE StopCapture
  BY <1>1, SMTT(30) DEF StopCapture
<1>2. CASE CaptureJoined
  BY <1>2, SMTT(30) DEF CaptureJoined
<1>3. CASE JoinFails
  BY <1>3, SMTT(30) DEF JoinFails
<1>4. CASE StopAnswered
  BY <1>4, SMTT(30) DEF StopAnswered, KeepStopFrames, KeepFrames, Reads, NeedsStop
<1>5. CASE StopNotAnswered
  BY <1>5, SMTT(30) DEF StopNotAnswered, KeepStopFrames, KeepFrames, Reads, NeedsStop
<1>6. CASE Drain
  BY <1>6, SMTT(30) DEF Drain
<1>7. CASE DrainFails
  BY <1>7, SMTT(30) DEF DrainFails
<1> QED
  BY <1>1, <1>2, <1>3, <1>4, <1>5, <1>6, <1>7

\* The end of an operation.
LEMMA SafeSettle ==
  ASSUME IInv, TypeOK', SettleStop \/ SettleAbort \/ SettleFails \/ SettleCleanup \/ ShutdownEnds \/ SendAck
  PROVE  Safe'
<1> USE NoCommandIsNone, ControlAssumption
    DEF Safe, StepsFit, EndedIsEmpty, RuntimeKnows, IdleIsQuiet, StepsDone, FramesOwned,
        FramesBelong, ClosedNotRead, ReadingBacked, DoneHolds, IInv, TypeOK, Keys, Ended,
        Shutdown, Alive, Goto, storeVars, commandVars, readerVars, Steps, ThreadStates
<1>1. CASE SettleStop
  <2>1. StepsFit'
    BY <1>1, SMTT(30) DEF SettleStop, EndSession, Completed
  <2>2. EndedIsEmpty'
    BY <1>1, SMTT(30) DEF SettleStop, EndSession, Completed
  <2>3. RuntimeKnows'
    BY <1>1, SMTT(30) DEF SettleStop, EndSession, Completed
  <2>4. IdleIsQuiet'
    BY <1>1, SMTT(30) DEF SettleStop, EndSession, Completed
  <2>5. StepsDone'
    BY <1>1, SMTT(30) DEF SettleStop, EndSession, Completed
  <2>6. FramesOwned'
    BY <1>1, SMTT(30) DEF SettleStop, EndSession, Completed
  <2>7. FramesBelong'
    BY <1>1, SMTT(30) DEF SettleStop, EndSession, Completed
  <2>8. ClosedNotRead'
    BY <1>1, SMTT(30) DEF SettleStop, EndSession, Completed
  <2>9. ReadingBacked'
    BY <1>1, SMTT(30) DEF SettleStop, EndSession, Completed
  <2>10. DoneHolds'
    BY <1>1, SMTT(30) DEF SettleStop, EndSession, Completed
  <2> QED
    BY <2>1, <2>2, <2>3, <2>4, <2>5, <2>6, <2>7, <2>8, <2>9, <2>10
<1>2. CASE SettleAbort
  <2>1. StepsFit'
    BY <1>2, SMTT(30) DEF SettleAbort, EndSession, Completed
  <2>2. EndedIsEmpty'
    BY <1>2, SMTT(30) DEF SettleAbort, EndSession, Completed
  <2>3. RuntimeKnows'
    BY <1>2, SMTT(30) DEF SettleAbort, EndSession, Completed
  <2>4. IdleIsQuiet'
    BY <1>2, SMTT(30) DEF SettleAbort, EndSession, Completed
  <2>5. StepsDone'
    BY <1>2, SMTT(30) DEF SettleAbort, EndSession, Completed
  <2>6. FramesOwned'
    BY <1>2, SMTT(30) DEF SettleAbort, EndSession, Completed
  <2>7. FramesBelong'
    BY <1>2, SMTT(30) DEF SettleAbort, EndSession, Completed
  <2>8. ClosedNotRead'
    BY <1>2, SMTT(30) DEF SettleAbort, EndSession, Completed
  <2>9. ReadingBacked'
    BY <1>2, SMTT(30) DEF SettleAbort, EndSession, Completed
  <2>10. DoneHolds'
    BY <1>2, SMTT(30) DEF SettleAbort, EndSession, Completed
  <2> QED
    BY <2>1, <2>2, <2>3, <2>4, <2>5, <2>6, <2>7, <2>8, <2>9, <2>10
<1>3. CASE SettleFails
  BY <1>3, SMTT(30) DEF SettleFails
<1>4. CASE SettleCleanup
  <2>1. StepsFit'
    BY <1>4, SMTT(30) DEF SettleCleanup, EndSession, Degrade, NextCommand
  <2>2. EndedIsEmpty'
    BY <1>4, SMTT(30) DEF SettleCleanup, EndSession, Degrade, NextCommand
  <2>3. RuntimeKnows'
    BY <1>4, SMTT(30) DEF SettleCleanup, EndSession, Degrade, NextCommand
  <2>4. IdleIsQuiet'
    BY <1>4, SMTT(30) DEF SettleCleanup, EndSession, Degrade, NextCommand
  <2>5. StepsDone'
    BY <1>4, SMTT(30) DEF SettleCleanup, EndSession, Degrade, NextCommand
  <2>6. FramesOwned'
    BY <1>4, SMTT(30) DEF SettleCleanup, EndSession, Degrade, NextCommand
  <2>7. FramesBelong'
    BY <1>4, SMTT(30) DEF SettleCleanup, EndSession, Degrade, NextCommand
  <2>8. ClosedNotRead'
    BY <1>4, SMTT(30) DEF SettleCleanup, EndSession, Degrade, NextCommand
  <2>9. ReadingBacked'
    BY <1>4, SMTT(30) DEF SettleCleanup, EndSession, Degrade, NextCommand
  <2>10. DoneHolds'
    BY <1>4, SMTT(30) DEF SettleCleanup, EndSession, Degrade, NextCommand
  <2> QED
    BY <2>1, <2>2, <2>3, <2>4, <2>5, <2>6, <2>7, <2>8, <2>9, <2>10
<1>5. CASE ShutdownEnds
  BY <1>5, SMTT(30) DEF ShutdownEnds, Die, Offline, NoCapture, CaptureOf
<1>6. CASE SendAck
  BY <1>6, SMTT(30) DEF SendAck, NextCommand
<1> QED
  BY <1>1, <1>2, <1>3, <1>4, <1>5, <1>6

\* The handlers of a failed step.
LEMMA SafeFail ==
  ASSUME IInv, TypeOK', StartFails \/ CleanupFails \/ StopOrAbortFails \/ ShutdownFails
  PROVE  Safe'
<1> USE NoCommandIsNone, ControlAssumption
    DEF Safe, StepsFit, EndedIsEmpty, RuntimeKnows, IdleIsQuiet, StepsDone, FramesOwned,
        FramesBelong, ClosedNotRead, ReadingBacked, DoneHolds, IInv, TypeOK, Keys, Ended,
        Shutdown, Alive, Goto, storeVars, commandVars, readerVars, Steps, ThreadStates
<1>1. CASE StartFails
  BY <1>1, SMTT(30) DEF StartFails
<1>2. CASE CleanupFails
  BY <1>2, SMTT(30) DEF CleanupFails
<1>3. CASE StopOrAbortFails
  <2>1. StepsFit'
    BY <1>3, SMTT(30) DEF StopOrAbortFails, Degrade, NextCommand
  <2>2. EndedIsEmpty'
    BY <1>3, SMTT(30) DEF StopOrAbortFails, Degrade, NextCommand
  <2>3. RuntimeKnows'
    BY <1>3, SMTT(30) DEF StopOrAbortFails, Degrade, NextCommand
  <2>4. IdleIsQuiet'
    BY <1>3, SMTT(30) DEF StopOrAbortFails, Degrade, NextCommand
  <2>5. StepsDone'
    BY <1>3, SMTT(30) DEF StopOrAbortFails, Degrade, NextCommand
  <2>6. FramesOwned'
    BY <1>3, SMTT(30) DEF StopOrAbortFails, Degrade, NextCommand
  <2>7. FramesBelong'
    BY <1>3, SMTT(30) DEF StopOrAbortFails, Degrade, NextCommand
  <2>8. ClosedNotRead'
    BY <1>3, SMTT(30) DEF StopOrAbortFails, Degrade, NextCommand
  <2>9. ReadingBacked'
    BY <1>3, SMTT(30) DEF StopOrAbortFails, Degrade, NextCommand
  <2>10. DoneHolds'
    BY <1>3, SMTT(30) DEF StopOrAbortFails, Degrade, NextCommand
  <2> QED
    BY <2>1, <2>2, <2>3, <2>4, <2>5, <2>6, <2>7, <2>8, <2>9, <2>10
<1>4. CASE ShutdownFails
  BY <1>4, SMTT(30) DEF ShutdownFails, Die, Offline, NoCapture, CaptureOf
<1> QED
  BY <1>1, <1>2, <1>3, <1>4

\* What a step of the capture thread leaves of its service.
LEMMA Goes ==
  ASSUME TypeOK, NEW thread, NEW hand, CaptureGoes(thread, hand)
  PROVE  /\ cap'.thread = thread /\ cap'.hand = hand
         /\ cap'.key = cap.key /\ cap'.stopping = cap.stopping /\ cap'.error = cap.error
  BY DEF TypeOK, CaptureGoes

\* The capture thread.
LEMMA SafeCapture ==
  ASSUME IInv, TypeOK', CaptureStep
  PROVE  Safe'
<1> USE NoCommandIsNone, ControlAssumption
    DEF Safe, StepsFit, EndedIsEmpty, RuntimeKnows, IdleIsQuiet, StepsDone, FramesOwned,
        FramesBelong, ClosedNotRead, ReadingBacked, DoneHolds, IInv, TypeOK, Keys, Ended,
        Shutdown, Alive, Goto, storeVars, commandVars, readerVars, Steps, ThreadStates
<1>1. CASE CaptureCheck
  BY <1>1, SMTT(30) DEF CaptureCheck, CaptureGoes
<1>2. CASE CapturePoll
  <2>1. PICK frames : /\ frames \subseteq pending \cup (IF key # NoSession THEN Reads ELSE {})
                      /\ CaptureGoes(IF frames = {} THEN "check" ELSE "ingest", frames)
    BY <1>2 DEF CapturePoll
  <2>2. /\ cap'.thread = (IF frames = {} THEN "check" ELSE "ingest") /\ cap'.hand = frames
        /\ cap'.key = cap.key /\ cap'.stopping = cap.stopping /\ cap'.error = cap.error
    BY <2>1, Goes DEF IInv
  <2>3. /\ cap.thread = "poll" /\ pending' = {}
        /\ UNCHANGED <<pc, op, cmd, target, created, rt, acked, key, inventory, session, stored>>
    BY <1>2 DEF CapturePoll
  <2>4. frames \subseteq {cap.key}
    BY <2>1, <2>3 DEF Reads
  <2>5. StepsFit'
    BY <2>2, <2>3, <2>4, SMTT(30)
  <2>6. EndedIsEmpty'
    BY <2>2, <2>3, <2>4, SMTT(30)
  <2>7. RuntimeKnows'
    BY <2>2, <2>3, <2>4, SMTT(30)
  <2>8. IdleIsQuiet'
    BY <2>2, <2>3, <2>4, SMTT(30)
  <2>9. StepsDone'
    BY <2>2, <2>3, <2>4, SMTT(30)
  <2>10. FramesOwned'
    BY <2>2, <2>3, <2>4, SMTT(30)
  <2>11. FramesBelong'
    BY <2>2, <2>3, <2>4, SMTT(30)
  <2>12. ClosedNotRead'
    BY <2>2, <2>3, <2>4, SMTT(30)
  <2>13. ReadingBacked'
    BY <2>2, <2>3, <2>4, SMTT(30)
  <2>14. DoneHolds'
    BY <2>2, <2>3, <2>4, SMTT(30)
  <2> QED
    BY <2>5, <2>6, <2>7, <2>8, <2>9, <2>10, <2>11, <2>12, <2>13, <2>14
<1>3. CASE CapturePollFails
  BY <1>3, SMTT(30) DEF CapturePollFails, KeepFrames, Reads, CaptureError
<1>4. CASE CaptureIngest
  BY <1>4, SMTT(30) DEF CaptureIngest, CaptureGoes
<1>5. CASE CaptureIngestFails
  BY <1>5, SMTT(30) DEF CaptureIngestFails, CaptureError
<1> QED
  BY <1>1, <1>2, <1>3, <1>4, <1>5 DEF CaptureStep

\* The commands.
LEMMA SafeReceive ==
  ASSUME IInv, TypeOK', Receive
  PROVE  Safe'
<1> USE NoCommandIsNone, ControlAssumption
    DEF Safe, StepsFit, EndedIsEmpty, RuntimeKnows, IdleIsQuiet, StepsDone, FramesOwned,
        FramesBelong, ClosedNotRead, ReadingBacked, DoneHolds, IInv, TypeOK, Keys, Ended,
        Shutdown, Alive, Goto, storeVars, commandVars, readerVars, Steps, ThreadStates
<1> PICK c \in Commands : TakeCommand(c) \/ TakeDuplicate(c) \/ RejectCommand(c)
  BY DEF Receive
<1>1. CASE TakeCommand(c)
  <2>1. /\ rt'.state \in {"starting", "stopping"} /\ rt'.key = c.session /\ rt'.done = NoCommand
        /\ c.command = "start" => rt'.state = "starting"
        /\ op' = c.command /\ cmd' = c /\ target' = c.session
        /\ acked' = NoCommand /\ pc' = (IF c.command = "start" THEN "sync" ELSE "join")
        /\ UNCHANGED <<cap, key, pending, inventory, session, stored>>
        /\ pc = "commands" /\ op = "none"
    BY <1>1 DEF TakeCommand
  <2>2. rt.key \in {NoSession, c.session} /\ (c.command = "start" => rt.state = "idle")
    BY <1>1 DEF TakeCommand, MayPlan
  <2>3. pending \subseteq {c.session} /\ inventory \in {NoSession, c.session} /\ key \in {NoSession, c.session}
    BY <2>1, <2>2
  <2>4. /\ cap.thread \in Alive => cap.key = c.session
        /\ c.command = "start" => key = NoSession /\ inventory = NoSession /\ cap.thread = "none"
    BY <2>1, <2>2
  <2>5. StepsFit'
    BY <2>1, <2>2, <2>3, <2>4, SMTT(30)
  <2>6. EndedIsEmpty'
    BY <2>1, <2>2, <2>3, <2>4, SMTT(30)
  <2>7. RuntimeKnows'
    BY <2>1, <2>2, <2>3, <2>4, SMTT(30)
  <2>8. IdleIsQuiet'
    BY <2>1, <2>2, <2>3, <2>4, SMTT(30)
  <2>9. StepsDone'
    BY <2>1, <2>2, <2>3, <2>4, SMTT(30)
  <2>10. FramesOwned'
    BY <2>1, <2>2, <2>3, <2>4, SMTT(30)
  <2>11. FramesBelong'
    BY <2>1, <2>2, <2>3, <2>4, SMTT(30)
  <2>12. ClosedNotRead'
    BY <2>1, <2>2, <2>3, <2>4, SMTT(30)
  <2>13. ReadingBacked'
    BY <2>1, <2>2, <2>3, <2>4, SMTT(30)
  <2>14. DoneHolds'
    BY <2>1, <2>2, <2>3, <2>4, SMTT(30)
  <2> QED
    BY <2>5, <2>6, <2>7, <2>8, <2>9, <2>10, <2>11, <2>12, <2>13, <2>14
<1>2. CASE TakeDuplicate(c)
  BY <1>2, SMTT(30) DEF TakeDuplicate, Duplicate
<1>3. CASE RejectCommand(c)
  BY <1>3, SMTT(30) DEF RejectCommand
<1> QED
  BY <1>1, <1>2, <1>3

\* The invariant holds before the first boot.
LEMMA InvInit == Init => IInv
<1> SUFFICES ASSUME Init PROVE IInv
  OBVIOUS
<1>1. TypeOK
  BY ConstantTypes, NoCommandIsNone, ControlAssumption
  DEF Init, TypeOK, Runtimes, Captures, Steps, Ended, Operations, Keys
<1>2. /\ pc = "down" /\ op = "none" /\ key = NoSession /\ pending = {} /\ inventory = NoSession
      /\ acked = NoCommand /\ rt.state = "offline" /\ rt.key = NoSession /\ rt.done = NoCommand
      /\ cap = NoCapture /\ cap.thread = "none"
      /\ session = [s \in Sessions |-> "none"] /\ stored = [s \in Sessions |-> {}]
  BY DEF Init, Offline, NoCapture, CaptureOf
<1>3. Safe
  BY <1>2, NoCommandIsNone, ControlAssumption
  DEF Safe, StepsFit, EndedIsEmpty, RuntimeKnows, IdleIsQuiet, StepsDone, FramesOwned, FramesBelong,
      ClosedNotRead, ReadingBacked, DoneHolds, Ended, Shutdown, Alive, Keys
<1> QED
  BY <1>1, <1>3 DEF IInv

\* Every step keeps the invariant.
LEMMA InvStep == IInv /\ [Next]_vars => IInv'
<1> SUFFICES ASSUME IInv, [Next]_vars PROVE IInv'
  OBVIOUS
<1>1. TypeOK'
  BY TypeStep DEF IInv
<1>2. CASE UNCHANGED vars
  BY <1>1, <1>2 DEF vars, IInv, Safe, StepsFit, EndedIsEmpty, RuntimeKnows, IdleIsQuiet, StepsDone,
     FramesOwned, FramesBelong, ClosedNotRead, ReadingBacked, DoneHolds
<1>3. CASE Next
  <2>1. Safe'
    BY <1>1, <1>3, SafeLife, SafeReceive, SafeStart, SafeStop, SafeSettle, SafeFail, SafeCapture
    DEF Next, OperationStep
  <2> QED
    BY <1>1, <2>1 DEF IInv
<1> QED
  BY <1>2, <1>3

\* The inductive invariant holds in every reachable state, whatever commands,
\* failures, signals and crashes came before.
THEOREM Invariance == Spec => []IInv
  BY InvInit, InvStep, PTL DEF Spec

-----------------------------------------------------------------------------
(* What the invariant says.                                                *)

\* No step of the worker leaves a value of a kind the code does not have.
THEOREM TypeCorrect == Spec => []TypeOK
<1>1. IInv => TypeOK
  BY DEF IInv
<1> QED
  BY <1>1, Invariance, PTL

\* An idle runtime has stopped the reader and given up the connection.
THEOREM IdleCorrect == Spec => []IdleMeansStopped
<1>1. IInv => IdleMeansStopped
  BY DEF IInv, Safe, IdleIsQuiet, IdleMeansStopped
<1> QED
  BY <1>1, Invariance, PTL

\* A success ACK holds until the next command is taken.
THEOREM AcksCorrect == Spec => []AcksHold
<1>1. IInv => AcksHold
  BY NoCommandIsNone DEF IInv, Safe, TypeOK, DoneHolds, ReadingBacked, IdleIsQuiet, AcksHold
<1> QED
  BY <1>1, Invariance, PTL

\* A reading runtime has session, connection, reader and capture thread.
THEOREM ReadingCorrect == Spec => []ReadingIsBacked
<1>1. IInv => ReadingIsBacked
  BY DEF IInv, Safe, ReadingBacked, ReadingIsBacked
<1> QED
  BY <1>1, Invariance, PTL

\* No frame is stored under a session it was not read for.
THEOREM FramesCorrect == Spec => []FramesBelong
<1>1. IInv => FramesBelong
  BY DEF IInv, Safe
<1> QED
  BY <1>1, Invariance, PTL

\* Nothing reads for a closed session.
THEOREM ClosedCorrect == Spec => []ClosedNotRead
<1>1. IInv => ClosedNotRead
  BY DEF IInv, Safe
<1> QED
  BY <1>1, Invariance, PTL

\* Control thread and capture thread never use the connection together.
THEOREM ReaderUserCorrect == Spec => []OneReaderUser
<1>1. IInv => OneReaderUser
  BY DEF IInv, Safe, StepsDone, OneReaderUser, Alive
<1> QED
  BY <1>1, Invariance, PTL

=============================================================================

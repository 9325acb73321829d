------------------------- MODULE FinalBridgeProofs -------------------------
(***************************************************************************)
(* The composition of control worker and delivery workers, for every set   *)
(* of sessions, events and workers and every bound: its steps are steps of *)
(* the control worker, so the inductive invariant of ReaderControlProofs   *)
(* holds of it; and with that invariant its steps are steps of             *)
(* EventDelivery, with the control worker in the place of the abstract     *)
(* control process there.                                                  *)
(***************************************************************************)
EXTENDS FinalBridge, ReaderControlProofs, TLAPS

\* The delivery workers, the clock and Odoo leave the sessions alone.
LEMMA DeliveryLeavesSessions ==
  ASSUME DeliveryStep
  PROVE  UNCHANGED <<session, stopAcked>>
<1> USE DEF Delivery!controlVars
<1>1. CASE \E e \in Events : Delivery!RetryFallsDue(e)
  BY <1>1 DEF Delivery!RetryFallsDue
<1>2. CASE Delivery!OdooStep
  BY <1>2 DEF Delivery!OdooStep, Delivery!OdooAccepts, Delivery!OdooRejects, Delivery!RequestLost
<1>3. CASE \E w \in Workers : Delivery!WorkerStep(w) \/ Delivery!Fault(w)
  <2> PICK w \in Workers : Delivery!WorkerStep(w) \/ Delivery!Fault(w)
    BY <1>3
  <2>1. CASE \/ Delivery!SelectCancelled(w) \/ Delivery!SelectExhausted(w) \/ Delivery!SelectCandidates(w)
             \/ Delivery!EndCycle(w) \/ Delivery!Restart(w)
    BY <2>1 DEF Delivery!SelectCancelled, Delivery!SelectExhausted, Delivery!SelectCandidates,
         Delivery!EndCycle, Delivery!Restart
  <2>2. CASE \E i \in todo[w] :
                Delivery!DeadLetter(w, i) \/ Delivery!StartAttempt(w, i) \/ Delivery!StartRefused(w, i)
    BY <2>2 DEF Delivery!DeadLetter, Delivery!StartAttempt, Delivery!StartRefused
  <2>3. CASE \/ Delivery!SendRequest(w) \/ Delivery!SenderRaises(w) \/ Delivery!NoVerdict(w)
             \/ Delivery!CompleteAttempt(w)
    BY <2>3 DEF Delivery!SendRequest, Delivery!SenderRaises, Delivery!NoVerdict, Delivery!CompleteAttempt
  <2>4. CASE Delivery!Fault(w)
    BY <2>4 DEF Delivery!Fault, Delivery!CompleteFails, Delivery!Crash
  <2> QED
    BY <2>1, <2>2, <2>3, <2>4 DEF Delivery!WorkerStep
<1> QED
  BY <1>1, <1>2, <1>3 DEF DeliveryStep

\* Every step of the composition is one of the control worker or leaves it
\* alone.
LEMMA ControlSimulation == [BridgeNext]_bridgeVars => [Next]_vars
<1> SUFFICES ASSUME [BridgeNext]_bridgeVars PROVE [Next]_vars
  OBVIOUS
<1>1. CASE ControlStep
  BY <1>1 DEF ControlStep, Next, OperationStep, CaptureStep
<1>2. CASE SessionStep
  BY <1>2 DEF SessionStep, Next, OperationStep
<1>3. CASE DrainStep \/ IngestStep \/ AckStep
  BY <1>3 DEF DrainStep, IngestStep, AckStep, Next, OperationStep, CaptureStep
<1>4. CASE DeliveryStep
  <2>1. UNCHANGED session
    BY <1>4, DeliveryLeavesSessions
  <2>2. UNCHANGED controlVars
    BY <1>4 DEF DeliveryStep
  <2> QED
    BY <2>1, <2>2 DEF vars, controlVars, commandVars, readerVars
<1>5. CASE UNCHANGED bridgeVars
  BY <1>5 DEF bridgeVars, vars, controlVars, commandVars, readerVars
<1> QED
  BY <1>1, <1>2, <1>3, <1>4, <1>5 DEF BridgeNext

\* The delivery barrier and the failing ingestion take away behaviours of the
\* control worker and add none.
THEOREM ImplementsControl == BridgeSpec => Spec
<1>1. BridgeInit => Init
  BY DEF BridgeInit
<1> QED
  BY <1>1, ControlSimulation, PTL DEF BridgeSpec, Spec

\* What ReaderControlProofs proves of the control worker alone holds of it in
\* the whole.
THEOREM ControlInvariance == BridgeSpec => []IInv
  BY ImplementsControl, Invariance, PTL

-----------------------------------------------------------------------------
(* EventDelivery's sessions, ingestion and acknowledgements.               *)

\* A step of the control worker that leaves sessions and events alone.
LEMMA ControlLeavesDelivery ==
  ASSUME ControlStep
  PROVE  UNCHANGED <<session, deliveryVars>>
<1> USE DEF storeVars, Die
<1>1. UNCHANGED deliveryVars
  BY DEF ControlStep
<1> SUFFICES UNCHANGED session
  BY <1>1
<1>2. CASE Boot \/ Kill \/ Interrupt \/ BeginCycle \/ EndCycle \/ CycleFails
  BY <1>2 DEF Boot, Kill, Interrupt, BeginCycle, EndCycle, CycleFails
<1>3. CASE Receive
  BY <1>3 DEF Receive, TakeCommand, TakeDuplicate, RejectCommand
<1>4. CASE \/ SyncFails \/ SendStart \/ ConnectFails \/ StartAccepted \/ StartNotAccepted
           \/ StartCapture("check") \/ StartCapture("unstarted")
  BY <1>4 DEF SyncFails, SendStart, ConnectFails, StartAccepted, StartNotAccepted, StartCapture
<1>5. CASE \/ StopCapture \/ CaptureJoined \/ JoinFails \/ StopAnswered \/ StopNotAnswered
           \/ DrainFails \/ SettleFails
  BY <1>5 DEF StopCapture, CaptureJoined, JoinFails, StopAnswered, StopNotAnswered, DrainFails, SettleFails
<1>6. CASE StartFails \/ CleanupFails \/ StopOrAbortFails \/ ShutdownEnds \/ ShutdownFails
  BY <1>6 DEF StartFails, CleanupFails, StopOrAbortFails, ShutdownEnds, ShutdownFails
<1>7. CASE CaptureCheck \/ CapturePoll \/ CapturePollFails \/ CaptureIngestFails
  BY <1>7 DEF CaptureCheck, CapturePoll, CapturePollFails, CaptureIngestFails
<1> QED
  BY <1>2, <1>3, <1>4, <1>5, <1>6, <1>7 DEF ControlStep

\* Nothing the delivery workers see has changed.
LEMMA DeliveryStutters ==
  ASSUME UNCHANGED <<session, deliveryVars>>
  PROVE  UNCHANGED Delivery!vars
  BY DEF deliveryVars, eventVars, Delivery!vars

\* Opening or ending the session of the command.
LEMMA SessionSimulation ==
  ASSUME IInv, SessionStep
  PROVE  [Delivery!Next]_(Delivery!vars)
<1>1. UNCHANGED deliveryVars
  BY DEF SessionStep
<1>2. UNCHANGED <<queue, received, attempts, due, stopAcked, Delivery!workerVars, Delivery!odooVars>>
  BY <1>1 DEF deliveryVars, eventVars, Delivery!workerVars, Delivery!odooVars
<1>3. session \in [Sessions -> {"none", "active", "closed", "cancelled"}]
  BY DEF IInv, TypeOK
<1>4. target \in Sessions
  <2>1. op \in {"start", "stop", "abort", "cleanup"}
    BY DEF SessionStep, SyncSession, SettleStop, SettleAbort, SettleCleanup, IInv, Safe, StepsFit
  <2> QED
    BY <2>1, NoCommandIsNone DEF IInv, Safe, StepsFit
<1>5. CASE session' = session
  BY <1>1, <1>5, DeliveryStutters
<1>6. CASE SyncSession /\ session' # session
  <2>1. session[target] # "active"
    BY <1>3, <1>6 DEF SyncSession
  <2>2. Delivery!OpenSession(target)
    BY <1>2, <1>6, <2>1 DEF SyncSession, Delivery!OpenSession
  <2> QED
    BY <1>4, <2>2 DEF Delivery!Next, Delivery!ControlStep
<1>7. CASE (SettleStop \/ SettleAbort \/ SettleCleanup) /\ session' # session
  <2>1. PICK status \in {"closed", "cancelled"} : EndSession(status)
    BY <1>7 DEF SettleStop, SettleAbort, SettleCleanup
  <2>2. session[target] = "active"
    BY <1>3, <1>7, <2>1 DEF EndSession
  <2>3. Delivery!EndSession(target, status)
    BY <1>2, <2>1, <2>2 DEF EndSession, Delivery!EndSession
  <2> QED
    BY <1>4, <2>3 DEF Delivery!Next, Delivery!ControlStep
<1> QED
  BY <1>5, <1>6, <1>7 DEF SessionStep

\* Frames that were drained or captured are stored in the active session they
\* were read in.
LEMMA IngestSimulation ==
  ASSUME IInv, DrainStep \/ IngestStep
  PROVE  [Delivery!Next]_(Delivery!vars)
<1>1. CASE DrainStep
  <2>1. CASE pending = {}
    <3>1. UNCHANGED <<session, deliveryVars>>
      BY <1>1, <2>1 DEF DrainStep, Ingested, Drain
    <3> QED
      BY <3>1, DeliveryStutters
  <2>2. CASE pending # {}
    <3>1. pc = "drain" /\ \E E \in SUBSET Delivery!EventsOf(target) : Delivery!Ingest(target, E)
      BY <1>1, <2>2 DEF DrainStep, Ingested, Drain
    <3>2. op \in {"stop", "abort", "cleanup"} \cup Shutdown
      BY <3>1 DEF IInv, Safe, StepsFit
    <3>3. op \in {"stop", "abort", "cleanup"} => target \in Sessions
      BY NoCommandIsNone DEF IInv, Safe, StepsFit
    <3>4. op \in Shutdown => target \in Sessions
      <4> SUFFICES ASSUME op \in Shutdown PROVE target \in Sessions
        OBVIOUS
      <4>1. target = rt.key
        BY <3>1 DEF IInv, Safe, RuntimeKnows
      <4>2. pending \subseteq {rt.key}
        BY <3>1 DEF IInv, Safe, FramesOwned, Shutdown
      <4>3. pending \subseteq Sessions
        BY DEF IInv, TypeOK
      <4> QED
        BY <2>2, <4>1, <4>2, <4>3
    <3> QED
      BY <3>1, <3>2, <3>3, <3>4 DEF Delivery!Next, Delivery!ControlStep
  <2> QED
    BY <2>1, <2>2
<1>2. CASE IngestStep
  <2>1. CASE cap.hand = {}
    <3>1. UNCHANGED <<session, deliveryVars>>
      BY <1>2, <2>1 DEF IngestStep, Ingested, CaptureIngest
    <3> QED
      BY <3>1, DeliveryStutters
  <2>2. CASE cap.hand # {}
    <3>1. \E E \in SUBSET Delivery!EventsOf(cap.key) : Delivery!Ingest(cap.key, E)
      BY <1>2, <2>2 DEF IngestStep, Ingested
    <3>2. cap.thread \in Alive
      BY <1>2 DEF IngestStep, CaptureIngest, Alive
    <3>3. cap.key \in Sessions
      BY <3>2 DEF IInv, TypeOK, Safe, RuntimeKnows, Keys
    <3> QED
      BY <3>1, <3>3 DEF Delivery!Next, Delivery!ControlStep
  <2> QED
    BY <2>1, <2>2
<1> QED
  BY <1>1, <1>2

\* A STOP that is acknowledged has closed its session and passed the barrier.
LEMMA AckSimulation ==
  ASSUME IInv, AckStep
  PROVE  [Delivery!Next]_(Delivery!vars)
<1>1. pc = "ack" /\ acked' \in {cmd, NoCommand} /\ UNCHANGED <<session, eventVars>>
  BY DEF AckStep, SendAck
<1>2. CASE acked'.command # "stop"
  <2>1. UNCHANGED <<session, deliveryVars>>
    BY <1>1, <1>2 DEF AckStep, deliveryVars
  <2> QED
    BY <2>1, DeliveryStutters
<1>3. CASE acked'.command = "stop"
  <2>1. cmd.command = "stop"
    BY <1>1, <1>3, NoCommandIsNone
  <2>2. cmd \in Commands /\ target = cmd.session /\ target \in Sessions
    BY <1>1, NoCommandIsNone DEF IInv, Safe, StepsFit
  <2>3. session[target] = "closed"
    BY <1>1, <2>1, <2>2 DEF IInv, Safe, DoneHolds
  <2>4. Delivery!BarrierPasses(target) /\ stopAcked' = stopAcked \cup {target}
    BY <1>3 DEF AckStep
  <2>5. CASE target \in stopAcked
    <3>1. UNCHANGED <<session, deliveryVars>>
      BY <1>1, <2>4, <2>5 DEF deliveryVars
    <3> QED
      BY <3>1, DeliveryStutters
  <2>6. CASE target \notin stopAcked
    <3>1. Delivery!StopAck(target)
      BY <1>1, <2>3, <2>4, <2>6
      DEF Delivery!StopAck, eventVars, Delivery!workerVars, Delivery!odooVars
    <3> QED
      BY <2>2, <3>1 DEF Delivery!Next, Delivery!ControlStep
  <2> QED
    BY <2>5, <2>6
<1> QED
  BY <1>2, <1>3

\* Every step of the composition is one of EventDelivery or leaves it alone.
LEMMA DeliverySimulation ==
  IInv /\ [BridgeNext]_bridgeVars => [Delivery!Next]_(Delivery!vars)
<1> SUFFICES ASSUME IInv, [BridgeNext]_bridgeVars PROVE [Delivery!Next]_(Delivery!vars)
  OBVIOUS
<1>1. CASE ControlStep
  BY <1>1, ControlLeavesDelivery, DeliveryStutters
<1>2. CASE SessionStep
  BY <1>2, SessionSimulation
<1>3. CASE DrainStep \/ IngestStep
  BY <1>3, IngestSimulation
<1>4. CASE AckStep
  BY <1>4, AckSimulation
<1>5. CASE DeliveryStep
  BY <1>5 DEF DeliveryStep, Delivery!Next
<1>6. CASE UNCHANGED bridgeVars
  BY <1>6, DeliveryStutters DEF bridgeVars
<1> QED
  BY <1>1, <1>2, <1>3, <1>4, <1>5, <1>6 DEF BridgeNext

\* The control worker, with its failures, crashes and restarts, does nothing
\* to sessions and events that EventDelivery does not allow for.
THEOREM BridgeDelivers == BridgeSpec => ImplementsDelivery
<1>1. BridgeInit => Delivery!Init
  BY DEF BridgeInit
<1> QED
  BY <1>1, DeliverySimulation, ControlInvariance, PTL DEF BridgeSpec, ImplementsDelivery, Delivery!Spec

-----------------------------------------------------------------------------
(* What an acknowledged STOP means.                                        *)

\* No frame of a closed session is buffered, and none of any session when a
\* STOP is about to close one.
BuffersOpen ==
    /\ \A s \in pending : session[s] # "closed"
    /\ pc = "settle" /\ op = "stop" => pending = {}

\* A STOP closes its session after the frames were drained, and what the reader
\* of a closed session is not asked for is not buffered.
LEMMA BuffersStep ==
  ASSUME IInv, BuffersOpen, [Next]_vars
  PROVE  BuffersOpen'
<1> USE DEF IInv, BuffersOpen, storeVars, commandVars, readerVars, Goto
<1>1. /\ pending \subseteq Sessions
      /\ session \in [Sessions -> {"none", "active", "closed", "cancelled"}]
      /\ inventory # NoSession => inventory \in Sessions /\ session[inventory] # "closed"
  BY DEF TypeOK, Keys, Safe, ClosedNotRead
<1>2. CASE UNCHANGED <<session, pending>> /\ (pc' = "settle" => pc = "settle") /\ (op' = "stop" => op = "stop" \/ pc' # "settle")
  BY <1>2
<1>3. CASE pending' = {}
  BY <1>3
<1>4. CASE KeepFrames /\ UNCHANGED session /\ pc' # "settle"
  BY <1>1, <1>4 DEF KeepFrames, Reads
<1>5. CASE Boot \/ Kill \/ Interrupt \/ BeginCycle \/ EndCycle \/ CycleFails
  BY <1>2, <1>3, <1>5 DEF Boot, Kill, Die, Interrupt, BeginShutdown, BeginCycle, EndCycle, CycleFails
<1>6. CASE Receive
  BY <1>2, <1>6 DEF Receive, TakeCommand, TakeDuplicate, RejectCommand, NextCommand
<1>7. CASE \/ SyncFails \/ SendStart \/ ConnectFails
           \/ StartCapture("check") \/ StartCapture("unstarted") \/ StopCapture \/ CaptureJoined \/ JoinFails
           \/ SettleFails \/ ShutdownEnds \/ SendAck
  BY <1>2, <1>3, <1>7 DEF SyncFails, SendStart, ConnectFails, StartCapture, StopCapture, CaptureJoined,
     JoinFails, SettleFails, ShutdownEnds, Die, SendAck, NextCommand
<1>8. CASE StartFails \/ CleanupFails \/ StopOrAbortFails \/ ShutdownFails
  BY <1>2, <1>3, <1>8 DEF StartFails, CleanupFails, StopOrAbortFails, ShutdownFails, Die, NextCommand
<1>9. CASE StartAccepted \/ StartNotAccepted \/ StopAnswered \/ StopNotAnswered
  BY <1>2, <1>4, <1>9 DEF StartAccepted, StartNotAccepted, StopAnswered, StopNotAnswered, KeepStopFrames
<1>10. CASE Drain \/ DrainFails \/ CapturePoll
  BY <1>3, <1>10 DEF Drain, DrainFails, CapturePoll
<1>11. CASE CaptureCheck \/ CaptureIngest \/ CaptureIngestFails
  BY <1>2, <1>11 DEF CaptureCheck, CaptureIngest, CaptureIngestFails
<1>12. CASE CapturePollFails
  <2>1. ~(pc = "settle" /\ op = "stop")
    BY <1>12 DEF CapturePollFails, Safe, StepsDone, IdleIsQuiet, Alive
  <2> QED
    BY <1>1, <1>12, <2>1 DEF CapturePollFails, KeepFrames, Reads
<1>13. CASE SettleStop
  BY <1>3, <1>13 DEF SettleStop
<1>14. CASE SyncSession \/ SettleAbort \/ SettleCleanup
  BY <1>1, <1>14 DEF SyncSession, SettleAbort, SettleCleanup, EndSession, NextCommand
<1>15. CASE UNCHANGED vars
  BY <1>2, <1>15 DEF vars
<1> QED
  BY <1>5, <1>6, <1>7, <1>8, <1>9, <1>10, <1>11, <1>12, <1>13, <1>14, <1>15
  DEF Next, OperationStep, CaptureStep

\* The buffers of the composition.
LEMMA BuffersStayOpen == BridgeSpec => []BuffersOpen
<1>1. Init => BuffersOpen
  BY DEF Init, BuffersOpen
<1>2. IInv /\ BuffersOpen /\ [Next]_vars => BuffersOpen'
  BY BuffersStep
<1> QED
  BY <1>1, <1>2, ControlInvariance, ImplementsControl, PTL DEF Spec

\* Nothing is on its way into a closed session.
LEMMA ClosedIsQuiet ==
  ASSUME IInv, BuffersOpen, NEW s \in Sessions, session[s] = "closed"
  PROVE  ~OnTheirWay(s)
<1>1. inventory # s /\ ~(cap.key = s /\ cap.thread \in Alive)
  BY DEF IInv, Safe, ClosedNotRead
<1>2. SUFFICES ASSUME target = s, pc = "drain", pending # {} PROVE FALSE
  BY <1>1 DEF OnTheirWay
<1>3. pending \subseteq Sessions
  BY DEF IInv, TypeOK
<1>4. NoSession \notin Sessions
  BY ControlAssumption
<1>5. op \in {"stop", "abort", "cleanup"} \cup Shutdown
  BY <1>2 DEF IInv, Safe, StepsFit
<1>6. pending \subseteq {target}
  BY <1>2, <1>3, <1>4, <1>5
  DEF IInv, Safe, FramesOwned, RuntimeKnows, StepsDone, IdleIsQuiet, Shutdown
<1> QED
  BY <1>2, <1>6 DEF BuffersOpen

-----------------------------------------------------------------------------
(* What EventDeliveryProofs proves of EventDelivery holds of the whole.    *)

Facts == INSTANCE EventDeliveryProofs WITH acked <- stopAcked

\* The assumption of those proofs.
LEMMA DeliveryFits == Facts!DeliveryAssumption
  BY BridgeAssumption DEF Facts!IsFiniteSet, IsFiniteSet, Facts!DeliveryAssumption

\* Both instances of EventDelivery name the same steps.
LEMMA SameSteps == [Delivery!Next]_(Delivery!vars) <=> [Facts!Next]_(Facts!vars)
  BY DEF Delivery!ValidTransition, Facts!ValidTransition, Delivery!QueueStates, Facts!QueueStates,
   Delivery!AllowedTransitions, Facts!AllowedTransitions, Delivery!Cardinality, Facts!Cardinality, Delivery!Injection, Facts!Injection, Delivery!IsInjective, Facts!IsInjective,
   Delivery!Items, Facts!Items, Delivery!controlVars, Facts!controlVars, Delivery!workerVars, Facts!workerVars,
   Delivery!odooVars, Facts!odooVars, Delivery!vars, Facts!vars, Delivery!EventsOf, Facts!EventsOf,
   Delivery!LastOutcome, Facts!LastOutcome, Delivery!OpenSession, Facts!OpenSession, Delivery!EndSession, Facts!EndSession,
   Delivery!Ingest, Facts!Ingest, Delivery!BarrierPasses, Facts!BarrierPasses, Delivery!StopAck, Facts!StopAck,
   Delivery!RetryFallsDue, Facts!RetryFallsDue, Delivery!Select, Facts!Select, Delivery!CancelledRows, Facts!CancelledRows,
   Delivery!SelectCancelled, Facts!SelectCancelled, Delivery!ExhaustedRows, Facts!ExhaustedRows, Delivery!SelectExhausted, Facts!SelectExhausted,
   Delivery!DeadLetter, Facts!DeadLetter, Delivery!Candidate, Facts!Candidate, Delivery!CandidateRows, Facts!CandidateRows,
   Delivery!SelectCandidates, Facts!SelectCandidates, Delivery!NextInBatch, Facts!NextInBatch, Delivery!MayStart, Facts!MayStart,
   Delivery!StartAttempt, Facts!StartAttempt, Delivery!StartRefused, Facts!StartRefused, Delivery!Answer, Facts!Answer,
   Delivery!NothingInHand, Facts!NothingInHand, Delivery!SendRequest, Facts!SendRequest, Delivery!SenderRaises, Facts!SenderRaises,
   Delivery!NoVerdict, Facts!NoVerdict, Delivery!CompleteAttempt, Facts!CompleteAttempt, Delivery!CompleteFails, Facts!CompleteFails,
   Delivery!EndCycle, Facts!EndCycle, Delivery!Crash, Facts!Crash, Delivery!Restart, Facts!Restart,
   Delivery!Awaited, Facts!Awaited, Delivery!OdooAccepts, Facts!OdooAccepts, Delivery!OdooRejects, Facts!OdooRejects,
   Delivery!RequestLost, Facts!RequestLost, Delivery!WorkerStep, Facts!WorkerStep, Delivery!Fault, Facts!Fault,
   Delivery!ControlStep, Facts!ControlStep, Delivery!OdooStep, Facts!OdooStep, Delivery!Next, Facts!Next

\* Both instances of EventDelivery name the same initial states.
LEMMA SameStart == Delivery!Init <=> Facts!Init
  BY DEF Delivery!Init, Facts!Init

\* What the whole does to sessions and events is a behaviour of EventDelivery.
LEMMA BridgeIsDelivery == BridgeSpec => Facts!Spec
  BY BridgeDelivers, SameSteps, SameStart, PTL DEF ImplementsDelivery, Delivery!Spec, Facts!Spec

\* Every event of a session whose STOP was acknowledged is stored in Odoo.
LEMMA BridgeAcks == BridgeSpec => []Facts!AckedMeansDelivered
  BY BridgeIsDelivery, DeliveryFits, Facts!AckCorrect, PTL DEF Facts!AckCorrect

\* The acknowledged sessions are sessions.
LEMMA BridgeTypes == BridgeSpec => []Facts!TypeOK
  BY BridgeIsDelivery, DeliveryFits, Facts!TypeCorrect, PTL DEF Facts!TypeCorrect

\* Once the STOP of a session is acknowledged, Odoo has every event of it, and
\* neither reader, capture thread nor buffer can hold another one.
THEOREM AckedComplete == BridgeSpec => []AckedSessionComplete
<1>1. Facts!TypeOK => stopAcked \subseteq Sessions
  BY DEF Facts!TypeOK
<1>2. IInv /\ BuffersOpen /\ Facts!TypeOK /\ Facts!AckedMeansDelivered => AckedSessionComplete
  <2> SUFFICES ASSUME IInv, BuffersOpen, Facts!TypeOK, Facts!AckedMeansDelivered,
                      NEW s \in stopAcked
               PROVE  /\ session[s] = "closed"
                      /\ \A e \in Delivery!EventsOf(s) :
                             queue[e] # "absent" => queue[e] = "sent" /\ e \in accepted
                      /\ ~OnTheirWay(s)
    BY DEF AckedSessionComplete
  <2>1. session[s] = "closed"
    BY DEF Facts!AckedMeansDelivered
  <2>2. \A e \in Delivery!EventsOf(s) :
            queue[e] # "absent" => queue[e] = "sent" /\ e \in accepted
    BY DEF Facts!AckedMeansDelivered, Facts!EventsOf, Delivery!EventsOf
  <2>3. ~OnTheirWay(s)
    BY <1>1, <2>1, ClosedIsQuiet
  <2> QED
    BY <2>1, <2>2, <2>3
<1> QED
  BY <1>2, ControlInvariance, BuffersStayOpen, BridgeAcks, BridgeTypes, PTL

\* The whole keeps what the delivery subsystem promises, with the control worker
\* that is there in the place of any control process: an event is settled once,
\* sent only when Odoo has it, and none is added to an acknowledged session.
THEOREM BridgeKeepsPromise == BridgeSpec => Facts!KeepsPromise
BY BridgeIsDelivery, DeliveryFits, Facts!Refinement, PTL DEF Facts!Refinement

=============================================================================

---------------------------- MODULE FinalBridge ----------------------------
(***************************************************************************)
(* The final runtime as a whole: the control worker of ReaderControl and   *)
(* the delivery workers of EventDelivery, two processes on one database.   *)
(*                                                                         *)
(* They share the local sessions and the events: the control worker opens  *)
(* and ends sessions and ingests what the reader reports, the delivery     *)
(* workers bring the events to Odoo, and the control worker looks at the   *)
(* events again before it acknowledges a STOP.  Either process may die and *)
(* boot again while the other one goes on.                                 *)
(*                                                                         *)
(* A step of one component that touches what they share is one step of     *)
(* both: the frames of a batch become events of the session, a change of   *)
(* the session is seen by both, and a STOP is acknowledged only through    *)
(* the delivery barrier.                                                   *)
(***************************************************************************)
EXTENDS ReaderControl

CONSTANTS
    Events, SessionOf, Workers, Limit, BatchSize, MaxFaults, NoEvent  \* EventDelivery

\* As in EventDelivery.
ASSUME BridgeAssumption ==
    /\ IsFiniteSet(Events)
    /\ SessionOf \in [Events -> Sessions]
    /\ Limit \in [Workers -> Nat \ {0}]
    /\ BatchSize \in Nat \ {0}
    /\ MaxFaults \in Nat
    /\ NoEvent \notin Events

VARIABLES
    queue, received, attempts, due,            \* events and their attempts
    stopAcked,    \* EventDelivery's acked: the sessions whose STOP was acknowledged
    phase, todo, job, result, swept, faults,   \* the delivery workers
    wire, accepted                             \* Odoo

controlVars  == <<pc, commandVars, rt, acked, cap, readerVars, stored>>
eventVars    == <<queue, received, attempts, due, phase, todo, job, result, swept, faults, wire, accepted>>
deliveryVars == <<eventVars, stopAcked>>
bridgeVars   == <<session, controlVars, deliveryVars>>

Delivery == INSTANCE EventDelivery WITH acked <- stopAcked

BridgeInit == Init /\ Delivery!Init

-----------------------------------------------------------------------------
(* The control worker.                                                     *)

\* Steps on the runtime, the connection, the capture thread and the reader.
ControlStep ==
    /\ \/ Boot \/ Kill \/ Interrupt
       \/ BeginCycle \/ EndCycle \/ CycleFails
       \/ Receive
       \/ SyncFails
       \/ SendStart \/ ConnectFails
       \/ StartAccepted \/ StartNotAccepted
       \/ StartCapture("check") \/ StartCapture("unstarted")
       \/ StopCapture \/ CaptureJoined \/ JoinFails
       \/ StopAnswered \/ StopNotAnswered
       \/ DrainFails \/ SettleFails
       \/ StartFails \/ CleanupFails \/ StopOrAbortFails
       \/ ShutdownEnds \/ ShutdownFails
       \/ CaptureCheck \/ CapturePoll \/ CapturePollFails
       \/ CaptureIngestFails
    /\ UNCHANGED deliveryVars

\* The local session is opened or ended.
SessionStep ==
    /\ SyncSession \/ SettleStop \/ SettleAbort \/ SettleCleanup
    /\ UNCHANGED deliveryVars

\* ingest_final_active_tag_frames: the frames are reads of the tags of events E
\* of session s, whatever session the reader was started for, and perhaps of
\* tags that are none of Events.  When one of E was rejected or dead-lettered,
\* only the failure of the ingestion is possible.
Ingested(s, frames) ==
    IF frames = {}
    THEN UNCHANGED deliveryVars
    ELSE \E E \in SUBSET Delivery!EventsOf(s) : Delivery!Ingest(s, E)

DrainStep == Drain /\ Ingested(target, pending)

IngestStep == CaptureIngest /\ Ingested(cap.key, cap.hand)

\* Mutant: a repeated STOP is acknowledged again without the barrier.
AckStepUnbarred ==
    /\ SendAck
    /\ stopAcked' = IF acked'.command = "stop" THEN stopAcked \cup {target} ELSE stopAcked
    /\ UNCHANGED <<session, eventVars>>

\* _send_completed_success_ack: before_success_ack is the delivery barrier.
AckStep ==
    /\ SendAck
    /\ acked'.command = "stop" => Delivery!BarrierPasses(target)
    /\ stopAcked' = IF acked'.command = "stop" THEN stopAcked \cup {target} ELSE stopAcked
    /\ UNCHANGED <<session, eventVars>>

-----------------------------------------------------------------------------
(* The delivery workers, the clock and Odoo.                               *)

DeliveryStep ==
    /\ \/ \E e \in Events : Delivery!RetryFallsDue(e)
       \/ \E w \in Workers : Delivery!WorkerStep(w) \/ Delivery!Fault(w)
       \/ Delivery!OdooStep
    /\ UNCHANGED controlVars

BridgeNext ==
    \/ ControlStep \/ SessionStep
    \/ DrainStep \/ IngestStep \/ AckStep
    \/ DeliveryStep

BridgeSpec == BridgeInit /\ [][BridgeNext]_bridgeVars

-----------------------------------------------------------------------------
(* Correctness.                                                            *)

\* What EventDelivery assumes of the control process is what the commands,
\* failures, crashes and restarts of ReaderControl make of it: a session is
\* opened once and ends once, events are only added while it is active, and a
\* STOP is acknowledged only after its session was closed and delivered.
ImplementsDelivery == Delivery!Spec

\* The frames on their way into session s.
OnTheirWay(s) ==
    \/ inventory = s
    \/ cap.key = s /\ cap.thread \in Alive
    \/ target = s /\ pc = "drain" /\ pending # {}

\* Once the STOP of a session is acknowledged, through whatever crash, restart,
\* repeated command and failed attempt, Odoo has every event of it for good:
\* all are stored, and neither reader, capture thread nor buffer can ever again
\* hold a tag of it.
AckedSessionComplete ==
    \A s \in stopAcked :
        /\ session[s] = "closed"
        /\ \A e \in Delivery!EventsOf(s) :
               queue[e] # "absent" => queue[e] = "sent" /\ e \in accepted
        /\ ~OnTheirWay(s)

=============================================================================

--------------------------- MODULE EventDelivery ---------------------------
(***************************************************************************)
(* Delivery of one reader's final RFID events to Odoo.                     *)
(*                                                                         *)
(* The control process ingests tag frames into an active local session,    *)
(* closes or cancels the session, and acknowledges STOP to Odoo once the   *)
(* delivery barrier lets it.  Delivery workers (one per reader in the      *)
(* shipped systemd units; the code allows for more) run cycles: dead-      *)
(* letter the events of cancelled sessions, dead-letter exhausted retries, *)
(* select a batch of candidates, and for each one start an attempt         *)
(* (transaction), call Odoo, complete the attempt (transaction).  Between  *)
(* any two of these steps another process may run, and a worker may die.   *)
(***************************************************************************)
EXTENDS Integers, Sequences, FiniteSets, Functions, QueuePolicy

CONSTANTS
    Events,      \* the (session, EPC) pairs that may be read: event identities
    Sessions,    \* external session keys
    SessionOf,   \* the session each event belongs to
    Workers,     \* delivery worker processes serving this reader
    Limit,       \* max_delivery_attempts as each worker read it at startup
    BatchSize,   \* worker_batch_size
    MaxFaults,   \* bound: crashes and failed completion transactions
    NoEvent      \* "no attempt in hand"

Requests == [worker : Workers, event : Events, number : Nat]

\* One selected row: its identity and the queue_state read with it.
Items == [event : Events, seen : QueueStates]

Phases == {"idle", "cancelled", "exhausted", "deliver",
           "started", "waiting", "answered", "down"}

\* An attempt of the worker is in hand: started and not completed.
InHand == {"started", "waiting", "answered"}

ASSUME DeliveryAssumption ==
    /\ IsFiniteSet(Events)
    /\ SessionOf \in [Events -> Sessions]
    /\ Limit \in [Workers -> Nat \ {0}]
    /\ BatchSize \in Nat \ {0}
    /\ MaxFaults \in Nat
    /\ NoEvent \notin Events

VARIABLES
    session,    \* RFIDSession.status, "none" before START creates the row
    queue,      \* RawRFIDEvent.queue_state, "absent" before the row exists
    received,   \* the row's place in received_at order, 0 before it exists
    attempts,   \* DeliveryAttempt.outcome by attempt_number
    due,        \* now >= next_retry_at of the latest attempt
    acked,      \* sessions whose STOP success ACK was sent to Odoo
    phase,      \* where each worker is in its cycle
    todo,       \* the rows a worker has selected and not yet handled
    job,        \* the event whose attempt a worker has in hand
    result,     \* the sender result a worker has in hand
    swept,      \* sessions a worker saw cancelled in this cycle's dead-letter pass
    faults,     \* crashes and failed completions so far
    wire,       \* event requests sent to Odoo and not processed (external)
    accepted    \* events Odoo has stored (external)

controlVars == <<session, received, acked>>
workerVars  == <<phase, todo, job, result, swept, faults>>
odooVars    == <<wire, accepted>>
vars == <<session, queue, received, attempts, due, acked,
          phase, todo, job, result, swept, faults, wire, accepted>>

EventsOf(s) == {e \in Events : SessionOf[e] = s}

LastOutcome(e) == attempts[e][Len(attempts[e])]

Init ==
    /\ session = [s \in Sessions |-> "none"]
    /\ queue = [e \in Events |-> "absent"]
    /\ received = [e \in Events |-> 0]
    /\ attempts = [e \in Events |-> <<>>]
    /\ due = [e \in Events |-> FALSE]
    /\ acked = {}
    /\ phase = [w \in Workers |-> "idle"]
    /\ todo = [w \in Workers |-> {}]
    /\ job = [w \in Workers |-> NoEvent]
    /\ result = [w \in Workers |-> "retry"]
    /\ swept = [w \in Workers |-> {}]
    /\ faults = 0
    /\ wire = {}
    /\ accepted = {}

-----------------------------------------------------------------------------
(* The control process: sessions, ingestion, STOP acknowledgement.         *)

\* synchronize_start_command: a second active session of the reader is refused.
OpenSession(s) ==
    /\ session[s] = "none"
    /\ \A t \in Sessions : session[t] # "active"
    /\ session' = [session EXCEPT ![s] = "active"]
    /\ UNCHANGED <<queue, received, attempts, due, acked, workerVars, odooVars>>

\* close_local_session and cancel_local_session.
EndSession(s, status) ==
    /\ session[s] = "active"
    /\ session' = [session EXCEPT ![s] = status]
    /\ UNCHANGED <<queue, received, attempts, due, acked, workerVars, odooVars>>

\* ingest_final_active_tag_frames for the frames of the events E: one
\* transaction that creates the missing rows, assigns them to the session and
\* rolls back when a row that existed is rejected or dead.
Ingest(s, E) ==
    LET new   == {e \in E : queue[e] = "absent"}
        first == Cardinality({e \in Events : queue[e] # "absent"})
    IN  /\ session[s] = "active"
        /\ \A e \in E \ new : queue[e] \in {"queued", "inflight", "retry", "sent"}
        /\ \E place \in Injection(new, first + 1 .. first + Cardinality(new)) :
               received' = [e \in Events |-> IF e \in new THEN place[e] ELSE received[e]]
        /\ queue' = [e \in Events |-> IF e \in new THEN "queued" ELSE queue[e]]
        /\ UNCHANGED <<session, attempts, due, acked, workerVars, odooVars>>

\* Mutant: an INFLIGHT event does not hold back the ACK.
BarrierPassesInflight(s) ==
    \A e \in EventsOf(s) : queue[e] \in {"absent", "sent", "inflight"}

\* require_final_session_delivery_complete: every final event of the session
\* is SENT (a rejected or dead one fails the barrier, any other is pending).
BarrierPasses(s) ==
    \A e \in EventsOf(s) : queue[e] \in {"absent", "sent"}

\* Mutant: STOP is acknowledged before the local session is closed.
StopAckBeforeClose(s) ==
    /\ session[s] \in {"active", "closed"}
    /\ s \notin acked
    /\ BarrierPasses(s)
    /\ acked' = acked \cup {s}
    /\ UNCHANGED <<session, queue, received, attempts, due, workerVars, odooVars>>

\* The STOP success ACK, sent after the local session was closed.
StopAck(s) ==
    /\ session[s] = "closed"
    /\ s \notin acked
    /\ BarrierPasses(s)
    /\ acked' = acked \cup {s}
    /\ UNCHANGED <<session, queue, received, attempts, due, workerVars, odooVars>>

\* The clock passes next_retry_at of the latest attempt of e.
RetryFallsDue(e) ==
    /\ queue[e] = "retry"
    /\ ~due[e]
    /\ due' = [due EXCEPT ![e] = TRUE]
    /\ UNCHANGED <<queue, attempts, controlVars, workerVars, odooVars>>

-----------------------------------------------------------------------------
(* The delivery cycle: run_final_delivery_cycle.                           *)

Select(w, items, next) ==
    /\ todo' = [todo EXCEPT ![w] = items]
    /\ phase' = [phase EXCEPT ![w] = next]

\* Mutant: events waiting for a retry are not looked for.
CancelledQueuedRows ==
    {i \in Items : /\ i.seen = queue[i.event]
                   /\ i.seen = "queued"
                   /\ session[SessionOf[i.event]] = "cancelled"}

CancelledRows ==
    {i \in Items : /\ i.seen = queue[i.event]
                   /\ i.seen \in {"queued", "retry"}
                   /\ session[SessionOf[i.event]] = "cancelled"}

SelectCancelled(w) ==
    /\ phase[w] = "idle"
    /\ Select(w, CancelledRows, "cancelled")
    /\ swept' = [swept EXCEPT ![w] = {s \in Sessions : session[s] = "cancelled"}]
    /\ UNCHANGED <<queue, attempts, due, controlVars, job, result, faults, odooVars>>

\* Mutants: the attempts are not counted; one attempt too many is waited for.
UncountedRows(w) ==
    {i \in Items : i.seen = "retry" /\ queue[i.event] = "retry"}

OverdrawnRows(w) ==
    {i \in Items : /\ i.seen = "retry"
                   /\ queue[i.event] = "retry"
                   /\ Len(attempts[i.event]) > Limit[w]}

ExhaustedRows(w) ==
    {i \in Items : /\ i.seen = "retry"
                   /\ queue[i.event] = "retry"
                   /\ Len(attempts[i.event]) >= Limit[w]}

SelectExhausted(w) ==
    /\ phase[w] = "cancelled"
    /\ todo[w] = {}
    /\ Select(w, ExhaustedRows(w), "exhausted")
    /\ UNCHANGED <<queue, attempts, due, controlVars, job, result, swept, faults, odooVars>>

\* Mutant: the row is not read again under its lock.
DeadLetterStale(w, i) ==
    /\ phase[w] \in {"cancelled", "exhausted"}
    /\ i \in todo[w]
    /\ queue' = [queue EXCEPT ![i.event] = "dead"]
    /\ todo' = [todo EXCEPT ![w] = @ \ {i}]
    /\ UNCHANGED <<attempts, due, controlVars, phase, job, result, swept, faults, odooVars>>

\* transition_event_queue_state(event, seen, DEAD) for the next selected row:
\* a row whose state changed since it was selected is skipped.
DeadLetter(w, i) ==
    /\ phase[w] \in {"cancelled", "exhausted"}
    /\ i \in todo[w]
    /\ queue' = IF /\ queue[i.event] = i.seen
                   /\ ValidTransition(i.seen, "dead")
                THEN [queue EXCEPT ![i.event] = "dead"]
                ELSE queue
    /\ todo' = [todo EXCEPT ![w] = @ \ {i}]
    /\ UNCHANGED <<attempts, due, controlVars, phase, job, result, swept, faults, odooVars>>

\* Mutant: next_retry_at is not looked at.
CandidateAnyTime(e) ==
    \/ queue[e] = "queued"
    \/ queue[e] = "retry" /\ attempts[e] # <<>> /\ LastOutcome(e) = "retry"

\* QUEUED, or RETRY whose latest attempt ended in RETRY and is due.
Candidate(e) ==
    \/ queue[e] = "queued"
    \/ /\ queue[e] = "retry"
       /\ attempts[e] # <<>>
       /\ LastOutcome(e) = "retry"
       /\ due[e]

\* The oldest BatchSize candidates.
CandidateRows ==
    {i \in Items : /\ i.seen = queue[i.event]
                   /\ Candidate(i.event)
                   /\ Cardinality({f \in Events : /\ Candidate(f)
                                                  /\ received[f] < received[i.event]})
                        < BatchSize}

SelectCandidates(w) ==
    /\ phase[w] = "exhausted"
    /\ todo[w] = {}
    /\ Select(w, CandidateRows, "deliver")
    /\ UNCHANGED <<queue, attempts, due, controlVars, job, result, swept, faults, odooVars>>

\* Candidates are handled in received_at order.
NextInBatch(w, i) ==
    /\ phase[w] = "deliver"
    /\ i \in todo[w]
    /\ \A k \in todo[w] : received[i.event] <= received[k.event]

\* Mutants: the state read at selection is trusted; the limit is not checked.
MayStartStale(w, i) ==
    /\ Len(attempts[i.event]) + 1 <= Limit[w]
    /\ ValidTransition(i.seen, "inflight")

MayStartUnlimited(w, i) ==
    /\ queue[i.event] = i.seen
    /\ ValidTransition(queue[i.event], "inflight")

\* start_delivery_attempt finds the row as it was selected, and one more
\* attempt is allowed.
MayStart(w, i) ==
    /\ queue[i.event] = i.seen
    /\ queue[i.event] \in {"queued", "retry"}
    /\ Len(attempts[i.event]) + 1 <= Limit[w]
    /\ ValidTransition(queue[i.event], "inflight")

StartAttempt(w, i) ==
    /\ NextInBatch(w, i)
    /\ MayStart(w, i)
    /\ queue' = [queue EXCEPT ![i.event] = "inflight"]
    /\ attempts' = [attempts EXCEPT ![i.event] = Append(@, "started")]
    /\ job' = [job EXCEPT ![w] = i.event]
    /\ todo' = [todo EXCEPT ![w] = @ \ {i}]
    /\ phase' = [phase EXCEPT ![w] = "started"]
    /\ UNCHANGED <<due, controlVars, result, swept, faults, odooVars>>

\* start_delivery_attempt raises: the event is counted as failed and skipped.
StartRefused(w, i) ==
    /\ NextInBatch(w, i)
    /\ ~MayStart(w, i)
    /\ todo' = [todo EXCEPT ![w] = @ \ {i}]
    /\ UNCHANGED <<queue, attempts, due, controlVars, phase, job, result, swept, faults, odooVars>>

\* The sender result is in hand; completion follows.
Answer(w, outcome) ==
    /\ result' = [result EXCEPT ![w] = outcome]
    /\ phase' = [phase EXCEPT ![w] = "answered"]

\* process_delivery_candidate returns or raises: its locals are gone.
NothingInHand(w, next) ==
    /\ job' = [job EXCEPT ![w] = NoEvent]
    /\ result' = [result EXCEPT ![w] = "retry"]
    /\ phase' = [phase EXCEPT ![w] = next]

\* FinalOdooEventSender.send_event posts the event.
SendRequest(w) ==
    /\ phase[w] = "started"
    /\ wire' = wire \cup {[worker |-> w, event |-> job[w], number |-> Len(attempts[job[w]])]}
    /\ phase' = [phase EXCEPT ![w] = "waiting"]
    /\ UNCHANGED <<queue, attempts, due, controlVars, todo, job, result, swept, faults, accepted>>

\* The sender raises before anything is posted: the outcome is RETRY.
SenderRaises(w) ==
    /\ phase[w] = "started"
    /\ Answer(w, "retry")
    /\ UNCHANGED <<queue, attempts, due, controlVars, todo, job, swept, faults, odooVars>>

\* Mutant: no answer is taken for an acceptance.
NoVerdictIsSent(w) ==
    /\ phase[w] = "waiting"
    /\ Answer(w, "sent")
    /\ UNCHANGED <<queue, attempts, due, controlVars, todo, job, swept, faults, odooVars>>

\* Transport error or timeout, or an answer that is no verdict on this event:
\* RETRY, though the request may have been processed or still be under way.
NoVerdict(w) ==
    /\ phase[w] = "waiting"
    /\ Answer(w, "retry")
    /\ UNCHANGED <<queue, attempts, due, controlVars, todo, job, swept, faults, odooVars>>

\* Mutant: the attempt row is not updated with the event.
CompleteEventOnly(w) ==
    /\ phase[w] = "answered"
    /\ queue' = [queue EXCEPT ![job[w]] = result[w]]
    /\ due' = [due EXCEPT ![job[w]] = FALSE]
    /\ NothingInHand(w, "deliver")
    /\ UNCHANGED <<attempts, controlVars, todo, swept, faults, odooVars>>

\* complete_delivery_attempt for the attempt in hand.
CompleteAttempt(w) ==
    LET e == job[w] IN
    /\ phase[w] = "answered"
    /\ queue[e] = "inflight"
    /\ LastOutcome(e) = "started"
    /\ ValidTransition("inflight", result[w])
    /\ queue' = [queue EXCEPT ![e] = result[w]]
    /\ attempts' = [attempts EXCEPT ![e] = [@ EXCEPT ![Len(@)] = result[w]]]
    /\ due' = [due EXCEPT ![e] = FALSE]
    /\ NothingInHand(w, "deliver")
    /\ UNCHANGED <<controlVars, todo, swept, faults, odooVars>>

\* The completion transaction raises and is rolled back: the cycle counts a
\* failure and goes on, the event stays INFLIGHT.
CompleteFails(w) ==
    /\ phase[w] = "answered"
    /\ faults < MaxFaults
    /\ faults' = faults + 1
    /\ NothingInHand(w, "deliver")
    /\ UNCHANGED <<queue, attempts, due, controlVars, todo, swept, odooVars>>

EndCycle(w) ==
    /\ phase[w] = "deliver"
    /\ todo[w] = {}
    /\ phase' = [phase EXCEPT ![w] = "idle"]
    /\ swept' = [swept EXCEPT ![w] = {}]
    /\ UNCHANGED <<queue, attempts, due, controlVars, todo, job, result, faults, odooVars>>

\* The process dies (no SIGTERM handler, no cleanup): only the database stays.
Crash(w) ==
    /\ phase[w] # "down"
    /\ faults < MaxFaults
    /\ faults' = faults + 1
    /\ NothingInHand(w, "down")
    /\ todo' = [todo EXCEPT ![w] = {}]
    /\ swept' = [swept EXCEPT ![w] = {}]
    /\ UNCHANGED <<queue, attempts, due, controlVars, odooVars>>

Restart(w) ==
    /\ phase[w] = "down"
    /\ phase' = [phase EXCEPT ![w] = "idle"]
    /\ UNCHANGED <<queue, attempts, due, controlVars, todo, job, result, swept, faults, odooVars>>

-----------------------------------------------------------------------------
(* Odoo (external): it stores an event once per UUID and answers           *)
(* accepted/duplicate, or it rejects an event it has not stored.           *)

\* The worker still waits for the answer to this very request.
Awaited(r) ==
    /\ phase[r.worker] = "waiting"
    /\ job[r.worker] = r.event
    /\ r.number = Len(attempts[r.event])

OdooAccepts(r) ==
    /\ r \in wire
    /\ wire' = wire \ {r}
    /\ accepted' = accepted \cup {r.event}
    /\ \/ Awaited(r) /\ Answer(r.worker, "sent")
       \/ UNCHANGED <<phase, result>>
    /\ UNCHANGED <<queue, attempts, due, controlVars, todo, job, swept, faults>>

OdooRejects(r) ==
    /\ r \in wire
    /\ r.event \notin accepted
    /\ wire' = wire \ {r}
    /\ \/ Awaited(r) /\ Answer(r.worker, "rejected")
       \/ UNCHANGED <<phase, result>>
    /\ UNCHANGED <<queue, attempts, due, controlVars, todo, job, swept, faults, accepted>>

RequestLost(r) ==
    /\ r \in wire
    /\ wire' = wire \ {r}
    /\ UNCHANGED <<queue, attempts, due, controlVars, workerVars, accepted>>

-----------------------------------------------------------------------------
WorkerStep(w) ==
    \/ SelectCancelled(w)
    \/ SelectExhausted(w)
    \/ SelectCandidates(w)
    \/ \E i \in todo[w] : DeadLetter(w, i) \/ StartAttempt(w, i) \/ StartRefused(w, i)
    \/ SendRequest(w)
    \/ SenderRaises(w)
    \/ NoVerdict(w)
    \/ CompleteAttempt(w)
    \/ EndCycle(w)
    \/ Restart(w)

Fault(w) == CompleteFails(w) \/ Crash(w)

ControlStep ==
    \E s \in Sessions :
        \/ OpenSession(s)
        \/ EndSession(s, "closed")
        \/ EndSession(s, "cancelled")
        \/ \E E \in SUBSET EventsOf(s) : Ingest(s, E)
        \/ StopAck(s)

OdooStep == \E r \in wire : OdooAccepts(r) \/ OdooRejects(r) \/ RequestLost(r)

Next ==
    \/ ControlStep
    \/ \E e \in Events : RetryFallsDue(e)
    \/ \E w \in Workers : WorkerStep(w) \/ Fault(w)
    \/ OdooStep

Spec == Init /\ [][Next]_vars

\* Each worker process keeps running (systemd restarts it), the clock advances.
\* Nothing is assumed of Odoo: a request need never be answered.
FairSpec ==
    /\ Spec
    /\ \A w \in Workers : WF_vars(WorkerStep(w))
    /\ \A e \in Events : WF_vars(RetryFallsDue(e))

-----------------------------------------------------------------------------
(* Correctness.                                                            *)

\* The value every variable may take.
TypeOK ==
    /\ session \in [Sessions -> {"none", "active", "closed", "cancelled"}]
    /\ queue \in [Events -> (QueueStates \ {"unassigned"}) \cup {"absent"}]
    /\ received \in [Events -> Nat]
    /\ attempts \in [Events -> Seq(AttemptOutcomes)]
    /\ due \in [Events -> BOOLEAN]
    /\ acked \in SUBSET Sessions
    /\ phase \in [Workers -> Phases]
    /\ todo \in [Workers -> SUBSET Items]
    /\ job \in [Workers -> Events \cup {NoEvent}]
    /\ result \in [Workers -> CompletionOutcomes]
    /\ swept \in [Workers -> SUBSET Sessions]
    /\ faults \in Nat
    /\ wire \in SUBSET Requests
    /\ accepted \in SUBSET Events

\* A worker in the middle of an attempt has an event; otherwise it has none.
HandTyped ==
    \A w \in Workers : IF phase[w] \in InHand THEN job[w] \in Events ELSE job[w] = NoEvent

\* The attempt rows and the queue state tell one story, whatever workers did
\* in between: every attempt but the last ended in RETRY, the last one is
\* STARTED exactly while the event is INFLIGHT, and otherwise it agrees with
\* the state it led to (start_ and complete_delivery_attempt).
AttemptLedger ==
    \A e \in Events :
        /\ \A n \in 1 .. Len(attempts[e]) - 1 : attempts[e][n] = "retry"
        /\ queue[e] \in {"absent", "queued"} => attempts[e] = <<>>
        /\ queue[e] = "inflight" <=> attempts[e] # <<>> /\ LastOutcome(e) = "started"
        /\ queue[e] \in {"retry", "sent", "rejected"}
             => attempts[e] # <<>> /\ LastOutcome(e) = queue[e]
        /\ queue[e] = "dead" => attempts[e] = <<>> \/ LastOutcome(e) = "retry"

\* An attempt in hand is for an INFLIGHT event, and no two workers have an
\* attempt for the same event in hand, although both may have selected it.
OneSender ==
    \A w \in Workers : phase[w] \in InHand =>
        /\ queue[job[w]] = "inflight"
        /\ \A v \in Workers \ {w} : phase[v] \in InHand => job[v] # job[w]

\* What a worker learnt when it selected a row still justifies what it does to
\* it, whatever happened since: a row kept for the cancelled pass is of a
\* cancelled session, one kept for the exhausted pass has used up the limit.
SelectionSound ==
    \A w \in Workers : \A i \in todo[w] :
        /\ i.seen \in {"queued", "retry"}
        /\ phase[w] = "cancelled" => session[SessionOf[i.event]] = "cancelled"
        /\ phase[w] = "exhausted" => Len(attempts[i.event]) >= Limit[w]
        /\ phase[w] \in {"cancelled", "exhausted", "deliver"} \cup InHand

\* A result in hand is one the final sender can return, and it is SENT only
\* when Odoo has stored the event.
AnswerSound ==
    \A w \in Workers :
        /\ result[w] \in {"sent", "retry", "rejected"}
        /\ result[w] = "sent" => phase[w] = "answered" /\ job[w] \in accepted

\* Without crashes and failed completions an INFLIGHT event is in some
\* worker's hand: nothing else would ever complete its attempt.
InflightHasOwner ==
    faults = 0 => \A e \in Events : queue[e] = "inflight" =>
        \E w \in Workers : phase[w] \in InHand /\ job[w] = e

\* No event is marked SENT that Odoo has not stored, whatever was lost,
\* delayed or answered to an earlier attempt.
SentMeansAccepted ==
    \A e \in Events : queue[e] = "sent" => e \in accepted

\* A STOP success ACK is a promise that lasts: every event of the session is
\* stored in Odoo, none is pending or failed, and none can be added later.
AckedMeansDelivered ==
    \A s \in acked :
        /\ session[s] = "closed"
        /\ \A e \in EventsOf(s) : queue[e] # "absent" => queue[e] = "sent" /\ e \in accepted

\* An event is given up only with its session cancelled or after as many
\* attempts as some worker allows, although both dead-letter passes act on
\* rows selected earlier.
DeadIsJustified ==
    \A e \in Events : queue[e] = "dead" =>
        \/ session[SessionOf[e]] = "cancelled"
        \/ \E w \in Workers : Len(attempts[e]) >= Limit[w]

\* No event is attempted more often than the most generous limit in use.
AttemptsWithinLimit ==
    \A e \in Events : attempts[e] # <<>> =>
        \E w \in Workers : Len(attempts[e]) <= Limit[w]

\* The inductive invariant: the safety properties above strengthen each other.
IInv ==
    /\ TypeOK
    /\ HandTyped
    /\ AttemptLedger
    /\ OneSender
    /\ SelectionSound
    /\ AnswerSound
    /\ InflightHasOwner
    /\ SentMeansAccepted
    /\ AckedMeansDelivered
    /\ DeadIsJustified
    /\ AttemptsWithinLimit

\* A SENT, REJECTED or DEAD event never changes state again and gets no
\* further attempt, even when a stale selection still names it.
TerminalIsFinal ==
    [][\A e \in Events : queue[e] \in TerminalStates =>
           queue'[e] = queue[e] /\ attempts'[e] = attempts[e]]_vars

\* No attempt starts before next_retry_at of the one before it.
RetryNotEarly ==
    [][\A e \in Events : queue[e] = "retry" /\ queue'[e] = "inflight" => due[e]]_vars

\* A cycle that found a session cancelled sends none of its events.
CancelledNotSent ==
    [][\A w \in Workers : job'[w] # job[w] /\ job'[w] # NoEvent =>
           SessionOf[job'[w]] \notin swept[w]]_vars

\* Every ingested event is eventually SENT, REJECTED or DEAD, however Odoo
\* behaves, as long as no worker dies and no completion fails.
EveryEventSettles ==
    \A e \in Events : queue[e] # "absent" ~> queue[e] \in TerminalStates \/ faults > 0

\* An attempt that was started is eventually completed.
EveryAttemptCompletes ==
    \A e \in Events : queue[e] = "inflight" ~> queue[e] # "inflight"

-----------------------------------------------------------------------------
(* Refinement: the workers, their attempts and the network implement       *)
(* DeliveryPromise.                                                        *)

StatusOf(state) ==
    CASE state = "absent" -> "none"
      [] state \in {"queued", "inflight", "retry"} -> "pending"
      [] state = "sent" -> "sent"
      [] OTHER -> "failed"

Promise == INSTANCE DeliveryPromise WITH
    status <- [e \in Events |-> StatusOf(queue[e])],
    stored <- accepted,
    acknowledged <- acked

\* Every behaviour of the subsystem is one the promise allows: events settle
\* once, are sent only when stored, and an acknowledged session stays complete.
KeepsPromise == Promise!Spec

=============================================================================

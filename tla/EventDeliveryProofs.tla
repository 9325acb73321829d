------------------------ MODULE EventDeliveryProofs ------------------------
(***************************************************************************)
(* Safety of EventDelivery for every set of events, sessions and workers,  *)
(* every limit, batch size and number of faults.                           *)
(***************************************************************************)
EXTENDS EventDelivery, FiniteSetTheorems, SequenceTheorems, TLAPS

\* Types alone are not inductive: an attempt in hand must be for an event.
TypeInv == TypeOK /\ HandTyped

\* Appending to, or overwriting the last of, a sequence of outcomes.
LEMMA OutcomeSeqs ==
    ASSUME NEW seq \in Seq(AttemptOutcomes), NEW o \in AttemptOutcomes
    PROVE  /\ Append(seq, o) \in Seq(AttemptOutcomes)
           /\ [seq EXCEPT ![Len(seq)] = o] \in Seq(AttemptOutcomes)
           /\ Len([seq EXCEPT ![Len(seq)] = o]) = Len(seq)
           /\ Len(seq) \in Nat
           /\ Len(Append(seq, o)) = Len(seq) + 1
  <1>1. Len(seq) \in Nat /\ (seq # <<>> => Len(seq) \in 1 .. Len(seq))
    BY LenProperties, EmptySeq, SMT
  <1>2. CASE seq = <<>>
    <2>1. [seq EXCEPT ![Len(seq)] = o] = seq
      BY <1>2, SMT
    <2>2. /\ Append(seq, o) \in Seq(AttemptOutcomes)
          /\ Len(Append(seq, o)) = Len(seq) + 1
      BY AppendProperties
    <2> QED  BY <1>1, <2>1, <2>2
  <1>3. CASE seq # <<>>
    <2>1. /\ [seq EXCEPT ![Len(seq)] = o] \in Seq(AttemptOutcomes)
          /\ Len([seq EXCEPT ![Len(seq)] = o]) = Len(seq)
      BY <1>1, <1>3, ExceptSeq
    <2>2. /\ Append(seq, o) \in Seq(AttemptOutcomes)
          /\ Len(Append(seq, o)) = Len(seq) + 1
      BY AppendProperties
    <2> QED  BY <1>1, <2>1, <2>2
  <1> QED  BY <1>2, <1>3

\* The initial values have their types.
LEMMA TypeInit == Init => TypeInv
  BY DeliveryAssumption, EmptySeq
     DEF Init, TypeInv, TypeOK, HandTyped, InHand, Phases, QueueStates,
         CompletionOutcomes, AttemptOutcomes, Items, Requests

\* Every action keeps the types; the actions that change the queue, the
\* attempts, the arrival order or the wire need a word each.
LEMMA TypeStep ==
    ASSUME TypeInv, [Next]_vars
    PROVE  TypeInv'
  <1> USE DEF TypeInv, TypeOK, HandTyped, InHand, Phases, QueueStates, Items,
          AttemptOutcomes, CompletionOutcomes, TerminalStates
  <1> USE DEF controlVars, workerVars, odooVars, vars
  <1>1. ASSUME NEW s \in Sessions, OpenSession(s) PROVE TypeInv'
    BY <1>1 DEF OpenSession
  <1>2. ASSUME NEW s \in Sessions, NEW status \in {"closed", "cancelled"}, EndSession(s, status)
        PROVE  TypeInv'
    BY <1>2 DEF EndSession
  <1>3. ASSUME NEW s \in Sessions, NEW E \in SUBSET EventsOf(s), Ingest(s, E)
        PROVE  TypeInv'
    <2> DEFINE new   == {e \in E : queue[e] = "absent"}
               known == {e \in Events : queue[e] # "absent"}
               first == Cardinality(known)
    <2>1. E \subseteq Events /\ IsFiniteSet(new) /\ IsFiniteSet(known)
      BY DeliveryAssumption, FS_Subset DEF EventsOf
    <2>2. first \in Nat /\ Cardinality(new) \in Nat
      BY <2>1, FS_CardinalityType
    <2>3. PICK place \in Injection(new, first + 1 .. first + Cardinality(new)) :
             received' = [e \in Events |-> IF e \in new THEN place[e] ELSE received[e]]
      BY <1>3 DEF Ingest
    <2>4. \A e \in new : place[e] \in Nat
      <3>1. place \in [new -> first + 1 .. first + Cardinality(new)]
        BY <2>3 DEF Injection
      <3>2. first + 1 .. first + Cardinality(new) \subseteq Nat
        <4> HIDE DEF first, new
        <4>1. ASSUME NEW n \in first + 1 .. first + Cardinality(new) PROVE n \in Nat
          BY <2>2, <4>1
        <4> QED  BY <4>1
      <3> HIDE DEF new, first
      <3> QED  BY <3>1, <3>2
    <2>5. received' \in [Events -> Nat]
      BY <2>3, <2>4
    <2> QED  BY <1>3, <2>5 DEF Ingest
  <1>4. ASSUME NEW s \in Sessions, StopAck(s) PROVE TypeInv'
    BY <1>4 DEF StopAck
  <1>5. ASSUME NEW e \in Events, RetryFallsDue(e) PROVE TypeInv'
    BY <1>5 DEF RetryFallsDue
  <1>6. ASSUME NEW w \in Workers, SelectCancelled(w) PROVE TypeInv'
    BY <1>6 DEF SelectCancelled, Select, CancelledRows
  <1>7. ASSUME NEW w \in Workers, SelectExhausted(w) PROVE TypeInv'
    BY <1>7 DEF SelectExhausted, Select, ExhaustedRows
  <1>8. ASSUME NEW w \in Workers, SelectCandidates(w) PROVE TypeInv'
    BY <1>8 DEF SelectCandidates, Select, CandidateRows
  <1>9. ASSUME NEW w \in Workers, NEW i \in todo[w], DeadLetter(w, i) PROVE TypeInv'
    BY <1>9 DEF DeadLetter
  <1>10. ASSUME NEW w \in Workers, NEW i \in todo[w], StartAttempt(w, i) PROVE TypeInv'
    <2>1. i.event \in Events
      OBVIOUS
    <2>2. attempts' \in [Events -> Seq(AttemptOutcomes)]
      BY <1>10, <2>1, OutcomeSeqs DEF StartAttempt
    <2> QED  BY <1>10, <2>1, <2>2 DEF StartAttempt, NextInBatch
  <1>11. ASSUME NEW w \in Workers, NEW i \in todo[w], StartRefused(w, i) PROVE TypeInv'
    BY <1>11 DEF StartRefused
  <1>12. ASSUME NEW w \in Workers, SendRequest(w) PROVE TypeInv'
    <2>1. job[w] \in Events
      BY <1>12 DEF SendRequest
    <2>2. Len(attempts[job[w]]) \in Nat
      BY <2>1, LenProperties
    <2> QED  BY <1>12, <2>1, <2>2 DEF SendRequest, Requests
  <1>13. ASSUME NEW w \in Workers, SenderRaises(w) \/ NoVerdict(w) PROVE TypeInv'
    <2>1. CASE SenderRaises(w)
      BY <2>1 DEF SenderRaises, Answer
    <2>2. CASE NoVerdict(w)
      BY <2>2 DEF NoVerdict, Answer
    <2> QED  BY <1>13, <2>1, <2>2
  <1>14. ASSUME NEW w \in Workers, CompleteAttempt(w) PROVE TypeInv'
    <2>1. job[w] \in Events
      BY <1>14 DEF CompleteAttempt
    <2>2. attempts' \in [Events -> Seq(AttemptOutcomes)]
      BY <1>14, <2>1, OutcomeSeqs DEF CompleteAttempt
    <2> QED  BY <1>14, <2>1, <2>2 DEF CompleteAttempt, NothingInHand
  <1>15. ASSUME NEW w \in Workers, CompleteFails(w) \/ Crash(w) PROVE TypeInv'
    <2>1. CASE CompleteFails(w)
      BY <2>1 DEF CompleteFails, NothingInHand
    <2>2. CASE Crash(w)
      BY <2>2 DEF Crash, NothingInHand
    <2> QED  BY <1>15, <2>1, <2>2
  <1>16. ASSUME NEW w \in Workers, EndCycle(w) \/ Restart(w) PROVE TypeInv'
    BY <1>16 DEF EndCycle, Restart
  <1>17. ASSUME NEW r \in wire, OdooAccepts(r) \/ OdooRejects(r) \/ RequestLost(r)
         PROVE  TypeInv'
    <2>1. r.event \in Events /\ r.worker \in Workers
      BY DEF Requests
    <2>2. CASE OdooAccepts(r)
      BY <2>1, <2>2 DEF OdooAccepts, Awaited, Answer
    <2>3. CASE OdooRejects(r)
      BY <2>1, <2>3 DEF OdooRejects, Awaited, Answer
    <2>4. CASE RequestLost(r)
      BY <2>1, <2>4 DEF RequestLost, Awaited, Answer
    <2> QED  BY <1>17, <2>2, <2>3, <2>4
  <1>18. CASE UNCHANGED vars
    BY <1>18
  <1> QED
    BY <1>1, <1>2, <1>3, <1>4, <1>5, <1>6, <1>7, <1>8, <1>9, <1>10, <1>11, <1>12,
       <1>13, <1>14, <1>15, <1>16, <1>17, <1>18
    DEF Next, ControlStep, WorkerStep, Fault, OdooStep

\* The types hold in every reachable state.
THEOREM TypeCorrect == Spec => []TypeOK
  <1>1. Init => TypeInv
    BY TypeInit
  <1>2. TypeInv /\ [Next]_vars => TypeInv'
    BY TypeStep
  <1>3. TypeInv => TypeOK
    BY DEF TypeInv
  <1> QED  BY <1>1, <1>2, <1>3, PTL DEF Spec

-----------------------------------------------------------------------------
\* Appending an attempt: the earlier ones stay, the new one is the last.
LEMMA AppendOutcome ==
    ASSUME NEW seq \in Seq(AttemptOutcomes), NEW o \in AttemptOutcomes
    PROVE  LET t == Append(seq, o) IN
           /\ t # <<>>
           /\ Len(t) = Len(seq) + 1
           /\ t[Len(t)] = o
           /\ \A n \in 1 .. Len(seq) : t[n] = seq[n]
  BY AppendProperties, EmptySeq, LenProperties

\* Completing the last attempt: the earlier ones stay.
LEMMA OverwriteLast ==
    ASSUME NEW seq \in Seq(AttemptOutcomes), NEW o \in AttemptOutcomes, seq # <<>>
    PROVE  LET t == [seq EXCEPT ![Len(seq)] = o] IN
           /\ t # <<>>
           /\ Len(t) = Len(seq)
           /\ t[Len(t)] = o
           /\ \A n \in 1 .. Len(t) - 1 : t[n] = seq[n]
  <1>1. Len(seq) \in Nat \ {0}
    BY EmptySeq
  <1>2. Len(seq) \in 1 .. Len(seq)
    BY <1>1
  <1> DEFINE t == [seq EXCEPT ![Len(seq)] = o]
  <1>3. /\ t \in Seq(AttemptOutcomes)
        /\ Len(t) = Len(seq)
        /\ \A n \in 1 .. Len(seq) : t[n] = IF n = Len(seq) THEN o ELSE seq[n]
    BY <1>2, ExceptSeq
  <1>4. t # <<>>
    BY <1>1, <1>3, EmptySeq
  <1> HIDE DEF t
  <1>5. \A n \in 1 .. Len(t) - 1 : n \in 1 .. Len(seq) /\ n # Len(seq)
    BY <1>1, <1>3
  <1>6. t[Len(t)] = o
    BY <1>2, <1>3
  <1>7. \A n \in 1 .. Len(t) - 1 : t[n] = seq[n]
    BY <1>3, <1>5
  <1> QED  BY <1>3, <1>4, <1>6, <1>7 DEF t

\* The initial state, without events or attempts, satisfies the invariant.
LEMMA InvInit == Init => IInv
  <1> SUFFICES ASSUME Init PROVE IInv
    OBVIOUS
  <1>1. TypeOK /\ HandTyped
    BY TypeInit DEF TypeInv
  <1>2. \A e \in Events : attempts[e] = <<>>
    BY DEF Init
  <1>3. AttemptLedger
    <2>1. ~ \E n \in 1 .. 0 - 1 : TRUE
      OBVIOUS
    <2> QED  BY <1>2, <2>1, EmptySeq DEF Init, AttemptLedger
  <1> QED
    BY <1>1, <1>2, <1>3 DEF Init, IInv, OneSender, SelectionSound, AnswerSound,
       InflightHasOwner, SentMeansAccepted, AckedMeansDelivered, DeadIsJustified,
       AttemptsWithinLimit, InHand

-----------------------------------------------------------------------------
(* The invariant is kept by every action.  Types come from TypeStep; the   *)
(* definitions the remaining conjuncts share are expanded throughout.      *)

Conjuncts ==
    /\ AttemptLedger
    /\ OneSender
    /\ SelectionSound
    /\ AnswerSound
    /\ InflightHasOwner
    /\ SentMeansAccepted
    /\ AckedMeansDelivered
    /\ DeadIsJustified
    /\ AttemptsWithinLimit

\* Sessions, ingestion, the STOP ACK and the clock.
LEMMA ControlKeepsInv ==
    ASSUME IInv, TypeInv',
           ControlStep \/ \E e \in Events : RetryFallsDue(e)
    PROVE  Conjuncts'
  <1> USE DEF IInv, Conjuncts, TypeInv, TypeOK, HandTyped, InHand, controlVars, workerVars, odooVars,
          AttemptLedger, OneSender, SelectionSound, AnswerSound, InflightHasOwner,
          SentMeansAccepted, AckedMeansDelivered, DeadIsJustified, AttemptsWithinLimit,
          LastOutcome, EventsOf, Items, QueueStates
  <1>1. ASSUME NEW s \in Sessions, OpenSession(s) PROVE Conjuncts'
    BY <1>1 DEF OpenSession
  <1>2. ASSUME NEW s \in Sessions, NEW status \in {"closed", "cancelled"}, EndSession(s, status)
        PROVE  Conjuncts'
    BY <1>2 DEF EndSession
  <1>3. ASSUME NEW s \in Sessions, NEW E \in SUBSET EventsOf(s), Ingest(s, E)
        PROVE  Conjuncts'
    BY <1>3, DeliveryAssumption DEF Ingest
  <1>4. ASSUME NEW s \in Sessions, StopAck(s) PROVE Conjuncts'
    BY <1>4 DEF StopAck, BarrierPasses
  <1>5. ASSUME NEW e \in Events, RetryFallsDue(e) PROVE Conjuncts'
    BY <1>5 DEF RetryFallsDue
  <1> QED
    BY <1>1, <1>2, <1>3, <1>4, <1>5 DEF ControlStep

\* A step that leaves the rows, the sessions and Odoo alone keeps what the
\* invariant says of them.
LEMMA RowsUntouched ==
    ASSUME IInv, UNCHANGED <<session, queue, attempts, acked, accepted>>
    PROVE  /\ AttemptLedger'
           /\ SentMeansAccepted'
           /\ AckedMeansDelivered'
           /\ DeadIsJustified'
           /\ AttemptsWithinLimit'
  BY DEF IInv, AttemptLedger, SentMeansAccepted, AckedMeansDelivered, DeadIsJustified,
         AttemptsWithinLimit, LastOutcome, EventsOf

\* The selections of a cycle.
LEMMA SelectKeepsInv ==
    ASSUME IInv, TypeInv', NEW w \in Workers,
           \/ SelectCancelled(w) \/ SelectExhausted(w) \/ SelectCandidates(w)
           \/ EndCycle(w) \/ Restart(w)
    PROVE  Conjuncts'
  <1> USE DEF TypeInv, TypeOK, HandTyped, InHand, Phases, controlVars, odooVars
  <1>1. UNCHANGED <<session, queue, attempts, acked, accepted, job, result, faults>>
    BY DEF SelectCancelled, SelectExhausted, SelectCandidates, EndCycle, Restart, Select
  <1>2. \E next \in Phases \ InHand :
            phase[w] \notin InHand /\ phase' = [phase EXCEPT ![w] = next]
    BY DEF SelectCancelled, SelectExhausted, SelectCandidates, EndCycle, Restart, Select
  <1>3. OneSender'
    BY <1>1, <1>2 DEF IInv, OneSender
  <1>4. AnswerSound'
    BY <1>1, <1>2 DEF IInv, AnswerSound
  <1>5. InflightHasOwner'
    BY <1>1, <1>2 DEF IInv, InflightHasOwner
  <1>6. SelectionSound'
    <2> SUFFICES ASSUME NEW v \in Workers, NEW i \in todo'[v]
                 PROVE  /\ i.seen \in {"queued", "retry"}
                        /\ phase'[v] = "cancelled" => session[SessionOf[i.event]] = "cancelled"
                        /\ phase'[v] = "exhausted" => Len(attempts[i.event]) >= Limit[v]
                        /\ phase'[v] \in {"cancelled", "exhausted", "deliver"} \cup InHand
      BY <1>1 DEF SelectionSound
    <2>1. CASE v # w
      <3>1. todo'[v] = todo[v] /\ phase'[v] = phase[v]
        BY <2>1 DEF IInv, SelectCancelled, SelectExhausted, SelectCandidates, EndCycle,
                    Restart, Select
      <3> QED  BY <3>1 DEF IInv, SelectionSound
    <2>2. CASE v = w /\ SelectCancelled(w)
      BY <2>2 DEF IInv, SelectCancelled, Select, CancelledRows
    <2>3. CASE v = w /\ SelectExhausted(w)
      BY <2>3 DEF IInv, SelectExhausted, Select, ExhaustedRows
    <2>4. CASE v = w /\ SelectCandidates(w)
      BY <2>4 DEF IInv, SelectCandidates, Select, CandidateRows, Candidate
    <2>5. CASE v = w /\ (EndCycle(w) \/ Restart(w))
      BY <2>5 DEF IInv, EndCycle, Restart, SelectionSound
    <2> QED  BY <2>1, <2>2, <2>3, <2>4, <2>5
  <1> QED
    BY <1>1, <1>3, <1>4, <1>5, <1>6, RowsUntouched DEF Conjuncts

\* The dead-letter passes, on rows selected earlier, and the refused start.
LEMMA PassKeepsInv ==
    ASSUME IInv, TypeInv', NEW w \in Workers, NEW i \in todo[w],
           DeadLetter(w, i) \/ StartRefused(w, i)
    PROVE  Conjuncts'
  <1> USE DEF IInv, TypeOK, HandTyped, InHand, controlVars, odooVars
  <1>1. CASE StartRefused(w, i)
    <2>1. /\ UNCHANGED <<session, queue, attempts, acked, accepted, job, result, faults, phase>>
          /\ \A v \in Workers : todo'[v] \subseteq todo[v]
      BY <1>1 DEF StartRefused
    <2>2. SelectionSound'
      BY <2>1 DEF SelectionSound
    <2>3. OneSender' /\ AnswerSound' /\ InflightHasOwner'
      BY <2>1 DEF OneSender, AnswerSound, InflightHasOwner
    <2> QED  BY <2>1, <2>2, <2>3, RowsUntouched DEF Conjuncts
  <1>2. CASE DeadLetter(w, i)
    <2>1. /\ UNCHANGED <<session, attempts, acked, accepted, job, result, faults, phase>>
          /\ \A v \in Workers : todo'[v] \subseteq todo[v]
      BY <1>2 DEF DeadLetter
    <2>2. SelectionSound'
      BY <2>1 DEF SelectionSound
    <2>3. CASE queue' = queue
      BY <2>1, <2>2, <2>3, RowsUntouched
      DEF Conjuncts, OneSender, AnswerSound, InflightHasOwner
    <2>4. CASE queue' # queue
      <3>1. /\ i.event \in Events
            /\ queue[i.event] = i.seen
            /\ queue' = [queue EXCEPT ![i.event] = "dead"]
        BY <1>2, <2>4 DEF DeadLetter, Items
      <3>2. queue[i.event] \in {"queued", "retry"}
        BY <3>1 DEF SelectionSound
      <3>3. AttemptLedger'
        BY <2>1, <3>1, <3>2 DEF AttemptLedger, LastOutcome
      <3>4. OneSender' /\ AnswerSound' /\ InflightHasOwner'
        BY <2>1, <3>1, <3>2 DEF OneSender, AnswerSound, InflightHasOwner
      <3>5. SentMeansAccepted' /\ AckedMeansDelivered'
        BY <2>1, <3>1, <3>2 DEF SentMeansAccepted, AckedMeansDelivered, EventsOf
      <3>6. phase[w] \in {"cancelled", "exhausted"}
        BY <1>2 DEF DeadLetter
      <3>7. DeadIsJustified'
        <4>1. \/ session[SessionOf[i.event]] = "cancelled"
              \/ Len(attempts[i.event]) >= Limit[w]
          BY <3>6 DEF SelectionSound
        <4>2. \A e \in Events : queue'[e] = "dead" => queue[e] = "dead" \/ e = i.event
          BY <3>1
        <4> QED  BY <2>1, <4>1, <4>2 DEF DeadIsJustified
      <3>8. AttemptsWithinLimit'
        BY <2>1 DEF AttemptsWithinLimit
      <3> QED  BY <2>2, <3>3, <3>4, <3>5, <3>7, <3>8 DEF Conjuncts
    <2> QED  BY <2>3, <2>4
  <1> QED  BY <1>1, <1>2

\* The steps between the two transactions of an attempt, and the faults.
LEMMA SendingKeepsInv ==
    ASSUME IInv, TypeInv', NEW w \in Workers,
           SendRequest(w) \/ SenderRaises(w) \/ NoVerdict(w) \/ CompleteFails(w) \/ Crash(w)
    PROVE  Conjuncts'
  <1> USE DEF IInv, TypeInv, TypeOK, HandTyped, InHand, Phases, controlVars, odooVars
  <1>1. /\ UNCHANGED <<session, queue, attempts, acked, accepted>>
        /\ \A v \in Workers : todo'[v] \subseteq todo[v]
        /\ \A v \in Workers \ {w} : /\ phase'[v] = phase[v]
                                    /\ job'[v] = job[v]
                                    /\ result'[v] = result[v]
    <2>1. CASE SendRequest(w)
      BY <2>1 DEF SendRequest
    <2>2. CASE SenderRaises(w) \/ NoVerdict(w)
      BY <2>2 DEF SenderRaises, NoVerdict, Answer
    <2>3. CASE CompleteFails(w)
      BY <2>3 DEF CompleteFails, NothingInHand
    <2>4. CASE Crash(w)
      BY <2>4 DEF Crash, NothingInHand
    <2> QED  BY <2>1, <2>2, <2>3, <2>4
  <1>2. \/ /\ phase[w] \in InHand /\ phase'[w] \in InHand
           /\ job' = job /\ faults' = faults
        \/ phase'[w] = "deliver" /\ faults' > 0
        \/ phase'[w] = "down" /\ todo'[w] = {} /\ faults' > 0
    <2>1. CASE SendRequest(w)
      BY <2>1 DEF SendRequest
    <2>2. CASE SenderRaises(w) \/ NoVerdict(w)
      BY <2>2 DEF SenderRaises, NoVerdict, Answer
    <2>3. CASE CompleteFails(w)
      BY <2>3 DEF CompleteFails, NothingInHand
    <2>4. CASE Crash(w)
      BY <2>4 DEF Crash, NothingInHand
    <2> QED  BY <2>1, <2>2, <2>3, <2>4
  <1>3. OneSender'
    <2>1. \A v \in Workers : phase'[v] \in InHand => phase[v] \in InHand /\ job'[v] = job[v]
      BY <1>1, <1>2
    <2> QED  BY <1>1, <2>1 DEF OneSender
  <1>4. InflightHasOwner'
    <2>1. CASE faults' > 0
      BY <2>1 DEF InflightHasOwner
    <2>2. CASE ~(faults' > 0)
      <3>1. /\ job' = job /\ faults' = faults
            /\ \A v \in Workers : phase[v] \in InHand => phase'[v] \in InHand
        BY <1>1, <1>2, <2>2
      <3> QED  BY <1>1, <3>1 DEF InflightHasOwner
    <2> QED  BY <2>1, <2>2
  <1>5. SelectionSound'
    <2>1. \A v \in Workers \ {w} : \A i \in todo'[v] : i \in todo[v]
      BY <1>1
    <2>2. CASE phase'[w] = "down"
      <3>1. todo'[w] = {}
        BY <1>2, <2>2
      <3>2. \A v \in Workers : \A i \in todo'[v] : i \in todo[v] /\ phase'[v] = phase[v]
        BY <1>1, <2>1, <3>1
      <3> QED  BY <1>1, <3>2 DEF SelectionSound
    <2>3. CASE phase'[w] # "down"
      <3>1. phase'[w] \in {"deliver"} \cup InHand
        BY <1>2, <2>3
      <3>2. \A v \in Workers : \A i \in todo'[v] :
              /\ i \in todo[v]
              /\ phase'[v] \in {"cancelled", "exhausted"} => phase'[v] = phase[v]
              /\ phase'[v] \in {"cancelled", "exhausted", "deliver"} \cup InHand
        BY <1>1, <2>1, <3>1 DEF SelectionSound
      <3> QED  BY <1>1, <3>2 DEF SelectionSound
    <2> QED  BY <2>2, <2>3
  <1>6. AnswerSound'
    <2>1. \/ result' = result /\ phase[w] = "started" /\ job' = job
          \/ result'[w] = "retry"
      BY DEF SendRequest, SenderRaises, NoVerdict, CompleteFails, Crash, NothingInHand, Answer
    <2> QED  BY <1>1, <2>1 DEF AnswerSound
  <1> QED  BY <1>1, <1>3, <1>4, <1>5, <1>6, RowsUntouched DEF Conjuncts

\* Odoo processes a request that may be of an attempt long completed.
LEMMA OdooKeepsInv ==
    ASSUME IInv, TypeInv', NEW r \in wire,
           OdooAccepts(r) \/ OdooRejects(r) \/ RequestLost(r)
    PROVE  Conjuncts'
  <1> USE DEF IInv, TypeOK, HandTyped, InHand, controlVars, workerVars
  <1>1. r.worker \in Workers /\ r.event \in Events
    BY DEF Requests
  <1>2. /\ UNCHANGED <<session, queue, attempts, acked, job, todo, faults>>
        /\ accepted \subseteq accepted'
    BY DEF OdooAccepts, OdooRejects, RequestLost
  <1>3. \/ UNCHANGED <<phase, result>>
        \/ /\ Awaited(r)
           /\ phase' = [phase EXCEPT ![r.worker] = "answered"]
           /\ \/ result' = [result EXCEPT ![r.worker] = "sent"] /\ r.event \in accepted'
              \/ result' = [result EXCEPT ![r.worker] = "rejected"]
    BY DEF OdooAccepts, OdooRejects, RequestLost, Answer
  <1>4. \A v \in Workers : \/ phase'[v] = phase[v]
                           \/ phase[v] \in InHand /\ phase'[v] \in InHand
    BY <1>1, <1>3 DEF Awaited
  <1>5. OneSender'
    BY <1>2, <1>4 DEF OneSender
  <1>6. InflightHasOwner'
    BY <1>2, <1>4 DEF InflightHasOwner
  <1>7. SelectionSound'
    BY <1>2, <1>4 DEF SelectionSound
  <1>8. AnswerSound'
    BY <1>1, <1>2, <1>3 DEF AnswerSound, Awaited
  <1>9. AttemptLedger' /\ AttemptsWithinLimit' /\ DeadIsJustified'
    BY <1>2 DEF AttemptLedger, LastOutcome, AttemptsWithinLimit, DeadIsJustified
  <1>10. SentMeansAccepted' /\ AckedMeansDelivered'
    BY <1>2 DEF SentMeansAccepted, AckedMeansDelivered, EventsOf
  <1> QED
    BY <1>5, <1>6, <1>7, <1>8, <1>9, <1>10 DEF Conjuncts

\* start_delivery_attempt: the row is QUEUED or RETRY, so no other worker has
\* it in hand, and its history ends in RETRY or is empty.
LEMMA StartKeepsInv ==
    ASSUME IInv, TypeInv', NEW w \in Workers, NEW i \in todo[w], StartAttempt(w, i)
    PROVE  Conjuncts'
  <1> USE DEF IInv, TypeOK, HandTyped, InHand, controlVars, odooVars
  <1> DEFINE e == i.event
  <1>1. /\ UNCHANGED <<session, acked, accepted, result, faults>>
        /\ \A v \in Workers : todo'[v] \subseteq todo[v]
        /\ phase[w] = "deliver"
        /\ phase' = [phase EXCEPT ![w] = "started"]
        /\ job' = [job EXCEPT ![w] = e]
        /\ queue' = [queue EXCEPT ![e] = "inflight"]
        /\ attempts' = [attempts EXCEPT ![e] = Append(attempts[e], "started")]
        /\ queue[e] \in {"queued", "retry"}
        /\ Len(attempts[e]) + 1 <= Limit[w]
        /\ e \in Events
    BY DEF StartAttempt, NextInBatch, MayStart, Items
  <1> HIDE DEF e
  <1>2. /\ attempts[e] \in Seq(AttemptOutcomes)
        /\ "started" \in AttemptOutcomes
    BY <1>1 DEF AttemptOutcomes
  <1>3. /\ attempts'[e] # <<>>
        /\ Len(attempts[e]) \in Nat
        /\ Len(attempts'[e]) = Len(attempts[e]) + 1
        /\ attempts'[e][Len(attempts'[e])] = "started"
        /\ \A n \in 1 .. Len(attempts[e]) : attempts'[e][n] = attempts[e][n]
    BY <1>1, <1>2, AppendOutcome, LenProperties
  <1>4. \A f \in Events \ {e} : queue'[f] = queue[f] /\ attempts'[f] = attempts[f]
    BY <1>1
  <1>5. AttemptLedger'
    <2>1. \A n \in 1 .. Len(attempts[e]) : attempts[e][n] = "retry"
      <3>1. CASE queue[e] = "queued"
        BY <1>1, <3>1, EmptySeq DEF AttemptLedger
      <3>2. CASE queue[e] = "retry"
        <4>1. attempts[e][Len(attempts[e])] = "retry"
          BY <1>1, <3>2 DEF AttemptLedger, LastOutcome
        <4> QED  BY <1>1, <1>3, <4>1 DEF AttemptLedger
      <3> QED  BY <1>1, <3>1, <3>2
    <2>2. \A n \in 1 .. Len(attempts'[e]) - 1 : attempts'[e][n] = "retry"
      <3>1. Len(attempts'[e]) - 1 = Len(attempts[e])
        BY <1>3
      <3> QED  BY <1>3, <2>1, <3>1
    <2>3. queue'[e] = "inflight"
      BY <1>1
    <2> QED  BY <1>3, <1>4, <2>2, <2>3 DEF AttemptLedger, LastOutcome
  <1>6. OneSender'
    BY <1>1 DEF OneSender
  <1>7. InflightHasOwner'
    <2>1. phase'[w] \in InHand /\ job'[w] = e
      BY <1>1
    <2>2. \A v \in Workers : phase[v] \in InHand =>
             phase'[v] \in InHand /\ job'[v] = job[v]
      BY <1>1
    <2>3. faults' = faults /\ \A f \in Events \ {e} : queue'[f] = queue[f]
      BY <1>1
    <2> HIDE DEF InHand
    <2> QED  BY <2>1, <2>2, <2>3 DEF InflightHasOwner
  <1>8. SelectionSound'
    <2>1. \A f \in Events : Len(attempts'[f]) >= Len(attempts[f]) /\ Len(attempts[f]) \in Nat
      BY <1>3, <1>4, LenProperties
    <2>2. \A f \in Events, v \in Workers : Len(attempts[f]) >= Limit[v] =>
             Len(attempts'[f]) >= Limit[v]
      BY <2>1, DeliveryAssumption, <1>3, <1>4
    <2> QED  BY <1>1, <2>2 DEF SelectionSound, Items
  <1>9. AnswerSound'
    BY <1>1 DEF AnswerSound
  <1>10. SentMeansAccepted' /\ AckedMeansDelivered'
    BY <1>1 DEF SentMeansAccepted, AckedMeansDelivered, EventsOf
  <1>11. DeadIsJustified'
    <2>1. queue'[e] = "inflight"
      BY <1>1
    <2>2. ASSUME NEW f \in Events, queue'[f] = "dead"
          PROVE  \/ session'[SessionOf[f]] = "cancelled"
                 \/ \E v \in Workers : Len(attempts'[f]) >= Limit[v]
      <3>1. f # e
        BY <2>1, <2>2
      <3>2. queue[f] = "dead" /\ attempts'[f] = attempts[f]
        BY <1>4, <2>2, <3>1
      <3>3. \/ session[SessionOf[f]] = "cancelled"
            \/ \E v \in Workers : Len(attempts[f]) >= Limit[v]
        BY <3>2 DEF DeadIsJustified
      <3> QED  BY <1>1, <3>2, <3>3
    <2> QED  BY <2>2 DEF DeadIsJustified
  <1>12. AttemptsWithinLimit'
    <2>1. \A f \in Events \ {e} : attempts'[f] # <<>> =>
             \E v \in Workers : Len(attempts'[f]) <= Limit[v]
      BY <1>4 DEF AttemptsWithinLimit
    <2>2. Len(attempts'[e]) <= Limit[w]
      BY <1>1, <1>3
    <2> QED  BY <2>1, <2>2 DEF AttemptsWithinLimit
  <1> QED
    BY <1>5, <1>6, <1>7, <1>8, <1>9, <1>10, <1>11, <1>12 DEF Conjuncts

\* complete_delivery_attempt: the worker holds the only attempt in progress.
LEMMA CompleteKeepsInv ==
    ASSUME IInv, TypeInv', NEW w \in Workers, CompleteAttempt(w)
    PROVE  Conjuncts'
  <1> USE DEF IInv, TypeOK, HandTyped, InHand, controlVars, odooVars
  <1> DEFINE e == job[w]
             o == result[w]
  <1>1. /\ UNCHANGED <<session, acked, accepted, todo, faults>>
        /\ phase[w] = "answered"
        /\ phase' = [phase EXCEPT ![w] = "deliver"]
        /\ job' = [job EXCEPT ![w] = NoEvent]
        /\ result' = [result EXCEPT ![w] = "retry"]
        /\ queue' = [queue EXCEPT ![e] = o]
        /\ attempts' = [attempts EXCEPT ![e] = [attempts[e] EXCEPT ![Len(attempts[e])] = o]]
        /\ queue[e] = "inflight"
        /\ e \in Events
        /\ o \in {"sent", "retry", "rejected"}
        /\ o = "sent" => e \in accepted
    BY DEF CompleteAttempt, NothingInHand, AnswerSound
  <1> HIDE DEF e, o
  <1>2. /\ attempts[e] \in Seq(AttemptOutcomes)
        /\ attempts[e] # <<>>
        /\ o \in AttemptOutcomes
    BY <1>1 DEF AttemptOutcomes, AttemptLedger
  <1>3. /\ attempts'[e] # <<>>
        /\ Len(attempts'[e]) = Len(attempts[e])
        /\ attempts'[e][Len(attempts'[e])] = o
        /\ \A n \in 1 .. Len(attempts'[e]) - 1 : attempts'[e][n] = attempts[e][n]
    BY <1>1, <1>2, OverwriteLast
  <1>4. \A f \in Events \ {e} : queue'[f] = queue[f] /\ attempts'[f] = attempts[f]
    BY <1>1
  <1>5. queue'[e] = o
    BY <1>1
  <1>6. AttemptLedger'
    <2>1. \A n \in 1 .. Len(attempts'[e]) - 1 : attempts'[e][n] = "retry"
      BY <1>1, <1>3 DEF AttemptLedger
    <2> QED  BY <1>1, <1>3, <1>4, <1>5, <2>1 DEF AttemptLedger, LastOutcome
  <1>7. \A v \in Workers \ {w} : /\ phase'[v] = phase[v]
                                 /\ job'[v] = job[v]
                                 /\ phase[v] \in InHand => job[v] # e
    BY <1>1 DEF OneSender, e
  <1>8. OneSender'
    BY <1>1, <1>4, <1>7 DEF OneSender
  <1>9. InflightHasOwner'
    BY <1>1, <1>4, <1>5, <1>7 DEF InflightHasOwner, e
  <1>10. SelectionSound'
    BY <1>1, <1>3, <1>4 DEF SelectionSound, Items
  <1>11. AnswerSound'
    BY <1>1 DEF AnswerSound
  <1>12. SentMeansAccepted' /\ AckedMeansDelivered'
    BY <1>1, <1>4, <1>5 DEF SentMeansAccepted, AckedMeansDelivered, EventsOf
  <1>13. DeadIsJustified'
    BY <1>1, <1>4, <1>5 DEF DeadIsJustified
  <1>14. AttemptsWithinLimit'
    BY <1>1, <1>2, <1>3, <1>4 DEF AttemptsWithinLimit
  <1> QED
    BY <1>6, <1>8, <1>9, <1>10, <1>11, <1>12, <1>13, <1>14 DEF Conjuncts

\* Every step, whichever process takes it, keeps the inductive invariant.
LEMMA InvStep ==
    ASSUME IInv, [Next]_vars
    PROVE  IInv'
  <1>1. TypeInv'
    BY TypeStep DEF IInv, TypeInv
  <1>2. Conjuncts'
    <2>1. CASE ControlStep \/ \E e \in Events : RetryFallsDue(e)
      BY <1>1, <2>1, ControlKeepsInv
    <2>2. ASSUME NEW w \in Workers, WorkerStep(w) \/ Fault(w) PROVE Conjuncts'
      BY <1>1, <2>2, SelectKeepsInv, PassKeepsInv, SendingKeepsInv, StartKeepsInv,
         CompleteKeepsInv
      DEF WorkerStep, Fault
    <2>3. CASE OdooStep
      BY <1>1, <2>3, OdooKeepsInv DEF OdooStep
    <2>4. CASE UNCHANGED vars
      BY <2>4 DEF vars, IInv, Conjuncts, AttemptLedger, OneSender, SelectionSound,
         AnswerSound, InflightHasOwner, SentMeansAccepted, AckedMeansDelivered,
         DeadIsJustified, AttemptsWithinLimit, LastOutcome, EventsOf
    <2> QED  BY <2>1, <2>2, <2>3, <2>4 DEF Next
  <1> QED  BY <1>1, <1>2 DEF IInv, Conjuncts, TypeInv

\* The inductive invariant holds in every reachable state.
THEOREM Invariance == Spec => []IInv
  <1> QED  BY InvInit, InvStep, PTL DEF Spec

\* The attempt rows always agree with the queue state, and only their last may
\* be unfinished (start_delivery_attempt, complete_delivery_attempt).
THEOREM LedgerCorrect == Spec => []AttemptLedger
  <1>1. IInv => AttemptLedger
    BY DEF IInv
  <1> QED  BY <1>1, Invariance, PTL

\* However many workers select the same rows, one at most sends an event.
THEOREM SingleSender == Spec => []OneSender
  <1>1. IInv => OneSender
    BY DEF IInv
  <1> QED  BY <1>1, Invariance, PTL

\* SENT is never recorded for an event Odoo has not stored.
THEOREM SentCorrect == Spec => []SentMeansAccepted
  <1>1. IInv => SentMeansAccepted
    BY DEF IInv
  <1> QED  BY <1>1, Invariance, PTL

\* A STOP success ACK means the whole session is in Odoo, for good.
THEOREM AckCorrect == Spec => []AckedMeansDelivered
  <1>1. IInv => AckedMeansDelivered
    BY DEF IInv
  <1> QED  BY <1>1, Invariance, PTL

\* The dead-letter passes never give up an event without cause.
THEOREM DeadLetterCorrect == Spec => []DeadIsJustified
  <1>1. IInv => DeadIsJustified
    BY DEF IInv
  <1> QED  BY <1>1, Invariance, PTL

\* Retries are bounded by the configured limit.
THEOREM RetriesBounded == Spec => []AttemptsWithinLimit
  <1>1. IInv => AttemptsWithinLimit
    BY DEF IInv
  <1> QED  BY <1>1, Invariance, PTL

-----------------------------------------------------------------------------
(* Action property and refinement.                                         *)

\* The transition table leaves exactly these states without a successor.
LEMMA TerminalIs == TerminalStates = {"sent", "rejected", "dead"}
  BY DEF TerminalStates, AllowedTransitions, QueueStates

\* No step moves a settled event: every write is guarded by the state read
\* under the row lock.
LEMMA TerminalStep ==
    ASSUME IInv, [Next]_vars, NEW e \in Events, queue[e] \in TerminalStates
    PROVE  queue'[e] = queue[e] /\ attempts'[e] = attempts[e]
  <1> USE TerminalIs DEF IInv, TypeOK, HandTyped, InHand, controlVars, odooVars, workerVars
  <1>1. CASE ControlStep \/ \E f \in Events : RetryFallsDue(f)
    <2>1. ASSUME NEW s \in Sessions, NEW E \in SUBSET EventsOf(s), Ingest(s, E)
          PROVE  queue'[e] = queue[e] /\ attempts'[e] = attempts[e]
      BY <2>1 DEF Ingest
    <2>2. ASSUME NEW s \in Sessions,
                 \/ OpenSession(s) \/ StopAck(s)
                 \/ EndSession(s, "closed") \/ EndSession(s, "cancelled")
          PROVE  UNCHANGED <<queue, attempts>>
      BY <2>2 DEF OpenSession, EndSession, StopAck
    <2>3. ASSUME NEW f \in Events, RetryFallsDue(f)
          PROVE  UNCHANGED <<queue, attempts>>
      BY <2>3 DEF RetryFallsDue
    <2>4. \/ UNCHANGED <<queue, attempts>>
          \/ \E s \in Sessions : \E E \in SUBSET EventsOf(s) : Ingest(s, E)
      BY ONLY <1>1, <2>2, <2>3 DEF ControlStep
    <2>5. UNCHANGED <<queue, attempts>> => queue'[e] = queue[e] /\ attempts'[e] = attempts[e]
      OBVIOUS
    <2> HIDE DEF IInv, TypeOK
    <2> QED  BY <2>1, <2>4, <2>5
  <1>2. ASSUME NEW w \in Workers, NEW i \in todo[w], DeadLetter(w, i)
        PROVE  queue'[e] = queue[e] /\ attempts'[e] = attempts[e]
    <2>1. i.seen \in {"queued", "retry"} /\ attempts' = attempts
      BY <1>2 DEF DeadLetter, SelectionSound
    <2>2. CASE e = i.event
      BY <1>2, <2>1, <2>2 DEF DeadLetter
    <2>3. CASE e # i.event
      BY <1>2, <2>1, <2>3 DEF DeadLetter
    <2> QED  BY <2>2, <2>3
  <1>3. ASSUME NEW w \in Workers, NEW i \in todo[w], StartAttempt(w, i)
        PROVE  queue'[e] = queue[e] /\ attempts'[e] = attempts[e]
    BY <1>3 DEF StartAttempt, MayStart, Items
  <1>4. ASSUME NEW w \in Workers, CompleteAttempt(w)
        PROVE  queue'[e] = queue[e] /\ attempts'[e] = attempts[e]
    BY <1>4 DEF CompleteAttempt
  <1>5. CASE UNCHANGED <<queue, attempts>>
    BY <1>5
  <1>6. ASSUME NEW w \in Workers, WorkerStep(w) \/ Fault(w)
        PROVE  \/ UNCHANGED <<queue, attempts>>
               \/ \E i \in todo[w] : DeadLetter(w, i) \/ StartAttempt(w, i)
               \/ CompleteAttempt(w)
    BY <1>6 DEF WorkerStep, Fault, SelectCancelled, SelectExhausted, SelectCandidates,
       StartRefused, SendRequest, SenderRaises, NoVerdict, EndCycle, Restart,
       CompleteFails, Crash
  <1>7. OdooStep \/ UNCHANGED vars => UNCHANGED <<queue, attempts>>
    BY DEF OdooStep, OdooAccepts, OdooRejects, RequestLost, vars
  <1> QED  BY <1>1, <1>2, <1>3, <1>4, <1>5, <1>6, <1>7 DEF Next

\* A settled event is never touched again, even by a worker that selected it
\* before it was settled.
THEOREM TerminalForever == Spec => TerminalIsFinal
  <1>1. IInv /\ [Next]_vars =>
          [\A e \in Events : queue[e] \in TerminalStates =>
               queue'[e] = queue[e] /\ attempts'[e] = attempts[e]]_vars
    BY TerminalStep
  <1> QED  BY <1>1, Invariance, PTL DEF Spec, TerminalIsFinal

\* The transactions that write queue states and attempts.
LEMMA WritingSteps ==
    ASSUME [Next]_vars
    PROVE  \/ UNCHANGED <<queue, attempts>>
           \/ \E s \in Sessions : \E E \in SUBSET EventsOf(s) : Ingest(s, E)
           \/ \E w \in Workers : \/ CompleteAttempt(w)
                                 \/ \E i \in todo[w] : DeadLetter(w, i) \/ StartAttempt(w, i)
  BY DEF Next, ControlStep, OpenSession, EndSession, StopAck, RetryFallsDue, WorkerStep,
     Fault, SelectCancelled, SelectExhausted, SelectCandidates, StartRefused, SendRequest,
     SenderRaises, NoVerdict, EndCycle, Restart, CompleteFails, Crash, OdooStep,
     OdooAccepts, OdooRejects, RequestLost, vars, controlVars, workerVars, odooVars

\* A row enters the queue as QUEUED, and is moved along the transitions of the
\* policy only, although workers decide on states they read in an earlier
\* transaction (transition_event_queue_state, start_ and complete_delivery_attempt).
TransitionsLegal ==
    [][\A e \in Events : queue'[e] # queue[e] =>
           IF queue[e] = "absent" THEN queue'[e] = "queued"
           ELSE ValidTransition(queue[e], queue'[e])]_vars

\* Every change of a queue state is legal, for any number of workers.
THEOREM TransitionsFollowPolicy == Spec => TransitionsLegal
  <1>1. ASSUME IInv, [Next]_vars, NEW e \in Events, queue'[e] # queue[e]
        PROVE  IF queue[e] = "absent" THEN queue'[e] = "queued"
               ELSE ValidTransition(queue[e], queue'[e])
    <2> DEFINE Legal == IF queue[e] = "absent" THEN queue'[e] = "queued"
                        ELSE ValidTransition(queue[e], queue'[e])
    <2>1. TypeOK
      BY <1>1 DEF IInv
    <2>2. ASSUME NEW s \in Sessions, NEW E \in SUBSET EventsOf(s), Ingest(s, E) PROVE Legal
      BY <1>1, <2>2 DEF Ingest
    <2>3. ASSUME NEW w \in Workers, CompleteAttempt(w) PROVE Legal
      BY <1>1, <2>1, <2>3 DEF CompleteAttempt, TypeOK
    <2>4. ASSUME NEW w \in Workers, NEW i \in todo[w], DeadLetter(w, i) PROVE Legal
      <3>1. i.seen \in {"queued", "retry"}
        BY <1>1, <2>4 DEF IInv, SelectionSound
      <3> QED  BY <1>1, <2>1, <2>4, <3>1 DEF DeadLetter, TypeOK
    <2>5. ASSUME NEW w \in Workers, NEW i \in todo[w], StartAttempt(w, i) PROVE Legal
      BY <1>1, <2>1, <2>5 DEF StartAttempt, MayStart, TypeOK
    <2> HIDE DEF Legal
    <2>6. Legal
      BY <1>1, <2>2, <2>3, <2>4, <2>5, WritingSteps
    <2> QED  BY <2>6 DEF Legal
  <1>2. IInv /\ [Next]_vars =>
            [\A e \in Events : queue'[e] # queue[e] =>
                 IF queue[e] = "absent" THEN queue'[e] = "queued"
                 ELSE ValidTransition(queue[e], queue'[e])]_vars
    BY <1>1
  <1> QED  BY <1>2, Invariance, PTL DEF Spec, TransitionsLegal

\* A completed attempt stays on record as it was completed: later attempts are
\* added behind it, and a completion writes the one STARTED attempt only, however
\* long the worker that started it took.
HistoryKept ==
    [][\A e \in Events : \A n \in 1 .. Len(attempts[e]) : attempts[e][n] # "started" =>
           n <= Len(attempts'[e]) /\ attempts'[e][n] = attempts[e][n]]_vars

\* The delivery attempts of an event are an audit trail, for any number of workers.
THEOREM HistoryImmutable == Spec => HistoryKept
  <1>1. ASSUME IInv, [Next]_vars, NEW e \in Events, NEW n \in 1 .. Len(attempts[e]),
               attempts[e][n] # "started"
        PROVE  n <= Len(attempts'[e]) /\ attempts'[e][n] = attempts[e][n]
    <2> DEFINE Kept == n <= Len(attempts'[e]) /\ attempts'[e][n] = attempts[e][n]
    <2>1. /\ attempts \in [Events -> Seq(AttemptOutcomes)]
          /\ attempts[e] \in Seq(AttemptOutcomes)
          /\ Len(attempts[e]) \in Nat
      BY <1>1, LenProperties DEF IInv, TypeOK
    <2>2. CASE attempts'[e] = attempts[e]
      BY <2>1, <2>2
    <2>3. ASSUME NEW w \in Workers, CompleteAttempt(w), attempts'[e] # attempts[e] PROVE Kept
      <3>1. /\ LastOutcome(e) = "started"
            /\ result[w] \in AttemptOutcomes
            /\ attempts'[e] = [attempts[e] EXCEPT ![Len(attempts[e])] = result[w]]
        BY <1>1, <2>1, <2>3 DEF CompleteAttempt, IInv, AnswerSound, AttemptOutcomes
      <3>2. n # Len(attempts[e])
        BY <1>1, <3>1 DEF LastOutcome
      <3>3. Len(attempts'[e]) = Len(attempts[e])
        BY <2>1, <3>1, OutcomeSeqs
      <3> QED  BY <2>1, <3>1, <3>2, <3>3
    <2>4. ASSUME NEW w \in Workers, NEW i \in todo[w], StartAttempt(w, i),
                 attempts'[e] # attempts[e]
          PROVE  Kept
      <3>1. attempts'[e] = Append(attempts[e], "started")
        BY <1>1, <2>1, <2>4 DEF StartAttempt
      <3> QED  BY <2>1, <3>1, AppendOutcome DEF AttemptOutcomes
    <2>5. ASSUME NEW w \in Workers, NEW i \in todo[w], DeadLetter(w, i) PROVE attempts' = attempts
      BY <2>5 DEF DeadLetter
    <2>6. ASSUME NEW s \in Sessions, NEW E \in SUBSET EventsOf(s), Ingest(s, E)
          PROVE  attempts' = attempts
      BY <2>6 DEF Ingest
    <2> HIDE DEF Kept
    <2>7. Kept
      BY <1>1, <2>2, <2>3, <2>4, <2>5, <2>6, WritingSteps DEF Kept
    <2> QED  BY <2>7 DEF Kept
  <1>2. IInv /\ [Next]_vars =>
            [\A e \in Events : \A n \in 1 .. Len(attempts[e]) : attempts[e][n] # "started" =>
                 n <= Len(attempts'[e]) /\ attempts'[e][n] = attempts[e][n]]_vars
    BY <1>1
  <1> QED  BY <1>2, Invariance, PTL DEF Spec, HistoryKept

-----------------------------------------------------------------------------
(* One worker per reader, as the systemd units run it.  What a worker      *)
(* found at the start of its cycle then still holds when it acts on it;    *)
(* with two of them the other may complete an attempt in between, and both *)
(* action properties fail.                                                 *)

OneWorker == \A v, w \in Workers : v = w

\* Of the sessions a worker found cancelled, no event is left that could be sent
\* once the rows it selected in that pass are handled.
SweptHandled(w) ==
    /\ \A s \in swept[w] : session[s] = "cancelled"
    /\ \A e \in Events : SessionOf[e] \in swept[w] /\ queue[e] \in {"queued", "retry"} =>
           /\ phase[w] \notin {"exhausted", "deliver"} \cup InHand
           /\ phase[w] = "cancelled" => [event |-> e, seen |-> queue[e]] \in todo[w]
    /\ phase[w] \in InHand => SessionOf[job[w]] \notin swept[w]

\* A batch holds an event once, and one waiting for a retry is due: the events
\* whose attempts are completed meanwhile are no longer in it.
BatchDue(w) ==
    phase[w] \in {"deliver"} \cup InHand =>
        /\ \A i, k \in todo[w] : i.event = k.event => i = k
        /\ \A i \in todo[w] : /\ phase[w] \in InHand => i.event # job[w]
                              /\ i.seen = "retry" /\ queue[i.event] = "retry" => due[i.event]

CycleInv == IInv /\ \A w \in Workers : SweptHandled(w) /\ BatchDue(w)

\* The control process and the clock.
LEMMA ControlKeepsCycle ==
    ASSUME CycleInv, NEW w \in Workers, ControlStep \/ \E e \in Events : RetryFallsDue(e)
    PROVE  SweptHandled(w)' /\ BatchDue(w)'
  <1> USE DEF controlVars, workerVars, odooVars
  <1>1. TypeOK /\ SweptHandled(w) /\ BatchDue(w)
    BY DEF CycleInv, IInv
  <1>2. ASSUME NEW s \in Sessions,
               OpenSession(s) \/ EndSession(s, "closed") \/ EndSession(s, "cancelled") \/ StopAck(s)
        PROVE  SweptHandled(w)' /\ BatchDue(w)'
    <2>1. UNCHANGED <<queue, due, phase, todo, job, swept>>
      BY <1>2 DEF OpenSession, EndSession, StopAck
    <2>2. ASSUME NEW t \in swept[w] PROVE session'[t] = "cancelled"
      <3>1. session[t] = "cancelled" /\ t \in Sessions
        BY <1>1 DEF SweptHandled, TypeOK
      <3> QED  BY <1>1, <1>2, <3>1 DEF OpenSession, EndSession, StopAck, TypeOK
    <2> QED  BY <1>1, <2>1, <2>2 DEF SweptHandled, BatchDue
  <1>3. ASSUME NEW s \in Sessions, NEW E \in SUBSET EventsOf(s), Ingest(s, E)
        PROVE  SweptHandled(w)' /\ BatchDue(w)'
    <2>1. UNCHANGED <<session, due, phase, todo, job, swept>>
      BY <1>3 DEF Ingest
    <2>2. s \notin swept[w]
      BY <1>1, <1>3 DEF SweptHandled, Ingest
    <2>3. \A e \in Events : SessionOf[e] \in swept[w] => queue'[e] = queue[e]
      BY <1>3, <2>2 DEF Ingest, EventsOf
    <2>4. \A e \in Events : queue'[e] = "retry" => queue[e] = "retry"
      BY <1>3 DEF Ingest
    <2>5. SweptHandled(w)'
      BY <1>1, <2>1, <2>3 DEF SweptHandled
    <2>6. BatchDue(w)'
      BY <1>1, <2>1, <2>4 DEF BatchDue, TypeOK, Items
    <2> QED  BY <2>5, <2>6
  <1>4. ASSUME NEW e \in Events, RetryFallsDue(e)
        PROVE  SweptHandled(w)' /\ BatchDue(w)'
    <2>1. /\ UNCHANGED <<session, queue, phase, todo, job, swept>>
          /\ \A f \in Events : due[f] => due'[f]
      BY <1>1, <1>4 DEF RetryFallsDue, TypeOK
    <2> QED  BY <1>1, <2>1 DEF SweptHandled, BatchDue, TypeOK, Items
  <1> QED  BY <1>2, <1>3, <1>4 DEF ControlStep

\* The selections that begin the three passes of a cycle, and its end.
LEMMA SelectKeepsCycle ==
    ASSUME CycleInv, NEW w \in Workers,
           \/ SelectCancelled(w) \/ SelectExhausted(w) \/ SelectCandidates(w)
           \/ EndCycle(w) \/ Restart(w)
    PROVE  SweptHandled(w)' /\ BatchDue(w)'
  <1> USE DEF InHand, controlVars, odooVars
  <1>1. TypeOK /\ SweptHandled(w) /\ BatchDue(w)
    BY DEF CycleInv, IInv
  <1>2. UNCHANGED <<session, queue, due, job>>
    BY DEF SelectCancelled, SelectExhausted, SelectCandidates, EndCycle, Restart
  <1>3. CASE SelectCancelled(w)
    <2>1. /\ phase'[w] = "cancelled" /\ todo'[w] = CancelledRows
          /\ swept'[w] = {s \in Sessions : session[s] = "cancelled"}
      BY <1>1, <1>3 DEF SelectCancelled, Select, TypeOK
    <2>2. ASSUME NEW e \in Events, SessionOf[e] \in swept'[w], queue[e] \in {"queued", "retry"}
          PROVE  [event |-> e, seen |-> queue[e]] \in CancelledRows
      <3> DEFINE i == [event |-> e, seen |-> queue[e]]
      <3>1. i \in Items /\ i.event = e /\ i.seen = queue[e]
        BY <2>2 DEF Items, QueueStates
      <3> HIDE DEF i
      <3> QED  BY <2>1, <2>2, <3>1 DEF CancelledRows, i
    <2>3. SweptHandled(w)'
      BY <1>2, <2>1, <2>2 DEF SweptHandled
    <2>4. BatchDue(w)'
      BY <2>1 DEF BatchDue
    <2> QED  BY <2>3, <2>4
  <1>4. CASE SelectExhausted(w)
    <2>1. /\ phase[w] = "cancelled" /\ todo[w] = {}
          /\ phase'[w] = "exhausted" /\ swept' = swept
      BY <1>1, <1>4 DEF SelectExhausted, Select, TypeOK
    <2>2. SweptHandled(w)'
      BY <1>1, <1>2, <2>1 DEF SweptHandled
    <2>3. BatchDue(w)'
      BY <2>1 DEF BatchDue
    <2> QED  BY <2>2, <2>3
  <1>5. CASE SelectCandidates(w)
    <2>1. /\ phase[w] = "exhausted" /\ swept' = swept
          /\ phase'[w] = "deliver" /\ todo'[w] = CandidateRows
      BY <1>1, <1>5 DEF SelectCandidates, Select, TypeOK
    <2>2. SweptHandled(w)'
      BY <1>1, <1>2, <2>1 DEF SweptHandled
    <2>3. \A i, k \in CandidateRows : i.event = k.event => i = k
      BY DEF CandidateRows, Items
    <2>4. \A i \in CandidateRows : queue[i.event] = "retry" => due[i.event]
      BY DEF CandidateRows, Candidate
    <2>5. BatchDue(w)'
      BY <1>2, <2>1, <2>3, <2>4 DEF BatchDue
    <2> QED  BY <2>2, <2>5
  <1>6. CASE EndCycle(w) \/ Restart(w)
    <2>1. phase'[w] = "idle" /\ swept'[w] \subseteq swept[w]
      BY <1>1, <1>6 DEF EndCycle, Restart, TypeOK
    <2> QED  BY <1>1, <1>2, <2>1 DEF SweptHandled, BatchDue
  <1> QED  BY <1>3, <1>4, <1>5, <1>6

\* The rows handled one after the other.
LEMMA RowKeepsCycle ==
    ASSUME CycleInv, NEW w \in Workers, NEW i \in todo[w],
           DeadLetter(w, i) \/ StartAttempt(w, i) \/ StartRefused(w, i)
    PROVE  SweptHandled(w)' /\ BatchDue(w)'
  <1> USE DEF InHand, controlVars, odooVars
  <1>1. /\ TypeOK /\ SweptHandled(w) /\ BatchDue(w)
        /\ i.event \in Events /\ i.seen \in {"queued", "retry"}
    BY DEF CycleInv, IInv, TypeOK, Items, SelectionSound
  <1>2. /\ UNCHANGED <<session, due, swept>>
        /\ todo'[w] = todo[w] \ {i}
    BY <1>1 DEF DeadLetter, StartAttempt, StartRefused, TypeOK
  <1>3. CASE StartRefused(w, i)
    <2>1. UNCHANGED <<queue, phase, job>> /\ phase[w] = "deliver"
      BY <1>3 DEF StartRefused, NextInBatch
    <2> QED  BY <1>1, <1>2, <2>1 DEF SweptHandled, BatchDue
  <1>4. CASE DeadLetter(w, i)
    <2>1. /\ UNCHANGED <<phase, job>>
          /\ phase[w] \in {"cancelled", "exhausted"}
          /\ \A e \in Events : queue'[e] = queue[e] \/ queue'[e] = "dead"
          /\ queue[i.event] = i.seen => queue'[i.event] = "dead"
      BY <1>1, <1>4 DEF DeadLetter, TypeOK, ValidTransition, AllowedTransitions, QueueStates
    <2>2. ASSUME NEW e \in Events, SessionOf[e] \in swept[w], queue'[e] \in {"queued", "retry"}
          PROVE  /\ phase[w] # "exhausted"
                 /\ phase[w] = "cancelled" => [event |-> e, seen |-> queue'[e]] \in todo'[w]
      <3>1. queue'[e] = queue[e]
        BY <2>1, <2>2
      <3>2. i # [event |-> e, seen |-> queue[e]]
        BY <2>1, <2>2, <3>1
      <3> QED  BY <1>1, <1>2, <2>2, <3>1, <3>2 DEF SweptHandled
    <2>3. SweptHandled(w)'
      BY <1>1, <1>2, <2>1, <2>2 DEF SweptHandled
    <2>4. BatchDue(w)'
      BY <2>1 DEF BatchDue
    <2> QED  BY <2>3, <2>4
  <1>5. CASE StartAttempt(w, i)
    <2>1. /\ phase[w] = "deliver" /\ phase'[w] = "started"
          /\ job'[w] = i.event
          /\ queue[i.event] \in {"queued", "retry"}
          /\ queue' = [queue EXCEPT ![i.event] = "inflight"]
      BY <1>1, <1>5 DEF StartAttempt, NextInBatch, MayStart, TypeOK
    <2>2. SessionOf[i.event] \notin swept[w]
      BY <1>1, <2>1 DEF SweptHandled
    <2>3. SweptHandled(w)'
      BY <1>1, <1>2, <2>1, <2>2 DEF SweptHandled, TypeOK
    <2>4. \A k \in todo'[w] : k.event # i.event /\ k \in todo[w]
      BY <1>1, <1>2, <2>1 DEF BatchDue
    <2>5. BatchDue(w)'
      BY <1>1, <1>2, <2>1, <2>4 DEF BatchDue, TypeOK, Items
    <2> QED  BY <2>3, <2>5
  <1> QED  BY <1>3, <1>4, <1>5

\* The rest of an attempt, and the faults.
LEMMA AttemptKeepsCycle ==
    ASSUME CycleInv, NEW w \in Workers,
           \/ SendRequest(w) \/ SenderRaises(w) \/ NoVerdict(w)
           \/ CompleteAttempt(w) \/ CompleteFails(w) \/ Crash(w)
    PROVE  SweptHandled(w)' /\ BatchDue(w)'
  <1> USE DEF InHand, controlVars, odooVars
  <1>1. TypeOK /\ SweptHandled(w) /\ BatchDue(w)
    BY DEF CycleInv, IInv
  <1>2. CASE SendRequest(w) \/ SenderRaises(w) \/ NoVerdict(w)
    <2>1. /\ UNCHANGED <<session, queue, due, todo, job, swept>>
          /\ phase[w] \in InHand /\ phase'[w] \in InHand
      BY <1>1, <1>2 DEF SendRequest, SenderRaises, NoVerdict, Answer, TypeOK
    <2> QED  BY <1>1, <2>1 DEF SweptHandled, BatchDue
  <1>3. CASE CompleteFails(w)
    <2>1. /\ UNCHANGED <<session, queue, due, todo, swept>>
          /\ phase[w] \in InHand /\ phase'[w] = "deliver"
      BY <1>1, <1>3 DEF CompleteFails, NothingInHand, TypeOK
    <2> QED  BY <1>1, <2>1 DEF SweptHandled, BatchDue
  <1>4. CASE Crash(w)
    <2>1. /\ UNCHANGED <<session, queue, due>>
          /\ phase'[w] = "down" /\ swept'[w] = {}
      BY <1>1, <1>4 DEF Crash, NothingInHand, TypeOK
    <2> QED  BY <2>1 DEF SweptHandled, BatchDue
  <1>5. CASE CompleteAttempt(w)
    <2>1. /\ UNCHANGED <<session, todo, swept>>
          /\ phase[w] = "answered" /\ phase'[w] = "deliver"
          /\ queue' = [queue EXCEPT ![job[w]] = result[w]]
          /\ due' = [due EXCEPT ![job[w]] = FALSE]
      BY <1>1, <1>5 DEF CompleteAttempt, NothingInHand, TypeOK
    <2>2. SessionOf[job[w]] \notin swept[w] /\ \A i \in todo[w] : i.event # job[w]
      BY <1>1, <2>1 DEF SweptHandled, BatchDue
    <2>3. SweptHandled(w)'
      BY <1>1, <2>1, <2>2 DEF SweptHandled, TypeOK
    <2>4. BatchDue(w)'
      BY <1>1, <2>1, <2>2 DEF BatchDue, TypeOK, Items
    <2> QED  BY <2>3, <2>4
  <1> QED  BY <1>2, <1>3, <1>4, <1>5

\* With one worker, every step keeps what it knows in its cycle.
LEMMA CycleStep ==
    ASSUME OneWorker, CycleInv, [Next]_vars
    PROVE  CycleInv'
  <1>1. IInv'
    BY InvStep DEF CycleInv
  <1>2. ASSUME NEW w \in Workers PROVE SweptHandled(w)' /\ BatchDue(w)'
    <2>1. CASE ControlStep \/ \E e \in Events : RetryFallsDue(e)
      BY <2>1, ControlKeepsCycle
    <2>2. ASSUME NEW v \in Workers, WorkerStep(v) \/ Fault(v)
          PROVE  SweptHandled(w)' /\ BatchDue(w)'
      <3>1. v = w
        BY DEF OneWorker
      <3>2. CASE \/ SelectCancelled(w) \/ SelectExhausted(w) \/ SelectCandidates(w)
                 \/ EndCycle(w) \/ Restart(w)
        BY <3>2, SelectKeepsCycle
      <3>3. ASSUME NEW i \in todo[w], DeadLetter(w, i) \/ StartAttempt(w, i) \/ StartRefused(w, i)
            PROVE  SweptHandled(w)' /\ BatchDue(w)'
        BY <3>3, RowKeepsCycle
      <3>4. CASE \/ SendRequest(w) \/ SenderRaises(w) \/ NoVerdict(w)
                 \/ CompleteAttempt(w) \/ CompleteFails(w) \/ Crash(w)
        BY <3>4, AttemptKeepsCycle
      <3>5. WorkerStep(w) \/ Fault(w)
        BY <2>2, <3>1
      <3> QED  BY <3>2, <3>3, <3>4, <3>5 DEF WorkerStep, Fault
    <2>3. ASSUME NEW r \in wire, OdooAccepts(r) \/ OdooRejects(r) \/ RequestLost(r)
          PROVE  SweptHandled(w)' /\ BatchDue(w)'
      <3>1. UNCHANGED <<session, queue, due, todo, job, swept>>
        BY <2>3 DEF OdooAccepts, OdooRejects, RequestLost, controlVars, workerVars
      <3>2. \/ phase'[w] = phase[w]
            \/ phase[w] = "waiting" /\ phase'[w] = "answered"
        <4>1. phase \in [Workers -> Phases]
          BY DEF CycleInv, IInv, TypeOK
        <4>2. \/ phase' = phase
              \/ /\ phase[r.worker] = "waiting"
                 /\ phase' = [phase EXCEPT ![r.worker] = "answered"]
          BY <2>3 DEF OdooAccepts, OdooRejects, RequestLost, Awaited, Answer, workerVars
        <4>3. CASE r.worker = w
          BY <4>1, <4>2, <4>3
        <4>4. CASE r.worker # w
          BY <4>1, <4>2, <4>4
        <4> QED  BY <4>3, <4>4
      <3> QED  BY <3>1, <3>2 DEF CycleInv, SweptHandled, BatchDue, InHand
    <2>4. CASE UNCHANGED vars
      BY <2>4 DEF vars, CycleInv, SweptHandled, BatchDue
    <2> QED  BY <2>1, <2>2, <2>3, <2>4 DEF Next, OdooStep
  <1> QED  BY <1>1, <1>2 DEF CycleInv

\* With one worker, CycleInv holds in every reachable state.
THEOREM CycleInvariance == ASSUME OneWorker PROVE Spec => []CycleInv
  <1>1. Init => CycleInv
    BY InvInit DEF Init, CycleInv, SweptHandled, BatchDue, InHand
  <1>2. CycleInv /\ [Next]_vars => CycleInv'
    BY CycleStep
  <1> QED  BY <1>1, <1>2, PTL DEF Spec

\* A step that puts an event INFLIGHT is the start of an attempt on it.
LEMMA InflightByStart ==
    ASSUME IInv, [Next]_vars, NEW e \in Events, queue[e] # "inflight", queue'[e] = "inflight"
    PROVE  \E w \in Workers : \E i \in todo[w] : StartAttempt(w, i) /\ i.event = e
  <1> USE DEF IInv, TypeOK
  <1>1. ASSUME NEW s \in Sessions, NEW E \in SUBSET EventsOf(s), Ingest(s, E) PROVE FALSE
    BY <1>1 DEF Ingest
  <1>2. ASSUME NEW w \in Workers, NEW i \in todo[w], DeadLetter(w, i) PROVE FALSE
    BY <1>2 DEF DeadLetter
  <1>3. ASSUME NEW w \in Workers, NEW i \in todo[w], StartAttempt(w, i) PROVE i.event = e
    BY <1>3 DEF StartAttempt
  <1>4. ASSUME NEW w \in Workers, CompleteAttempt(w) PROVE FALSE
    BY <1>4 DEF CompleteAttempt, AnswerSound
  <1> HIDE DEF IInv, TypeOK
  <1> QED  BY <1>1, <1>2, <1>3, <1>4, WritingSteps

\* One worker never starts an attempt before next_retry_at of the one before,
\* although it looked at the clock when it selected the batch.
THEOREM RetriesWait == ASSUME OneWorker PROVE Spec => RetryNotEarly
  <1>1. ASSUME CycleInv, [Next]_vars, NEW e \in Events, queue[e] = "retry", queue'[e] = "inflight"
        PROVE  due[e]
    <2>1. PICK w \in Workers : \E i \in todo[w] : StartAttempt(w, i) /\ i.event = e
      BY <1>1, InflightByStart DEF CycleInv
    <2>2. PICK i \in todo[w] : StartAttempt(w, i) /\ i.event = e
      BY <2>1
    <2>3. phase[w] = "deliver" /\ i.seen = "retry"
      BY <1>1, <2>2 DEF StartAttempt, NextInBatch, MayStart
    <2> QED  BY <1>1, <2>2, <2>3 DEF CycleInv, BatchDue
  <1>2. CycleInv /\ [Next]_vars =>
            [\A e \in Events : queue[e] = "retry" /\ queue'[e] = "inflight" => due[e]]_vars
    BY <1>1
  <1> QED  BY <1>2, CycleInvariance, PTL DEF Spec, RetryNotEarly

\* One worker sends no event of a session it found cancelled in the same cycle,
\* whatever is ingested, closed or cancelled while the cycle runs.
THEOREM CancelledStayUnsent == ASSUME OneWorker PROVE Spec => CancelledNotSent
  <1>1. ASSUME CycleInv, [Next]_vars, NEW w \in Workers, job'[w] # job[w], job'[w] # NoEvent
        PROVE  SessionOf[job'[w]] \notin swept[w]
    <2> USE DEF CycleInv, IInv, TypeOK
    <2>1. PICK v \in Workers : \E i \in todo[v] : StartAttempt(v, i)
      <3>1. ASSUME NEW v \in Workers, CompleteAttempt(v) \/ CompleteFails(v) \/ Crash(v)
            PROVE  FALSE
        BY <1>1, <3>1 DEF CompleteAttempt, CompleteFails, Crash, NothingInHand
      <3>2. \/ UNCHANGED job
            \/ \E v \in Workers : \/ CompleteAttempt(v) \/ CompleteFails(v) \/ Crash(v)
                                  \/ \E i \in todo[v] : StartAttempt(v, i)
        BY <1>1 DEF Next, ControlStep, OpenSession, EndSession, Ingest, StopAck, RetryFallsDue,
           WorkerStep, Fault, SelectCancelled, SelectExhausted, SelectCandidates, DeadLetter,
           StartRefused, SendRequest, SenderRaises, NoVerdict, EndCycle, Restart, OdooStep,
           OdooAccepts, OdooRejects, RequestLost, vars, controlVars, workerVars, odooVars
      <3> HIDE DEF CycleInv, IInv, TypeOK
      <3> QED  BY <1>1, <3>1, <3>2
    <2>2. PICK i \in todo[v] : StartAttempt(v, i)
      BY <2>1
    <2>3. v = w /\ job'[w] = i.event
      BY <1>1, <2>2 DEF StartAttempt
    <2>4. i.event \in Events
      <3>1. todo[v] \in SUBSET Items
        BY <1>1
      <3> HIDE DEF CycleInv, IInv, TypeOK
      <3> QED  BY <3>1 DEF Items
    <2>5. phase[w] = "deliver" /\ queue[i.event] \in {"queued", "retry"}
      BY <2>2, <2>3 DEF StartAttempt, NextInBatch, MayStart
    <2> QED  BY <1>1, <2>3, <2>4, <2>5 DEF SweptHandled
  <1>2. CycleInv /\ [Next]_vars =>
            [\A w \in Workers : job'[w] # job[w] /\ job'[w] # NoEvent =>
                 SessionOf[job'[w]] \notin swept[w]]_vars
    BY <1>1
  <1> QED  BY <1>2, CycleInvariance, PTL DEF Spec, CancelledNotSent

-----------------------------------------------------------------------------
(* The refinement of DeliveryPromise.                                      *)

\* A request under way is for an event that was ingested.
RequestsKnown == \A r \in wire : queue[r.event] # "absent"

RefInv == IInv /\ RequestsKnown

\* Only events that have a row are ever posted to Odoo.
LEMMA RequestsKnownStep ==
    ASSUME IInv, RequestsKnown, [Next]_vars
    PROVE  RequestsKnown'
  <1> USE DEF IInv, TypeOK, HandTyped, InHand, RequestsKnown, controlVars, workerVars, odooVars,
              Requests
  <1>1. \A e \in Events : queue[e] # "absent" => queue'[e] # "absent"
    <2>1. ASSUME NEW s \in Sessions, NEW E \in SUBSET EventsOf(s), Ingest(s, E)
          PROVE  \A e \in Events : queue[e] # "absent" => queue'[e] # "absent"
      BY <2>1 DEF Ingest
    <2>2. ASSUME NEW w \in Workers, NEW i \in todo[w], DeadLetter(w, i) \/ StartAttempt(w, i)
          PROVE  \A e \in Events : queue[e] # "absent" => queue'[e] # "absent"
      BY <2>2 DEF DeadLetter, StartAttempt, Items
    <2>3. ASSUME NEW w \in Workers, CompleteAttempt(w)
          PROVE  \A e \in Events : queue[e] # "absent" => queue'[e] # "absent"
      BY <2>3 DEF CompleteAttempt, AnswerSound
    <2>4. UNCHANGED queue => \A e \in Events : queue[e] # "absent" => queue'[e] # "absent"
      OBVIOUS
    <2> HIDE DEF IInv, TypeOK, HandTyped, InHand, RequestsKnown, controlVars, workerVars, odooVars,
                 Requests
    <2> QED  BY <2>1, <2>2, <2>3, <2>4, WritingSteps
  <1>2. \A r \in wire' : r \in wire \/ queue[r.event] = "inflight"
    <2>1. ASSUME NEW w \in Workers, SendRequest(w)
          PROVE  \A r \in wire' : r \in wire \/ queue[r.event] = "inflight"
      BY <2>1 DEF SendRequest, OneSender
    <2>2. wire' \subseteq wire \/ \E w \in Workers : SendRequest(w)
      BY DEF Next, ControlStep, OpenSession, EndSession, Ingest, StopAck, RetryFallsDue,
         WorkerStep, Fault, SelectCancelled, SelectExhausted, SelectCandidates, DeadLetter,
         StartAttempt, StartRefused, SenderRaises, NoVerdict, CompleteAttempt, EndCycle,
         Restart, CompleteFails, Crash, OdooStep, OdooAccepts, OdooRejects, RequestLost, vars
    <2> QED  BY <2>1, <2>2
  <1>3. TypeOK'
    BY TypeStep DEF TypeInv
  <1> QED  BY <1>1, <1>2, <1>3

\* Each action of the subsystem is a step of the promise or invisible to it.
LEMMA RefStep ==
    ASSUME RefInv, [Next]_vars
    PROVE  [Promise!Next]_(Promise!vars)
  <1> DEFINE status == [e \in Events |-> StatusOf(queue[e])]
             Stutter == UNCHANGED <<status, accepted, acked>>
  <1> USE DEF RefInv, IInv, TypeOK, HandTyped, InHand, controlVars, workerVars, odooVars,
              StatusOf, QueueStates
  <1>1. ASSUME NEW s \in Sessions, NEW E \in SUBSET EventsOf(s), Ingest(s, E)
        PROVE  \E R \in SUBSET Events : Promise!Register(R)
    <2> DEFINE R == {e \in E : queue[e] = "absent"}
    <2>1. R \in SUBSET Events /\ \A e \in R : SessionOf[e] = s
      BY DEF EventsOf
    <2>2. s \notin acked
      BY <1>1 DEF Ingest, AckedMeansDelivered
    <2>3. \A e \in R : status[e] = "none" /\ SessionOf[e] \notin acked
      BY <2>1, <2>2
    <2>4. status' = [e \in Events |-> IF e \in R THEN "pending" ELSE status[e]]
      BY <1>1 DEF Ingest
    <2>5. UNCHANGED <<accepted, acked>>
      BY <1>1 DEF Ingest
    <2> QED  BY <2>1, <2>3, <2>4, <2>5 DEF Promise!Register
  <1>2. ASSUME NEW s \in Sessions, StopAck(s)
        PROVE  Promise!Acknowledge(s)
    BY <1>2 DEF StopAck, BarrierPasses, EventsOf, Promise!Acknowledge
  <1>3. ASSUME NEW w \in Workers, NEW i \in todo[w], DeadLetter(w, i)
        PROVE  Stutter \/ \E e \in Events : Promise!Settle(e, "failed")
    <2>1. CASE queue' = queue
      BY <1>3, <2>1 DEF DeadLetter
    <2>2. CASE queue' # queue
      <3>1. /\ i.event \in Events
            /\ queue[i.event] \in {"queued", "retry"}
            /\ queue' = [queue EXCEPT ![i.event] = "dead"]
            /\ UNCHANGED <<accepted, acked>>
        BY <1>3, <2>2 DEF DeadLetter, SelectionSound, Items
      <3> QED  BY <3>1 DEF Promise!Settle
    <2> QED  BY <2>1, <2>2
  <1>4. ASSUME NEW w \in Workers, NEW i \in todo[w], StartAttempt(w, i)
        PROVE  Stutter
    BY <1>4 DEF StartAttempt, MayStart, Items
  <1>5. ASSUME NEW w \in Workers, CompleteAttempt(w)
        PROVE  \/ Stutter
               \/ \E e \in Events : Promise!Settle(e, "sent") \/ Promise!Settle(e, "failed")
    <2>1. /\ job[w] \in Events
          /\ queue[job[w]] = "inflight"
          /\ queue' = [queue EXCEPT ![job[w]] = result[w]]
          /\ result[w] \in {"sent", "retry", "rejected"}
          /\ result[w] = "sent" => job[w] \in accepted
          /\ UNCHANGED <<accepted, acked>>
      BY <1>5 DEF CompleteAttempt, AnswerSound
    <2>2. CASE result[w] = "retry"
      BY <2>1, <2>2
    <2>3. CASE result[w] = "sent"
      BY <2>1, <2>3 DEF Promise!Settle
    <2>4. CASE result[w] = "rejected"
      <3>1. /\ status[job[w]] = "pending"
            /\ status' = [status EXCEPT ![job[w]] = "failed"]
        BY <2>1, <2>4
      <3>2. Promise!Settle(job[w], "failed")
        BY <2>1, <3>1 DEF Promise!Settle
      <3> QED  BY <2>1, <3>2
    <2> QED  BY <2>1, <2>2, <2>3, <2>4
  <1>6. ASSUME NEW r \in wire, OdooAccepts(r)
        PROVE  \E e \in Events : Promise!Store(e)
    BY <1>6 DEF OdooAccepts, RequestsKnown, Requests, Promise!Store
  <1>7. \/ Stutter
        \/ \E s \in Sessions : StopAck(s) \/ \E E \in SUBSET EventsOf(s) : Ingest(s, E)
        \/ \E w \in Workers : \/ CompleteAttempt(w)
                              \/ \E i \in todo[w] : DeadLetter(w, i) \/ StartAttempt(w, i)
        \/ \E r \in wire : OdooAccepts(r)
    BY DEF Next, ControlStep, OpenSession, EndSession, RetryFallsDue, WorkerStep,
       Fault, SelectCancelled, SelectExhausted, SelectCandidates, StartRefused, SendRequest,
       SenderRaises, NoVerdict, EndCycle, Restart, CompleteFails, Crash, OdooStep,
       OdooRejects, RequestLost, vars
  <1> HIDE DEF RefInv, IInv, TypeOK
  <1>8. Stutter \/ Promise!Next
    BY <1>1, <1>2, <1>3, <1>4, <1>5, <1>6, <1>7 DEF Promise!Next
  <1> QED  BY <1>8 DEF Promise!vars

\* The delivery subsystem implements its promise.
THEOREM Refinement == Spec => KeepsPromise
  <1>1. Init => Promise!Init
    BY DEF Init, Promise!Init, StatusOf
  <1>2. Init => RefInv
    BY InvInit DEF Init, RefInv, RequestsKnown
  <1>3. RefInv /\ [Next]_vars => RefInv'
    BY InvStep, RequestsKnownStep DEF RefInv
  <1>4. RefInv /\ [Next]_vars => [Promise!Next]_(Promise!vars)
    BY RefStep
  <1> QED  BY <1>1, <1>2, <1>3, <1>4, PTL DEF Spec, KeepsPromise, Promise!Spec

=============================================================================

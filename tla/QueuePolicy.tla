---------------------------- MODULE QueuePolicy ----------------------------
(***************************************************************************)
(* The queue states of a RawRFIDEvent, the legal transitions between them  *)
(* and the retry delay: bridge_core/queue_policy.py and the enumerations   *)
(* of bridge_core/models.py.  Pure definitions, no state.                  *)
(***************************************************************************)
EXTENDS Integers

QueueStates ==
    {"unassigned", "queued", "inflight", "retry", "sent", "rejected", "dead"}

\* RawRFIDEvent.QueueState -> the states it may be followed by.
AllowedTransitions ==
    [unassigned |-> {"queued", "rejected"},
     queued     |-> {"inflight", "rejected", "dead"},
     inflight   |-> {"sent", "retry", "rejected", "dead"},
     retry      |-> {"inflight", "dead"},
     sent       |-> {},
     rejected   |-> {},
     dead       |-> {}]

\* validate_queue_transition returns instead of raising ValueError.
ValidTransition(current, target) ==
    /\ current \in QueueStates
    /\ target \in AllowedTransitions[current]

TerminalStates == {s \in QueueStates : AllowedTransitions[s] = {}}

AttemptOutcomes == {"started", "sent", "retry", "rejected", "dead"}

\* The outcomes complete_delivery_attempt accepts; it moves the event to the
\* queue state of the same name.
CompletionOutcomes == AttemptOutcomes \ {"started"}

\* calculate_retry_delay_seconds; it raises ValueError unless RetryDelayDefined.
RetryDelayDefined(attempt, initial, maximum) ==
    attempt >= 1 /\ initial >= 1 /\ maximum >= initial

\* 2 ** k
PowerOfTwo[k \in Nat] == IF k = 0 THEN 1 ELSE 2 * PowerOfTwo[k - 1]

\* Mutant: the cap comes before the doubling.
RetryDelayCappedFirst(attempt, initial, maximum) ==
    (IF initial < maximum THEN initial ELSE maximum) * PowerOfTwo[attempt - 1]

RetryDelay(attempt, initial, maximum) ==
    LET uncapped == initial * PowerOfTwo[attempt - 1]
    IN  IF uncapped < maximum THEN uncapped ELSE maximum

=============================================================================

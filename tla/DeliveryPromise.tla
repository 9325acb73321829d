-------------------------- MODULE DeliveryPromise --------------------------
(***************************************************************************)
(* What the delivery subsystem promises, without workers, attempts or the  *)
(* network: a registered event is pending until it is settled, it is       *)
(* settled once, it is sent only if Odoo has stored it, and a session is   *)
(* acknowledged only when all its events are sent, after which it takes no *)
(* more events.                                                            *)
(***************************************************************************)
EXTENDS FiniteSets

CONSTANTS Events, Sessions, SessionOf

VARIABLES status, stored, acknowledged

vars == <<status, stored, acknowledged>>

Init ==
    /\ status = [e \in Events |-> "none"]
    /\ stored = {}
    /\ acknowledged = {}

Register(E) ==
    /\ \A e \in E : status[e] = "none" /\ SessionOf[e] \notin acknowledged
    /\ status' = [e \in Events |-> IF e \in E THEN "pending" ELSE status[e]]
    /\ UNCHANGED <<stored, acknowledged>>

Store(e) ==
    /\ status[e] # "none"
    /\ stored' = stored \cup {e}
    /\ UNCHANGED <<status, acknowledged>>

Settle(e, verdict) ==
    /\ status[e] = "pending"
    /\ verdict = "sent" => e \in stored
    /\ status' = [status EXCEPT ![e] = verdict]
    /\ UNCHANGED <<stored, acknowledged>>

Acknowledge(s) ==
    /\ \A e \in Events : SessionOf[e] = s => status[e] \in {"none", "sent"}
    /\ acknowledged' = acknowledged \cup {s}
    /\ UNCHANGED <<status, stored>>

Next ==
    \/ \E E \in SUBSET Events : Register(E)
    \/ \E e \in Events : Store(e) \/ Settle(e, "sent") \/ Settle(e, "failed")
    \/ \E s \in Sessions : Acknowledge(s)

Spec == Init /\ [][Next]_vars

=============================================================================

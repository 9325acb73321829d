-------------------------- MODULE MCEventDelivery --------------------------
(***************************************************************************)
(* TLC instances of EventDelivery.                                         *)
(***************************************************************************)
EXTENDS EventDelivery, TLC

CONSTANTS e1, e2, s1, s2, w1, w2

\* The instances: one event in each of two sessions, two events in one
\* session, one event.
MCTwoSessions == e1 :> s1 @@ e2 :> s2
MCOneSession  == e1 :> s1 @@ e2 :> s1
MCSingleEvent == e1 :> s1

\* Limits of workers that read different settings, or the same ones.
MCLimits      == w1 :> 1 @@ w2 :> 2
MCLimit       == w1 :> 2

\* Events of one session are interchangeable.
MCEventSymmetry == Permutations(Events)

=============================================================================

--------------------------- MODULE MCFinalBridge ---------------------------
(* Small instances of FinalBridge.                                           *)
EXTENDS FinalBridge, TLC

CONSTANTS e1, s1, w1

OneEvent == e1 :> s1
OneAttempt == w1 :> 1

=============================================================================

------------------------------- MODULE MCSignals -------------------------------
(* The values of the constants for TLC. *)
EXTENDS Signals

CONSTANTS s1, s2, b1, b2, b3, g1, g2

(* An event-based gateway, an activity with its boundary events, or who throws *)
(* a signal, which the start event and other senders meet.                    *)
MCScenarios == {Gateway, Activity, {Thrower}}
=============================================================================

----------------------------- MODULE MCEnforceGate -----------------------------
(* Small instances of EnforceGate for TLC: every task is about one event.         *)
EXTENDS EnforceGate, TLC

CONSTANT event

OneEvent == {event}
SameEvent == [t \in Tasks |-> event]

\* Notifications of one event are interchangeable, so are requests.
SendSymmetry == Permutations(Sends) \cup Permutations(Requests)
================================================================================

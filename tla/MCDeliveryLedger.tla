---------------------------- MODULE MCDeliveryLedger ----------------------------
(* Small instances of DeliveryLedger for TLC. *)
EXTENDS DeliveryLedger, TLC

\* Requests that carry the same key are interchangeable.
ReplaySymmetry == Permutations(Replays)
================================================================================

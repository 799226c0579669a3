------------------------ MODULE MCObservationPipeline ------------------------
(* Small instances of ObservationPipeline for TLC: every notification is of the  *)
(* first event but the last, which is of the second.                             *)
EXTENDS ObservationPipeline, TLC

CONSTANTS first, second, last

LastOfSecond == [n \in Notifies |-> IF n = last THEN second ELSE first]
================================================================================

---------------------------- MODULE MCOfflineQueue ----------------------------
EXTENDS OfflineQueue
CONSTANTS m1, m2
MCSize == [m \in Messages |-> IF m = m1 THEN 2 ELSE 1]
================================================================================

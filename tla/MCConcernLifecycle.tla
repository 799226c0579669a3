--------------------------- MODULE MCConcernLifecycle ---------------------------
(* Small instances of ConcernLifecycle for TLC: the table is empty or holds two ids. *)
EXTENDS ConcernLifecycle, TLC

CONSTANTS first, second

NoneOrBoth == {<<>>, <<first, second>>}
================================================================================

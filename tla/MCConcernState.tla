---------------------------- MODULE MCConcernState ----------------------------
EXTENDS ConcernState, TLC
WorkerSymmetry == Permutations(Workers)
================================================================================

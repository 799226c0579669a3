----------------------------- MODULE HoldLedger -----------------------------
(***************************************************************************)
(* What a migration promises for the rows of delivery_migration_holds,     *)
(* whatever runs over them: a row is claimed once, the claim carries the   *)
(* right to hand the message over once, and an outcome is final.           *)
(* (docs/phase3/P3B_CONNECTOR_MIGRATION.md; the guarded UPDATEs of         *)
(* ClaimHold, FinishHold and MarkReleasingUnknown.)                        *)
(***************************************************************************)
EXTENDS Naturals

CONSTANT Delivery

VARIABLES
    hold,       \* release_state of the row, "none" without a row
    permit,     \* the right to hand the message over: "unissued", "out", "spent"
    handed      \* times the message was handed over

vars == <<hold, permit, handed>>

Outcome == {"released", "unknown", "failed"}

Init == /\ hold = [d \in Delivery |-> "none"]
        /\ permit = [d \in Delivery |-> "unissued"]
        /\ handed = [d \in Delivery |-> 0]

Hold(d) == /\ hold[d] = "none"
           /\ hold' = [hold EXCEPT ![d] = "held"]
           /\ UNCHANGED <<permit, handed>>

\* The claimer gets the permit, or fails right after its claim is durable.
Claim(d) == /\ hold[d] = "held"
            /\ hold' = [hold EXCEPT ![d] = "releasing"]
            /\ \E s \in {"out", "spent"} : permit' = [permit EXCEPT ![d] = s]
            /\ UNCHANGED handed

HandOver(d) == /\ permit[d] = "out"
               /\ permit' = [permit EXCEPT ![d] = "spent"]
               /\ handed' = [handed EXCEPT ![d] = @ + 1]
               /\ UNCHANGED hold

\* A claimer gives up or disappears without handing over.
GiveUp(D) == /\ permit' = [d \in Delivery |->
                             IF d \in D /\ permit[d] = "out" THEN "spent" ELSE permit[d]]
             /\ UNCHANGED <<hold, handed>>

Decide(D, outcome) ==
    /\ \A d \in D : hold[d] = "releasing"
    /\ hold' = [d \in Delivery |-> IF d \in D THEN outcome ELSE hold[d]]
    /\ UNCHANGED <<permit, handed>>

Next == \/ \E d \in Delivery : Hold(d) \/ Claim(d) \/ HandOver(d)
        \/ \E D \in SUBSET Delivery : GiveUp(D)
        \/ \E D \in SUBSET Delivery, outcome \in Outcome : Decide(D, outcome)

Spec == Init /\ [][Next]_vars

\* No message is handed over twice, and none without a claim.
HandedOnce == \A d \in Delivery :
    handed[d] <= IF hold[d] \in {"none", "held"} THEN 0 ELSE 1
=============================================================================

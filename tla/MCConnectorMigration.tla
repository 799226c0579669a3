------------------------ MODULE MCConnectorMigration ------------------------
(* Small instances of ConnectorMigration for TLC.                            *)
EXTENDS ConnectorMigration, TLC

CONSTANTS onebot, satori, m1, m2, d1, d2

\* One migration, or a migration and the later one back.
OneMigration == {m1}
TwoMigrations == {m1, m2}
OneOld == [m \in Migration |-> onebot]
OneNew == [m \in Migration |-> satori]
ThereOld == [m \in Migration |-> IF m = m1 THEN onebot ELSE satori]
ThereNew == [m \in Migration |-> IF m = m1 THEN satori ELSE onebot]

\* Administrators' requests are interchangeable.
RequestSymmetry == Permutations(Request)
=============================================================================

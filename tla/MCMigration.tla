------------------------------ MODULE MCMigration ------------------------------
\* Finite instances of Migration for TLC.
EXTENDS Migration

CONSTANTS i1, i2

TwoInstances == {i1, i2}
AllHistories == {"virgin", "old", "shared", "priced"}
\* Everything, and just the migration that made the function.
Targets == {0, 8}
=============================================================================

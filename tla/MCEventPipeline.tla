-------------------------- MODULE MCEventPipeline --------------------------
(* Instances of EventPipeline for TLC.                                     *)
EXTENDS EventPipeline

CONSTANTS k1, k2

\* Transactions on two rows; on one row, or on other tables only.
PairTransactions == {<<k2, k1>>}
MixedTransactions == {<<k1>>, << >>}

=============================================================================

---------------------------- MODULE MCRecordFile ----------------------------
EXTENDS RecordFile, TLC

\* What a record holds is only compared.
Contents == Permutations(Value)
=============================================================================

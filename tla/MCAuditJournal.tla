--------------------------- MODULE MCAuditJournal ---------------------------
(* Instances of AuditJournal for TLC.                                      *)
EXTENDS AuditJournal, TLC

CONSTANTS w1, w2, e1, e2

TwoWriters == {w1, w2}
TwoEvents == {e1, e2}

Symmetric == Permutations(TwoWriters) \cup Permutations(TwoEvents)
=============================================================================

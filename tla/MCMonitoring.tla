----------------------------- MODULE MCMonitoring -----------------------------
(* Instances of Monitoring for TLC.                                        *)
EXTENDS Monitoring

CONSTANTS unit, url, url_stored, disk, node, k, b

AllNames == {unit, url, url_stored, disk, node}
\* A health URL has a password that is replaced when it is stored.
RedactUrl == [n \in AllNames |-> IF n = url THEN url_stored ELSE n]

NoChecks == <<>>
EveryKind == <<unit, url, disk>>
=============================================================================

-------------------------- MODULE MCChangeProposal --------------------------
(* Instances of ChangeProposal for TLC.                                    *)
EXTENDS ChangeProposal

CONSTANTS a1, a2, r1, ana, bob, s1, s2, f1, f2, k1, k2
=============================================================================

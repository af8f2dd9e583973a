-------------------------- MODULE MCSlaEscalation --------------------------
(* Model checking of SlaEscalation: two attempts alive at a time suffice for *)
(* an attempt that meets another one of the same job.                        *)
EXTENDS SlaEscalation, TLC

AttemptSymmetry == Permutations(Attempts)
=============================================================================

--------------------------- MODULE MCReviewRecord ---------------------------
(* Model checking of ReviewRecord: one ticket, with the times of           *)
(* MCLlmWorker in units of 30 s.                                            *)
EXTENDS ReviewRecord

MCTypeOf == [j \in Jobs |-> "classify"]
MCCallTime   == [type \in Types |-> IF type = "classify" THEN 3 ELSE 2]
MCJobTimeout == [type \in Types |-> IF type = "classify" THEN 1 ELSE 3]

\* In order; rejecting all we send; and a rejection now and an outage then.
MCConditions == {{"answers", "fails"}, {"rejects"}, {"rejects", "fails"}}
=============================================================================

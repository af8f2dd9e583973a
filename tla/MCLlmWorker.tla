---------------------------- MODULE MCLlmWorker ----------------------------
(* Model checking of LlmWorker with the worker's own times, in units of      *)
(* 30 s: a classification takes up to 30 s three times for each call and has *)
(* a job timeout of 30 s, a generation up to 30 s twice, and 90 s.           *)
EXTENDS LlmWorker, TLC

MCTypeOf == [j \in Jobs |-> IF j = "classification" THEN "classify" ELSE "generate"]
MCCallTime   == [type \in Types |-> IF type = "classify" THEN 3 ELSE 2]
MCJobTimeout == [type \in Types |-> IF type = "classify" THEN 1 ELSE 3]

\* In order; rejecting all we send; and anything, which includes the others.
MCConditions == {{"answers", "fails"}, {"rejects"}, Outcomes}

\* Activate takes any idle slot, and idle slots are alike.
SlotSymmetry == Permutations(Slots)
=============================================================================

-------------------------- MODULE MCBookingWorker --------------------------
(* Model checking of BookingWorker with the worker's own times, in units of  *)
(* five seconds: 10, 15, 60, 25 and 10 s.                                    *)
EXTENDS BookingWorker, TLC

HandlerSymmetry == Permutations(Handlers)
=============================================================================

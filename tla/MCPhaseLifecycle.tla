-------------------------- MODULE MCPhaseLifecycle --------------------------
(* TLC instance of PhaseLifecycle: deliveries are interchangeable. *)
EXTENDS PhaseLifecycle, TLC

DeliverySymmetry == Permutations(Owners)
=============================================================================

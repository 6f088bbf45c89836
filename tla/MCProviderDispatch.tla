------------------------- MODULE MCProviderDispatch -------------------------
(* TLC instance of ProviderDispatch. *)
EXTENDS ProviderDispatch, TLC

\* Deliveries and items are interchangeable.
DispatchSymmetry == Permutations(Owners) \cup Permutations(Items)
=============================================================================

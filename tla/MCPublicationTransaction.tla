----------------------- MODULE MCPublicationTransaction -----------------------
(* TLC instance of PublicationTransaction. *)
EXTENDS PublicationTransaction, TLC

\* Deliveries are interchangeable: an owner is only a fresh request id.
OwnerSymmetry == Permutations(Owners)
=============================================================================

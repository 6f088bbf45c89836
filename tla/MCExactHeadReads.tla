------------------------- MODULE MCExactHeadReads -------------------------
(* Two paths and two literals over every tree listing.  Paths of different *)
(* kinds are read independently but for the shared allowances, so a kind   *)
(* that only differs by a size or a policy is put beside a path that is    *)
(* missing.                                                                *)
EXTENDS ExactHeadReads, TLC

Odd == {"middling", "huge", "policy"}
FewOddFiles == {k \in [Paths -> Kinds] :
                  \A p, q \in Paths : p # q /\ k[p] \in Odd => k[q] = "missing"}

Interchangeable == Permutations(Paths) \cup Permutations(Literals)
=============================================================================

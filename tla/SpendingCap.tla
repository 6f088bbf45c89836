----------------------------- MODULE SpendingCap -----------------------------
(***************************************************************************)
(* What the finite grant promises, without calls, owners or a ledger: the  *)
(* provider never bills more than an upper bound the application keeps,    *)
(* and the bound never exceeds the allocation the first purchase fixed.    *)
(***************************************************************************)
EXTENDS Naturals

CONSTANTS Allocations,  \* allocations an operator may configure
          None

VARIABLES cap,    \* the allocation this grant is bound to
          bound,  \* what the application must assume was spent
          spent   \* what the provider really bills

vars == <<cap, bound, spent>>

Init == cap = None /\ bound = 0 /\ spent = 0

\* Reserve the worst case of one more call.
Authorise ==
  /\ \E a \in Allocations : cap \in {None, a} /\ cap' = a
  /\ bound' \in bound..cap'
  /\ UNCHANGED spent

\* The provider bills within what was reserved.
Incur == spent' \in spent..bound /\ UNCHANGED <<cap, bound>>

\* A proven price gives the unused part of the reservation back.
Refund == bound' \in spent..bound /\ UNCHANGED <<cap, spent>>

Next == Authorise \/ Incur \/ Refund

Spec == Init /\ [][Next]_vars
=============================================================================

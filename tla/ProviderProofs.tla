--------------------------- MODULE ProviderProofs ---------------------------
(***************************************************************************)
(* Proofs that paid provider calls are fenced one at a time and that the   *)
(* grant is never overspent, for every set of items, invocations, prices   *)
(* and allocations.                                                        *)
(*                                                                         *)
(* DispatchInv is inductive.  Its heart is CheckStillHolds: the fence is   *)
(* created by a write that does not look for an unresolved call, and this  *)
(* is sound because only the claim's owner writes fences, so nobody else   *)
(* can have opened one since the owner's own read.                         *)
(*                                                                         *)
(* GrantInv adds what each call may have been billed and the counter that  *)
(* all records add up to.  A record and its part of the counter are        *)
(* written together, so each write moves one term of a sum, and the sums   *)
(* of RecursionFacts say by how much.                                      *)
(***************************************************************************)
EXTENDS ProviderDispatch, RecursionFacts

\* A claim names the item the owner will work on.
LEMMA ClaimPhaseKeeps ==
  ASSUME DispatchInv, NEW o \in Owners, ClaimPhase(o)
  PROVE  DispatchInv'
  <1> USE ConstantsAssumption, NoneAssumption
      DEF ClaimPhase, Goto, itemVars, counterVars, worldVars, workVars
  <1>1. TypeOK'
    BY DEF DispatchInv, TypeOK, AttemptInv, Steps, Ended, FenceFailure
  <1>2. RecordsHaveOwners'
    BY DEF DispatchInv, TypeOK, RecordsHaveOwners, AttemptInv,
        RequestsAreFenced, Open, Recorded, Record, This, Calls, Ended,
        FenceFailure
  <1>3. CheckStillHolds'
    BY DEF DispatchInv, TypeOK, CheckStillHolds, RecordsHaveOwners, AttemptInv,
        RequestsAreFenced, Open, Recorded, Record, Owns, This, Calls, Ended,
        FenceFailure, Settlements
  <1>4. AttemptInv'
    BY DEF DispatchInv, TypeOK, AttemptInv, RequestsAreFenced, Open, Recorded,
        Record, This, Calls, Ended, FenceFailure, Reply, Settlements
  <1>5. OneOpenFence'
    BY DEF DispatchInv, TypeOK, OneOpenFence, CheckStillHolds,
        RecordsHaveOwners, AttemptInv, RequestsAreFenced, Open, Recorded,
        Record, Owns, This, Calls, Settlements, Ended
  <1>6. RequestsAreFenced'
    BY DEF DispatchInv, TypeOK, RequestsAreFenced, RecordsHaveOwners,
        AttemptInv, Open, Recorded, Record, This, Calls, Ended, FenceFailure,
        Settlements
  <1> QED BY <1>1, <1>2, <1>3, <1>4, <1>5, <1>6 DEF DispatchInv

\* The owner goes on only if it saw no open call.
LEMMA CheckFenceKeeps ==
  ASSUME DispatchInv, NEW o \in Owners, CheckFence(o)
  PROVE  DispatchInv'
  <1> USE ConstantsAssumption, NoneAssumption
      DEF CheckFence, Owns, FenceFailure, Goto, itemVars, counterVars,
          worldVars, workVars
  <1>1. TypeOK'
    BY DEF DispatchInv, TypeOK, AttemptInv, Steps, Ended, FenceFailure
  <1>2. RecordsHaveOwners'
    BY DEF DispatchInv, TypeOK, RecordsHaveOwners, AttemptInv,
        RequestsAreFenced, Open, Recorded, Record, This, Calls, Ended,
        FenceFailure
  <1>3. CheckStillHolds'
    BY DEF DispatchInv, TypeOK, CheckStillHolds, RecordsHaveOwners, AttemptInv,
        RequestsAreFenced, Open, Recorded, Record, Owns, This, Calls, Ended,
        FenceFailure, Settlements
  <1>4. AttemptInv'
    BY DEF DispatchInv, TypeOK, AttemptInv, RequestsAreFenced, Open, Recorded,
        Record, This, Calls, Ended, FenceFailure, Reply, Settlements
  <1>5. OneOpenFence'
    BY DEF DispatchInv, TypeOK, OneOpenFence, CheckStillHolds,
        RecordsHaveOwners, AttemptInv, RequestsAreFenced, Open, Recorded,
        Record, Owns, This, Calls, Settlements, Ended
  <1>6. RequestsAreFenced'
    BY DEF DispatchInv, TypeOK, RequestsAreFenced, RecordsHaveOwners,
        AttemptInv, Open, Recorded, Record, This, Calls, Ended, FenceFailure,
        Settlements
  <1> QED BY <1>1, <1>2, <1>3, <1>4, <1>5, <1>6 DEF DispatchInv

\* The new fence is the only open one of its item.
LEMMA WriteFenceKeeps ==
  ASSUME DispatchInv, NEW o \in Owners, WriteFence(o)
  PROVE  DispatchInv'
  <1> DEFINE c == This(o)
             fence(r) == [state |-> "dispatching", item |-> on[o],
                          reserve |-> r, cost |-> None]
  <1>0. /\ pc[o] = "fence" /\ on[o] \in Items /\ c \in Calls /\ c[1] = o
        /\ offer[o] \in Allocations
    BY DEF WriteFence, DispatchInv, TypeOK, AttemptInv, This, Calls
  <1>a. UNCHANGED <<itemVars, settled, worldVars, workVars>>
    BY DEF WriteFence
  <1>c. \A d \in Calls : d \notin Recorded => posts[d] = 0
    <2> SUFFICES ASSUME NEW d \in Calls, d \notin Recorded PROVE posts[d] = 0
      OBVIOUS
    <2>1. posts[d] \in Nat /\ posts[d] <= 1 /\ posts[d] # 1
      BY DEF DispatchInv, TypeOK, RequestsAreFenced
    <2> QED BY <2>1
  <1>b. PICK r \in Reserves, s \in {"post", "release", "end"} :
          /\ Goto(o, s)
          /\ \/ /\ FenceCondition(o, r)
                /\ call' = [call EXCEPT ![c] = fence(r)]
                /\ policy' = offer[o]
                /\ charged' = charged + r /\ reserved' = reserved + r
             \/ s # "post" /\ UNCHANGED <<call, policy, charged, reserved>>
    BY DEF WriteFence, FenceFailure
  <1>1. CASE UNCHANGED <<call, policy, charged, reserved>> /\ s # "post"
    <2> USE <1>0, <1>a, <1>b, <1>1
        DEF Goto, itemVars, counterVars, worldVars, workVars
    <2>1. TypeOK'
      BY DEF DispatchInv, TypeOK, Steps
    <2>2. RecordsHaveOwners' /\ AttemptInv' /\ CheckStillHolds'
      BY DEF DispatchInv, TypeOK, RecordsHaveOwners, AttemptInv,
             CheckStillHolds, Owns, Open, Recorded, This
    <2>3. OneOpenFence' /\ RequestsAreFenced'
      BY DEF DispatchInv, TypeOK, OneOpenFence, RequestsAreFenced, Open,
             Recorded, This
    <2> QED BY <2>1, <2>2, <2>3 DEF DispatchInv
  <1>2. CASE /\ FenceCondition(o, r)
             /\ call' = [call EXCEPT ![c] = fence(r)]
             /\ policy' = offer[o]
             /\ charged' = charged + r /\ reserved' = reserved + r
    <2>1. /\ fence(r) \in Record /\ fence(r) # None
          /\ fence(r).item = on[o] /\ fence(r).state = "dispatching"
      BY <1>0, NoneAssumption DEF Record
    <2> DEFINE f == fence(r)
    <2> HIDE DEF f, fence
    <2>2. Owns(o) /\ call[c] = None /\ Open(on[o]) = {}
      BY <1>0, <1>2 DEF FenceCondition, DispatchInv, CheckStillHolds
    <2>3. /\ call'[c] = f
          /\ \A d \in Calls \ {c} : call'[d] = call[d]
      BY <1>0, <1>2 DEF DispatchInv, TypeOK, f
    <2>4. Recorded' = Recorded \cup {c} /\ c \notin Recorded
      BY <1>0, <2>1, <2>2, <2>3 DEF Recorded, f
    <2>5. Open(on[o])' = {c}
      BY <1>0, <1>a, <2>1, <2>2, <2>3, <2>4 DEF Open, Recorded, workVars, f
    <2>6. \A i \in Items \ {on[o]} : Open(i)' = Open(i)
      BY <1>0, <2>1, <2>3, <2>4 DEF Open, Recorded, f
    <2> USE <1>0, <1>a, <1>b
        DEF Goto, itemVars, counterVars, worldVars, workVars
    <2>7. TypeOK'
      <3>1. call' \in [Calls -> Record \cup {None}]
        BY <1>2, <2>1 DEF DispatchInv, TypeOK, f
      <3>2. charged' \in Nat /\ reserved' \in Nat /\ policy' \in Allocations
        BY <1>2, ConstantsAssumption DEF DispatchInv, TypeOK
      <3> QED BY <3>1, <3>2 DEF DispatchInv, TypeOK, Steps
    <2>8. RecordsHaveOwners'
      BY <2>1, <2>3, <2>4
         DEF DispatchInv, TypeOK, RecordsHaveOwners, Recorded, f
    <2>9. CheckStillHolds'
      BY <2>2, <2>6 DEF DispatchInv, TypeOK, CheckStillHolds, AttemptInv, Owns
    <2>10. AttemptInv'
      <3>1. posts[c] = 0
        BY <1>c, <2>4
      <3> QED BY <2>4, <3>1 DEF DispatchInv, TypeOK, AttemptInv, This
    <2>11. OneOpenFence'
      BY <2>5, <2>6 DEF DispatchInv, OneOpenFence
    <2>12. RequestsAreFenced'
      <3>1. \A p \in Owners \ {o} :
              pc[p] \in {"post", "http"} => on[p] \in Items /\ on[p] # on[o]
        BY <2>2 DEF DispatchInv, TypeOK, AttemptInv, RequestsAreFenced
      <3> QED BY <2>4, <2>5, <2>6, <3>1
              DEF DispatchInv, TypeOK, RequestsAreFenced, This
    <2> QED BY <2>7, <2>8, <2>9, <2>10, <2>11, <2>12 DEF DispatchInv
  <1> QED BY <1>b, <1>1, <1>2

\* The request leaves once, behind its fence.
LEMMA SendRequestKeeps ==
  ASSUME DispatchInv, NEW o \in Owners, SendRequest(o)
  PROVE  DispatchInv'
  <1> USE ConstantsAssumption, NoneAssumption
      DEF SendRequest, Goto, itemVars, counterVars, worldVars, workVars
  <1>1. TypeOK'
    <2>1. call[This(o)].reserve \in Nat /\ posts[This(o)] \in Nat
      BY DEF DispatchInv, RequestsAreFenced, TypeOK, Open, Recorded, Record
    <2> DEFINE n == posts[This(o)] + 1
    <2>2. n \in Nat /\ posts' = [posts EXCEPT ![This(o)] = n]
      BY <2>1
    <2> HIDE DEF n
    <2>a. posts' \in [Calls -> Nat]
      BY <2>2 DEF DispatchInv, TypeOK
    <2>3. PICK b \in 0..call[This(o)].reserve :
            bill' = [bill EXCEPT ![This(o)] = b]
      OBVIOUS
    <2>4. b \in Nat
      BY <2>1
    <2>5. bill' \in [Calls -> Nat]
      BY <2>3, <2>4 DEF DispatchInv, TypeOK
    <2> QED BY <2>a, <2>5 DEF DispatchInv, TypeOK, Steps
  <1>2. RecordsHaveOwners'
    BY DEF DispatchInv, TypeOK, RecordsHaveOwners, AttemptInv,
        RequestsAreFenced, Open, Recorded, Record, This, Calls, Ended,
        FenceFailure
  <1>3. CheckStillHolds'
    BY DEF DispatchInv, TypeOK, CheckStillHolds, RecordsHaveOwners, AttemptInv,
        RequestsAreFenced, Open, Recorded, Record, Owns, This, Calls, Ended,
        FenceFailure, Settlements
  <1>4. AttemptInv'
    BY DEF DispatchInv, TypeOK, AttemptInv, RequestsAreFenced, Open, Recorded,
        Record, This, Calls, Ended, FenceFailure, Reply, Settlements
  <1>5. OneOpenFence'
    BY DEF DispatchInv, TypeOK, OneOpenFence, CheckStillHolds,
        RecordsHaveOwners, AttemptInv, RequestsAreFenced, Open, Recorded,
        Record, Owns, This, Calls, Settlements, Ended
  <1>6. RequestsAreFenced'
    BY DEF DispatchInv, TypeOK, RequestsAreFenced, RecordsHaveOwners,
        AttemptInv, Open, Recorded, Record, This, Calls, Ended, FenceFailure,
        Settlements
  <1> QED BY <1>1, <1>2, <1>3, <1>4, <1>5, <1>6 DEF DispatchInv

\* A reply changes what the owner knows, not the ledger.
LEMMA ReceiveReplyKeeps ==
  ASSUME DispatchInv, NEW o \in Owners, ReceiveReply(o)
  PROVE  DispatchInv'
  <1> USE ConstantsAssumption, NoneAssumption
      DEF ReceiveReply, Goto, itemVars, counterVars, worldVars, workVars
  <1>1. TypeOK'
    <2>1. bill[This(o)] \in Nat
      BY DEF DispatchInv, TypeOK, RequestsAreFenced, Open, Recorded
    <2>2. reply' \in [Owners -> Reply \cup {None}]
      BY <2>1 DEF DispatchInv, TypeOK, Reply, Settlements
    <2> QED BY <2>2 DEF DispatchInv, TypeOK, Steps
  <1>2. RecordsHaveOwners'
    BY DEF DispatchInv, TypeOK, RecordsHaveOwners, AttemptInv,
        RequestsAreFenced, Open, Recorded, Record, This, Calls, Ended,
        FenceFailure
  <1>3. CheckStillHolds'
    BY DEF DispatchInv, TypeOK, CheckStillHolds, RecordsHaveOwners, AttemptInv,
        RequestsAreFenced, Open, Recorded, Record, Owns, This, Calls, Ended,
        FenceFailure, Settlements
  <1>4. AttemptInv'
    BY DEF DispatchInv, TypeOK, AttemptInv, RequestsAreFenced, Open, Recorded,
        Record, This, Calls, Ended, FenceFailure, Reply, Settlements
  <1>5. OneOpenFence'
    BY DEF DispatchInv, TypeOK, OneOpenFence, CheckStillHolds,
        RecordsHaveOwners, AttemptInv, RequestsAreFenced, Open, Recorded,
        Record, Owns, This, Calls, Settlements, Ended
  <1>6. RequestsAreFenced'
    BY DEF DispatchInv, TypeOK, RequestsAreFenced, RecordsHaveOwners,
        AttemptInv, Open, Recorded, Record, This, Calls, Ended, FenceFailure,
        Settlements
  <1> QED BY <1>1, <1>2, <1>3, <1>4, <1>5, <1>6 DEF DispatchInv

\* Settling closes the own fence and no other.
LEMMA SettleKeeps ==
  ASSUME DispatchInv, NEW o \in Owners, Settle(o)
  PROVE  DispatchInv'
  <1> DEFINE c == This(o)
  <1>0. /\ pc[o] = "settle" /\ c \in Recorded /\ c \in Calls
        /\ reply[o] \in Reply /\ call[c] \in Record
    BY DEF Settle, DispatchInv, TypeOK, AttemptInv, Recorded
  <1>a. UNCHANGED <<itemVars, worldVars, workVars>>
    BY DEF Settle
  <1>b. PICK s \in {"settled", "end"} :
          /\ Goto(o, s)
          /\ \/ /\ CanRefund(o) /\ RefundUnused(o)
                /\ call' = [call EXCEPT ![c] = Final(o)]
             \/ UNCHANGED <<call, counterVars>>
    BY DEF Settle
  <1>c. /\ Final(o) \in Record /\ Final(o) # None
        /\ Final(o).item = call[c].item /\ Final(o).state # "dispatching"
    BY <1>0, NoneAssumption DEF Final, Record, Reply, Settlements
  <1>d. /\ call' \in [Calls -> Record \cup {None}]
        /\ \A d \in Calls \ {c} : call'[d] = call[d]
        /\ call'[c] \in {call[c], Final(o)}
    BY <1>0, <1>b, <1>c DEF DispatchInv, TypeOK
  <1>e. Recorded' = Recorded
    BY <1>0, <1>c, <1>d, NoneAssumption DEF Recorded
  <1>f. \A i \in Items : /\ Open(i)' \subseteq Open(i)
                         /\ Open(i) \ {c} \subseteq Open(i)'
    BY <1>0, <1>c, <1>d, <1>e DEF Open, Recorded
  <1> USE <1>0, <1>a, <1>b
      DEF Goto, itemVars, worldVars, workVars
  <1>1. TypeOK'
    <2>1. /\ charged' \in Nat /\ reserved' \in Nat /\ settled' \in Nat
          /\ policy' = policy
      <3>1. CASE UNCHANGED counterVars
        BY <3>1 DEF counterVars, DispatchInv, TypeOK
      <3>2. CASE CanRefund(o) /\ RefundUnused(o)
        <4>1. call[c].reserve \in Nat /\ reply[o].cost \in Nat \cup {None}
          BY ConstantsAssumption DEF Record, Reply
        <4> QED BY <3>2, <4>1
                DEF CanRefund, RefundUnused, counterVars, DispatchInv, TypeOK
      <3> QED BY <3>1, <3>2
    <2> QED BY <1>d, <2>1 DEF DispatchInv, TypeOK, Steps, Ended
  <1>2. RecordsHaveOwners'
    BY <1>c, <1>d, <1>e DEF DispatchInv, TypeOK, RecordsHaveOwners, Recorded
  <1>3. CheckStillHolds'
    BY <1>f DEF DispatchInv, TypeOK, CheckStillHolds, AttemptInv, Owns
  <1>4. AttemptInv'
    BY <1>e DEF DispatchInv, TypeOK, AttemptInv, This
  <1>5. OneOpenFence'
    BY <1>f DEF DispatchInv, OneOpenFence
  <1>6. RequestsAreFenced'
    <2>1. \A p \in Owners \ {o} : This(p) # c
      BY DEF DispatchInv, TypeOK, This
    <2> QED BY <1>e, <1>f, <2>1
            DEF DispatchInv, TypeOK, RequestsAreFenced, AttemptInv, This
  <1> QED BY <1>1, <1>2, <1>3, <1>4, <1>5, <1>6 DEF DispatchInv

\* A late interrupt only rebuilds the report.
LEMMA InterruptedKeeps ==
  ASSUME DispatchInv, NEW o \in Owners, Interrupted(o)
  PROVE  DispatchInv'
  <1> USE ConstantsAssumption, NoneAssumption
      DEF Interrupted, Goto, itemVars, counterVars, worldVars, workVars
  <1>1. TypeOK'
    <2>1. reply' \in [Owners -> Reply \cup {None}]
      BY DEF DispatchInv, TypeOK, Reply, Settlements
    <2> QED BY <2>1 DEF DispatchInv, TypeOK, Steps
  <1>2. RecordsHaveOwners'
    BY DEF DispatchInv, TypeOK, RecordsHaveOwners, AttemptInv,
        RequestsAreFenced, Open, Recorded, Record, This, Calls, Ended,
        FenceFailure
  <1>3. CheckStillHolds'
    BY DEF DispatchInv, TypeOK, CheckStillHolds, RecordsHaveOwners, AttemptInv,
        RequestsAreFenced, Open, Recorded, Record, Owns, This, Calls, Ended,
        FenceFailure, Settlements
  <1>4. AttemptInv'
    BY DEF DispatchInv, TypeOK, AttemptInv, RequestsAreFenced, Open, Recorded,
        Record, This, Calls, Ended, FenceFailure, Reply, Settlements
  <1>5. OneOpenFence'
    BY DEF DispatchInv, TypeOK, OneOpenFence, CheckStillHolds,
        RecordsHaveOwners, AttemptInv, RequestsAreFenced, Open, Recorded,
        Record, Owns, This, Calls, Settlements, Ended
  <1>6. RequestsAreFenced'
    BY DEF DispatchInv, TypeOK, RequestsAreFenced, RecordsHaveOwners,
        AttemptInv, Open, Recorded, Record, This, Calls, Ended, FenceFailure,
        Settlements
  <1> QED BY <1>1, <1>2, <1>3, <1>4, <1>5, <1>6 DEF DispatchInv

\* The next attempt has another call id.
LEMMA NextAttemptKeeps ==
  ASSUME DispatchInv, NEW o \in Owners, NextAttempt(o)
  PROVE  DispatchInv'
  <1> USE ConstantsAssumption, NoneAssumption
      DEF NextAttempt, Goto, itemVars, counterVars, worldVars, workVars
  <1>0. /\ at[o][1] \in 1..MaxOps /\ at[o][2] \in 1..MaxTries
        /\ \E a \in 1..MaxOps, b \in 1..MaxTries :
             at' = at \/ at' = [at EXCEPT ![o] = <<a, b>>]
    <2>1. at[o][1] \in 1..MaxOps /\ at[o][2] \in 1..MaxTries
      BY DEF DispatchInv, TypeOK
    <2>2. at[o][1] < MaxOps => at[o][1] + 1 \in 1..MaxOps
      BY <2>1
    <2>3. at[o][2] < MaxTries => at[o][2] + 1 \in 1..MaxTries
      BY <2>1
    <2>4. 1 \in 1..MaxTries /\ 1 \in 1..MaxOps
      OBVIOUS
    <2> QED BY <2>1, <2>2, <2>3, <2>4
  <1>1. TypeOK'
    <2>1. at' \in [Owners -> (1..MaxOps) \X (1..MaxTries)]
      BY <1>0 DEF DispatchInv, TypeOK
    <2>2. pc' \in [Owners -> Steps]
      BY DEF DispatchInv, TypeOK, Steps, Ended
    <2> QED BY <2>1, <2>2 DEF DispatchInv, TypeOK
  <1>2. RecordsHaveOwners'
    BY <1>0 DEF DispatchInv, TypeOK, RecordsHaveOwners, AttemptInv,
        RequestsAreFenced, Open, Recorded, Record, This, Calls, Ended,
        FenceFailure
  <1>3. CheckStillHolds'
    BY <1>0 DEF DispatchInv, TypeOK, CheckStillHolds, RecordsHaveOwners,
        AttemptInv, RequestsAreFenced, Open, Recorded, Record, Owns, This,
        Calls, Ended, FenceFailure, Settlements
  <1>4. AttemptInv'
    <2>1. pc'[o] \in {"ready", "finish", "release", "end"}
      BY DEF DispatchInv, TypeOK
    <2>2. \A p \in Owners \ {o} : pc'[p] = pc[p] /\ at'[p] = at[p]
      BY <1>0 DEF DispatchInv, TypeOK
    <2>3. on[o] # None /\ offer[o] # None
      BY DEF DispatchInv, AttemptInv
    <2> QED BY <2>1, <2>2, <2>3 DEF DispatchInv, AttemptInv, Recorded, This
  <1>5. OneOpenFence'
    BY <1>0 DEF DispatchInv, TypeOK, OneOpenFence, CheckStillHolds,
        RecordsHaveOwners, AttemptInv, RequestsAreFenced, Open, Recorded,
        Record, Owns, This, Calls, Settlements, Ended
  <1>6. RequestsAreFenced'
    BY <1>0 DEF DispatchInv, TypeOK, RequestsAreFenced, RecordsHaveOwners,
        AttemptInv, Open, Recorded, Record, This, Calls, Ended, FenceFailure,
        Settlements
  <1> QED BY <1>1, <1>2, <1>3, <1>4, <1>5, <1>6 DEF DispatchInv

\* Ending a phase touches no record.
LEMMA EndPhaseKeeps ==
  ASSUME DispatchInv, NEW o \in Owners, EndPhase(o)
  PROVE  DispatchInv'
  <1> USE ConstantsAssumption, NoneAssumption
      DEF EndPhase, Owns, Goto, itemVars, counterVars, worldVars, workVars
  <1>1. TypeOK'
    BY DEF DispatchInv, TypeOK, AttemptInv, Steps, Ended, FenceFailure
  <1>2. RecordsHaveOwners'
    BY DEF DispatchInv, TypeOK, RecordsHaveOwners, AttemptInv,
        RequestsAreFenced, Open, Recorded, Record, This, Calls, Ended,
        FenceFailure
  <1>3. CheckStillHolds'
    BY DEF DispatchInv, TypeOK, CheckStillHolds, RecordsHaveOwners, AttemptInv,
        RequestsAreFenced, Open, Recorded, Record, Owns, This, Calls, Ended,
        FenceFailure, Settlements
  <1>4. AttemptInv'
    BY DEF DispatchInv, TypeOK, AttemptInv, RequestsAreFenced, Open, Recorded,
        Record, This, Calls, Ended, FenceFailure, Reply, Settlements
  <1>5. OneOpenFence'
    BY DEF DispatchInv, TypeOK, OneOpenFence, CheckStillHolds,
        RecordsHaveOwners, AttemptInv, RequestsAreFenced, Open, Recorded,
        Record, Owns, This, Calls, Settlements, Ended
  <1>6. RequestsAreFenced'
    BY DEF DispatchInv, TypeOK, RequestsAreFenced, RecordsHaveOwners,
        AttemptInv, Open, Recorded, Record, This, Calls, Ended, FenceFailure,
        Settlements
  <1> QED BY <1>1, <1>2, <1>3, <1>4, <1>5, <1>6 DEF DispatchInv

\* Releasing a claim touches no record.
LEMMA ReleaseClaimKeeps ==
  ASSUME DispatchInv, NEW o \in Owners, ReleaseClaim(o)
  PROVE  DispatchInv'
  <1> USE ConstantsAssumption, NoneAssumption
      DEF ReleaseClaim, Owns, Goto, itemVars, counterVars, worldVars, workVars
  <1>1. TypeOK'
    BY DEF DispatchInv, TypeOK, AttemptInv, Steps, Ended, FenceFailure
  <1>2. RecordsHaveOwners'
    BY DEF DispatchInv, TypeOK, RecordsHaveOwners, AttemptInv,
        RequestsAreFenced, Open, Recorded, Record, This, Calls, Ended,
        FenceFailure
  <1>3. CheckStillHolds'
    BY DEF DispatchInv, TypeOK, CheckStillHolds, RecordsHaveOwners, AttemptInv,
        RequestsAreFenced, Open, Recorded, Record, Owns, This, Calls, Ended,
        FenceFailure, Settlements
  <1>4. AttemptInv'
    BY DEF DispatchInv, TypeOK, AttemptInv, RequestsAreFenced, Open, Recorded,
        Record, This, Calls, Ended, FenceFailure, Reply, Settlements
  <1>5. OneOpenFence'
    BY DEF DispatchInv, TypeOK, OneOpenFence, CheckStillHolds,
        RecordsHaveOwners, AttemptInv, RequestsAreFenced, Open, Recorded,
        Record, Owns, This, Calls, Settlements, Ended
  <1>6. RequestsAreFenced'
    BY DEF DispatchInv, TypeOK, RequestsAreFenced, RecordsHaveOwners,
        AttemptInv, Open, Recorded, Record, This, Calls, Ended, FenceFailure,
        Settlements
  <1> QED BY <1>1, <1>2, <1>3, <1>4, <1>5, <1>6 DEF DispatchInv

\* A crash leaves the ledger as it is.
LEMMA CrashKeeps ==
  ASSUME DispatchInv, NEW o \in Owners, Crash(o)
  PROVE  DispatchInv'
  <1> USE ConstantsAssumption, NoneAssumption
      DEF Crash, Goto, itemVars, counterVars, worldVars, workVars
  <1>1. TypeOK'
    BY DEF DispatchInv, TypeOK, AttemptInv, Steps, Ended, FenceFailure
  <1>2. RecordsHaveOwners'
    BY DEF DispatchInv, TypeOK, RecordsHaveOwners, AttemptInv,
        RequestsAreFenced, Open, Recorded, Record, This, Calls, Ended,
        FenceFailure
  <1>3. CheckStillHolds'
    BY DEF DispatchInv, TypeOK, CheckStillHolds, RecordsHaveOwners, AttemptInv,
        RequestsAreFenced, Open, Recorded, Record, Owns, This, Calls, Ended,
        FenceFailure, Settlements
  <1>4. AttemptInv'
    BY DEF DispatchInv, TypeOK, AttemptInv, RequestsAreFenced, Open, Recorded,
        Record, This, Calls, Ended, FenceFailure, Reply, Settlements
  <1>5. OneOpenFence'
    BY DEF DispatchInv, TypeOK, OneOpenFence, CheckStillHolds,
        RecordsHaveOwners, AttemptInv, RequestsAreFenced, Open, Recorded,
        Record, Owns, This, Calls, Settlements, Ended
  <1>6. RequestsAreFenced'
    BY DEF DispatchInv, TypeOK, RequestsAreFenced, RecordsHaveOwners,
        AttemptInv, Open, Recorded, Record, This, Calls, Ended, FenceFailure,
        Settlements
  <1> QED BY <1>1, <1>2, <1>3, <1>4, <1>5, <1>6 DEF DispatchInv

-----------------------------------------------------------------------------
(* The invariant, and what follows from it. *)

\* Nothing is fenced before the first delivery.
LEMMA InitEstablishes == Init => DispatchInv
  <1> SUFFICES ASSUME Init PROVE DispatchInv
    OBVIOUS
  <1> USE ConstantsAssumption DEF Init
  <1>1. TypeOK
    BY DEF TypeOK, Steps
  <1>2. Recorded = {}
    BY DEF Recorded
  <1>3. \A i \in Items : Open(i) = {}
    BY <1>2 DEF Open
  <1>4. RecordsHaveOwners /\ CheckStillHolds /\ AttemptInv
    BY <1>2, <1>3 DEF RecordsHaveOwners, CheckStillHolds, AttemptInv
  <1>5. OneOpenFence /\ RequestsAreFenced
    BY <1>3 DEF OneOpenFence, RequestsAreFenced
  <1> QED BY <1>1, <1>4, <1>5 DEF DispatchInv

\* The invariant is about the variables alone.
LEMMA StutterKeeps == DispatchInv /\ UNCHANGED vars => DispatchInv'
  BY DEF vars, itemVars, counterVars, worldVars, workVars, DispatchInv, TypeOK,
         RecordsHaveOwners, CheckStillHolds, AttemptInv, OneOpenFence,
         RequestsAreFenced, Open, Recorded, Owns, This

\* Every step keeps the invariant.
LEMMA NextKeeps == DispatchInv /\ [Next]_vars => DispatchInv'
  BY ClaimPhaseKeeps, CheckFenceKeeps, WriteFenceKeeps, SendRequestKeeps,
     ReceiveReplyKeeps, SettleKeeps, InterruptedKeeps, NextAttemptKeeps,
     EndPhaseKeeps, ReleaseClaimKeeps, CrashKeeps, StutterKeeps
  DEF Next

\* DispatchInv, the inductive invariant of the provider ledger.
THEOREM DispatchInductive == Spec => []DispatchInv
  BY InitEstablishes, NextKeeps, PTL DEF Spec

\* An item never has two unresolved calls, however deliveries interleave
\* (begin_provider_call_dispatch).
THEOREM OneFenceAtATime == Spec => []OneOpenFence
  <1>1. DispatchInv => OneOpenFence
    BY DEF DispatchInv
  <1> QED BY <1>1, DispatchInductive, PTL

\* Every HTTP request has its own fence, leaves once and stays in the ledger
\* (_post, the sinks of bind_provider_call_accounting).
THEOREM NoUnfencedRequest == Spec => []RequestsAreFenced
  <1>1. DispatchInv => RequestsAreFenced
    BY DEF DispatchInv
  <1> QED BY <1>1, DispatchInductive, PTL

\* A record that exists stays, and a settled one never changes
\* (record_provider_call).
THEOREM SettledOnce == Spec => SettlementIsFinal
  <1> DEFINE Final1 == \A c \in Recorded :
                         /\ call'[c] # None
                         /\ call[c].state # "dispatching" => call'[c] = call[c]
  <1>1. ASSUME DispatchInv, NEW o \in Owners, WriteFence(o) PROVE Final1
    <2>1. CASE UNCHANGED call
      BY <2>1 DEF Recorded
    <2>2. CASE call[This(o)] = None
      <3>1. \A c \in Recorded : call'[c] = call[c]
        BY <1>1, <2>2 DEF WriteFence, Recorded, DispatchInv, TypeOK
      <3> QED BY <3>1 DEF Recorded
    <2> QED BY <1>1, <2>1, <2>2 DEF WriteFence, FenceCondition
  <1>2. ASSUME DispatchInv, NEW o \in Owners, Settle(o) PROVE Final1
    <2>1. CASE UNCHANGED call
      BY <2>1 DEF Recorded
    <2>2. CASE /\ call[This(o)].state = "dispatching"
               /\ call' = [call EXCEPT ![This(o)] = Final(o)]
      <3>1. call[This(o)] \in Record /\ reply[o] \in Reply
        BY <1>2 DEF Settle, DispatchInv, TypeOK, AttemptInv, Recorded
      <3>2. Final(o) # None
        BY <3>1, NoneAssumption DEF Final, Record, Reply, Settlements
      <3>3. \A c \in Recorded :
              (c = This(o) /\ call'[c] = Final(o)) \/ call'[c] = call[c]
        BY <1>2, <2>2 DEF Recorded, DispatchInv, TypeOK
      <3> QED BY <2>2, <3>2, <3>3 DEF Recorded
    <2> QED BY <1>2, <2>1, <2>2 DEF Settle
  <1>3. ASSUME NEW o \in Owners,
               ClaimPhase(o) \/ CheckFence(o) \/ SendRequest(o)
                 \/ ReceiveReply(o) \/ Interrupted(o) \/ NextAttempt(o)
                 \/ EndPhase(o) \/ ReleaseClaim(o) \/ Crash(o)
        PROVE  Final1
    <2>1. UNCHANGED call
      BY <1>3 DEF ClaimPhase, CheckFence, SendRequest, ReceiveReply,
                  Interrupted, NextAttempt, EndPhase, ReleaseClaim, Crash
    <2> QED BY <2>1 DEF Recorded
  <1>4. DispatchInv /\ [Next]_vars => [Final1]_vars
    BY <1>1, <1>2, <1>3 DEF Next
  <1> QED BY <1>4, DispatchInductive, PTL DEF Spec, SettlementIsFinal

\* An item with an open fence of a delivery that ended is bought no more
\* (begin_provider_call_dispatch refuses an unresolved dispatch).
THEOREM NothingBoughtAfterUnknown == Spec => UnknownStopsPurchases
  <1> DEFINE Stops == \A i \in Items :
                        (\E c \in Open(i) : pc[c[1]] \in Ended)
                          => \A c \in Calls :
                               posts'[c] # posts[c] => on[c[1]] # i
  <1>1. ASSUME DispatchInv, NEW o \in Owners, SendRequest(o) PROVE Stops
    <2> SUFFICES ASSUME NEW i \in Items, NEW c \in Open(i), pc[c[1]] \in Ended,
                        NEW d \in Calls, posts'[d] # posts[d], on[d[1]] = i
                 PROVE  FALSE
      OBVIOUS
    <2>1. d = This(o) /\ This(o) \in Calls
      BY <1>1 DEF SendRequest, DispatchInv, TypeOK, This, Calls
    <2>2. on[o] = i
      BY <2>1 DEF This
    <2>3. This(o) \in Open(i) /\ pc[o] = "post"
      BY <1>1, <2>2 DEF SendRequest, DispatchInv, RequestsAreFenced
    <2>4. c = This(o)
      BY <1>1, <2>3 DEF DispatchInv, OneOpenFence
    <2> QED BY <2>3, <2>4 DEF This, Ended
  <1>2. ASSUME NEW o \in Owners,
               ClaimPhase(o) \/ CheckFence(o) \/ WriteFence(o)
                 \/ ReceiveReply(o) \/ Settle(o) \/ Interrupted(o)
                 \/ NextAttempt(o) \/ EndPhase(o) \/ ReleaseClaim(o) \/ Crash(o)
        PROVE  Stops
    <2>1. UNCHANGED posts
      BY <1>2 DEF ClaimPhase, CheckFence, WriteFence, ReceiveReply, Settle,
                  Interrupted, NextAttempt, EndPhase, ReleaseClaim, Crash,
                  worldVars
    <2> QED BY <2>1
  <1>3. DispatchInv /\ [Next]_vars => [Stops]_vars
    BY <1>1, <1>2 DEF Next
  <1> QED BY <1>3, DispatchInductive, PTL DEF Spec, UnknownStopsPurchases

\* Every variable keeps its type.
THEOREM LedgerTypes == Spec => []TypeOK
  <1>1. DispatchInv => TypeOK
    BY DEF DispatchInv
  <1> QED BY <1>1, DispatchInductive, PTL

-----------------------------------------------------------------------------
(* The grant counter.  PricesInv says of each call what the provider may    *)
(* have billed for it; with it, no step makes the bill outgrow the counter. *)

\* A call is billed within its reservation, at the price the ledger names,
\* and not before it is sent.
PricesInv ==
  /\ \A c \in Recorded :
       /\ bill[c] <= call[c].reserve /\ call[c].cost \in {None, bill[c]}
       /\ call[c].state = "dispatching" => call[c].cost = None
  /\ \A c \in Calls : c \notin Recorded \/ posts[c] = 0 => bill[c] = 0
  /\ \A o \in Owners : pc[o] = "settle" => reply[o].cost \in {None, bill[This(o)]}

GrantInv == DispatchInv /\ PricesInv /\ CounterMatchesLedger

Known   == [c \in Settled |-> call[c].cost]
Pending == [c \in Recorded \ Settled |-> call[c].reserve]

AbstractStep == [Grant!Next]_(Grant!vars)

LEMMA CallsAreFinite == IsFiniteSet(Calls)
  <1> DEFINE Pairs == Owners \X (1 .. MaxOps)
             f == [c \in Calls |-> <<<<c[1], c[2]>>, c[3]>>]
  <1>1. IsFiniteSet(1 .. MaxOps) /\ IsFiniteSet(1 .. MaxTries)
    BY ConstantsAssumption, FS_Interval
  <1>2. IsFiniteSet(Pairs)
    BY <1>1, ConstantsAssumption, FS_Product
  <1>3. IsFiniteSet(Pairs \X (1 .. MaxTries))
    BY <1>1, <1>2, FS_Product
  <1>4. f \in Injection(Calls, Pairs \X (1 .. MaxTries))
    BY DEF Calls, Injection, IsInjective
  <1> HIDE DEF f, Pairs
  <1> QED BY <1>3, <1>4, FS_Injection

\* The two sums of the counter are sums of numbers, over finitely many calls.
LEMMA TermsAreNumbers ==
  ASSUME TypeOK
  PROVE  /\ IsFiniteSet(Recorded) /\ IsFiniteSet(Settled) /\ IsFiniteSet(Recorded \ Settled)
         /\ Known \in [Settled -> Nat] /\ Pending \in [Recorded \ Settled -> Nat]
         /\ bill \in [Calls -> Nat]
  <1>1. Settled \in SUBSET Calls /\ Recorded \in SUBSET Calls /\ Recorded \ Settled \in SUBSET Calls
    BY DEF Settled, Recorded
  <1>2. \A c \in Recorded : call[c] \in Record
    BY DEF TypeOK, Recorded
  <1>3. \A c \in Settled : call[c].cost \in Nat
    BY <1>2 DEF Settled, Record
  <1>4. \A c \in Recorded : call[c].reserve \in Nat
    BY <1>2, ConstantsAssumption DEF Record
  <1> QED BY <1>1, <1>3, <1>4, CallsAreFinite, FS_Subset DEF Known, Pending, TypeOK

\* What was billed is at most what the counter holds.
LEMMA BillIsCovered ==
  ASSUME GrantInv
  PROVE  SumFunction(bill) \in Nat /\ charged \in Nat /\ SumFunction(bill) <= charged
  <1> DEFINE known == [c \in Settled |-> call[c].cost]
             pending == [c \in Recorded \ Settled |-> call[c].reserve]
             held == [c \in Calls |-> IF c \in Settled THEN call[c].cost
                                      ELSE IF c \in Recorded THEN call[c].reserve ELSE 0]
             rest == [c \in Calls \ Settled |-> held[c]]
             none == [c \in (Calls \ Settled) \ (Recorded \ Settled) |-> rest[c]]
  <1>1. /\ TypeOK /\ IsFiniteSet(Calls) /\ Recorded \in SUBSET Calls /\ Settled \in SUBSET Recorded
        /\ IsFiniteSet(Calls \ Settled)
        /\ Recorded \ Settled \in SUBSET (Calls \ Settled)
    BY CallsAreFinite, FS_Subset DEF GrantInv, DispatchInv, Recorded, Settled
  <1>2. /\ \A c \in Settled : call[c].cost \in Nat /\ bill[c] = call[c].cost
        /\ \A c \in Recorded : call[c].reserve \in Nat /\ bill[c] <= call[c].reserve
        /\ \A c \in Calls \ Recorded : bill[c] = 0
        /\ bill \in [Calls -> Nat]
    BY <1>1, TermsAreNumbers, ConstantsAssumption
    DEF GrantInv, PricesInv, Settled, Known, Recorded, TypeOK, Record
  <1>3. held \in [Calls -> Nat] /\ \A c \in Calls : bill[c] <= held[c]
    BY <1>1, <1>2
  <1>4. rest \in [Calls \ Settled -> Nat]
    BY <1>3
  <1>5. known = [c \in Settled |-> held[c]]
    BY <1>1
  <1>6. pending = [c \in Recorded \ Settled |-> rest[c]]
    BY <1>1
  <1>7. /\ none \in [(Calls \ Settled) \ (Recorded \ Settled) -> Nat]
        /\ \A c \in (Calls \ Settled) \ (Recorded \ Settled) : none[c] = 0
        /\ IsFiniteSet((Calls \ Settled) \ (Recorded \ Settled))
    BY <1>1, <1>4, FS_Subset
  <1> HIDE DEF known, pending, held
  <1>8. SumFunction(held) = SumFunction(known) + SumFunction(rest)
    <2>1. SumFunction(held) = SumFunction([c \in Settled |-> held[c]])
                                + SumFunction([c \in Calls \ Settled |-> held[c]])
      BY <1>1, <1>3, SumsAdd
    <2> QED BY <1>5, <2>1
  <1> HIDE DEF rest
  <1>9. SumFunction(rest) = SumFunction(pending) + SumFunction(none)
    <2>1. SumFunction(rest) =
            SumFunction([c \in Recorded \ Settled |-> rest[c]])
              + SumFunction([c \in (Calls \ Settled) \ (Recorded \ Settled) |-> rest[c]])
      BY <1>1, <1>4, SumsAdd
    <2> QED BY <1>6, <2>1
  <1> HIDE DEF none
  <1>10. SumFunction(none) = 0
    BY <1>7, SumOfZeros
  <1>11. SumFunction(bill) <= SumFunction(held)
    BY <1>1, <1>2, <1>3, SumIsMonotone
  <1>12. SumFunction(bill) \in Nat /\ SumFunction(known) \in Nat /\ SumFunction(pending) \in Nat
    BY <1>1, <1>2, TermsAreNumbers, SumIsNat DEF known, pending, Known, Pending
  <1>13. charged = SumFunction(known) + SumFunction(pending)
    BY DEF GrantInv, CounterMatchesLedger, known, pending
  <1> QED BY <1>8, <1>9, <1>10, <1>11, <1>12, <1>13

LEMMA CoveredIs == GrantInv => SumFunction(bill) <= charged
  BY BillIsCovered

\* A step that leaves records, counter and bill alone and brings no reply
\* with a price of its own.
LEMMA QuietStep ==
  ASSUME GrantInv, DispatchInv', NEW o \in Owners, NEW s, Goto(o, s),
         UNCHANGED <<call, counterVars, worldVars>>,
         \A p \in Owners \ {o} : at'[p] = at[p] /\ reply'[p] = reply[p],
         s = "settle" => at'[o] = at[o] /\ reply'[o].cost \in {None, bill[This(o)]}
  PROVE  GrantInv' /\ AbstractStep
  <1> USE DEF counterVars, worldVars
  <1>1. PricesInv'
    <2>1. \A p \in Owners : pc'[p] = IF p = o THEN s ELSE pc[p]
      BY DEF Goto, GrantInv, DispatchInv, TypeOK
    <2>2. ASSUME NEW p \in Owners, pc'[p] = "settle"
          PROVE  reply'[p].cost \in {None, bill'[This(p)']}
      BY <2>1, <2>2 DEF GrantInv, PricesInv, This
    <2> QED BY <2>2 DEF GrantInv, PricesInv, Recorded
  <1>2. CounterMatchesLedger'
    BY DEF GrantInv, CounterMatchesLedger, Settled, Recorded
  <1> QED BY <1>1, <1>2 DEF GrantInv, AbstractStep, Grant!vars

LEMMA QuietSteps ==
  ASSUME GrantInv, DispatchInv', NEW o \in Owners,
         \/ ClaimPhase(o) \/ CheckFence(o) \/ ReceiveReply(o) \/ Interrupted(o)
         \/ NextAttempt(o) \/ EndPhase(o) \/ ReleaseClaim(o) \/ Crash(o)
  PROVE  GrantInv' /\ AbstractStep
  <1>a. UNCHANGED <<call, counterVars, worldVars>>
    BY DEF ClaimPhase, CheckFence, ReceiveReply, Interrupted, NextAttempt, EndPhase,
           ReleaseClaim, Crash
  <1>1. CASE \/ ClaimPhase(o) \/ CheckFence(o) \/ NextAttempt(o) \/ EndPhase(o)
             \/ ReleaseClaim(o) \/ Crash(o)
    <2>1. PICK s \in {"ready", "end", "fence", "release", "finish", "done", "failed", "crashed"} :
            Goto(o, s)
      BY <1>1 DEF ClaimPhase, CheckFence, NextAttempt, EndPhase, ReleaseClaim, Crash,
                  FenceFailure
    <2>2. \A p \in Owners \ {o} : at'[p] = at[p] /\ reply'[p] = reply[p]
      BY <1>1 DEF ClaimPhase, CheckFence, NextAttempt, EndPhase, ReleaseClaim, Crash,
                  workVars, GrantInv, DispatchInv, TypeOK
    <2> QED BY <1>a, <2>1, <2>2, QuietStep
  <1>2. CASE ReceiveReply(o) \/ Interrupted(o)
    <2>1. Goto(o, "settle") /\ at' = at
      BY <1>2 DEF ReceiveReply, Interrupted
    <2>2. PICK k \in {None, bill[This(o)]}, s \in Settlements :
            reply' = [reply EXCEPT ![o] = [state |-> s, cost |-> k]]
      <3>1. CASE ReceiveReply(o)
        BY <3>1 DEF ReceiveReply, Settlements
      <3>2. CASE Interrupted(o)
        BY <3>2 DEF Interrupted, Settlements
      <3> QED BY <1>2, <3>1, <3>2
    <2>3. reply'[o].cost = k /\ \A p \in Owners \ {o} : reply'[p] = reply[p]
      BY <2>2 DEF GrantInv, DispatchInv, TypeOK
    <2> QED BY <1>a, <2>1, <2>2, <2>3, QuietStep
  <1> QED BY <1>1, <1>2

\* A fence reserves what its record says, within the allocation.
LEMMA FenceReserves ==
  ASSUME GrantInv, DispatchInv', NEW o \in Owners, WriteFence(o)
  PROVE  GrantInv' /\ AbstractStep
  <1> DEFINE c == This(o)
  <1>0. /\ c \in Calls /\ offer[o] \in Allocations /\ TypeOK /\ TypeOK'
        /\ UNCHANGED <<settled, bill, posts, at, reply>>
    BY DEF WriteFence, GrantInv, DispatchInv, TypeOK, AttemptInv, This, Calls, worldVars,
           workVars
  <1>a. PICK s \in {"post", "release", "end"} : Goto(o, s)
    BY DEF WriteFence, FenceFailure
  <1>1. CASE UNCHANGED <<call, policy, charged, reserved>>
    BY <1>0, <1>1, <1>a, QuietStep DEF counterVars, worldVars
  <1>2. CASE ~ UNCHANGED <<call, policy, charged, reserved>>
    <2>1. PICK r \in Reserves :
            /\ FenceCondition(o, r)
            /\ call' = [call EXCEPT ![c] = [state |-> "dispatching", item |-> on[o],
                                            reserve |-> r, cost |-> None]]
            /\ policy' = offer[o]
            /\ charged' = charged + r /\ reserved' = reserved + r
      BY <1>2 DEF WriteFence
    <2> DEFINE f == [state |-> "dispatching", item |-> on[o], reserve |-> r, cost |-> None]
    <2>2. /\ f.cost = None /\ f.reserve = r /\ f.state = "dispatching"
          /\ call[c] = None /\ r \in Nat
      BY <2>1, ConstantsAssumption DEF FenceCondition
    <2>3. call'[c] = f /\ \A d \in Calls \ {c} : call'[d] = call[d]
      BY <1>0, <2>1 DEF TypeOK
    <2> HIDE DEF c, f
    <2>4. call'[c] # None
      <3>1. call'[c].reserve = r /\ on[o] \in Items
        BY <2>2, <2>3 DEF WriteFence, GrantInv, DispatchInv, AttemptInv, TypeOK
      <3>2. f \in Record
        BY <1>0, <3>1, <2>1 DEF f, Record, WriteFence, GrantInv, DispatchInv, AttemptInv, TypeOK
      <3> QED BY <2>3, <3>2, NoneAssumption
    <2>5. Recorded' = Recorded \cup {c} /\ c \notin Recorded
      BY <1>0, <2>2, <2>3, <2>4 DEF Recorded
    <2>6. Settled' = Settled /\ c \notin Settled
      BY <2>2, <2>3, <2>5 DEF Settled, Recorded
    <2>7. Known' = Known
      BY <2>3, <2>6 DEF Known, Settled, Recorded
    <2>8. /\ Recorded' \ Settled' = (Recorded \ Settled) \cup {c}
          /\ Pending'[c] = r
          /\ Pending = [d \in (Recorded' \ Settled') \ {c} |-> Pending'[d]]
      BY <2>2, <2>3, <2>5, <2>6 DEF Pending, Recorded
    <2>9. SumFunction(Pending') = r + SumFunction(Pending)
      <3>1. IsFiniteSet(Recorded' \ Settled') /\ Pending' \in [Recorded' \ Settled' -> Nat]
        <4>1. IsFiniteSet(Recorded \ Settled) /\ Pending \in [Recorded \ Settled -> Nat]
          BY <1>0, TermsAreNumbers
        <4>2. IsFiniteSet((Recorded \ Settled) \cup {c})
          BY <4>1, FS_AddElement
        <4>3. \A d \in Recorded' \ Settled' : call'[d].reserve \in Nat
          BY <1>0, ConstantsAssumption DEF TypeOK, Recorded, Record
        <4> QED BY <2>8, <4>2, <4>3 DEF Pending
      <3> DEFINE h == Pending'
                 A == Recorded' \ Settled'
      <3> HIDE DEF h, A
      <3>2. SumFunction(h) = h[c] + SumFunction([d \in A \ {c} |-> h[d]])
        <4>1. c \in A /\ IsFiniteSet(A) /\ h \in [A -> Nat]
          BY <2>8, <3>1 DEF h, A
        <4> QED BY <4>1, SumSplits
      <3> QED BY <2>8, <3>2 DEF h, A
    <2>10. /\ settled = SumFunction(Known) /\ reserved = SumFunction(Pending)
           /\ charged = settled + reserved
      BY DEF GrantInv, CounterMatchesLedger, Known, Pending
    <2>11. CounterMatchesLedger'
      <3>1. settled' = SumFunction(Known')
        BY <1>0, <2>7, <2>10
      <3>2. reserved' = SumFunction(Pending')
        BY <1>0, <2>1, <2>2, <2>9, <2>10 DEF TypeOK
      <3>3. charged' = settled' + reserved'
        BY <1>0, <2>1, <2>2, <2>10 DEF TypeOK
      <3> QED BY <3>1, <3>2, <3>3 DEF CounterMatchesLedger, Known, Pending
    <2>12. PricesInv'
      <3>1. bill[c] = 0
        BY <1>0, <2>5 DEF GrantInv, PricesInv
      <3>2. ASSUME NEW d \in Recorded'
            PROVE  /\ bill'[d] <= call'[d].reserve /\ call'[d].cost \in {None, bill'[d]}
                   /\ call'[d].state = "dispatching" => call'[d].cost = None
        <4>1. CASE d = c
          BY <1>0, <2>2, <2>3, <3>1, <4>1
        <4>2. CASE d # c
          BY <1>0, <2>3, <2>5, <4>2 DEF GrantInv, PricesInv, Recorded
        <4> QED BY <4>1, <4>2
      <3>3. \A p \in Owners : pc'[p] = "settle" => pc[p] = "settle"
        BY <1>a DEF Goto, GrantInv, DispatchInv, TypeOK
      <3> QED BY <1>0, <2>5, <3>2, <3>3 DEF GrantInv, PricesInv, This
    <2>13. Grant!Authorise
      <3>1. policy \in {None, offer[o]} /\ charged + r <= offer[o]
        BY <1>0, <2>1, <2>2, ConstantsAssumption DEF FenceCondition, CanReserve, TypeOK
      <3>2. charged' \in charged .. policy'
        BY <1>0, <2>1, <2>2, <3>1, ConstantsAssumption DEF TypeOK
      <3> QED BY <1>0, <2>1, <3>1, <3>2 DEF Grant!Authorise
    <2> QED BY <2>11, <2>12, <2>13 DEF GrantInv, AbstractStep, Grant!Next
  <1> QED BY <1>1, <1>2

\* The provider bills within the fence's reservation, once.
LEMMA RequestIsBilled ==
  ASSUME GrantInv, DispatchInv', NEW o \in Owners, SendRequest(o)
  PROVE  GrantInv' /\ AbstractStep
  <1> DEFINE c == This(o)
  <1>0. /\ c \in Calls /\ TypeOK /\ TypeOK' /\ pc[o] = "post" /\ Goto(o, "http")
        /\ UNCHANGED <<call, policy, charged, reserved, settled, at, reply>>
    BY DEF SendRequest, GrantInv, DispatchInv, TypeOK, This, Calls, counterVars, workVars
  <1>1. PICK b \in 0 .. call[c].reserve : bill' = [bill EXCEPT ![c] = b]
    BY DEF SendRequest
  <1>2. c \in Open(on[o]) /\ posts[c] = 0
    BY <1>0 DEF GrantInv, DispatchInv, RequestsAreFenced, AttemptInv
  <1>3. /\ c \in Recorded /\ call[c].state = "dispatching" /\ call[c].cost = None
        /\ bill[c] = 0 /\ call[c].reserve \in Nat /\ b \in Nat
    BY <1>0, <1>1, <1>2, ConstantsAssumption
    DEF Open, GrantInv, PricesInv, Recorded, TypeOK, Record
  <1>4. bill'[c] = b /\ \A d \in Calls \ {c} : bill'[d] = bill[d]
    BY <1>0, <1>1 DEF TypeOK
  <1>5. posts' = [posts EXCEPT ![c] = posts[c] + 1]
    BY DEF SendRequest
  <1> HIDE DEF c
  <1>6. CounterMatchesLedger'
    BY <1>0 DEF GrantInv, CounterMatchesLedger, Settled, Recorded
  <1>7. PricesInv'
    <2>1. ASSUME NEW d \in Recorded
          PROVE  bill'[d] <= call[d].reserve /\ call[d].cost \in {None, bill'[d]}
      <3>1. CASE d = c
        BY <1>1, <1>3, <1>4, <3>1
      <3>2. CASE d # c
        BY <1>4, <3>2 DEF GrantInv, PricesInv, Recorded
      <3> QED BY <3>1, <3>2
    <2>2. ASSUME NEW d \in Calls, d \notin Recorded \/ posts'[d] = 0
          PROVE  bill'[d] = 0
      <3>1. d # c
        BY <1>0, <1>2, <1>3, <1>5, <2>2 DEF TypeOK
      <3>2. posts'[d] = posts[d]
        BY <1>0, <1>5, <3>1 DEF TypeOK
      <3> QED BY <1>4, <2>2, <3>1, <3>2 DEF GrantInv, PricesInv
    <2>3. ASSUME NEW p \in Owners, pc'[p] = "settle"
          PROVE  reply'[p].cost \in {None, bill'[This(p)']}
      <3>1. p # o /\ pc[p] = "settle"
        BY <1>0, <2>3 DEF Goto, TypeOK
      <3>2. This(p) \in Calls \ {c} /\ This(p)' = This(p)
        BY <1>0, <3>1 DEF This, c, Calls, TypeOK
      <3> QED BY <1>0, <1>4, <3>1, <3>2 DEF GrantInv, PricesInv
    <2> QED BY <1>0, <2>1, <2>2, <2>3 DEF GrantInv, PricesInv, Recorded
  <1>8. GrantInv'
    BY <1>6, <1>7 DEF GrantInv
  <1>9. SumFunction(bill') >= SumFunction(bill)
    <2>1. \A d \in Calls : bill[d] <= bill'[d]
      BY <1>0, <1>3, <1>4 DEF TypeOK
    <2> QED BY <1>0, <2>1, CallsAreFinite, SumIsMonotone, SumIsNat DEF TypeOK
  <1>10. /\ SumFunction(bill) \in Nat
         /\ SumFunction(bill') \in Nat /\ charged' \in Nat /\ SumFunction(bill') <= charged'
    <2>1. IsFiniteSet(Calls) /\ bill \in [Calls -> Nat] /\ bill' \in [Calls -> Nat]
      BY <1>0, CallsAreFinite DEF TypeOK
    <2>2. (SumFunction(bill) <= charged)'
      BY <1>8, CoveredIs, PTL
    <2> QED BY <1>0, <2>1, <2>2, SumIsNat DEF TypeOK
  <1>11. Grant!Incur
    BY <1>0, <1>9, <1>10 DEF Grant!Incur
  <1> QED BY <1>8, <1>11 DEF AbstractStep, Grant!Next

\* A settlement moves the call from the reservations to the known prices, and
\* what it gives back was never billed.
LEMMA SettlementRefunds ==
  ASSUME GrantInv, DispatchInv', NEW o \in Owners, Settle(o)
  PROVE  GrantInv' /\ AbstractStep
  <1> DEFINE c == This(o)
  <1>0. /\ pc[o] = "settle" /\ c \in Recorded /\ call[c] \in Record /\ reply[o] \in Reply
        /\ TypeOK /\ TypeOK' /\ c \in Calls
        /\ UNCHANGED <<bill, posts, at, reply>>
    BY DEF Settle, GrantInv, DispatchInv, AttemptInv, TypeOK, Recorded, worldVars, workVars
  <1>a. PICK s \in {"settled", "end"} : Goto(o, s)
    BY DEF Settle
  <1>1. CASE UNCHANGED <<call, counterVars>>
    BY <1>0, <1>1, <1>a, QuietStep DEF worldVars
  <1>2. CASE /\ call[c].state = "dispatching" /\ CanRefund(o)
             /\ call' = [call EXCEPT ![c] = Final(o)]
             /\ RefundUnused(o)
    <2> DEFINE f == Final(o)
               k == reply[o].cost
               r == call[c].reserve
    <2>1. /\ f \in Record /\ f.cost = k /\ f.reserve = r /\ f.state # "dispatching"
          /\ k \in Nat \cup {None} /\ r \in Nat
      BY <1>0, ConstantsAssumption DEF Final, Record, Reply, Settlements
    <2>2. f # None
      BY <2>1, NoneAssumption
    <2>3. call[c].cost = None /\ k \in {None, bill[c]} /\ bill[c] <= r
      BY <1>0, <1>2 DEF GrantInv, PricesInv
    <2>u. k # None => /\ charged' = charged + k - r /\ reserved' = reserved - r
                      /\ settled' = settled + k /\ policy' = policy
      BY <1>2 DEF RefundUnused
    <2>v. k = None => UNCHANGED counterVars
      BY <1>2 DEF RefundUnused
    <2>4. call'[c] = f /\ \A d \in Calls \ {c} : call'[d] = call[d]
      BY <1>0, <1>2 DEF TypeOK
    <2> HIDE DEF c, f, k, r
    <2>5. Recorded' = Recorded
      BY <1>0, <2>2, <2>4 DEF Recorded
    <2>6. c \notin Settled /\ Settled' = IF k = None THEN Settled ELSE Settled \cup {c}
      BY <1>0, <2>1, <2>3, <2>4, <2>5 DEF Settled, Recorded
    <2>7. /\ \A d \in Settled : call'[d].cost = call[d].cost
          /\ \A d \in Recorded : call'[d].reserve = call[d].reserve
      BY <2>1, <2>4, <2>6 DEF Settled, Recorded, r
    <2>8. PricesInv'
      <3>1. ASSUME NEW d \in Recorded
            PROVE  /\ bill[d] <= call'[d].reserve /\ call'[d].cost \in {None, bill[d]}
                   /\ call'[d].state = "dispatching" => call'[d].cost = None
        <4>1. CASE d = c
          BY <2>1, <2>3, <2>4, <4>1
        <4>2. CASE d # c
          BY <2>4, <4>2 DEF GrantInv, PricesInv, Recorded
        <4> QED BY <4>1, <4>2
      <3>2. \A p \in Owners : pc'[p] = "settle" => pc[p] = "settle"
        BY <1>0, <1>a DEF Goto, TypeOK
      <3> QED BY <1>0, <2>5, <3>1, <3>2 DEF GrantInv, PricesInv, This
    <2>9. /\ settled = SumFunction(Known) /\ reserved = SumFunction(Pending)
          /\ charged = settled + reserved
          /\ settled \in Nat /\ reserved \in Nat /\ charged \in Nat
      BY <1>0 DEF GrantInv, CounterMatchesLedger, Known, Pending, TypeOK
    <2>10. CASE k = None
      <3>1. UNCHANGED counterVars
        BY <2>v, <2>10
      <3>2. Known' = Known /\ Pending' = Pending
        BY <2>5, <2>6, <2>7, <2>10 DEF Known, Pending
      <3>3. CounterMatchesLedger'
        BY <2>9, <3>1, <3>2 DEF CounterMatchesLedger, Known, Pending, counterVars
      <3> QED BY <1>0, <2>8, <3>1, <3>3
              DEF GrantInv, AbstractStep, Grant!vars, counterVars
    <2>11. CASE k # None
      <3> DEFINE g == Known'
                 h == Pending
                 A == Settled'
                 B == Recorded \ Settled
      <3>1. /\ c \in A /\ g[c] = k /\ Known = [d \in A \ {c} |-> g[d]]
            /\ c \in B /\ h[c] = r /\ Pending' = [d \in B \ {c} |-> h[d]]
        BY <1>0, <2>1, <2>4, <2>5, <2>6, <2>7, <2>11 DEF Known, Pending, r
      <3>2. /\ IsFiniteSet(A) /\ g \in [A -> Nat]
            /\ IsFiniteSet(B) /\ h \in [B -> Nat]
        <4>1. /\ IsFiniteSet(Settled) /\ Known \in [Settled -> Nat]
              /\ IsFiniteSet(B) /\ h \in [B -> Nat]
          BY <1>0, TermsAreNumbers
        <4>2. IsFiniteSet(A)
          BY <2>6, <2>11, <4>1, FS_AddElement
        <4>3. \A d \in A : call'[d].cost \in Nat
          BY <1>0 DEF TypeOK, Settled, Recorded, Record
        <4> QED BY <4>1, <4>2, <4>3 DEF Known
      <3> HIDE DEF g, h, A, B
      <3>3. SumFunction(g) = g[c] + SumFunction([d \in A \ {c} |-> g[d]])
        BY <3>1, <3>2, SumSplits
      <3>4. SumFunction(h) = h[c] + SumFunction([d \in B \ {c} |-> h[d]])
        BY <3>1, <3>2, SumSplits
      <3>5. SumFunction(Known') = k + settled
        BY <2>9, <3>1, <3>3 DEF g
      <3>6. reserved = r + SumFunction(Pending')
        BY <2>9, <3>1, <3>4 DEF h
      <3>7. SumFunction([d \in B \ {c} |-> h[d]]) \in Nat
        <4>1. IsFiniteSet(B \ {c})
          BY <3>2, FS_RemoveElement
        <4>2. [d \in B \ {c} |-> h[d]] \in [B \ {c} -> Nat]
          BY <3>2
        <4> QED BY <4>1, <4>2, SumIsNat
      <3>8. k \in Nat /\ r \in Nat /\ k <= r
        BY <2>1, <2>3, <2>11
      <3>9. settled' = SumFunction(Known')
        BY <2>u, <2>9, <2>11, <3>5, <3>8
      <3>10. reserved' = SumFunction(Pending')
        BY <2>u, <2>9, <2>11, <3>1, <3>6, <3>7, <3>8
      <3>11. charged' = settled' + reserved' /\ charged' <= charged /\ charged' \in Nat
        BY <1>0, <2>u, <2>9, <2>11, <3>8 DEF TypeOK
      <3>12. CounterMatchesLedger'
        BY <3>9, <3>10, <3>11 DEF CounterMatchesLedger, Known, Pending
      <3>13. GrantInv'
        BY <2>8, <3>12 DEF GrantInv
      <3>14. (SumFunction(bill) <= charged)'
        BY <3>13, CoveredIs, PTL
      <3>15. SumFunction(bill) \in Nat
        BY BillIsCovered
      <3>16. Grant!Refund
        BY <1>0, <2>u, <2>9, <2>11, <3>11, <3>14, <3>15 DEF Grant!Refund
      <3> QED BY <3>13, <3>16 DEF AbstractStep, Grant!Next
    <2> QED BY <2>10, <2>11
  <1> QED BY <1>1, <1>2 DEF Settle

-----------------------------------------------------------------------------

LEMMA GrantInit == Init => GrantInv /\ Grant!Init
  <1> SUFFICES ASSUME Init PROVE GrantInv /\ Grant!Init
    OBVIOUS
  <1>1. DispatchInv
    BY InitEstablishes
  <1>2. Recorded = {} /\ Settled = {} /\ Recorded \ Settled = {}
    BY DEF Init, Recorded, Settled
  <1>3. PricesInv
    BY <1>2 DEF Init, PricesInv
  <1>4. SumFunction(Known) = 0 /\ SumFunction(Pending) = 0
    BY <1>1, <1>2, TermsAreNumbers, SumOfZeros DEF DispatchInv
  <1>5. CounterMatchesLedger
    BY <1>4 DEF Init, CounterMatchesLedger, Known, Pending
  <1>6. SumFunction(bill) = 0
    <2>1. bill \in [Calls -> Nat] /\ \A c \in Calls : bill[c] = 0
      BY DEF Init
    <2> QED BY <2>1, CallsAreFinite, SumOfZeros
  <1> QED BY <1>1, <1>3, <1>5, <1>6 DEF Init, GrantInv, Grant!Init

LEMMA GrantStep == GrantInv /\ [Next]_vars => GrantInv' /\ AbstractStep
  <1> SUFFICES ASSUME GrantInv, [Next]_vars PROVE GrantInv' /\ AbstractStep
    OBVIOUS
  <1>1. DispatchInv'
    BY NextKeeps DEF GrantInv
  <1>2. CASE UNCHANGED vars
    <2>1. PricesInv' /\ CounterMatchesLedger'
      BY <1>2 DEF vars, itemVars, counterVars, worldVars, workVars, GrantInv, PricesInv,
                  CounterMatchesLedger, Recorded, Settled, This
    <2> QED BY <1>1, <1>2, <2>1
            DEF vars, counterVars, worldVars, GrantInv, AbstractStep, Grant!vars
  <1>3. CASE \E o \in Owners : WriteFence(o) \/ SendRequest(o) \/ Settle(o)
    BY <1>1, <1>3, FenceReserves, RequestIsBilled, SettlementRefunds
  <1>4. CASE \E o \in Owners :
               \/ ClaimPhase(o) \/ CheckFence(o) \/ ReceiveReply(o) \/ Interrupted(o)
               \/ NextAttempt(o) \/ EndPhase(o) \/ ReleaseClaim(o) \/ Crash(o)
    BY <1>1, <1>4, QuietSteps
  <1> QED BY <1>2, <1>3, <1>4 DEF Next

\* The inductive invariant of the finite grant: the provider's records, what
\* may have been billed for each, and the counter they add up to.
THEOREM GrantInductive == Spec => []GrantInv
  BY GrantInit, GrantStep, PTL DEF Spec

\* The counter is the sum over the ledger of all items: the settled prices and
\* the open reservations, to the unit (_write_provider_record).
THEOREM CounterIsTheLedger == Spec => []CounterMatchesLedger
  <1>1. GrantInv => CounterMatchesLedger
    BY DEF GrantInv
  <1> QED BY <1>1, GrantInductive, PTL

\* Fences, requests and settlements of any number of deliveries implement the
\* spending cap: no step lets the provider's bill pass the counter, or the
\* counter the allocation that the first reservation pinned.
THEOREM GrantIsCapped == Spec => ImplementsSpendingCap
  <1> QED BY GrantInit, GrantStep, GrantInductive, PTL
          DEF Spec, ImplementsSpendingCap, Grant!Spec, AbstractStep

=============================================================================

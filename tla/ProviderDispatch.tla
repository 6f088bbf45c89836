-------------------------- MODULE ProviderDispatch --------------------------
(***************************************************************************)
(* Paid model calls: a durable fence before each HTTP attempt, one terminal *)
(* settlement after it, and the grant counter all items of a deployment     *)
(* share.                                                                  *)
(*                                                                         *)
(* An invocation claims an item, then runs provider operations one after   *)
(* the other; an operation makes up to MaxTries HTTP attempts.  Each        *)
(* attempt has its own call record on the item.  A second delivery may take *)
(* the claim over at any time; it must not buy anything while the outcome   *)
(* of an earlier attempt is open.  In a finite grant the fence and the      *)
(* reservation, and the settlement and the refund, are one transaction.     *)
(*                                                                         *)
(* Sources: deepseek_client.py (_post), pipeline_accounting.py (the sinks), *)
(* persistence.py (begin_provider_call_dispatch, record_provider_call,      *)
(* _write_provider_record) and direct_openai_budget.py.                     *)
(***************************************************************************)
EXTENDS Integers, FiniteSets, Functions

CONSTANTS
  Items,        \* queue items that draw on the same grant
  Owners,       \* invocations (aws_request_id), as many as there may be
  MaxOps,       \* bound: operations one invocation starts
  MaxTries,     \* max_retries of _post
  Reserves,     \* worst-case prices of one attempt, by model and output cap
  Allocations,  \* allocation_nanousd of the policies that may be deployed
  None

ASSUME ConstantsAssumption ==
  /\ MaxOps \in Nat \ {0} /\ MaxTries \in Nat \ {0}
  /\ Reserves \subseteq Nat /\ Allocations \subseteq Nat
  /\ None \notin Owners \cup Items \cup Nat
  /\ IsFiniteSet(Owners)

VARIABLES
  live,      \* the items still in the expected status
  claim,     \* owner_id of each item's active phase claim
  call,      \* the provider-call records, by call id
  policy,    \* allocation the counter is pinned to (policy_sha256)
  charged,   \* charged_nanousd
  reserved,  \* reserved_nanousd
  settled,   \* settled_nanousd
  bill,      \* what the provider bills for each call, whoever knows it
  posts,     \* HTTP requests sent for each call id
  pc,        \* what each invocation does next
  on,        \* the item it works on
  offer,     \* the allocation in its configuration
  at,        \* <<operation, attempt>> it is at
  reply      \* the terminal record it has built

itemVars    == <<live, claim>>
counterVars == <<policy, charged, reserved, settled>>
worldVars   == <<bill, posts>>
workVars    == <<on, offer, at, reply>>
vars == <<itemVars, call, counterVars, worldVars, pc, workVars>>

\* A call id hashes run, phase, attempt, operation and transport attempt: the
\* phase attempt belongs to one owner.
Calls == Owners \X (1..MaxOps) \X (1..MaxTries)

Settlements == {"completed", "http_retry", "http_error", "transport_error"}

Record == [state : {"dispatching"} \cup Settlements, item : Items,
           reserve : Reserves, cost : Nat \cup {None}]

Reply == [state : Settlements, cost : Nat \cup {None}]

\* An absent attribute is not mistaken for a record.
ASSUME NoneAssumption == None \notin Record \cup Reply

Ended == {"done", "failed", "crashed"}

Steps == {"idle", "ready", "fence", "post", "http", "settle", "settled",
          "finish", "release", "end"} \cup Ended

Recorded == {c \in Calls : call[c] # None}

Open(i) == {c \in Recorded : call[c].item = i /\ call[c].state = "dispatching"}

This(o) == <<o, at[o][1], at[o][2]>>

Owns(o) == on[o] \in live /\ claim[on[o]] = o

Goto(o, step) == pc' = [pc EXCEPT ![o] = step]

\* ProviderCallFenceError ends the delivery: retryable, except that a direct
\* call of a finite grant does not schedule another paid attempt.
FenceFailure == {"release", "end"}

-----------------------------------------------------------------------------
Init ==
  /\ live = Items /\ claim = [i \in Items |-> None]
  /\ call = [c \in Calls |-> None]
  /\ policy = None /\ charged = 0 /\ reserved = 0 /\ settled = 0
  /\ bill = [c \in Calls |-> 0] /\ posts = [c \in Calls |-> 0]
  /\ pc = [o \in Owners |-> "idle"]
  /\ on = [o \in Owners |-> None] /\ offer = [o \in Owners |-> None]
  /\ at = [o \in Owners |-> <<1, 1>>]
  /\ reply = [o \in Owners |-> None]

\* claim_phase_attempt: any delivery of the item's record takes it over.
ClaimPhase(o) ==
  /\ pc[o] = "idle"
  /\ \E i \in live, a \in Allocations :
       /\ claim' = [claim EXCEPT ![i] = o]
       /\ on' = [on EXCEPT ![o] = i]
       /\ offer' = [offer EXCEPT ![o] = a]
  /\ Goto(o, "ready")
  /\ UNCHANGED <<live, call, counterVars, worldVars, at, reply>>

-----------------------------------------------------------------------------
(* begin_provider_call_dispatch. *)

\* Faulty: the read does not look for an unresolved attempt.
CheckFenceOwnerOnly(o) ==
  /\ pc[o] = "ready" /\ Owns(o) /\ Goto(o, "fence")
  /\ UNCHANGED <<itemVars, call, counterVars, worldVars, workVars>>

\* The consistent read: owner and phase still match, nothing is unresolved.
\* A deadline stops the attempt before it has a record.
CheckFence(o) ==
  /\ pc[o] = "ready"
  /\ \/ ~Owns(o) /\ \E step \in FenceFailure : Goto(o, step)
     \/ Owns(o) /\ Open(on[o]) # {} /\ Goto(o, "end")
     \/ Owns(o) /\ Open(on[o]) = {} /\ Goto(o, "fence")
     \/ Goto(o, "release")
  /\ UNCHANGED <<itemVars, call, counterVars, worldVars, workVars>>

\* Faulty: the reservation itself is not counted against the allocation.
CanReserveByCharge(o, r) == policy \in {None, offer[o]} /\ charged <= offer[o]

\* The reservation half of _write_provider_record.
CanReserve(o, r) ==
  policy \in {None, offer[o]} /\ offer[o] - r >= 0 /\ charged <= offer[o] - r

\* Faulty: the write tests the call record but not the claim.
FenceConditionOnCall(o, r) == call[This(o)] = None /\ CanReserve(o, r)

FenceCondition(o, r) ==
  Owns(o) /\ call[This(o)] = None /\ CanReserve(o, r)

\* The conditional write; its reply may be lost after it has landed.
WriteFence(o) ==
  /\ pc[o] = "fence"
  /\ \E r \in Reserves :
       IF FenceCondition(o, r)
       THEN /\ call' = [call EXCEPT ![This(o)] =
                          [state |-> "dispatching", item |-> on[o],
                           reserve |-> r, cost |-> None]]
            /\ policy' = offer[o]
            /\ charged' = charged + r /\ reserved' = reserved + r
            /\ \E step \in {"post"} \cup FenceFailure : Goto(o, step)
       ELSE /\ IF Open(on[o]) # {} THEN Goto(o, "end")
               ELSE \E step \in FenceFailure : Goto(o, step)
            /\ UNCHANGED <<call, policy, charged, reserved>>
  /\ UNCHANGED <<itemVars, settled, worldVars, workVars>>

-----------------------------------------------------------------------------
(* The HTTP attempt. *)

\* The request leaves; the provider may bill up to the reserved worst case.
SendRequest(o) ==
  /\ pc[o] = "post"
  /\ posts' = [posts EXCEPT ![This(o)] = @ + 1]
  /\ \E b \in 0..call[This(o)].reserve : bill' = [bill EXCEPT ![This(o)] = b]
  /\ Goto(o, "http")
  /\ UNCHANGED <<itemVars, call, counterVars, workVars>>

\* The outcome as _post sees it.  Only a complete, valid usage report prices
\* the call; a refusal, a timeout or a bad report leaves its price unknown.
ReceiveReply(o) ==
  /\ pc[o] = "http"
  /\ \/ \E known \in {bill[This(o)], None} :
          reply' = [reply EXCEPT ![o] = [state |-> "completed", cost |-> known]]
     \/ \E s \in {IF at[o][2] = MaxTries THEN "http_error" ELSE "http_retry",
                  "http_error", "transport_error"} :
          reply' = [reply EXCEPT ![o] = [state |-> s, cost |-> None]]
  /\ Goto(o, "settle")
  /\ UNCHANGED <<itemVars, call, counterVars, worldVars, on, offer, at>>

-----------------------------------------------------------------------------
(* record_provider_call. *)

Final(o) == [call[This(o)] EXCEPT !.state = reply[o].state, !.cost = reply[o].cost]

\* Faulty: the settled price is charged, the reservation is not released.
RefundWithoutRelease(o) ==
  IF reply[o].cost = None THEN UNCHANGED counterVars
  ELSE /\ charged' = charged + reply[o].cost - call[This(o)].reserve
       /\ settled' = settled + reply[o].cost
       /\ UNCHANGED <<policy, reserved>>

\* The refund half of _write_provider_record; an unknown price keeps it all.
RefundUnused(o) ==
  LET r == call[This(o)].reserve IN
  IF reply[o].cost = None THEN UNCHANGED counterVars
  ELSE /\ charged' = charged + reply[o].cost - r
       /\ reserved' = reserved - r
       /\ settled' = settled + reply[o].cost
       /\ UNCHANGED policy

CanRefund(o) ==
  LET r == call[This(o)].reserve IN
  reply[o].cost # None => policy = offer[o] /\ reserved >= r /\ charged >= r

\* Faulty: the last report wins over what was settled.
SettleAgain(o) ==
  /\ pc[o] = "settle"
  /\ call' = [call EXCEPT ![This(o)] = Final(o)] /\ Goto(o, "settled")
  /\ UNCHANGED <<itemVars, counterVars, worldVars, workVars>>

\* Replace exactly our own fence; neither claim nor status matter any more.
\* A lost write or reply is ProviderCallLedgerError: terminal, never retried.
Settle(o) ==
  /\ pc[o] = "settle"
  /\ \/ /\ call[This(o)].state = "dispatching" /\ CanRefund(o)
        /\ call' = [call EXCEPT ![This(o)] = Final(o)]
        /\ RefundUnused(o)
        /\ \E step \in {"settled", "end"} : Goto(o, step)
     \/ /\ call[This(o)] = Final(o) /\ call[This(o)].state # "dispatching"
        /\ Goto(o, "settled") /\ UNCHANGED <<call, counterVars>>
     \/ Goto(o, "end") /\ UNCHANGED <<call, counterVars>>
  /\ UNCHANGED <<itemVars, worldVars, workVars>>

\* The invocation's wall timer fires after the settlement, before _post has
\* noted it: the attempt is reported once more, as a transport error.
Interrupted(o) ==
  /\ pc[o] = "settled" /\ reply[o].state = "completed"
  /\ reply' = [reply EXCEPT ![o] = [state |-> "transport_error", cost |-> None]]
  /\ Goto(o, "settle")
  /\ UNCHANGED <<itemVars, call, counterVars, worldVars, on, offer, at>>

\* Retryable outcomes go round the loop of _post; a finished or failed
\* operation lets the phase start another one, finish, or fail.
NextAttempt(o) ==
  /\ pc[o] = "settled"
  /\ \/ /\ reply[o].state \in {"http_retry", "transport_error"}
        /\ at[o][2] < MaxTries
        /\ at' = [at EXCEPT ![o] = <<@[1], @[2] + 1>>] /\ Goto(o, "ready")
     \/ /\ reply[o].state # "http_retry" /\ at[o][1] < MaxOps
        /\ at' = [at EXCEPT ![o] = <<@[1] + 1, 1>>] /\ Goto(o, "ready")
     \/ reply[o].state # "http_retry" /\ Goto(o, "finish") /\ UNCHANGED at
     \/ \E step \in {"release", "end"} : Goto(o, step) /\ UNCHANGED at
  /\ UNCHANGED <<itemVars, call, counterVars, worldVars, on, offer, reply>>

-----------------------------------------------------------------------------
(* How the phase ends, in writes that only the claim's owner can make. *)

\* store_context, the receipt, mark_error or mark_superseded.
EndPhase(o) ==
  /\ pc[o] \in {"finish", "end"}
  /\ IF Owns(o)
     THEN live' = live \ {on[o]} /\ claim' = [claim EXCEPT ![on[o]] = None]
     ELSE UNCHANGED itemVars
  /\ Goto(o, "done")
  /\ UNCHANGED <<call, counterVars, worldVars, workVars>>

\* release_phase_claim.
ReleaseClaim(o) ==
  /\ pc[o] = "release"
  /\ claim' = IF Owns(o) THEN [claim EXCEPT ![on[o]] = None] ELSE claim
  /\ Goto(o, "failed")
  /\ UNCHANGED <<live, call, counterVars, worldVars, workVars>>

Crash(o) ==
  /\ pc[o] \notin Ended \cup {"idle"}
  /\ Goto(o, "crashed")
  /\ UNCHANGED <<itemVars, call, counterVars, worldVars, workVars>>

Next ==
  \E o \in Owners :
    \/ ClaimPhase(o) \/ CheckFence(o) \/ WriteFence(o)
    \/ SendRequest(o) \/ ReceiveReply(o)
    \/ Settle(o) \/ Interrupted(o) \/ NextAttempt(o)
    \/ EndPhase(o) \/ ReleaseClaim(o) \/ Crash(o)

Spec == Init /\ [][Next]_vars

-----------------------------------------------------------------------------
TypeOK ==
  /\ live \subseteq Items /\ claim \in [Items -> Owners \cup {None}]
  /\ call \in [Calls -> Record \cup {None}]
  /\ policy \in Allocations \cup {None}
  /\ charged \in Nat /\ reserved \in Nat /\ settled \in Nat
  /\ bill \in [Calls -> Nat] /\ posts \in [Calls -> Nat]
  /\ pc \in [Owners -> Steps]
  /\ on \in [Owners -> Items \cup {None}]
  /\ offer \in [Owners -> Allocations \cup {None}]
  /\ at \in [Owners -> (1..MaxOps) \X (1..MaxTries)]
  /\ reply \in [Owners -> Reply \cup {None}]

\* begin_provider_call_dispatch promises that no second fence is created while
\* an earlier attempt of the item is dispatching, although it only reads for
\* one before a write that does not test it: the claim in the write must do.
OneOpenFence == \A i \in Items : \A c, d \in Open(i) : c = d

\* An HTTP attempt is under way only behind its own open fence, a call id is
\* never sent twice, and no request ever leaves the ledger.
RequestsAreFenced ==
  /\ \A o \in Owners :
       pc[o] \in {"post", "http"} => This(o) \in Open(on[o])
  /\ \A c \in Calls : posts[c] <= 1 /\ (posts[c] = 1 => c \in Recorded)

\* A call record is written once and settled once: no late, repeated or
\* interrupted report changes what was settled.
SettlementIsFinal ==
  [][\A c \in Recorded :
       /\ call'[c] # None
       /\ call[c].state # "dispatching" => call'[c] = call[c]]_vars

\* Once a delivery has died behind an open fence, nothing more is bought for
\* that item: redelivery must not repeat a purchase of unknown outcome.
UnknownStopsPurchases ==
  [][\A i \in Items :
       (\E c \in Open(i) : pc[c[1]] \in Ended)
         => \A c \in Calls : posts'[c] # posts[c] => on[c[1]] # i]_vars

-----------------------------------------------------------------------------
(* Why the fence check and the fence write need no lock: the inductive       *)
(* invariant behind OneOpenFence and RequestsAreFenced.                      *)

\* A record belongs to the item its owner works on, and to an owner that has
\* started.
RecordsHaveOwners ==
  \A c \in Recorded : on[c[1]] = call[c].item /\ pc[c[1]] # "idle"

\* Between the check and the write only the claim's owner can open a fence.
CheckStillHolds ==
  \A o \in Owners : pc[o] = "fence" /\ Owns(o) => Open(on[o]) = {}

\* What an invocation that is past its fence may rely on.
AttemptInv ==
  \A o \in Owners :
    /\ pc[o] \notin {"idle"} => on[o] # None /\ offer[o] # None
    /\ pc[o] = "post" => posts[This(o)] = 0
    /\ pc[o] \in {"settle", "settled"} =>
         This(o) \in Recorded /\ reply[o] # None

DispatchInv ==
  /\ TypeOK /\ RecordsHaveOwners /\ CheckStillHolds /\ AttemptInv
  /\ OneOpenFence /\ RequestsAreFenced

-----------------------------------------------------------------------------
(* What the counter of a finite grant says. *)

Settled == {c \in Recorded : call[c].cost # None}

\* The grant counter is exactly what the records of all items say: a known
\* price counts as itself, everything else as its full reservation.
CounterMatchesLedger ==
  /\ settled = SumFunction([c \in Settled |-> call[c].cost])
  /\ reserved = SumFunction([c \in Recorded \ Settled |-> call[c].reserve])
  /\ charged = settled + reserved

\* What the provider bills stays below the counter, and the counter below the
\* allocation the grant was opened with.
Grant == INSTANCE SpendingCap
  WITH cap <- policy, bound <- charged, spent <- SumFunction(bill)

ImplementsSpendingCap == Grant!Spec
=============================================================================

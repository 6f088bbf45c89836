--------------------------- MODULE PhaseLifecycle ---------------------------
(***************************************************************************)
(* One pull request's item on its way through both phases: the stream       *)
(* records its writes leave behind, the deliveries of those records, the    *)
(* claims they take, the head successor that may replace the item once, and *)
(* the context bundle the review phase reads.                               *)
(*                                                                         *)
(* A delivery is a process; a record may be delivered again while an        *)
(* earlier delivery runs.  It reads first and writes later under a          *)
(* condition, any write's reply may be lost, and it may die at any step.    *)
(*                                                                         *)
(* Sources: lambda_function.py, run_context_phase, run_review_phase and     *)
(* _handle_phase_failure in orchestrator.py, and persistence.py.  How a     *)
(* review is published is PublicationTransaction, how a call is fenced is   *)
(* ProviderDispatch, how capacity is consumed is CapacityAdmission; here    *)
(* each of these is one step.                                               *)
(***************************************************************************)
EXTENDS Integers, Sequences, FiniteSets

CONSTANTS
  Owners,       \* deliveries (aws_request_id), one call each
  Heads,
  FirstHead,    \* the head the webhook queued
  MaxAttempts,  \* config.MAX_ATTEMPTS
  MaxMoves,     \* bound: pushes to the pull request
  None

ASSUME LifecycleAssumption ==
  /\ FirstHead \in Heads /\ MaxAttempts \in Nat \ {0} /\ MaxMoves \in Nat
  /\ None \notin Owners \cup Heads

VARIABLES
  status, run,  \* head_sha and run_id; a successor's run_id is a digest of its head
  attempts,     \* context_attempt and review_attempt
  claim,        \* context_claim and review_claim
  admitted,     \* initial_admission
  context,      \* context_artifact: key and digest of the bundle
  intent,       \* a publication intent is on the item
  shelf,        \* the artifact bucket
  stream,       \* the records the pipeline acts on, in order; the index is eventID
  pr, moves,
  pc, on, nth,  \* control point, record, and attempt number of each delivery
  stage,        \* which lifecycle checkpoint it is at
  seen,         \* the pull request it last read
  plan,         \* the ledger requeue_head_successor read
  call          \* the delivery's provider call

itemVars == <<status, run, attempts, claim, admitted, context, intent>>
workVars == <<on, nth, stage, seen, plan>>
vars == <<itemVars, shelf, stream, pr, moves, pc, workVars, call>>

Run == [head : Heads, successor : BOOLEAN]
Bundle == [run : Run, by : Owners]
Pointer == [key : Bundle, digest : Bundle]
Claim == [owner : Owners, event : Nat \ {0}]

ASSUME NoneAssumption == None \notin Claim \cup Pointer \cup Run

Phases == {"context", "review"}
Expected == [context |-> "PENDING", review |-> "CONTEXT_READY"]
Terminal == {"PROCESSED", "ERROR", "SUPERSEDED"}

\* Inside the try block of a phase, and after its last step.
Working == {"recover", "start", "load", "observe", "decide", "requeue", "swap",
            "gate", "buy", "settle", "intent", "publish", "store", "commit",
            "stop"}
Ended == {"done", "failed", "crashed"}
Steps == {"idle", "reread", "claim", "fail"} \cup Working \cup Ended

Goto(o, step) == pc' = [pc EXCEPT ![o] = step]

Phase(o) == IF stream[on[o]].status = "PENDING" THEN "context" ELSE "review"
Mine(o) == stream[on[o]].run

\* The stream image still describes the item.
Current(o) == status = stream[on[o]].status /\ run = Mine(o)

\* The claim clause of update_status: status and owner, nothing else.
Owns(o) ==
  /\ status = Expected[Phase(o)]
  /\ claim[Phase(o)] # None /\ claim[Phase(o)].owner = o

Dispatching == {o \in Owners : call[o] = "dispatching"}

-----------------------------------------------------------------------------
\* The webhook's put_item: one item per pull request, and its INSERT record.
Init ==
  /\ status = "PENDING" /\ run = [head |-> FirstHead, successor |-> FALSE]
  /\ attempts = [p \in Phases |-> 0] /\ claim = [p \in Phases |-> None]
  /\ admitted = None /\ context = None /\ intent = FALSE
  /\ shelf = {} /\ stream = <<[status |-> status, run |-> run]>>
  /\ pr = [head |-> FirstHead, open |-> TRUE] /\ moves = 0
  /\ pc = [o \in Owners |-> "idle"] /\ on = [o \in Owners |-> 1]
  /\ nth = [o \in Owners |-> 0] /\ stage = [o \in Owners |-> "ingest"]
  /\ seen = [o \in Owners |-> pr] /\ plan = [o \in Owners |-> None]
  /\ call = [o \in Owners |-> None]

\* Lambda delivers a record, for the first time or again.
Receive(o) ==
  /\ pc[o] = "idle"
  /\ \E e \in DOMAIN stream :
       /\ on' = [on EXCEPT ![o] = e]
       /\ stage' = [stage EXCEPT ![o] =
                      IF stream[e].status = "PENDING" THEN "ingest" ELSE "review"]
  /\ Goto(o, "reread")
  /\ UNCHANGED <<itemVars, shelf, stream, pr, moves, nth, seen, plan, call>>

\* A stale record is an idempotent no-op.
Reread(o) ==
  /\ pc[o] = "reread"
  /\ Goto(o, IF Current(o) THEN "claim" ELSE "done")
  /\ UNCHANGED <<itemVars, shelf, stream, pr, moves, workVars, call>>

\* A lease outlives its Lambda, so an expired claim is one whose owner died.
Claimable(o) ==
  LET c == claim[Phase(o)] IN
  \/ c = None
  \/ c # None /\ (c.event = on[o] \/ pc[c.owner] \in Ended)

\* The update, and the read that verifies it; a refusal or a lost reply makes
\* Lambda deliver the record again.
ClaimPhase(o) ==
  LET p == Phase(o) IN
  /\ pc[o] = "claim"
  /\ IF Current(o) /\ Claimable(o)
     THEN /\ attempts' = [attempts EXCEPT ![p] = @ + 1]
          /\ claim' = [claim EXCEPT ![p] = [owner |-> o, event |-> on[o]]]
          /\ nth' = [nth EXCEPT ![o] = attempts[p] + 1]
          /\ \/ Goto(o, IF intent THEN "publish" ELSE "start")
             \/ Goto(o, "failed")
     ELSE Goto(o, "failed") /\ UNCHANGED <<attempts, claim, nth>>
  /\ UNCHANGED <<status, run, admitted, context, intent, shelf, stream, pr,
                 moves, on, stage, seen, plan, call>>

\* update_status to a terminal status.  A lost condition is not an error; a
\* lost reply is one that the failure handler can no longer turn into a write.
EndItem(o, s) ==
  /\ IF Owns(o)
     THEN /\ status' = s
          /\ claim' = [claim EXCEPT ![Phase(o)] = None]
          /\ Goto(o, "done") \/ Goto(o, "failed")
     ELSE Goto(o, "done") /\ UNCHANGED <<status, claim>>
  /\ UNCHANGED <<run, attempts, admitted, context, intent, shelf, stream, pr,
                 moves, workVars, call>>

\* Faulty: off by one at the attempt cap.
StartOneMore(o) ==
  /\ pc[o] = "start" /\ nth[o] <= MaxAttempts + 1
  /\ Goto(o, IF Phase(o) = "review" THEN "load" ELSE "observe")
  /\ UNCHANGED <<itemVars, shelf, stream, pr, moves, workVars, call>>

\* The attempt cap, and the operator's switch for successors.
Start(o) ==
  /\ pc[o] = "start"
  /\ \/ nth[o] > MaxAttempts /\ EndItem(o, "ERROR")
     \/ /\ nth[o] <= MaxAttempts /\ Phase(o) = "context"
        /\ Mine(o).successor /\ Dispatching = {}
        /\ EndItem(o, "SUPERSEDED")
     \/ /\ nth[o] <= MaxAttempts
        /\ Goto(o, IF Phase(o) = "review" THEN "load" ELSE "observe")
        /\ UNCHANGED <<itemVars, shelf, stream, pr, moves, workVars, call>>

\* load_context_bundle_from_item: checksum, then head and run of the bundle.
Loads(pointer) ==
  \E a \in shelf : /\ a.key = pointer.key /\ a.bundle = pointer.digest
                   /\ a.bundle.run = run

LoadContext(o) ==
  /\ pc[o] = "load"
  /\ Goto(o, IF Loads(context) THEN "observe" ELSE "fail")
  /\ UNCHANGED <<itemVars, shelf, stream, pr, moves, workVars, call>>

\* A lifecycle checkpoint reads the pull request ...
Observe(o) ==
  /\ pc[o] = "observe"
  /\ seen' = [seen EXCEPT ![o] = pr]
  /\ Goto(o, "decide")
  /\ UNCHANGED <<itemVars, shelf, stream, pr, moves, on, nth, stage, plan, call>>

\* What follows each checkpoint.
Onward(o) ==
  CASE stage[o] = "ingest"    -> "gate"
    [] stage[o] = "reconcile" -> "observe"
    [] stage[o] = "persist"   -> "store"
    [] stage[o] = "terminal"  -> "intent"
    [] stage[o] = "review"    -> "gate"
    [] stage[o] = "final"     -> "intent"

\* ... and acts on what it read: the first one that finds the head open records
\* the admission under the claim, an early one may requeue a new head, the last
\* one of the review phase lets a merged pull request have its review, and
\* everything else ends the run without one.
Decide(o) ==
  LET same == seen[o].head = Mine(o).head IN
  /\ pc[o] = "decide"
  /\ \/ /\ seen[o].open /\ same /\ admitted = Mine(o)
        /\ Goto(o, Onward(o)) /\ UNCHANGED admitted
     \/ /\ seen[o].open /\ same /\ admitted # Mine(o)
        /\ IF admitted = None /\ Current(o) /\ Owns(o)
           THEN admitted' = Mine(o) /\ (Goto(o, Onward(o)) \/ Goto(o, "fail"))
           ELSE Goto(o, "fail") /\ UNCHANGED admitted
     \/ /\ seen[o].open /\ ~same /\ stage[o] \in {"ingest", "reconcile"}
        /\ Goto(o, "requeue") /\ UNCHANGED admitted
     \/ /\ ~seen[o].open /\ same /\ stage[o] = "final" /\ admitted = Mine(o)
        /\ Goto(o, Onward(o)) /\ UNCHANGED admitted
     \/ /\ ~seen[o].open \/ ~same
        /\ Goto(o, "stop") /\ UNCHANGED admitted
  /\ stage' = IF stage[o] = "reconcile" /\ pc'[o] = "observe"
              THEN [stage EXCEPT ![o] = "persist"] ELSE stage
  /\ UNCHANGED <<status, run, attempts, claim, context, intent, shelf, stream,
                 pr, moves, on, nth, seen, plan, call>>

\* Faulty: the update trusts the claim that the read before it saw.
MaySwapUnclaimed(o) ==
  status = "PENDING" /\ run = Mine(o) /\ ~run.successor /\ ~intent

\* The condition of the update that replaces the head ...
MaySwap(o) ==
  /\ status = "PENDING" /\ run = Mine(o) /\ ~run.successor /\ Owns(o)
  /\ claim["context"].event = on[o]
  /\ attempts["context"] = nth[o] /\ ~intent

\* ... and what only the read before it tests.
MayRequeue(o) ==
  MaySwap(o) /\ attempts["context"] < MaxAttempts /\ Dispatching = {}

\* The retained ledger, as the receipt and the stream images describe it.
Ledgers == [attempts : [Phases -> Nat],
            calls : SUBSET (Owners \X {None, "dispatching", "settled"})]
Ledger == [attempts |-> attempts, calls |-> {<<o, call[o]>> : o \in Owners}]

ReadForRequeue(o) ==
  /\ pc[o] = "requeue"
  /\ IF MayRequeue(o)
     THEN plan' = [plan EXCEPT ![o] = Ledger] /\ Goto(o, "swap")
     ELSE Goto(o, "stop") /\ UNCHANGED plan
  /\ UNCHANGED <<itemVars, shelf, stream, pr, moves, on, nth, stage, seen, call>>

\* is_valid_head_successor_transition, on the images of this very update: the
\* receipt agrees with both, no call is open, no claim or admission is left.
Dispatched(receipt) ==
  /\ receipt = Ledger /\ Dispatching = {}
  /\ admitted' = None /\ claim' = [p \in Phases |-> None]

WriteRequeue(o) ==
  /\ pc[o] = "swap"
  /\ IF MaySwap(o)
     THEN /\ run' = [head |-> seen[o].head, successor |-> TRUE]
          /\ admitted' = None /\ context' = None
          /\ claim' = [p \in Phases |-> None]
          /\ stream' = IF Dispatched(plan[o])
                       THEN Append(stream, [status |-> status, run |-> run'])
                       ELSE stream
          /\ Goto(o, "done") \/ Goto(o, "fail")
     ELSE Goto(o, "stop") /\ UNCHANGED <<run, admitted, context, claim, stream>>
  /\ UNCHANGED <<status, attempts, intent, shelf, pr, moves, workVars, call>>

\* _mark_lifecycle_superseded, the private cancellation, or a locked pull
\* request: the run ends without a review.
Stop(o) == pc[o] = "stop" /\ EndItem(o, "SUPERSEDED")

\* An existing review ends the run, in the review phase on a retry only; a hard
\* skip or full capacity ends the context phase after one more checkpoint; or on
\* to the model calls.
Gate(o) ==
  /\ pc[o] = "gate"
  /\ \/ (Phase(o) = "context" \/ nth[o] > 1) /\ EndItem(o, "ERROR")
     \/ /\ \/ Goto(o, "buy") /\ UNCHANGED stage
           \/ /\ Phase(o) = "context" /\ Goto(o, "observe")
              /\ stage' = [stage EXCEPT ![o] = "terminal"]
        /\ UNCHANGED <<itemVars, shelf, stream, pr, moves, on, nth, seen, plan, call>>

\* begin_provider_call_dispatch binds status, claim, attempt, run and head.
Buy(o) ==
  /\ pc[o] = "buy"
  /\ IF /\ Owns(o) /\ Current(o) /\ attempts[Phase(o)] = nth[o]
        /\ Dispatching = {}
     THEN call' = [call EXCEPT ![o] = "dispatching"] /\ Goto(o, "settle")
     ELSE Goto(o, "fail") /\ UNCHANGED call
  /\ UNCHANGED <<itemVars, shelf, stream, pr, moves, workVars>>

\* The answer is recorded whoever owns the item by now; Route may end the run
\* as a skip, and only the deeper routes reach the reconcile checkpoint.  A
\* review that cannot be published raises, or ends as if it had (Raise).
Settle(o) ==
  /\ pc[o] = "settle"
  /\ call' = [call EXCEPT ![o] = "settled"]
  /\ \E s \in IF Phase(o) = "context" THEN {"terminal", "reconcile", "persist"}
                                       ELSE {"final"} :
       stage' = [stage EXCEPT ![o] = s]
  /\ Goto(o, "observe")
  /\ UNCHANGED <<itemVars, shelf, stream, pr, moves, on, nth, seen, plan>>

\* store_publication_intent, which a dry run does without.
PersistIntent(o) ==
  /\ pc[o] = "intent"
  /\ \/ Goto(o, "publish") /\ UNCHANGED intent
     \/ IF Owns(o) /\ ~intent
        THEN intent' = TRUE /\ (Goto(o, "publish") \/ Goto(o, "fail"))
        ELSE Goto(o, "fail") /\ UNCHANGED intent
  /\ UNCHANGED <<status, run, attempts, claim, admitted, context, shelf, stream,
                 pr, moves, workVars, call>>

\* The publication transaction ends the item, one way or another.
Publish(o) == pc[o] = "publish" /\ \E s \in Terminal : EndItem(o, s)

\* Faulty: one key for each run, whoever builds its bundle.
KeyByRun(bundle) == bundle.run

\* _put_json_artifact: the key carries the digest of the payload.
Key(bundle) == bundle

Built(o) == [run |-> Mine(o), by |-> o]

StoreBundle(o) ==
  LET b == Built(o) IN
  /\ pc[o] = "store"
  /\ shelf' = {a \in shelf : a.key # Key(b)} \cup {[key |-> Key(b), bundle |-> b]}
  /\ Goto(o, "commit")
  /\ UNCHANGED <<itemVars, stream, pr, moves, workVars, call>>

\* The second half of store_context: the pointer and the next phase.
CommitContext(o) ==
  LET b == Built(o) IN
  /\ pc[o] = "commit"
  /\ IF Owns(o)
     THEN /\ status' = "CONTEXT_READY"
          /\ context' = [key |-> Key(b), digest |-> b]
          /\ claim' = [claim EXCEPT !["context"] = None]
          /\ stream' = Append(stream, [status |-> status', run |-> run])
          /\ Goto(o, "done") \/ Goto(o, "fail")
     ELSE Goto(o, "done") /\ UNCHANGED <<status, context, claim, stream>>
  /\ UNCHANGED <<run, attempts, admitted, intent, shelf, pr, moves, workVars, call>>

\* Any step inside the phase may raise.
Raise(o) ==
  /\ pc[o] \in Working
  /\ Goto(o, "fail")
  /\ UNCHANGED <<itemVars, shelf, stream, pr, moves, workVars, call>>

\* Faulty: a retryable failure is swallowed.
HandleFailureQuietly(o) ==
  /\ pc[o] = "fail"
  /\ claim' = IF Owns(o) THEN [claim EXCEPT ![Phase(o)] = None] ELSE claim
  /\ Goto(o, "done")
  /\ UNCHANGED <<status, run, attempts, admitted, context, intent, shelf,
                 stream, pr, moves, workVars, call>>

\* _handle_phase_failure: superseded, released for another delivery, or an
\* error; each under the claim, none of them an error when the claim is lost.
HandleFailure(o) ==
  /\ pc[o] = "fail"
  /\ \/ EndItem(o, "SUPERSEDED")
     \/ EndItem(o, "ERROR")
     \/ /\ nth[o] < MaxAttempts
        /\ claim' = IF Owns(o) THEN [claim EXCEPT ![Phase(o)] = None] ELSE claim
        /\ Goto(o, "failed")
        /\ UNCHANGED <<status, run, attempts, admitted, context, intent, shelf,
                       stream, pr, moves, workVars, call>>

Crash(o) ==
  /\ pc[o] \notin {"idle"} \cup Ended
  /\ Goto(o, "crashed")
  /\ UNCHANGED <<itemVars, shelf, stream, pr, moves, workVars, call>>

PullRequestMoves ==
  /\ pr.open
  /\ \/ \E h \in Heads \ {pr.head} :
          moves < MaxMoves /\ moves' = moves + 1 /\ pr' = [pr EXCEPT !.head = h]
     \/ pr' = [pr EXCEPT !.open = FALSE] /\ UNCHANGED moves
  /\ UNCHANGED <<itemVars, shelf, stream, pc, workVars, call>>

Step(o) ==
  \/ Receive(o) \/ Reread(o) \/ ClaimPhase(o) \/ Start(o) \/ LoadContext(o)
  \/ Observe(o) \/ Decide(o) \/ ReadForRequeue(o) \/ WriteRequeue(o) \/ Stop(o)
  \/ Gate(o) \/ Buy(o) \/ Settle(o) \/ PersistIntent(o) \/ Publish(o)
  \/ StoreBundle(o) \/ CommitContext(o) \/ Raise(o) \/ HandleFailure(o) \/ Crash(o)

Next == PullRequestMoves \/ \E o \in Owners : Step(o)

Spec == Init /\ [][Next]_vars
-----------------------------------------------------------------------------
TypeOK ==
  /\ status \in {"PENDING", "CONTEXT_READY"} \cup Terminal /\ run \in Run
  /\ attempts \in [Phases -> Nat]
  /\ claim \in [Phases -> Claim \cup {None}]
  /\ admitted \in Run \cup {None} /\ intent \in BOOLEAN
  /\ context \in Pointer \cup {None}
  /\ shelf \subseteq [key : Bundle, bundle : Bundle]
  /\ stream \in Seq([status : {"PENDING", "CONTEXT_READY"}, run : Run])
  /\ pr \in [head : Heads, open : BOOLEAN] /\ moves \in 0..MaxMoves
  /\ pc \in [Owners -> Steps]
  /\ on \in [Owners -> DOMAIN stream] /\ nth \in [Owners -> Nat]
  /\ stage \in [Owners -> {"ingest", "reconcile", "persist", "terminal",
                          "review", "final"}]
  /\ seen \in [Owners -> [head : Heads, open : BOOLEAN]]
  /\ plan \in [Owners -> Ledgers \cup {None}]
  /\ call \in [Owners -> {None, "dispatching", "settled"}]

\* An item that waits for a phase has the stream record that starts it: every
\* write that leaves it PENDING or CONTEXT_READY, the successor's included,
\* passes process_record, or nothing would ever look at the item again.
PhaseHasItsRecord ==
  status \in {"PENDING", "CONTEXT_READY"} =>
    \E e \in DOMAIN stream : stream[e] = [status |-> status, run |-> run]

\* When every delivery of a record has returned normally, Lambda drops the
\* record, so the item must have left that phase of that run: no path through
\* either phase ends quietly with the work undone.
NormalReturnMovesOn ==
  \A e \in DOMAIN stream :
    LET deliveries == {o \in Owners : pc[o] # "idle" /\ on[o] = e} IN
    (deliveries # {} /\ \A o \in deliveries : pc[o] = "done")
      => stream[e] # [status |-> status, run |-> run]

\* A review starts from a bundle that is intact and was built for this very
\* head and run, whichever delivery stored what in the meantime.
ContextIsOfThisRun == status = "CONTEXT_READY" => context # None /\ Loads(context)

\* Paid work is numbered: within a phase, and across a head successor, no two
\* deliveries buy under the same attempt and none beyond the cap, which is how
\* usage accounting tells winning calls from discarded ones.
AttemptsAreSerial ==
  LET Buyers == {o \in Owners : call[o] # None} IN
  \A o \in Buyers :
    /\ nth[o] \in 1..MaxAttempts
    /\ \A b \in Buyers : Phase(o) = Phase(b) /\ nth[o] = nth[b] => o = b

\* The head is replaced at most once, and only while the predecessor has no
\* open call, no publication and no context: requeue tests the calls in a read
\* before the write.
PredecessorWasSettled ==
  [][run' # run =>
       /\ ~run.successor /\ run'.successor /\ run'.head # run.head
       /\ status = "PENDING" /\ status' = "PENDING"
       /\ Dispatching = {} /\ ~intent /\ context = None]_vars
-----------------------------------------------------------------------------
(* The inductive invariant behind these properties.                         *)

\* Each record describes the item at one moment only, and the last one is the
\* one that may still describe it.
StreamInv ==
  /\ Len(stream) > 0
  /\ status \in {"PENDING", "CONTEXT_READY"} =>
       stream[Len(stream)] = [status |-> status, run |-> run]
  /\ status = "PENDING" => \A e \in DOMAIN stream : stream[e].status = "PENDING"
  /\ ~run.successor => \A e \in DOMAIN stream : stream[e].run = run
  /\ \A e \in DOMAIN stream :
       stream[e] = [status |-> status, run |-> run] => e = Len(stream)

\* A claim belongs to the current phase of the current run and to the delivery
\* that made the last attempt.
ClaimInv ==
  \A p \in Phases : claim[p] # None =>
    LET o == claim[p].owner IN
    /\ status = Expected[p] /\ Phase(o) = p /\ Mine(o) = run
    /\ claim[p].event = on[o] /\ nth[o] = attempts[p]
    /\ pc[o] \notin {"idle", "reread", "claim", "done"}

\* A checkpoint belongs to the phase of its delivery, and only the early ones
\* requeue; a delivery that waits for an answer has an open call.
StageInv ==
  \A o \in Owners :
    /\ pc[o] # "idle" =>
         (Phase(o) = "review" <=> stage[o] \in {"review", "final"})
    /\ pc[o] \in {"requeue", "swap"} => stage[o] \in {"ingest", "reconcile"}
    /\ pc[o] \in {"store", "commit"} => stage[o] = "persist"
    /\ pc[o] = "settle" => call[o] = "dispatching"

\* Attempt numbers are handed out once, to deliveries that got past the claim.
AttemptInv ==
  /\ \A o \in Owners :
       /\ nth[o] <= attempts[Phase(o)]
       /\ pc[o] \in {"idle", "reread", "claim"} => nth[o] = 0
       /\ pc[o] \in Working \cup {"fail"} => nth[o] > 0
       /\ pc[o] \in Working \ {"start", "publish"} => nth[o] <= MaxAttempts
       /\ call[o] # None => nth[o] \in 1..MaxAttempts
  /\ \A o, b \in Owners :
       Phase(o) = Phase(b) /\ nth[o] = nth[b] /\ nth[o] > 0 => o = b

\* The delivery that made the last attempt owns the item while it works, and
\* does not return normally from an item it has not moved on.
LastAttemptInv ==
  \A o \in Owners : Current(o) =>
    /\ nth[o] > 0 => \E b \in Owners :
         on[b] = on[o] /\ nth[b] = attempts[Phase(o)] /\ pc[b] # "done"
    /\ nth[o] = attempts[Phase(o)] /\ pc[o] \in Working \cup {"fail"} => Owns(o)
    /\ pc[o] = "done" => nth[o] > 0

\* Objects are immutable, since their keys are their contents.
ArtifactInv ==
  /\ \A a \in shelf : a.key = Key(a.bundle)
  /\ \A o \in Owners : pc[o] = "commit" =>
       [key |-> Key(Built(o)), bundle |-> Built(o)] \in shelf
  /\ status = "PENDING" => context = None
  /\ ContextIsOfThisRun

\* What requeue read is still so when its update is accepted.
RequeueInv ==
  /\ \A o \in Owners : pc[o] = "swap" /\ MaySwap(o) =>
       plan[o] = Ledger /\ Dispatching = {}
  /\ \A o \in Owners : pc[o] \in {"requeue", "swap"} =>
       seen[o].head # Mine(o).head
  /\ admitted \in {None, run}

LifecycleInv ==
  /\ TypeOK /\ StreamInv /\ ClaimInv /\ StageInv /\ AttemptInv
  /\ LastAttemptInv /\ ArtifactInv /\ RequeueInv
=============================================================================

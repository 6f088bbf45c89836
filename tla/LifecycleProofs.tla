-------------------------- MODULE LifecycleProofs ---------------------------
(***************************************************************************)
(* Proofs about PhaseLifecycle, for any deliveries, heads, attempt cap and   *)
(* number of pushes.  A step of a delivery is one of six kinds: it takes    *)
(* the claim, ends the item, releases the claim, requeues the head, stores   *)
(* the context, or leaves status, run, claims, attempts and stream alone.    *)
(***************************************************************************)
EXTENDS PhaseLifecycle, TLAPS

\* What a step of o cannot touch.
Others(o) ==
  \A b \in Owners \ {o} :
    /\ pc'[b] = pc[b] /\ on'[b] = on[b] /\ nth'[b] = nth[b] /\ stage'[b] = stage[b]
    /\ call'[b] = call[b] /\ plan'[b] = plan[b] /\ seen'[b] = seen[b]

InPhase == Working \cup {"fail"}

ClaimStep(o) ==
  /\ pc[o] = "claim" /\ Current(o) /\ Claimable(o)
  /\ attempts' = [attempts EXCEPT ![Phase(o)] = @ + 1]
  /\ claim' = [claim EXCEPT ![Phase(o)] = [owner |-> o, event |-> on[o]]]
  /\ nth' = [nth EXCEPT ![o] = attempts[Phase(o)] + 1]
  /\ pc'[o] \in {"start", "publish", "failed"}
  /\ UNCHANGED <<status, run, context, stream, admitted, intent, shelf, on, call>>

EndStep(o) ==
  /\ pc[o] \in InPhase /\ Owns(o)
  /\ status' \in Terminal /\ claim' = [claim EXCEPT ![Phase(o)] = None]
  /\ pc'[o] \in {"done", "failed"}
  /\ UNCHANGED <<run, attempts, context, stream, admitted, intent, shelf, on,
                 nth, call>>

ReleaseStep(o) ==
  /\ pc[o] = "fail" /\ pc'[o] = "failed"
  /\ claim' = IF Owns(o) THEN [claim EXCEPT ![Phase(o)] = None] ELSE claim
  /\ UNCHANGED <<status, run, attempts, context, stream, admitted, intent,
                 shelf, on, nth, call>>

RequeueStep(o) ==
  /\ WriteRequeue(o) /\ MaySwap(o) /\ pc'[o] \in {"done", "fail"}

CommitStep(o) ==
  /\ CommitContext(o) /\ Owns(o) /\ pc'[o] \in {"done", "fail"}

\* The steps that change neither the item's progress nor its stream: where
\* they can lead, and the few values they may set.
CalmStep(o) ==
  /\ UNCHANGED <<status, run, attempts, claim, context, stream, nth>>
  /\ pc[o] \notin Ended
  /\ pc[o] = "idle" => pc'[o] = "reread"
  /\ pc[o] # "idle" => on' = on
  /\ pc[o] = "reread" => pc'[o] \in {"claim", "crashed"}
                         \/ (pc'[o] = "done" /\ ~Current(o))
  /\ pc[o] = "claim" => pc'[o] \in {"failed", "crashed"}
  /\ pc[o] \in InPhase =>
       /\ pc'[o] \in (InPhase \cup Ended) \ {"start"}
       /\ pc'[o] = "done" => ~Owns(o)
  /\ pc'[o] \in Working \ {"publish"} =>
       pc[o] \in Working \ {"publish"} /\ (pc[o] = "start" => nth[o] <= MaxAttempts)
  /\ \/ call' = call
     \/ /\ pc[o] = "buy" /\ Owns(o) /\ pc'[o] = "settle"
        /\ call' = [call EXCEPT ![o] = "dispatching"]
     \/ /\ pc[o] = "settle" /\ pc'[o] = "observe"
        /\ call' = [call EXCEPT ![o] = "settled"]
  /\ intent' = TRUE \/ intent' = intent
  /\ admitted' = admitted \/ (admitted' = Mine(o) /\ Current(o))
  /\ pc'[o] = "requeue" =>
       pc[o] = "decide" /\ seen' = seen /\ seen[o].head # Mine(o).head
  /\ pc'[o] = "swap" =>
       /\ pc[o] = "requeue" /\ seen' = seen /\ call' = call
       /\ MayRequeue(o) /\ plan' = [plan EXCEPT ![o] = Ledger]
  /\ \/ pc'[o] # "commit" /\ shelf' = shelf
     \/ StoreBundle(o)

\* What a sequence holds at an index of its domain.
LEMMA ElementTypes ==
  ASSUME NEW S, NEW s \in Seq(S), NEW i \in DOMAIN s
  PROVE  i \in Nat \ {0} /\ s[i] \in S /\ Len(s) \in Nat /\ i <= Len(s)
  OBVIOUS

\* The record a delivery handles.
LEMMA RecordTypes ==
  ASSUME TypeOK, NEW o \in Owners
  PROVE  /\ on[o] \in DOMAIN stream /\ on[o] \in Nat \ {0}
         /\ stream[on[o]] \in [status : {"PENDING", "CONTEXT_READY"}, run : Run]
         /\ Mine(o) \in Run /\ Phase(o) \in Phases
         /\ attempts[Phase(o)] \in Nat /\ Built(o) \in Bundle
  <1>1. on[o] \in DOMAIN stream
    BY DEF TypeOK
  <1>2. /\ on[o] \in Nat \ {0}
        /\ stream[on[o]] \in [status : {"PENDING", "CONTEXT_READY"}, run : Run]
    <2>1. stream \in Seq([status : {"PENDING", "CONTEXT_READY"}, run : Run])
      BY DEF TypeOK
    <2> QED BY <1>1, <2>1, ElementTypes
  <1>3. Mine(o) \in Run /\ Phase(o) \in Phases
    BY <1>2 DEF Mine, Phase, Phases
  <1> QED BY <1>1, <1>2, <1>3 DEF TypeOK, Built, Bundle

\* One more control point is still a function of control points.
LEMMA GotoTypes ==
  ASSUME TypeOK, NEW o \in Owners, NEW step \in Steps, Goto(o, step)
  PROVE  pc' \in [Owners -> Steps] /\ pc'[o] = step
  BY DEF Goto, TypeOK

\* A record appended to the stream.
LEMMA AppendTypes ==
  ASSUME TypeOK, NEW s \in {"PENDING", "CONTEXT_READY"}, NEW r \in Run,
         stream' = Append(stream, [status |-> s, run |-> r]), on' = on
  PROVE  /\ stream' \in Seq([status : {"PENDING", "CONTEXT_READY"}, run : Run])
         /\ on' \in [Owners -> DOMAIN stream']
  <1>1. /\ stream \in Seq([status : {"PENDING", "CONTEXT_READY"}, run : Run])
        /\ on \in [Owners -> DOMAIN stream]
    BY DEF TypeOK
  <1>2. [status |-> s, run |-> r] \in [status : {"PENDING", "CONTEXT_READY"}, run : Run]
    OBVIOUS
  <1>3. stream' \in Seq([status : {"PENDING", "CONTEXT_READY"}, run : Run])
        /\ Len(stream') = Len(stream) + 1 /\ Len(stream) \in Nat
    BY <1>1, <1>2
  <1>4. DOMAIN stream \subseteq DOMAIN stream'
    BY <1>1, <1>3
  <1> QED BY <1>1, <1>3, <1>4

\* The control points the actions name are control points.
LEMMA StepNames ==
  /\ {"idle", "reread", "claim", "fail", "done", "failed", "crashed"} \subseteq Steps
  /\ Working \subseteq Steps
  /\ {"recover", "start", "load", "observe", "decide", "requeue", "swap", "gate",
      "buy", "settle", "intent", "publish", "store", "commit", "stop"} \subseteq Working
  BY DEF Steps, Working, Ended

\* Where a checkpoint can lead.
LEMMA OnwardTypes ==
  ASSUME TypeOK, NEW o \in Owners
  PROVE  Onward(o) \in {"gate", "observe", "store", "intent"}
  <1>1. stage[o] \in {"ingest", "reconcile", "persist", "terminal", "review", "final"}
    BY DEF TypeOK
  <1> QED BY <1>1 DEF Onward

\* Every step of a delivery puts it at one control point.
LEMMA Moves ==
  ASSUME TypeOK, NEW o \in Owners, Step(o)
  PROVE  \E step \in Steps : Goto(o, step)
  <1>e. ASSUME NEW s, EndItem(o, s) PROVE \E step \in Steps : Goto(o, step)
    BY <1>e, StepNames DEF EndItem
  <1>1. CASE Receive(o)
    BY <1>1, StepNames DEF Receive
  <1>2. CASE Reread(o)
    BY <1>2, StepNames DEF Reread
  <1>3. CASE ClaimPhase(o)
    <2>1. Goto(o, "publish") \/ Goto(o, "start") \/ Goto(o, "failed")
      BY <1>3 DEF ClaimPhase
    <2> QED BY <2>1, StepNames
  <1>4. CASE Start(o)
    <2>1. CASE EndItem(o, "ERROR") \/ EndItem(o, "SUPERSEDED")
      BY <2>1, <1>e
    <2>2. CASE Goto(o, "load") \/ Goto(o, "observe")
      BY <2>2, StepNames
    <2> QED BY <1>4, <2>1, <2>2 DEF Start
  <1>5. CASE LoadContext(o)
    BY <1>5, StepNames DEF LoadContext
  <1>6. CASE Observe(o)
    BY <1>6, StepNames DEF Observe
  <1>7. CASE Decide(o)
    <2>1. Goto(o, Onward(o)) \/ Goto(o, "fail") \/ Goto(o, "requeue") \/ Goto(o, "stop")
      BY <1>7 DEF Decide
    <2> QED BY <2>1, StepNames, OnwardTypes
  <1>8. CASE ReadForRequeue(o)
    BY <1>8, StepNames DEF ReadForRequeue
  <1>9. CASE WriteRequeue(o)
    <2>1. Goto(o, "done") \/ Goto(o, "fail") \/ Goto(o, "stop")
      BY <1>9 DEF WriteRequeue
    <2> QED BY <2>1, StepNames
  <1>10. CASE Stop(o)
    BY <1>10, <1>e DEF Stop
  <1>11. CASE Gate(o)
    <2>1. EndItem(o, "ERROR") \/ Goto(o, "buy") \/ Goto(o, "observe")
      BY <1>11 DEF Gate
    <2> QED BY <2>1, <1>e, StepNames
  <1>12. CASE Buy(o)
    BY <1>12, StepNames DEF Buy
  <1>13. CASE Settle(o)
    BY <1>13, StepNames DEF Settle
  <1>14. CASE PersistIntent(o)
    <2>1. Goto(o, "publish") \/ Goto(o, "fail")
      BY <1>14 DEF PersistIntent
    <2> QED BY <2>1, StepNames
  <1>15. CASE Publish(o)
    BY <1>15, <1>e DEF Publish
  <1>16. CASE StoreBundle(o)
    BY <1>16, StepNames DEF StoreBundle
  <1>17. CASE CommitContext(o)
    <2>1. Goto(o, "done") \/ Goto(o, "fail")
      BY <1>17 DEF CommitContext
    <2> QED BY <2>1, StepNames
  <1>18. CASE Raise(o)
    BY <1>18, StepNames DEF Raise
  <1>19. CASE HandleFailure(o)
    <2>1. EndItem(o, "SUPERSEDED") \/ EndItem(o, "ERROR") \/ Goto(o, "failed")
      BY <1>19 DEF HandleFailure
    <2> QED BY <2>1, <1>e, StepNames
  <1>20. CASE Crash(o)
    BY <1>20, StepNames DEF Crash
  <1> QED BY <1>1, <1>2, <1>3, <1>4, <1>5, <1>6, <1>7, <1>8, <1>9, <1>10, <1>11,
             <1>12, <1>13, <1>14, <1>15, <1>16, <1>17, <1>18, <1>19, <1>20 DEF Step

\* Ending the item, as every caller of EndItem does.
LEMMA EndItemTypes ==
  ASSUME TypeOK, NEW o \in Owners, NEW s \in Terminal, EndItem(o, s),
         pc' \in [Owners -> Steps]
  PROVE  TypeOK'
  <1>1. claim' \in [Phases -> Claim \cup {None}]
    BY DEF EndItem, TypeOK
  <1>2. status' \in {"PENDING", "CONTEXT_READY"} \cup Terminal
    BY DEF EndItem, TypeOK
  <1> QED BY <1>1, <1>2 DEF EndItem, TypeOK, workVars

\* Every step of a delivery keeps the types.
LEMMA Typing ==
  ASSUME TypeOK, NEW o \in Owners, Step(o)
  PROVE  TypeOK'
  <1>a. pc' \in [Owners -> Steps]
    BY Moves, GotoTypes
  <1>b. /\ Mine(o) \in Run /\ Phase(o) \in Phases /\ Built(o) \in Bundle
        /\ attempts[Phase(o)] \in Nat /\ on[o] \in Nat \ {0}
    BY RecordTypes
  <1>1. CASE Receive(o)
    <2>1. PICK e \in DOMAIN stream : on' = [on EXCEPT ![o] = e]
      BY <1>1 DEF Receive
    <2>2. stream' = stream /\ on' \in [Owners -> DOMAIN stream']
      BY <1>1, <2>1 DEF Receive, TypeOK
    <2>3. stage' \in [Owners -> {"ingest", "reconcile", "persist", "terminal",
                               "review", "final"}]
      BY <1>1 DEF Receive, TypeOK
    <2> QED BY <1>1, <1>a, <2>2, <2>3 DEF Receive, TypeOK, itemVars
  <1>2. CASE Reread(o)
    BY <1>2, <1>a DEF Reread, TypeOK, itemVars, workVars
  <1>3. CASE ClaimPhase(o)
    <2>3. CASE UNCHANGED <<attempts, claim, nth>>
      BY <1>3, <1>a, <2>3 DEF ClaimPhase, TypeOK
    <2>4. CASE ~UNCHANGED <<attempts, claim, nth>>
      <3>0. /\ attempts' = [attempts EXCEPT ![Phase(o)] = @ + 1]
            /\ claim' = [claim EXCEPT ![Phase(o)] = [owner |-> o, event |-> on[o]]]
            /\ nth' = [nth EXCEPT ![o] = attempts[Phase(o)] + 1]
        BY <1>3, <2>4 DEF ClaimPhase
      <3>1. attempts' \in [Phases -> Nat]
        BY <3>0, <1>b DEF TypeOK
      <3>2. claim' \in [Phases -> Claim \cup {None}]
        BY <3>0, <1>b DEF TypeOK, Claim
      <3>3. nth' \in [Owners -> Nat]
        BY <3>0, <1>b DEF TypeOK
      <3> QED BY <1>3, <1>a, <3>1, <3>2, <3>3 DEF ClaimPhase, TypeOK
    <2> QED BY <2>3, <2>4
  <1>4. CASE Start(o)
    <2>1. CASE UNCHANGED <<itemVars, shelf, stream, pr, moves, workVars, call>>
      BY <2>1, <1>a DEF TypeOK, itemVars, workVars
    <2>2. CASE \E s \in Terminal : EndItem(o, s)
      BY <2>2, <1>a, EndItemTypes
    <2> QED BY <1>4, <2>1, <2>2 DEF Start, Terminal
  <1>5. CASE LoadContext(o)
    BY <1>5, <1>a DEF LoadContext, TypeOK, itemVars, workVars
  <1>6. CASE Observe(o)
    BY <1>6, <1>a DEF Observe, TypeOK, itemVars
  <1>7. CASE Decide(o)
    <2>1. admitted' \in Run \cup {None}
      BY <1>7, <1>b DEF Decide, TypeOK
    <2>2. stage' \in [Owners -> {"ingest", "reconcile", "persist", "terminal",
                               "review", "final"}]
      BY <1>7 DEF Decide, TypeOK
    <2> QED BY <1>7, <1>a, <2>1, <2>2 DEF Decide, TypeOK
  <1>8. CASE ReadForRequeue(o)
    <2>1. Ledger \in Ledgers
      BY DEF Ledger, Ledgers, TypeOK
    <2>2. plan' \in [Owners -> Ledgers \cup {None}]
      BY <1>8, <2>1 DEF ReadForRequeue, TypeOK
    <2> QED BY <1>8, <1>a, <2>2 DEF ReadForRequeue, TypeOK, itemVars
  <1>9. CASE WriteRequeue(o)
    <2>1. CASE MaySwap(o)
      <3>1. run' \in Run
        <4>1. seen[o].head \in Heads
          BY DEF TypeOK
        <4>2. run' = [head |-> seen[o].head, successor |-> TRUE]
          BY <1>9, <2>1 DEF WriteRequeue
        <4> QED BY <4>1, <4>2 DEF Run
      <3>2. /\ stream' \in Seq([status : {"PENDING", "CONTEXT_READY"}, run : Run])
            /\ on' \in [Owners -> DOMAIN stream']
        <4>1. on' = on /\ status = "PENDING"
          BY <1>9, <2>1 DEF WriteRequeue, MaySwap, workVars
        <4>2. CASE stream' = stream
          BY <4>1, <4>2 DEF TypeOK
        <4>3. CASE stream' = Append(stream, [status |-> status, run |-> run'])
          BY <4>1, <4>3, <3>1, AppendTypes
        <4> QED BY <1>9, <2>1, <4>2, <4>3 DEF WriteRequeue
      <3>3. /\ claim' = [p \in Phases |-> None] /\ admitted' = None /\ context' = None
            /\ UNCHANGED <<status, attempts, intent, shelf, pr, moves, nth, stage,
                           seen, plan, call>>
        BY <1>9, <2>1 DEF WriteRequeue, workVars
      <3> QED BY <1>a, <3>1, <3>2, <3>3 DEF TypeOK
    <2>2. CASE ~MaySwap(o)
      BY <1>9, <1>a, <2>2 DEF WriteRequeue, TypeOK, workVars
    <2> QED BY <2>1, <2>2
  <1>10. CASE Stop(o)
    BY <1>10, <1>a, EndItemTypes DEF Stop, Terminal
  <1>11. CASE Gate(o)
    <2>1. CASE EndItem(o, "ERROR")
      BY <2>1, <1>a, EndItemTypes DEF Terminal
    <2>2. CASE ~EndItem(o, "ERROR")
      BY <1>11, <1>a, <2>2 DEF Gate, TypeOK, itemVars
    <2> QED BY <2>1, <2>2
  <1>12. CASE Buy(o)
    BY <1>12, <1>a DEF Buy, TypeOK, itemVars, workVars
  <1>13. CASE Settle(o)
    BY <1>13, <1>a DEF Settle, TypeOK, itemVars
  <1>14. CASE PersistIntent(o)
    <2>1. intent' \in BOOLEAN
      BY <1>14 DEF PersistIntent, TypeOK
    <2> QED BY <1>14, <1>a, <2>1 DEF PersistIntent, TypeOK, workVars
  <1>15. CASE Publish(o)
    BY <1>15, <1>a, EndItemTypes DEF Publish
  <1>16. CASE StoreBundle(o)
    BY <1>16, <1>a, <1>b DEF StoreBundle, Key, TypeOK, itemVars, workVars
  <1>17. CASE CommitContext(o)
    <2>3. CASE Owns(o)
      <3>1. /\ status' = "CONTEXT_READY" /\ context' \in Pointer
            /\ stream' = Append(stream, [status |-> "CONTEXT_READY", run |-> run])
            /\ claim' = [claim EXCEPT !["context"] = None]
            /\ UNCHANGED <<run, attempts, admitted, intent, shelf, pr, moves, on,
                           nth, stage, seen, plan, call>>
        BY <1>17, <1>b, <2>3 DEF CommitContext, Key, Pointer, workVars
      <3>2. /\ stream' \in Seq([status : {"PENDING", "CONTEXT_READY"}, run : Run])
            /\ on' \in [Owners -> DOMAIN stream']
        <4>1. run \in Run
          BY DEF TypeOK
        <4> QED BY <3>1, <4>1, AppendTypes
      <3>3. claim' \in [Phases -> Claim \cup {None}]
        BY <3>1 DEF TypeOK
      <3> QED BY <1>a, <3>1, <3>2, <3>3 DEF TypeOK
    <2>4. CASE ~Owns(o)
      BY <1>17, <1>a, <2>4 DEF CommitContext, TypeOK, workVars
    <2> QED BY <2>3, <2>4
  <1>18. CASE Raise(o)
    BY <1>18, <1>a DEF Raise, TypeOK, itemVars, workVars
  <1>19. CASE HandleFailure(o)
    <2>1. CASE EndItem(o, "SUPERSEDED") \/ EndItem(o, "ERROR")
      BY <2>1, <1>a, EndItemTypes DEF Terminal
    <2>2. CASE ~(EndItem(o, "SUPERSEDED") \/ EndItem(o, "ERROR"))
      <3>1. claim' \in [Phases -> Claim \cup {None}]
        BY <1>19, <2>2 DEF HandleFailure, TypeOK
      <3> QED BY <1>19, <1>a, <2>2, <3>1 DEF HandleFailure, TypeOK, workVars
    <2> QED BY <2>1, <2>2
  <1>20. CASE Crash(o)
    BY <1>20, <1>a DEF Crash, TypeOK, itemVars, workVars
  <1> QED BY <1>1, <1>2, <1>3, <1>4, <1>5, <1>6, <1>7, <1>8, <1>9, <1>10, <1>11,
             <1>12, <1>13, <1>14, <1>15, <1>16, <1>17, <1>18, <1>19, <1>20 DEF Step

\* A step of one delivery leaves the others where they are.
LEMMA Locality ==
  ASSUME TypeOK, NEW o \in Owners, Step(o)
  PROVE  Others(o)
  <1>a. \A b \in Owners \ {o} : pc'[b] = pc[b]
    BY Moves DEF Goto, TypeOK
  <1>e. ASSUME NEW s, EndItem(o, s) PROVE Others(o)
    BY <1>a, <1>e DEF EndItem, Others, workVars
  <1>1. CASE Receive(o)
    BY <1>1, <1>a DEF Receive, Others, TypeOK
  <1>2. CASE Reread(o)
    BY <1>2, <1>a DEF Reread, Others, workVars
  <1>3. CASE ClaimPhase(o)
    BY <1>3, <1>a DEF ClaimPhase, Others, TypeOK
  <1>4. CASE Start(o)
    BY <1>4, <1>a, <1>e DEF Start, Others, workVars
  <1>5. CASE LoadContext(o)
    BY <1>5, <1>a DEF LoadContext, Others, workVars
  <1>6. CASE Observe(o)
    BY <1>6, <1>a DEF Observe, Others, TypeOK
  <1>7. CASE Decide(o)
    BY <1>7, <1>a DEF Decide, Others, TypeOK
  <1>8. CASE ReadForRequeue(o)
    BY <1>8, <1>a DEF ReadForRequeue, Others, TypeOK
  <1>9. CASE WriteRequeue(o)
    BY <1>9, <1>a DEF WriteRequeue, Others, workVars
  <1>10. CASE Stop(o)
    BY <1>10, <1>e DEF Stop
  <1>11. CASE Gate(o)
    <2>1. CASE EndItem(o, "ERROR")
      BY <2>1, <1>e
    <2>2. CASE ~EndItem(o, "ERROR")
      BY <1>11, <1>a, <2>2 DEF Gate, Others, TypeOK
    <2> QED BY <2>1, <2>2
  <1>12. CASE Buy(o)
    BY <1>12, <1>a DEF Buy, Others, workVars, TypeOK
  <1>13. CASE Settle(o)
    BY <1>13, <1>a DEF Settle, Others, TypeOK
  <1>14. CASE PersistIntent(o)
    BY <1>14, <1>a DEF PersistIntent, Others, workVars
  <1>15. CASE Publish(o)
    BY <1>15, <1>e DEF Publish
  <1>16. CASE StoreBundle(o)
    BY <1>16, <1>a DEF StoreBundle, Others, workVars
  <1>17. CASE CommitContext(o)
    BY <1>17, <1>a DEF CommitContext, Others, workVars
  <1>18. CASE Raise(o)
    BY <1>18, <1>a DEF Raise, Others, workVars
  <1>19. CASE HandleFailure(o)
    <2>1. CASE EndItem(o, "SUPERSEDED") \/ EndItem(o, "ERROR")
      BY <2>1, <1>e
    <2>2. CASE ~(EndItem(o, "SUPERSEDED") \/ EndItem(o, "ERROR"))
      BY <1>19, <1>a, <2>2 DEF HandleFailure, Others, workVars
    <2> QED BY <2>1, <2>2
  <1>20. CASE Crash(o)
    BY <1>20, <1>a DEF Crash, Others, workVars
  <1> QED BY <1>1, <1>2, <1>3, <1>4, <1>5, <1>6, <1>7, <1>8, <1>9, <1>10, <1>11,
             <1>12, <1>13, <1>14, <1>15, <1>16, <1>17, <1>18, <1>19, <1>20 DEF Step

Kind(o) ==
  \/ ClaimStep(o) \/ EndStep(o) \/ ReleaseStep(o) \/ RequeueStep(o)
  \/ CommitStep(o) \/ CalmStep(o)

\* Ending the item: it writes under the claim, or returns without a write.
LEMMA EndKind ==
  ASSUME TypeOK, NEW o \in Owners, NEW s \in Terminal, EndItem(o, s),
         pc[o] \in InPhase
  PROVE  EndStep(o) \/ CalmStep(o)
  <1>1. CASE Owns(o)
    <2>1. pc'[o] \in {"done", "failed"}
      BY <1>1, StepNames, GotoTypes DEF EndItem
    <2> QED BY <1>1, <2>1 DEF EndItem, EndStep, workVars
  <1>2. CASE ~Owns(o)
    <2>1. pc'[o] = "done"
      BY <1>2, StepNames, GotoTypes DEF EndItem
    <2>2. "done" \notin Working /\ pc[o] \notin Ended
          /\ pc[o] \notin {"idle", "reread", "claim"}
      BY DEF Working, InPhase, Ended
    <2> QED BY <1>2, <2>1, <2>2 DEF EndItem, CalmStep, workVars, Ended
  <1> QED BY <1>1, <1>2

\* A step that changes nothing but its delivery's control point, from inside a
\* phase to somewhere inside it.
LEMMA WalkKind ==
  ASSUME TypeOK, NEW o \in Owners, NEW step \in InPhase, Goto(o, step),
         pc[o] \in InPhase,
         UNCHANGED <<itemVars, shelf, stream, call, on, nth>>,
         step \notin {"start", "settle", "requeue", "swap", "commit"},
         pc[o] \in {"publish", "fail"} => step = "fail",
         step \in Working \ {"publish"} => (pc[o] = "start" => nth[o] <= MaxAttempts)
  PROVE  CalmStep(o)
  <1>1. pc'[o] = step
    BY GotoTypes, StepNames DEF InPhase, Steps
  <1>2. /\ pc[o] \notin Ended /\ pc[o] \notin {"idle", "reread", "claim"}
        /\ step \notin Ended /\ "fail" \notin Working
    BY DEF InPhase, Working, Ended
  <1>3. step \in Working \ {"publish"} => pc[o] \in Working \ {"publish"}
    BY <1>2 DEF InPhase
  <1>4. step # "done"
    BY <1>2 DEF Ended
  <1> QED BY <1>1, <1>2, <1>3, <1>4 DEF CalmStep, itemVars

\* Every step of a delivery is of one of the six kinds.
LEMMA Kinds ==
  ASSUME TypeOK, NEW o \in Owners, Step(o)
  PROVE  Kind(o)
  <1>n. /\ \A step \in Steps : Goto(o, step) => pc'[o] = step
        /\ Goto(o, Onward(o)) => pc'[o] = Onward(o)
    BY GotoTypes, OnwardTypes, StepNames
  <1>w. /\ InPhase \cap Ended = {} /\ InPhase \cap {"idle", "reread", "claim"} = {}
        /\ "fail" \notin Working /\ Working \subseteq InPhase /\ "fail" \in InPhase
    BY DEF InPhase, Working, Ended
  <1>1. CASE Receive(o)
    <2>1. pc'[o] = "reread" /\ pc[o] = "idle" /\ "idle" \notin Ended
      BY <1>1, <1>n, StepNames DEF Receive, Ended
    <2> QED BY <1>1, <1>w, <2>1 DEF Receive, Kind, CalmStep, itemVars
  <1>2. CASE Reread(o)
    <2>1. pc'[o] = (IF Current(o) THEN "claim" ELSE "done") /\ pc[o] = "reread"
          /\ {"claim", "done"} \cap Working = {} /\ "reread" \notin Ended
      BY <1>2, <1>n, StepNames DEF Reread, Working, Ended
    <2> QED BY <1>2, <1>w, <2>1 DEF Reread, Kind, CalmStep, itemVars, workVars
  <1>3. CASE ClaimPhase(o)
    <2>1. CASE Current(o) /\ Claimable(o)
      <3>1. pc'[o] \in {"start", "publish", "failed"}
        BY <1>3, <1>n, <2>1, StepNames DEF ClaimPhase
      <3> QED BY <1>3, <2>1, <3>1 DEF ClaimPhase, ClaimStep, Kind
    <2>2. CASE ~(Current(o) /\ Claimable(o))
      <3>1. pc'[o] = "failed" /\ pc[o] = "claim" /\ "failed" \notin Working
            /\ "claim" \notin Ended
        BY <1>3, <1>n, <2>2, StepNames DEF ClaimPhase, Working, Ended
      <3> QED BY <1>3, <1>w, <2>2, <3>1 DEF ClaimPhase, CalmStep, Kind
    <2> QED BY <2>1, <2>2
  <1>4. CASE Start(o)
    <2>1. pc[o] \in InPhase
      BY <1>4, StepNames, <1>w DEF Start
    <2>2. CASE EndItem(o, "ERROR") \/ EndItem(o, "SUPERSEDED")
      BY <2>1, <2>2, EndKind DEF Kind, Terminal
    <2>3. CASE /\ Goto(o, IF Phase(o) = "review" THEN "load" ELSE "observe")
               /\ nth[o] <= MaxAttempts
               /\ UNCHANGED <<itemVars, shelf, stream, pr, moves, workVars, call>>
      BY <1>4, <2>1, <2>3, StepNames, WalkKind, <1>w DEF Kind, Start, workVars
    <2> QED BY <1>4, <2>2, <2>3 DEF Start
  <1>5. CASE LoadContext(o)
    BY <1>5, StepNames, WalkKind, <1>w DEF Kind, LoadContext, workVars
  <1>6. CASE Observe(o)
    BY <1>6, StepNames, WalkKind, <1>w DEF Kind, Observe
  <1>7. CASE Decide(o)
    <2>1. pc[o] = "decide" /\ pc[o] \in Working
      BY <1>7, StepNames DEF Decide
    <2>2. pc'[o] \in {"gate", "observe", "store", "intent", "fail", "requeue", "stop"}
      BY <1>7, <1>n, OnwardTypes, StepNames DEF Decide
    <2>3. pc'[o] = "requeue" => seen[o].head # Mine(o).head
      BY <1>7, <1>n, OnwardTypes, StepNames DEF Decide
    <2>4. admitted' = admitted \/ (admitted' = Mine(o) /\ Current(o))
      BY <1>7 DEF Decide
    <2>5. UNCHANGED <<status, run, attempts, claim, context, intent, shelf, stream,
                      on, nth, seen, call>>
      BY <1>7 DEF Decide
    <2>6. pc'[o] \in InPhase
      BY <2>2, <1>w, StepNames
    <2> QED BY <1>w, <2>1, <2>2, <2>3, <2>4, <2>5, <2>6 DEF Kind, CalmStep, Ended
  <1>8. CASE ReadForRequeue(o)
    <2>1. pc[o] = "requeue" /\ pc[o] \in Working /\ {"swap", "stop"} \subseteq InPhase
      BY <1>8, <1>w, StepNames DEF ReadForRequeue
    <2>2. CASE MayRequeue(o)
      <3>1. pc'[o] = "swap" /\ plan' = [plan EXCEPT ![o] = Ledger]
        BY <1>8, <1>n, <2>2, StepNames DEF ReadForRequeue
      <3> QED BY <1>8, <1>w, <2>1, <2>2, <3>1
           DEF ReadForRequeue, Kind, CalmStep, itemVars, Ended
    <2>3. CASE ~MayRequeue(o)
      <3>1. Goto(o, "stop")
        BY <1>8, <2>3 DEF ReadForRequeue
      <3> QED BY <1>8, <1>w, <2>1, <3>1, StepNames, WalkKind DEF ReadForRequeue, Kind
    <2> QED BY <2>2, <2>3
  <1>9. CASE WriteRequeue(o)
    <2>1. CASE MaySwap(o)
      <3>1. pc'[o] \in {"done", "fail"}
        BY <1>9, <1>n, <2>1, StepNames DEF WriteRequeue
      <3> QED BY <1>9, <2>1, <3>1 DEF Kind, RequeueStep
    <2>2. CASE ~MaySwap(o)
      BY <1>9, <1>w, <2>2, StepNames, WalkKind DEF WriteRequeue, Kind, itemVars, workVars
    <2> QED BY <2>1, <2>2
  <1>10. CASE Stop(o)
    <2>1. pc[o] \in InPhase /\ EndItem(o, "SUPERSEDED")
      BY <1>10, <1>w, StepNames DEF Stop
    <2> QED BY <2>1, EndKind DEF Kind, Terminal
  <1>11. CASE Gate(o)
    <2>1. pc[o] \in InPhase /\ pc[o] = "gate"
      BY <1>11, <1>w, StepNames DEF Gate
    <2>2. CASE EndItem(o, "ERROR")
      BY <2>1, <2>2, EndKind DEF Kind, Terminal
    <2>3. CASE ~EndItem(o, "ERROR")
      <3>1. PICK step \in {"buy", "observe"} : Goto(o, step)
        BY <1>11, <2>3 DEF Gate
      <3> QED BY <1>11, <1>w, <2>1, <2>3, <3>1, StepNames, WalkKind DEF Gate, Kind
    <2> QED BY <2>2, <2>3
  <1>12. CASE Buy(o)
    <2>1. pc[o] = "buy" /\ pc[o] \in Working /\ {"settle", "fail"} \subseteq InPhase
      BY <1>12, <1>w, StepNames DEF Buy
    <2>2. CASE Goto(o, "fail") /\ call' = call
      BY <1>12, <1>w, <2>1, <2>2, StepNames, WalkKind DEF Buy, Kind, workVars
    <2>3. CASE ~(Goto(o, "fail") /\ call' = call)
      <3>1. pc'[o] = "settle" /\ Owns(o) /\ call' = [call EXCEPT ![o] = "dispatching"]
        BY <1>12, <1>n, <2>3, StepNames DEF Buy
      <3> QED BY <1>12, <1>w, <2>1, <3>1 DEF Buy, Kind, CalmStep, itemVars, workVars, Ended
    <2> QED BY <2>2, <2>3
  <1>13. CASE Settle(o)
    <2>1. pc[o] = "settle" /\ pc[o] \in Working /\ "observe" \in InPhase
          /\ pc'[o] = "observe"
      BY <1>13, <1>n, <1>w, StepNames DEF Settle
    <2> QED BY <1>13, <1>w, <2>1 DEF Settle, Kind, CalmStep, itemVars, Ended
  <1>14. CASE PersistIntent(o)
    <2>1. pc[o] = "intent" /\ pc[o] \in Working /\ {"publish", "fail"} \subseteq InPhase
      BY <1>14, <1>w, StepNames DEF PersistIntent
    <2>2. pc'[o] \in {"publish", "fail"} /\ (intent' = TRUE \/ intent' = intent)
      BY <1>14, <1>n, StepNames DEF PersistIntent
    <2> QED BY <1>14, <1>w, <2>1, <2>2 DEF PersistIntent, Kind, CalmStep, workVars, Ended
  <1>15. CASE Publish(o)
    <2>1. pc[o] \in InPhase /\ \E s \in Terminal : EndItem(o, s)
      BY <1>15, <1>w, StepNames DEF Publish
    <2> QED BY <2>1, EndKind DEF Kind
  <1>16. CASE StoreBundle(o)
    <2>1. pc[o] = "store" /\ pc[o] \in Working /\ "commit" \in InPhase /\ pc'[o] = "commit"
          /\ "commit" \in Working
      BY <1>16, <1>n, <1>w, StepNames DEF StoreBundle
    <2>2. UNCHANGED <<itemVars, stream, on, nth, call>>
      BY <1>16 DEF StoreBundle, workVars
    <2> QED BY <1>16, <1>w, <2>1, <2>2 DEF Kind, CalmStep, itemVars, Ended
  <1>17. CASE CommitContext(o)
    <2>1. CASE Owns(o)
      <3>1. pc'[o] \in {"done", "fail"}
        BY <1>17, <1>n, <2>1, StepNames DEF CommitContext
      <3> QED BY <1>17, <2>1, <3>1 DEF Kind, CommitStep
    <2>2. CASE ~Owns(o)
      <3>1. pc'[o] = "done" /\ pc[o] = "commit" /\ pc[o] \in Working
            /\ "done" \notin Working
        BY <1>17, <1>n, <2>2, StepNames DEF CommitContext, Working
      <3> QED BY <1>17, <1>w, <2>2, <3>1
           DEF CommitContext, Kind, CalmStep, workVars, Ended
    <2> QED BY <2>1, <2>2
  <1>18. CASE Raise(o)
    BY <1>18, <1>w, WalkKind DEF Raise, Kind, workVars
  <1>19. CASE HandleFailure(o)
    <2>1. pc[o] = "fail" /\ pc[o] \in InPhase
      BY <1>19, <1>w DEF HandleFailure
    <2>2. CASE EndItem(o, "SUPERSEDED") \/ EndItem(o, "ERROR")
      BY <2>1, <2>2, EndKind DEF Kind, Terminal
    <2>3. CASE ~(EndItem(o, "SUPERSEDED") \/ EndItem(o, "ERROR"))
      <3>1. pc'[o] = "failed"
        BY <1>19, <1>n, <2>3, StepNames DEF HandleFailure
      <3> QED BY <1>19, <2>1, <2>3, <3>1 DEF HandleFailure, Kind, ReleaseStep, workVars
    <2> QED BY <2>2, <2>3
  <1>20. CASE Crash(o)
    <2>1. pc'[o] = "crashed" /\ pc[o] # "idle" /\ pc[o] \notin Ended
          /\ "crashed" \notin Working
      BY <1>20, <1>n, StepNames DEF Crash, Working
    <2> QED BY <1>20, <1>w, <2>1 DEF Crash, Kind, CalmStep, itemVars, workVars, Ended
  <1> QED BY <1>1, <1>2, <1>3, <1>4, <1>5, <1>6, <1>7, <1>8, <1>9, <1>10, <1>11,
             <1>12, <1>13, <1>14, <1>15, <1>16, <1>17, <1>18, <1>19, <1>20 DEF Step

\* The pull request's own moves keep the types.
LEMMA MovesTypes ==
  ASSUME TypeOK, PullRequestMoves
  PROVE  TypeOK'
  <1>1. pr' \in [head : Heads, open : BOOLEAN]
    BY DEF PullRequestMoves, TypeOK
  <1>2. moves' \in 0..MaxMoves
    BY LifecycleAssumption DEF PullRequestMoves, TypeOK
  <1> QED BY <1>1, <1>2 DEF PullRequestMoves, TypeOK, itemVars, workVars

-----------------------------------------------------------------------------
\* Records are only ever added, so what a busy delivery handles stays put.
LEMMA Frame ==
  ASSUME TypeOK, TypeOK', NEW o \in Owners, Step(o), NEW b \in Owners,
         b # o \/ pc[o] # "idle"
  PROVE  /\ on'[b] = on[b] /\ stream'[on[b]] = stream[on[b]]
         /\ Phase(b)' = Phase(b) /\ Mine(b)' = Mine(b) /\ Built(b)' = Built(b)
  <1>1. on'[b] = on[b]
    <2>1. CASE b # o
      BY <2>1, Locality DEF Others
    <2>2. CASE b = o
      BY <2>2, Kinds DEF Kind, ClaimStep, EndStep, ReleaseStep, RequeueStep,
         CommitStep, CalmStep, WriteRequeue, CommitContext, workVars
    <2> QED BY <2>1, <2>2
  <1>2. stream' = stream \/ \E r : stream' = Append(stream, r)
    BY Kinds DEF Kind, ClaimStep, EndStep, ReleaseStep, RequeueStep,
       CommitStep, CalmStep, WriteRequeue, CommitContext
  <1>3. stream'[on[b]] = stream[on[b]]
    <2>1. /\ stream \in Seq([status : {"PENDING", "CONTEXT_READY"}, run : Run])
          /\ on[b] \in DOMAIN stream /\ on[b] \in 1..Len(stream)
      <3>1. /\ stream \in Seq([status : {"PENDING", "CONTEXT_READY"}, run : Run])
            /\ on[b] \in DOMAIN stream
        BY DEF TypeOK
      <3> QED BY <3>1, ElementTypes
    <2> QED BY <1>2, <2>1
  <1> QED BY <1>1, <1>3 DEF Phase, Mine, Built

\* A record that describes the item names the item's phase.
LEMMA CurrentPhase ==
  ASSUME TypeOK, NEW o \in Owners
  PROVE  Current(o) <=> status = Expected[Phase(o)] /\ run = Mine(o)
  <1>1. stream[on[o]].status \in {"PENDING", "CONTEXT_READY"}
    BY RecordTypes
  <1> QED BY <1>1 DEF Current, Phase, Expected

\* Only the context phase replaces the head or stores a bundle.
LEMMA CommitPhase ==
  ASSUME TypeOK, StageInv, NEW o \in Owners,
         pc[o] \in {"requeue", "swap", "store", "commit"}
  PROVE  Phase(o) = "context"
  <1>1. Phase(o) \in {"context", "review"}
    BY DEF Phase
  <1> QED BY <1>1 DEF StageInv

\* The record that describes the item is the last one, and the only one.
LEMMA StreamKept ==
  ASSUME TypeOK, TypeOK', StreamInv, StageInv, RequeueInv, NEW o \in Owners, Step(o)
  PROVE  StreamInv'
  <1>t. /\ stream \in Seq([status : {"PENDING", "CONTEXT_READY"}, run : Run])
        /\ Len(stream) \in Nat /\ DOMAIN stream = 1..Len(stream) /\ Len(stream) > 0
        /\ \A e \in DOMAIN stream : stream[e].status \notin Terminal
    <2>1. stream \in Seq([status : {"PENDING", "CONTEXT_READY"}, run : Run])
      BY DEF TypeOK
    <2>2. \A e \in DOMAIN stream :
            stream[e] \in [status : {"PENDING", "CONTEXT_READY"}, run : Run]
      BY <2>1, ElementTypes
    <2> QED BY <2>1, <2>2 DEF Terminal, StreamInv
  <1>1. CASE UNCHANGED <<status, run, stream>>
    BY <1>1 DEF StreamInv
  <1>2. CASE EndStep(o)
    <2>1. /\ status' \in Terminal /\ status' \notin {"PENDING", "CONTEXT_READY"}
          /\ UNCHANGED <<run, stream>>
      BY <1>2 DEF EndStep, Terminal
    <2>2. \A e \in DOMAIN stream : stream[e] # [status |-> status', run |-> run]
      BY <2>1, <1>t
    <2> QED BY <2>1, <2>2, <1>t DEF StreamInv
  <1>3. CASE RequeueStep(o)
    <2>1. /\ status = "PENDING" /\ status' = status /\ ~run.successor /\ run'.successor
      BY <1>3 DEF RequeueStep, WriteRequeue, MaySwap
    <2>2. Dispatched(plan[o])
      BY <1>3 DEF RequeueStep, WriteRequeue, RequeueInv, Dispatched
    <2>3. stream' = Append(stream, [status |-> status, run |-> run'])
      BY <1>3, <2>2 DEF RequeueStep, WriteRequeue
    <2>4. /\ Len(stream') = Len(stream) + 1
          /\ stream'[Len(stream) + 1] = [status |-> status, run |-> run']
          /\ \A e \in DOMAIN stream : stream'[e] = stream[e]
          /\ DOMAIN stream' = DOMAIN stream \cup {Len(stream) + 1}
      BY <1>t, <2>3
    <2>5. \A e \in DOMAIN stream : stream[e].run # run'
      BY <2>1 DEF StreamInv
    <2>6. \A e \in DOMAIN stream : stream[e].status = "PENDING"
      BY <2>1 DEF StreamInv
    <2>7. \A e \in DOMAIN stream' : stream'[e].status = "PENDING"
      BY <2>1, <2>4, <2>6
    <2>8. \A e \in DOMAIN stream' :
            stream'[e] = [status |-> status', run |-> run'] => e = Len(stream')
      BY <2>4, <2>5
    <2> QED BY <1>t, <2>1, <2>4, <2>7, <2>8 DEF StreamInv
  <1>4. CASE CommitStep(o)
    <2>1. /\ status = "PENDING" /\ status' = "CONTEXT_READY" /\ run' = run
          /\ stream' = Append(stream, [status |-> "CONTEXT_READY", run |-> run])
      BY <1>4, CommitPhase DEF CommitStep, CommitContext, Owns, Expected
    <2>4. /\ Len(stream') = Len(stream) + 1
          /\ stream'[Len(stream) + 1] = [status |-> "CONTEXT_READY", run |-> run]
          /\ \A e \in DOMAIN stream : stream'[e] = stream[e]
          /\ DOMAIN stream' = DOMAIN stream \cup {Len(stream) + 1}
      BY <1>t, <2>1
    <2>6. \A e \in DOMAIN stream : stream[e].status = "PENDING"
      BY <2>1 DEF StreamInv
    <2>7. \A e \in DOMAIN stream' :
            stream'[e] = [status |-> status', run |-> run'] => e = Len(stream')
      BY <2>1, <2>4, <2>6
    <2>8. ~run'.successor => \A e \in DOMAIN stream' : stream'[e].run = run'
      BY <2>1, <2>4 DEF StreamInv
    <2> QED BY <1>t, <2>1, <2>4, <2>7, <2>8 DEF StreamInv
  <1> QED BY <1>1, <1>2, <1>3, <1>4, Kinds DEF Kind, ClaimStep, ReleaseStep, CalmStep

\* Whoever claims, ends, releases or hands the item on leaves no other claim.
LEMMA ClaimKept ==
  ASSUME TypeOK, TypeOK', ClaimInv, StageInv, AttemptInv, NEW o \in Owners, Step(o)
  PROVE  ClaimInv'
  <1>1. SUFFICES ASSUME NEW p \in Phases, claim'[p] # None,
                        NEW b \in Owners, claim'[p].owner = b
                 PROVE  /\ status' = Expected[p] /\ Phase(b)' = p /\ Mine(b)' = run'
                        /\ claim'[p].event = on'[b] /\ nth'[b] = attempts'[p]
                        /\ pc'[b] \notin {"idle", "reread", "claim", "done"}
    <2>1. \A p \in Phases : claim'[p] # None => claim'[p].owner \in Owners
      BY DEF TypeOK, Claim
    <2> QED BY <2>1 DEF ClaimInv, Phase, Mine
  <1>t. /\ claim \in [Phases -> Claim \cup {None}]
        /\ attempts \in [Phases -> Nat] /\ nth \in [Owners -> Nat]
        /\ Phase(o) \in Phases
    BY RecordTypes DEF TypeOK
  <1>o. Owns(o) => \A q \in Phases : claim[q] # None => q = Phase(o)
    <2>1. SUFFICES ASSUME Owns(o), NEW q \in Phases, claim[q] # None PROVE q = Phase(o)
      OBVIOUS
    <2>2. status = Expected[q] /\ status = Expected[Phase(o)]
      BY <2>1 DEF ClaimInv, Owns
    <2> QED BY <2>2, <1>t DEF Phases, Expected
  <1>2. CASE ClaimStep(o)
    <2>1. status = Expected[Phase(o)] /\ Mine(o) = run /\ status' = status /\ run' = run
      BY <1>2, CurrentPhase DEF ClaimStep
    <2>2. p = Phase(o)
      <3>1. CASE claim[p] = None
        BY <1>1, <1>2, <1>t, <3>1 DEF ClaimStep
      <3>2. CASE claim[p] # None
        BY <2>1, <3>2, <1>t DEF ClaimInv, Phases, Expected
      <3> QED BY <3>1, <3>2
    <2>3. claim'[p] = [owner |-> o, event |-> on[o]] /\ nth'[o] = attempts[p] + 1
          /\ attempts'[p] = attempts[p] + 1 /\ on'[o] = on[o]
      BY <1>2, <1>t, <2>2 DEF ClaimStep
    <2>4. Phase(o)' = p /\ Mine(o)' = run'
      BY <1>2, <2>1, <2>2, Frame DEF ClaimStep
    <2>5. pc'[o] \notin {"idle", "reread", "claim", "done"}
      BY <1>2 DEF ClaimStep
    <2>6. b = o
      BY <1>1, <2>3
    <2> QED BY <2>1, <2>2, <2>3, <2>4, <2>5, <2>6 DEF Phase, Mine
  <1>3. CASE EndStep(o) \/ (ReleaseStep(o) /\ Owns(o))
    <2>1. claim' = [claim EXCEPT ![Phase(o)] = None] /\ Owns(o)
      BY <1>3 DEF EndStep, ReleaseStep
    <2>2. claim'[p] = claim[p] /\ p # Phase(o)
      BY <1>1, <1>t, <2>1
    <2> QED BY <1>1, <1>o, <2>1, <2>2
  <1>4. CASE RequeueStep(o)
    BY <1>1, <1>4 DEF RequeueStep, WriteRequeue
  <1>5. CASE CommitStep(o)
    <2>1. claim' = [claim EXCEPT !["context"] = None] /\ Owns(o) /\ Phase(o) = "context"
      BY <1>5, CommitPhase DEF CommitStep, CommitContext
    <2>2. claim'[p] = claim[p] /\ p # Phase(o)
      BY <1>1, <1>t, <2>1
    <2> QED BY <1>1, <1>o, <2>1, <2>2
  <1>6. CASE CalmStep(o) \/ (ReleaseStep(o) /\ ~Owns(o))
    <2>1. /\ UNCHANGED <<status, run, attempts, claim, nth>>
          /\ claim[p] # None /\ claim[p].owner = b
      BY <1>1, <1>6, <1>t DEF CalmStep, ReleaseStep
    <2>2. /\ status = Expected[p] /\ Phase(b) = p /\ Mine(b) = run
          /\ claim[p].event = on[b] /\ nth[b] = attempts[p]
          /\ pc[b] \notin {"idle", "reread", "claim", "done"}
      BY <2>1 DEF ClaimInv
    <2>3. Owns(b)
      BY <2>1, <2>2 DEF Owns
    <2>4. on'[b] = on[b] /\ Phase(b)' = Phase(b) /\ Mine(b)' = Mine(b)
      BY <2>1, <2>2, Frame
    <2>5. pc'[b] \notin {"idle", "reread", "claim", "done"}
      <3>1. CASE b # o
        BY <2>1, <2>2, <3>1, Locality DEF Others
      <3>2. CASE b = o
        <4>1. CASE ReleaseStep(o)
          BY <3>2, <4>1 DEF ReleaseStep
        <4>2. CASE CalmStep(o)
          <5>1. pc[o] \in InPhase
            <6>1. pc[o] \in Steps
              BY DEF TypeOK
            <6> QED BY <2>2, <3>2, <4>2, <6>1 DEF CalmStep, Steps, InPhase, Ended
          <5>2. pc'[o] \in InPhase \cup Ended /\ pc'[o] # "done"
            BY <2>3, <3>2, <4>2, <5>1 DEF CalmStep
          <5> QED BY <3>2, <5>2 DEF InPhase, Working, Ended
        <4> QED BY <1>6, <4>1, <4>2
      <3> QED BY <3>1, <3>2
    <2> QED BY <2>1, <2>2, <2>4, <2>5
  <1> QED BY <1>2, <1>3, <1>4, <1>5, <1>6, Kinds DEF Kind

\* The control points and stages a delivery can be at.
LEMMA StageKept ==
  ASSUME TypeOK, TypeOK', StageInv, NEW o \in Owners, Step(o)
  PROVE  StageInv'
  <1> DEFINE At(b) ==
        /\ pc[b] # "idle" => (Phase(b) = "review" <=> stage[b] \in {"review", "final"})
        /\ pc[b] \in {"requeue", "swap"} => stage[b] \in {"ingest", "reconcile"}
        /\ pc[b] \in {"store", "commit"} => stage[b] = "persist"
        /\ pc[b] = "settle" => call[b] = "dispatching"
  <1>0. At(o)
    BY DEF StageInv
  <1>1. ASSUME NEW b \in Owners, b # o PROVE At(b)'
    <2>1. pc'[b] = pc[b] /\ stage'[b] = stage[b] /\ call'[b] = call[b]
      BY <1>1, Locality DEF Others
    <2>2. Phase(b)' = Phase(b)
      BY <1>1, Frame
    <2>3. At(b)
      BY DEF StageInv
    <2> QED BY <2>1, <2>2, <2>3
  <1>2. SUFFICES At(o)'
    BY <1>1 DEF StageInv
  <1> HIDE DEF At
  <1>n. /\ \A step \in Steps : Goto(o, step) => pc'[o] = step
        /\ Goto(o, Onward(o)) => pc'[o] = Onward(o)
    BY GotoTypes, OnwardTypes, StepNames
  <1>p. pc[o] # "idle" => Phase(o)' = Phase(o)
    BY Frame
  <1>f. ASSUME NEW step \in Steps \ {"requeue", "swap", "store", "commit", "settle"},
               Goto(o, step), pc[o] # "idle", stage' = stage
        PROVE  At(o)'
    <2>1. pc'[o] = step /\ Phase(o)' = Phase(o)
      BY <1>f, <1>n, <1>p
    <2> QED BY <1>f, <1>0, <2>1 DEF At
  <1>e. ASSUME NEW s, EndItem(o, s), pc[o] # "idle" PROVE At(o)'
    <2>1. PICK step \in {"done", "failed"} : Goto(o, step)
      BY <1>e DEF EndItem
    <2> QED BY <1>e, <1>f, <2>1, StepNames DEF EndItem, workVars
  <1>3. CASE Receive(o)
    <2>1. PICK e \in DOMAIN stream :
            /\ on' = [on EXCEPT ![o] = e]
            /\ stage' = [stage EXCEPT ![o] =
                           IF stream[e].status = "PENDING" THEN "ingest" ELSE "review"]
      BY <1>3 DEF Receive
    <2>2. /\ on'[o] = e /\ stream' = stream /\ pc'[o] = "reread"
          /\ stage'[o] = IF stream[e].status = "PENDING" THEN "ingest" ELSE "review"
      BY <1>3, <1>n, <2>1, StepNames DEF Receive, TypeOK
    <2>3. Phase(o)' = IF stream[e].status = "PENDING" THEN "context" ELSE "review"
      BY <2>2 DEF Phase
    <2> QED BY <2>2, <2>3 DEF At
  <1>4. CASE Reread(o)
    BY <1>4, <1>f, StepNames DEF Reread, workVars
  <1>5. CASE ClaimPhase(o)
    <2>1. PICK step \in {"publish", "start", "failed"} : Goto(o, step)
      BY <1>5 DEF ClaimPhase
    <2> QED BY <1>5, <1>f, <2>1, StepNames DEF ClaimPhase
  <1>6. CASE Start(o)
    BY <1>6, <1>e, <1>f, StepNames DEF Start, workVars
  <1>7. CASE LoadContext(o)
    BY <1>7, <1>f, StepNames DEF LoadContext, workVars
  <1>8. CASE Observe(o)
    BY <1>8, <1>f, StepNames DEF Observe
  <1>9. CASE Decide(o)
    <2>1. pc[o] # "idle" /\ Phase(o)' = Phase(o)
      BY <1>9, <1>p DEF Decide
    <2>2. /\ pc'[o] \in {Onward(o), "fail", "requeue", "stop"}
          /\ pc'[o] = "requeue" => stage[o] \in {"ingest", "reconcile"}
      BY <1>9, <1>n, StepNames, OnwardTypes DEF Decide
    <2>3. stage'[o] = IF stage[o] = "reconcile" /\ pc'[o] = "observe"
                      THEN "persist" ELSE stage[o]
      BY <1>9 DEF Decide, TypeOK
    <2>4. /\ Onward(o) = "store" => stage[o] = "persist"
          /\ Onward(o) \in {"gate", "observe", "store", "intent"}
      <3>1. stage[o] \in {"ingest", "reconcile", "persist", "terminal", "review", "final"}
        BY DEF TypeOK
      <3> QED BY <3>1 DEF Onward
    <2> QED BY <1>0, <2>1, <2>2, <2>3, <2>4 DEF At
  <1>10. CASE ReadForRequeue(o)
    <2>1. pc'[o] \in {"swap", "stop"} /\ pc[o] = "requeue" /\ stage' = stage
      BY <1>10, <1>n, StepNames DEF ReadForRequeue
    <2> QED BY <1>0, <1>p, <2>1 DEF At
  <1>11. CASE WriteRequeue(o)
    <2>1. PICK step \in {"done", "fail", "stop"} : Goto(o, step)
      BY <1>11 DEF WriteRequeue
    <2> QED BY <1>11, <1>f, <2>1, StepNames DEF WriteRequeue, workVars
  <1>12. CASE Stop(o)
    BY <1>12, <1>e DEF Stop
  <1>13. CASE Gate(o)
    <2>1. CASE EndItem(o, "ERROR")
      BY <1>13, <1>e, <2>1 DEF Gate
    <2>2. CASE Goto(o, "buy") /\ stage' = stage
      BY <1>13, <1>f, <2>2, StepNames DEF Gate
    <2>3. CASE /\ Phase(o) = "context" /\ Goto(o, "observe")
               /\ stage' = [stage EXCEPT ![o] = "terminal"]
      <3>1. pc'[o] = "observe" /\ stage'[o] = "terminal" /\ Phase(o)' = "context"
        BY <1>13, <1>n, <1>p, <2>3, StepNames DEF Gate, TypeOK
      <3> QED BY <3>1 DEF At
    <2> QED BY <1>13, <2>1, <2>2, <2>3 DEF Gate
  <1>14. CASE Buy(o)
    <2>1. CASE Goto(o, "fail") /\ call' = call
      BY <1>14, <1>f, <2>1, StepNames DEF Buy, workVars
    <2>2. CASE ~(Goto(o, "fail") /\ call' = call)
      <3>1. pc'[o] = "settle" /\ call'[o] = "dispatching" /\ stage' = stage
            /\ pc[o] # "idle"
        BY <1>14, <1>n, <2>2, StepNames DEF Buy, workVars, TypeOK
      <3> QED BY <1>0, <1>p, <3>1 DEF At
    <2> QED BY <2>1, <2>2
  <1>15. CASE Settle(o)
    <2>1. /\ pc'[o] = "observe" /\ pc[o] # "idle" /\ Phase(o) \in {"context", "review"}
          /\ stage'[o] \in IF Phase(o) = "context"
                           THEN {"terminal", "reconcile", "persist"} ELSE {"final"}
      BY <1>15, <1>n, StepNames DEF Settle, TypeOK, Phase
    <2> QED BY <1>p, <2>1 DEF At
  <1>16. CASE PersistIntent(o)
    <2>1. PICK step \in {"publish", "fail"} : Goto(o, step)
      BY <1>16 DEF PersistIntent
    <2> QED BY <1>16, <1>f, <2>1, StepNames DEF PersistIntent, workVars
  <1>17. CASE Publish(o)
    BY <1>17, <1>e DEF Publish
  <1>18. CASE StoreBundle(o)
    <2>1. pc'[o] = "commit" /\ pc[o] = "store" /\ stage' = stage
      BY <1>18, <1>n, StepNames DEF StoreBundle, workVars
    <2> QED BY <1>0, <1>p, <2>1 DEF At
  <1>19. CASE CommitContext(o)
    <2>1. PICK step \in {"done", "fail"} : Goto(o, step)
      BY <1>19 DEF CommitContext
    <2> QED BY <1>19, <1>f, <2>1, StepNames DEF CommitContext, workVars
  <1>20. CASE Raise(o)
    <2>1. pc[o] # "idle"
      BY <1>20 DEF Raise, Working
    <2> QED BY <1>20, <1>f, <2>1, StepNames DEF Raise, workVars
  <1>21. CASE HandleFailure(o)
    <2>1. CASE EndItem(o, "SUPERSEDED") \/ EndItem(o, "ERROR")
      BY <1>21, <1>e, <2>1 DEF HandleFailure
    <2>2. CASE ~(EndItem(o, "SUPERSEDED") \/ EndItem(o, "ERROR"))
      BY <1>21, <1>f, <2>2, StepNames DEF HandleFailure, workVars
    <2> QED BY <2>1, <2>2
  <1>22. CASE Crash(o)
    BY <1>22, <1>f, StepNames DEF Crash, workVars
  <1> QED BY <1>3, <1>4, <1>5, <1>6, <1>7, <1>8, <1>9, <1>10, <1>11, <1>12, <1>13,
             <1>14, <1>15, <1>16, <1>17, <1>18, <1>19, <1>20, <1>21, <1>22 DEF Step

\* A number is handed out at the claim, above every number handed out before.
LEMMA AttemptKept ==
  ASSUME TypeOK, TypeOK', AttemptInv, NEW o \in Owners, Step(o)
  PROVE  AttemptInv'
  <1> DEFINE Fair(b) ==
        /\ nth[b] <= attempts[Phase(b)]
        /\ pc[b] \in {"idle", "reread", "claim"} => nth[b] = 0
        /\ pc[b] \in InPhase => nth[b] > 0
        /\ pc[b] \in Working \ {"start", "publish"} => nth[b] <= MaxAttempts
        /\ call[b] # None => nth[b] \in 1..MaxAttempts
  <1>f. \A b \in Owners : Fair(b)
    BY DEF AttemptInv, InPhase
  <1>t. /\ attempts \in [Phases -> Nat] /\ nth \in [Owners -> Nat]
        /\ attempts' \in [Phases -> Nat] /\ nth' \in [Owners -> Nat]
        /\ \A b \in Owners : Phase(b) \in Phases /\ pc[b] \in Steps
        /\ MaxAttempts \in Nat
    BY RecordTypes, LifecycleAssumption DEF TypeOK
  <1>p. \A b \in Owners : Phase(b)' \in Phases
    BY DEF Phase, Phases
  <1>w. /\ InPhase \cap Ended = {} /\ InPhase \cap {"idle", "reread", "claim"} = {}
        /\ "fail" \notin Working /\ Working \subseteq InPhase
        /\ Ended \cap {"idle", "reread", "claim"} = {} /\ "failed" \in Ended
    BY DEF InPhase, Working, Ended
  <1>1. ClaimStep(o) \/ UNCHANGED <<attempts, nth>>
    BY Kinds DEF Kind, EndStep, ReleaseStep, RequeueStep, CommitStep, CalmStep,
       WriteRequeue, CommitContext, workVars
  <1>2. \A p \in Phases : attempts[p] <= attempts'[p]
    BY <1>1, <1>t DEF ClaimStep
  <1>3. ASSUME NEW b \in Owners, b # o PROVE Fair(b)'
    <2>1. pc'[b] = pc[b] /\ nth'[b] = nth[b] /\ call'[b] = call[b]
      BY <1>1, <1>3, Locality DEF Others
    <2>2. Phase(b)' = Phase(b)
      BY <1>3, Frame
    <2>3. Fair(b)
      BY <1>f
    <2> QED BY <1>2, <1>t, <2>1, <2>2, <2>3
  <1>4. Fair(o)'
    <2>0. Fair(o)
      BY <1>f
    <2>1. CASE ClaimStep(o)
      <3>1. /\ nth'[o] = attempts[Phase(o)] + 1 /\ attempts'[Phase(o)] = nth'[o]
            /\ Phase(o)' = Phase(o) /\ pc'[o] \in {"start", "publish", "failed"}
        BY <1>t, <2>1, Frame DEF ClaimStep
      <3>2. call'[o] = None
        <4>1. pc[o] = "claim" /\ call' = call
          BY <2>1 DEF ClaimStep
        <4> QED BY <2>0, <4>1
      <3>3. pc'[o] \notin {"idle", "reread", "claim"}
            /\ pc'[o] \notin Working \ {"start", "publish"}
        BY <1>w, <3>1
      <3> QED BY <1>t, <3>1, <3>2, <3>3
    <2>2. CASE ~ClaimStep(o)
      <3>1. nth' = nth /\ attempts' = attempts
        BY <1>1, <2>2
      <3>2. nth'[o] <= attempts'[Phase(o)']
        <4>1. CASE pc[o] = "idle"
          BY <1>p, <1>t, <2>0, <3>1, <4>1
        <4>2. CASE pc[o] # "idle"
          <5>1. Phase(o)' = Phase(o)
            BY <4>2, Frame
          <5> QED BY <2>0, <3>1, <5>1
        <4> QED BY <4>1, <4>2
      <3>3. CASE CalmStep(o)
        <4>1. pc[o] \in {"idle", "reread", "claim"} \cup InPhase
          BY <1>t, <3>3 DEF CalmStep, Steps, InPhase
        <4>2. pc'[o] \in {"idle", "reread", "claim"} => nth'[o] = 0
          BY <1>w, <2>0, <3>1, <3>3, <4>1 DEF CalmStep
        <4>3. pc'[o] \in InPhase => nth'[o] > 0
          BY <1>w, <2>0, <3>1, <3>3, <4>1 DEF CalmStep, Ended
        <4>4. pc'[o] \in Working \ {"start", "publish"} => nth'[o] <= MaxAttempts
          BY <2>0, <3>1, <3>3 DEF CalmStep
        <4>5. call'[o] # None => nth'[o] \in 1..MaxAttempts
          <5>1. CASE call' = call
            BY <2>0, <3>1, <5>1
          <5>2. CASE pc[o] \in {"buy", "settle"}
            <6>1. pc[o] \in Working \ {"start", "publish"} /\ pc[o] \in InPhase
              BY <1>w, <5>2, StepNames
            <6> QED BY <1>t, <2>0, <3>1, <6>1
          <5> QED BY <3>3, <5>1, <5>2 DEF CalmStep
        <4> QED BY <3>2, <4>2, <4>3, <4>4, <4>5
      <3>4. CASE EndStep(o) \/ ReleaseStep(o) \/ RequeueStep(o) \/ CommitStep(o)
        <4>1. pc[o] \in InPhase
          BY <1>w, <3>4, StepNames DEF EndStep, ReleaseStep, RequeueStep, CommitStep,
             WriteRequeue, CommitContext, InPhase
        <4>2. pc'[o] \in {"done", "failed", "fail"} /\ call' = call
          BY <3>4 DEF EndStep, ReleaseStep, RequeueStep, CommitStep,
             WriteRequeue, CommitContext
        <4>3. pc'[o] \notin {"idle", "reread", "claim"} \cup Working
          BY <4>2 DEF Working
        <4> QED BY <2>0, <3>1, <3>2, <4>1, <4>2, <4>3
      <3> QED BY <2>2, <3>3, <3>4, Kinds DEF Kind
    <2> QED BY <2>1, <2>2
  <1>5. ASSUME NEW b \in Owners, NEW c \in Owners,
               Phase(b)' = Phase(c)', nth'[b] = nth'[c], nth'[b] > 0
        PROVE  b = c
    <2>1. CASE ClaimStep(o)
      <3>1. Phase(b)' = Phase(b) /\ Phase(c)' = Phase(c)
        BY <2>1, Frame DEF ClaimStep
      <3>2. nth' = [nth EXCEPT ![o] = attempts[Phase(o)] + 1]
        BY <2>1 DEF ClaimStep
      <3>3. \A d \in Owners : Phase(d) = Phase(o) => nth[d] < attempts[Phase(o)] + 1
        BY <1>f, <1>t
      <3>4. Phase(b) = Phase(c)
        BY <1>5, <3>1
      <3>5. \A d \in Owners : nth'[d] = IF d = o THEN attempts[Phase(o)] + 1 ELSE nth[d]
        BY <1>t, <3>2
      <3>6. nth[b] \in Nat /\ nth[c] \in Nat /\ attempts[Phase(o)] \in Nat
        BY <1>t
      <3>7. CASE b # o /\ c # o
        <4>1. nth[b] = nth[c] /\ nth[b] > 0
          BY <1>5, <3>5, <3>7
        <4> QED BY <3>4, <4>1 DEF AttemptInv
      <3>8. CASE b = o \/ c = o
        BY <1>5, <3>3, <3>4, <3>5, <3>6, <3>8
      <3> QED BY <3>7, <3>8
    <2>2. CASE ~ClaimStep(o)
      <3>1. nth' = nth
        BY <1>1, <2>2
      <3>2. pc[b] # "idle" /\ pc[c] # "idle"
        BY <1>f, <1>5, <3>1
      <3>3. Phase(b)' = Phase(b) /\ Phase(c)' = Phase(c)
        BY <3>2, Frame
      <3> QED BY <1>5, <3>1, <3>3 DEF AttemptInv
    <2> QED BY <2>1, <2>2
  <1>6. \A b \in Owners : Fair(b)'
    BY <1>3, <1>4
  <1> QED BY <1>5, <1>6 DEF AttemptInv, InPhase

\* Only one record describes the item.
LEMMA SameRecord ==
  ASSUME TypeOK, StreamInv, NEW o \in Owners, NEW b \in Owners, Current(o), Current(b)
  PROVE  on[o] = on[b] /\ Phase(o) = Phase(b)
  <1>1. ASSUME NEW c \in Owners, Current(c) PROVE on[c] = Len(stream)
    <2>1. on[c] \in DOMAIN stream
          /\ stream[on[c]] \in [status : {"PENDING", "CONTEXT_READY"}, run : Run]
      BY RecordTypes
    <2>2. stream[on[c]].status = status /\ stream[on[c]].run = run
      BY <1>1 DEF Current, Mine
    <2>3. stream[on[c]] = [status |-> status, run |-> run]
      BY <2>1, <2>2
    <2> QED BY <2>1, <2>3 DEF StreamInv
  <1>2. on[o] = Len(stream) /\ on[b] = Len(stream)
    BY <1>1
  <1> QED BY <1>2 DEF Phase

\* One delivery at most owns the item.
LEMMA OneOwner ==
  ASSUME NEW o \in Owners, NEW b \in Owners, Owns(o), Owns(b)
  PROVE  o = b
  <1>1. Phase(o) \in {"context", "review"} /\ Phase(b) \in {"context", "review"}
    BY DEF Phase
  <1>2. Phase(o) = Phase(b)
    BY <1>1 DEF Owns, Expected
  <1> QED BY <1>2 DEF Owns

\* Steps that move the item on leave no delivery with a current record.
LEMMA MovedOn ==
  ASSUME TypeOK, TypeOK', StreamInv, StageInv, NEW o \in Owners, Step(o),
         EndStep(o) \/ RequeueStep(o) \/ CommitStep(o), NEW b \in Owners
  PROVE  ~Current(b)'
  <1>1. pc[o] # "idle"
    BY DEF EndStep, RequeueStep, CommitStep, WriteRequeue, CommitContext, InPhase, Working
  <1>2. on'[b] = on[b] /\ stream'[on[b]] = stream[on[b]] /\ on[b] \in DOMAIN stream
        /\ stream[on[b]].status \in {"PENDING", "CONTEXT_READY"}
    BY <1>1, Frame, RecordTypes
  <1>3. CASE EndStep(o)
    <2>1. status' \notin {"PENDING", "CONTEXT_READY"}
      BY <1>3 DEF EndStep, Terminal
    <2> QED BY <1>2, <2>1 DEF Current
  <1>4. CASE RequeueStep(o)
    <2>1. ~run.successor /\ run'.successor
      BY <1>4 DEF RequeueStep, WriteRequeue, MaySwap
    <2>2. stream[on[b]].run # run'
      BY <1>2, <2>1 DEF StreamInv
    <2> QED BY <1>2, <2>2 DEF Current, Mine
  <1>5. CASE CommitStep(o)
    <2>1. status = "PENDING" /\ status' = "CONTEXT_READY"
      BY <1>5, CommitPhase DEF CommitStep, CommitContext, Owns, Expected
    <2>2. stream[on[b]].status = "PENDING"
      BY <1>2, <2>1 DEF StreamInv
    <2> QED BY <1>2, <2>1, <2>2 DEF Current
  <1> QED BY <1>3, <1>4, <1>5

\* The last attempt stays with a delivery that has not returned normally.
LEMMA LastAttemptKept ==
  ASSUME TypeOK, TypeOK', StreamInv, StageInv, AttemptInv, LastAttemptInv,
         NEW o \in Owners, Step(o)
  PROVE  LastAttemptInv'
  <1> DEFINE Last(b) ==
        /\ nth[b] > 0 => \E c \in Owners :
             on[c] = on[b] /\ nth[c] = attempts[Phase(b)] /\ pc[c] # "done"
        /\ nth[b] = attempts[Phase(b)] /\ pc[b] \in InPhase => Owns(b)
        /\ pc[b] = "done" => nth[b] > 0
  <1>l. \A b \in Owners : Current(b) => Last(b)
    BY DEF LastAttemptInv, InPhase
  <1>s. SUFFICES ASSUME NEW b \in Owners, Current(b)' PROVE Last(b)'
    BY DEF LastAttemptInv, InPhase
  <1>t. /\ attempts \in [Phases -> Nat] /\ nth \in [Owners -> Nat]
        /\ \A c \in Owners : Phase(c) \in Phases /\ pc[c] \in Steps
        /\ \A c \in Owners : nth[c] <= attempts[Phase(c)]
        /\ \A c \in Owners : pc[c] \in {"idle", "reread", "claim"} => nth[c] = 0
        /\ \A c \in Owners : pc[c] \in InPhase => nth[c] > 0
    BY RecordTypes DEF TypeOK, AttemptInv, InPhase
  <1>o. \A c \in Owners \ {o} : pc'[c] = pc[c]
    BY Locality DEF Others
  <1>1. CASE ClaimStep(o)
    <2>0. pc[o] # "idle"
      BY <1>1 DEF ClaimStep
    <2>1. \A c \in Owners : on'[c] = on[c] /\ Phase(c)' = Phase(c) /\ Mine(c)' = Mine(c)
      BY <2>0, Frame
    <2>2. Current(o) /\ Current(b) /\ status' = status /\ run' = run
      <3>1. stream'[on'[b]] = stream[on[b]]
        BY <2>0, <2>1, Frame
      <3> QED BY <1>1, <1>s, <2>1, <3>1 DEF ClaimStep, Current
    <2>3. on[o] = on[b] /\ Phase(o) = Phase(b)
      BY <2>2, SameRecord
    <2>4. /\ nth'[o] = attempts[Phase(o)] + 1 /\ attempts'[Phase(o)] = nth'[o]
          /\ pc'[o] \in {"start", "publish", "failed"}
          /\ claim'[Phase(o)] = [owner |-> o, event |-> on[o]]
          /\ \A c \in Owners \ {o} : nth'[c] = nth[c]
      <3>1. claim \in [Phases -> Claim \cup {None}]
        BY DEF TypeOK
      <3> QED BY <1>1, <1>t, <3>1 DEF ClaimStep
    <2>5. nth'[b] > 0 => \E c \in Owners :
             on'[c] = on'[b] /\ nth'[c] = attempts'[Phase(b)'] /\ pc'[c] # "done"
      <3>1. on'[o] = on'[b] /\ nth'[o] = attempts'[Phase(b)'] /\ pc'[o] # "done"
        BY <2>1, <2>3, <2>4
      <3> QED BY <3>1
    <2>6. nth'[b] = attempts'[Phase(b)'] /\ pc'[b] \in InPhase => Owns(b)'
      <3>1. CASE b = o
        <4>1. claim'[Phase(o)'].owner = o /\ claim'[Phase(o)'] # None
          <5>1. [owner |-> o, event |-> on[o]] \in Claim
            BY RecordTypes DEF Claim
          <5>2. [owner |-> o, event |-> on[o]] # None
            BY <5>1, NoneAssumption
          <5> QED BY <2>1, <2>4, <5>2
        <4>2. status' = Expected[Phase(o)']
          BY <2>1, <2>2, CurrentPhase
        <4> QED BY <3>1, <4>1, <4>2 DEF Owns
      <3>2. CASE b # o
        <4>1. nth'[b] = nth[b] /\ nth[b] <= attempts[Phase(o)]
          BY <1>t, <2>3, <2>4, <3>2
        <4>2. nth'[b] # attempts'[Phase(b)']
          BY <1>t, <2>1, <2>3, <2>4, <4>1
        <4> QED BY <4>2
      <3> QED BY <3>1, <3>2
    <2>7. pc'[b] = "done" => nth'[b] > 0
      BY <1>l, <1>o, <2>2, <2>4
    <2> QED BY <2>5, <2>6, <2>7
  <1>2. CASE EndStep(o) \/ RequeueStep(o) \/ CommitStep(o)
    BY <1>s, <1>2, MovedOn
  <1>3. CASE ReleaseStep(o) \/ CalmStep(o)
    <2>0. UNCHANGED <<status, run, attempts, stream, nth>>
      BY <1>3 DEF ReleaseStep, CalmStep
    <2>1. \A c \in Owners : pc[c] # "idle" =>
             on'[c] = on[c] /\ Phase(c)' = Phase(c) /\ (Current(c)' => Current(c))
      <3>1. SUFFICES ASSUME NEW c \in Owners, pc[c] # "idle"
                     PROVE  on'[c] = on[c] /\ Phase(c)' = Phase(c)
                            /\ (Current(c)' => Current(c))
        OBVIOUS
      <3>2. on'[c] = on[c] /\ stream'[on[c]] = stream[on[c]] /\ Phase(c)' = Phase(c)
            /\ Mine(c)' = Mine(c)
        BY <3>1, Frame
      <3> QED BY <2>0, <3>2 DEF Current
    <2>2. pc'[o] # "idle" /\ (pc'[o] \in InPhase => pc[o] \in InPhase)
      <3>1. CASE ReleaseStep(o)
        BY <3>1 DEF ReleaseStep, InPhase, Working
      <3>2. CASE CalmStep(o)
        <4>1. pc[o] \in {"idle", "reread", "claim"} \cup InPhase
          BY <1>t, <3>2 DEF CalmStep, Steps, InPhase
        <4>2. {"reread", "claim", "crashed", "done", "failed"} \cap InPhase = {}
              /\ "idle" \notin InPhase \cup Ended
          BY DEF InPhase, Working, Ended
        <4> QED BY <3>2, <4>1, <4>2 DEF CalmStep
      <3> QED BY <1>3, <3>1, <3>2
    <2>3. nth'[b] > 0 => \E c \in Owners :
             on'[c] = on'[b] /\ nth'[c] = attempts'[Phase(b)'] /\ pc'[c] # "done"
      <3>1. SUFFICES ASSUME nth[b] > 0
                     PROVE \E c \in Owners :
                       on'[c] = on'[b] /\ nth'[c] = attempts'[Phase(b)'] /\ pc'[c] # "done"
        BY <2>0
      <3>2. pc[b] # "idle"
        BY <1>t, <3>1
      <3>3. Current(b) /\ on'[b] = on[b] /\ Phase(b)' = Phase(b)
        BY <1>s, <2>1, <3>2
      <3>4. PICK c \in Owners :
              on[c] = on[b] /\ nth[c] = attempts[Phase(b)] /\ pc[c] # "done"
        BY <1>l, <3>1, <3>3
      <3>5. nth[c] > 0 /\ Phase(c) = Phase(b)
        BY <1>t, <3>1, <3>4 DEF Phase
      <3>6. pc[c] \notin {"idle", "reread", "claim"} /\ on'[c] = on[c]
        BY <1>t, <2>1, <3>5
      <3>7. Current(c)
        BY <3>3, <3>4 DEF Current, Mine
      <3>8. pc'[c] # "done"
        <4>1. CASE c # o
          BY <1>o, <3>4, <4>1
        <4>2. CASE c = o /\ ReleaseStep(o)
          BY <4>2 DEF ReleaseStep
        <4>3. CASE c = o /\ CalmStep(o)
          <5>1. pc[o] \in InPhase
            BY <1>t, <3>6, <4>3 DEF CalmStep, Steps, InPhase
          <5>2. Owns(o)
            BY <1>l, <3>4, <3>5, <3>7, <4>3, <5>1
          <5> QED BY <4>3, <5>1, <5>2 DEF CalmStep
        <4> QED BY <1>3, <4>1, <4>2, <4>3
      <3> QED BY <2>0, <3>3, <3>4, <3>6, <3>8
    <2>4. nth'[b] = attempts'[Phase(b)'] /\ pc'[b] \in InPhase => Owns(b)'
      <3>1. SUFFICES ASSUME nth'[b] = attempts'[Phase(b)'], pc'[b] \in InPhase
                     PROVE  Owns(b)'
        OBVIOUS
      <3>2. pc[b] \in InPhase /\ pc[b] # "idle"
        BY <1>o, <2>2, <3>1 DEF InPhase, Working
      <3>3. Phase(b)' = Phase(b) /\ Current(b)
        BY <1>s, <2>1, <3>2
      <3>4. Owns(b)
        BY <1>l, <2>0, <3>1, <3>2, <3>3
      <3>5. claim' = claim
        <4>1. CASE CalmStep(o)
          BY <4>1 DEF CalmStep
        <4>2. CASE ReleaseStep(o)
          <5>1. b # o
            BY <3>1, <4>2 DEF ReleaseStep, InPhase, Working
          <5>2. ~Owns(o)
            BY <3>4, <5>1, OneOwner
          <5> QED BY <4>2, <5>2 DEF ReleaseStep
        <4> QED BY <1>3, <4>1, <4>2
      <3> QED BY <2>0, <3>3, <3>4, <3>5 DEF Owns
    <2>5. pc'[b] = "done" => nth'[b] > 0
      <3>1. SUFFICES ASSUME pc'[b] = "done" PROVE nth[b] > 0
        BY <2>0
      <3>2. CASE b # o \/ ReleaseStep(o)
        <4>1. pc[b] = "done"
          BY <1>o, <3>1, <3>2 DEF ReleaseStep
        <4> QED BY <1>l, <1>s, <2>1, <4>1
      <3>3. CASE b = o /\ CalmStep(o)
        <4>1. pc[o] \in InPhase \cup {"reread"}
          BY <1>t, <3>1, <3>3 DEF CalmStep, Steps, InPhase
        <4>2. pc[o] = "reread" => ~Current(o)
          BY <3>1, <3>3 DEF CalmStep
        <4>3. pc[o] # "idle"
          BY <4>1 DEF InPhase, Working
        <4> QED BY <1>s, <1>t, <2>1, <3>3, <4>1, <4>2, <4>3
      <3> QED BY <1>3, <3>2, <3>3
    <2> QED BY <2>3, <2>4, <2>5
  <1> QED BY <1>1, <1>2, <1>3, Kinds DEF Kind

\* The bucket only grows, since a key is the content it names.
LEMMA ShelfGrows ==
  ASSUME TypeOK, \A a \in shelf : a.key = a.bundle, NEW o \in Owners, Step(o)
  PROVE  /\ shelf \subseteq shelf' /\ \A a \in shelf' : a.key = a.bundle
         /\ pc'[o] = "commit" =>
              StoreBundle(o) /\ [key |-> Built(o), bundle |-> Built(o)] \in shelf'
  <1>1. StoreBundle(o) \/ (shelf' = shelf /\ pc'[o] # "commit")
    BY Kinds DEF Kind, ClaimStep, EndStep, ReleaseStep, RequeueStep, CommitStep,
       CalmStep, WriteRequeue, CommitContext
  <1>2. CASE StoreBundle(o)
    <2> DEFINE mine == [key |-> Built(o), bundle |-> Built(o)]
    <2>1. shelf' = {a \in shelf : a.key # Built(o)} \cup {mine}
      BY <1>2 DEF StoreBundle, Key
    <2>2. ASSUME NEW a \in shelf, a \notin shelf' PROVE FALSE
      <3>1. a.key = Built(o) /\ a.bundle = Built(o)
        BY <2>1, <2>2
      <3>2. a \in [key : Bundle, bundle : Bundle]
        BY DEF TypeOK
      <3>3. a = mine
        BY <3>1, <3>2
      <3> QED BY <2>1, <2>2, <3>3
    <2> QED BY <1>2, <2>1, <2>2
  <1> QED BY <1>1, <1>2

\* The bundle an item points to stays in the bucket, and it is this run's.
LEMMA ArtifactKept ==
  ASSUME TypeOK, TypeOK', ClaimInv, StageInv, ArtifactInv, NEW o \in Owners, Step(o)
  PROVE  ArtifactInv'
  <1>1. \A a \in shelf : a.key = a.bundle
    BY DEF ArtifactInv, Key
  <1>2. /\ shelf \subseteq shelf' /\ \A a \in shelf' : a.key = a.bundle
        /\ pc'[o] = "commit" =>
             StoreBundle(o) /\ [key |-> Built(o), bundle |-> Built(o)] \in shelf'
    BY <1>1, ShelfGrows
  <1>3. ASSUME NEW b \in Owners, pc'[b] = "commit"
        PROVE  [key |-> Built(b)', bundle |-> Built(b)'] \in shelf'
    <2>1. CASE b # o
      <3>1. pc[b] = "commit" /\ Built(b)' = Built(b)
        BY <1>3, <2>1, Locality, Frame DEF Others
      <3>2. [key |-> Built(b), bundle |-> Built(b)] \in shelf
        BY <3>1 DEF ArtifactInv, Key
      <3> QED BY <1>2, <3>1, <3>2
    <2>2. CASE b = o
      <3>1. pc[o] # "idle"
        BY <1>2, <1>3, <2>2 DEF StoreBundle
      <3> QED BY <1>2, <1>3, <2>2, <3>1, Frame
    <2> QED BY <2>1, <2>2
  <1>4. (status' = "PENDING" => context' = None) /\ ContextIsOfThisRun'
    <2>1. CASE CommitStep(o)
      <3>1. /\ status' = "CONTEXT_READY" /\ run' = run /\ pc[o] = "commit"
            /\ context' = [key |-> Built(o), digest |-> Built(o)]
        BY <2>1 DEF CommitStep, CommitContext, Key
      <3>2. Built(o).run = run
        <4>1. Phase(o) \in Phases /\ claim[Phase(o)] # None
              /\ claim[Phase(o)].owner = o
          BY <2>1, RecordTypes DEF CommitStep, Owns
        <4>2. Mine(o) = run
          BY <4>1 DEF ClaimInv
        <4> QED BY <4>2 DEF Built
      <3>3. [key |-> Built(o), bundle |-> Built(o)] \in shelf'
        BY <1>2, <3>1 DEF ArtifactInv, Key
      <3>4. context' # None
        BY <3>1, RecordTypes, NoneAssumption DEF Pointer
      <3>5. \E a \in shelf' : /\ a.key = context'.key /\ a.bundle = context'.digest
                              /\ a.bundle.run = run'
        BY <3>1, <3>2, <3>3
      <3> QED BY <3>1, <3>4, <3>5 DEF ContextIsOfThisRun, Loads
    <2>2. CASE RequeueStep(o)
      BY <2>2 DEF RequeueStep, WriteRequeue, MaySwap, ContextIsOfThisRun
    <2>3. CASE /\ context' = context /\ run' = run
               /\ status' = status \/ status' \in Terminal
      <3>1. CASE status' \in Terminal
        BY <3>1 DEF Terminal, ContextIsOfThisRun
      <3>2. CASE status' = status
        BY <1>2, <2>3, <3>2 DEF ArtifactInv, ContextIsOfThisRun, Loads
      <3> QED BY <2>3, <3>1, <3>2
    <2> QED BY <2>1, <2>2, <2>3, Kinds DEF Kind, ClaimStep, EndStep, ReleaseStep, CalmStep
  <1> QED BY <1>2, <1>3, <1>4 DEF ArtifactInv, Key, Built, Mine

\* Nothing a waiting requeue relies on changes while its claim stands.
LEMMA RequeueKept ==
  ASSUME TypeOK, TypeOK', ClaimInv, StageInv, RequeueInv, NEW o \in Owners, Step(o)
  PROVE  RequeueInv'
  <1>t. /\ claim \in [Phases -> Claim \cup {None}] /\ Phase(o) \in Phases
        /\ attempts \in [Phases -> Nat]
    BY RecordTypes DEF TypeOK
  <1>1. admitted' \in {None, run'}
    <2>1. CASE RequeueStep(o)
      BY <2>1 DEF RequeueStep, WriteRequeue
    <2>2. CASE CalmStep(o)
      BY <2>2 DEF CalmStep, Current, RequeueInv
    <2> QED BY <2>1, <2>2, Kinds DEF Kind, ClaimStep, EndStep, ReleaseStep, CommitStep,
            CommitContext, RequeueInv
  <1>2. ASSUME NEW b \in Owners, pc'[b] \in {"requeue", "swap"}
        PROVE  seen'[b].head # Mine(b)'.head
    <2>1. CASE b # o
      <3>1. pc'[b] = pc[b] /\ seen'[b] = seen[b] /\ Mine(b)' = Mine(b)
        BY <2>1, Locality, Frame DEF Others
      <3> QED BY <1>2, <3>1 DEF RequeueInv
    <2>2. CASE b = o
      <3>1. CalmStep(o)
        BY <1>2, <2>2, Kinds DEF Kind, ClaimStep, EndStep, ReleaseStep, RequeueStep, CommitStep
      <3>2. seen' = seen /\ seen[o].head # Mine(o).head /\ pc[o] # "idle"
        <4>1. CASE pc'[o] = "requeue"
          BY <3>1, <4>1 DEF CalmStep
        <4>2. CASE pc'[o] = "swap"
          BY <3>1, <4>2 DEF CalmStep, RequeueInv
        <4> QED BY <1>2, <2>2, <4>1, <4>2
      <3>3. Mine(o)' = Mine(o)
        BY <3>2, Frame
      <3> QED BY <2>2, <3>2, <3>3
    <2> QED BY <2>1, <2>2
  <1>3. ASSUME NEW b \in Owners, pc'[b] = "swap", MaySwap(b)'
        PROVE  plan'[b] = Ledger' /\ Dispatching' = {}
    <2>p. b # o \/ pc[o] # "idle"
      BY <1>3, Kinds DEF Kind, ClaimStep, EndStep, ReleaseStep, RequeueStep,
         CommitStep, CalmStep, Working
    <2>f. on'[b] = on[b] /\ Phase(b)' = Phase(b) /\ Mine(b)' = Mine(b)
      BY <2>p, Frame
    <2>1. CASE b = o
      <3>1. CalmStep(o)
        BY <1>3, <2>1, Kinds DEF Kind, ClaimStep, EndStep, ReleaseStep, RequeueStep, CommitStep
      <3>2. /\ MayRequeue(o) /\ plan' = [plan EXCEPT ![o] = Ledger]
            /\ call' = call /\ attempts' = attempts
        BY <1>3, <2>1, <3>1 DEF CalmStep
      <3>3. plan'[o] = Ledger
        BY <3>2 DEF TypeOK
      <3> QED BY <2>1, <3>2, <3>3 DEF MayRequeue, Ledger, Dispatching
    <2>2. CASE b # o
      <3>0. pc[b] = "swap" /\ plan'[b] = plan[b] /\ nth'[b] = nth[b]
        BY <1>3, <2>2, Locality DEF Others
      <3>1. /\ status' = "PENDING" /\ run' = Mine(b) /\ ~run'.successor
            /\ status' = Expected[Phase(b)] /\ claim'[Phase(b)] # None
            /\ claim'[Phase(b)].owner = b /\ claim'["context"].event = on[b]
            /\ attempts'["context"] = nth[b] /\ ~intent'
        BY <1>3, <2>f, <3>0 DEF MaySwap, Owns
      <3>2. ~ClaimStep(o)
        <4>1. SUFFICES ASSUME ClaimStep(o) PROVE FALSE
          OBVIOUS
        <4>2. status' = status /\ status = Expected[Phase(o)]
          BY <4>1, CurrentPhase DEF ClaimStep
        <4>3. Phase(o) = Phase(b)
          BY <3>1, <4>2 DEF Expected, Phase
        <4>4. claim'[Phase(b)].owner = o
          BY <1>t, <4>1, <4>3 DEF ClaimStep
        <4> QED BY <2>2, <3>1, <4>4
      <3>3. ~EndStep(o) /\ ~RequeueStep(o) /\ ~CommitStep(o)
        <4>1. ~EndStep(o)
          BY <3>1 DEF EndStep, Terminal
        <4>2. ~RequeueStep(o)
          BY <3>1 DEF RequeueStep, WriteRequeue
        <4>3. ~CommitStep(o)
          BY <3>1 DEF CommitStep, CommitContext
        <4> QED BY <4>1, <4>2, <4>3
      <3>4. CASE ReleaseStep(o) \/ CalmStep(o)
        <4>1. UNCHANGED <<status, run, attempts, nth>>
              /\ (intent' = TRUE \/ intent' = intent)
          BY <3>4 DEF ReleaseStep, CalmStep
        <4>2. claim[Phase(b)] = claim'[Phase(b)] /\ claim["context"] = claim'["context"]
          <5>1. CASE claim' = claim
            BY <5>1
          <5>2. CASE claim' = [claim EXCEPT ![Phase(o)] = None] /\ Owns(o)
            <6>1. status = Expected[Phase(o)]
              BY <5>2 DEF Owns
            <6>2. Phase(o) = Phase(b)
              BY <3>1, <4>1, <6>1 DEF Expected, Phase
            <6> QED BY <1>t, <3>1, <5>2, <6>2
          <5> QED BY <3>4, <5>1, <5>2 DEF ReleaseStep, CalmStep
        <4>3. MaySwap(b)
          BY <2>f, <3>0, <3>1, <4>1, <4>2 DEF MaySwap, Owns
        <4>4. plan[b] = Ledger /\ Dispatching = {}
          BY <3>0, <4>3 DEF RequeueInv
        <4>5. call' = call
          <5>1. ~Owns(o)
            BY <2>2, <4>3, OneOwner DEF MaySwap
          <5>2. pc[o] # "settle"
            BY <4>4 DEF StageInv, Dispatching
          <5> QED BY <3>4, <5>1, <5>2 DEF ReleaseStep, CalmStep
        <4> QED BY <3>0, <4>1, <4>4, <4>5 DEF Ledger, Dispatching
      <3> QED BY <3>2, <3>3, <3>4, Kinds DEF Kind
    <2> QED BY <2>1, <2>2
  <1> QED BY <1>1, <1>2, <1>3 DEF RequeueInv

\* The webhook's item has its types.
LEMMA InitTypes == Init => TypeOK
  <1>1. SUFFICES ASSUME Init PROVE TypeOK
    OBVIOUS
  <1>2. run \in Run /\ "PENDING" \in {"PENDING", "CONTEXT_READY"}
    BY <1>1, LifecycleAssumption DEF Init, Run
  <1>3. /\ stream \in Seq([status : {"PENDING", "CONTEXT_READY"}, run : Run])
        /\ DOMAIN stream = {1}
    BY <1>1, <1>2 DEF Init
  <1>4. pc \in [Owners -> Steps]
    BY <1>1, StepNames DEF Init
  <1>5. /\ on \in [Owners -> DOMAIN stream] /\ moves \in 0..MaxMoves
        /\ pr \in [head : Heads, open : BOOLEAN]
        /\ seen \in [Owners -> [head : Heads, open : BOOLEAN]]
    BY <1>1, <1>3, LifecycleAssumption DEF Init
  <1>6. /\ attempts \in [Phases -> Nat] /\ nth \in [Owners -> Nat]
        /\ claim \in [Phases -> Claim \cup {None}]
        /\ stage \in [Owners -> {"ingest", "reconcile", "persist", "terminal",
                                "review", "final"}]
        /\ plan \in [Owners -> Ledgers \cup {None}]
        /\ call \in [Owners -> {None, "dispatching", "settled"}]
    BY <1>1 DEF Init
  <1> QED BY <1>1, <1>2, <1>3, <1>4, <1>5, <1>6 DEF Init, TypeOK

\* The webhook's item satisfies the invariant.
LEMMA InitInvariant == Init => LifecycleInv
  <1>1. SUFFICES ASSUME Init PROVE LifecycleInv
    OBVIOUS
  <1>2. TypeOK
    BY <1>1, InitTypes
  <1>3. /\ DOMAIN stream = {1} /\ Len(stream) = 1
        /\ stream[1] = [status |-> "PENDING", run |-> run]
        /\ status = "PENDING" /\ ~run.successor
    BY <1>1 DEF Init
  <1>4. StreamInv
    BY <1>3 DEF StreamInv
  <1>5. /\ \A p \in Phases : claim[p] = None /\ attempts[p] = 0
        /\ \A o \in Owners : pc[o] = "idle" /\ nth[o] = 0 /\ call[o] = None
    BY <1>1 DEF Init
  <1>6. ClaimInv
    BY <1>5 DEF ClaimInv
  <1>7. StageInv
    BY <1>5 DEF StageInv
  <1>8. \A o \in Owners : Phase(o) \in Phases
    BY <1>2, RecordTypes
  <1>9. "idle" \notin Working \cup {"fail"}
    BY DEF Working
  <1>10. AttemptInv
    BY <1>5, <1>8, <1>9 DEF AttemptInv
  <1>11. LastAttemptInv
    BY <1>5, <1>9 DEF LastAttemptInv
  <1>12. ArtifactInv
    BY <1>1, <1>3, <1>5 DEF Init, ArtifactInv, ContextIsOfThisRun
  <1>13. RequeueInv
    BY <1>1, <1>5 DEF Init, RequeueInv
  <1> QED BY <1>2, <1>4, <1>6, <1>7, <1>10, <1>11, <1>12, <1>13 DEF LifecycleInv

\* A push or a close is outside the item: only what is read later depends on it.
LEMMA InvariantKept ==
  ASSUME LifecycleInv, [Next]_vars
  PROVE  LifecycleInv'
  <1>1. ASSUME NEW o \in Owners, Step(o) PROVE LifecycleInv'
    <2>1. /\ TypeOK /\ StreamInv /\ ClaimInv /\ StageInv /\ AttemptInv
          /\ LastAttemptInv /\ ArtifactInv /\ RequeueInv
      BY DEF LifecycleInv
    <2>2. TypeOK'
      BY <1>1, <2>1, Typing
    <2>3. StreamInv' /\ ClaimInv' /\ StageInv'
      BY <1>1, <2>1, <2>2, StreamKept, ClaimKept, StageKept
    <2>4. AttemptInv' /\ LastAttemptInv'
      BY <1>1, <2>1, <2>2, AttemptKept, LastAttemptKept
    <2>5. ArtifactInv' /\ RequeueInv'
      BY <1>1, <2>1, <2>2, ArtifactKept, RequeueKept
    <2> QED BY <2>2, <2>3, <2>4, <2>5 DEF LifecycleInv
  <1>2. ASSUME UNCHANGED <<itemVars, shelf, stream, pc, workVars, call>>, TypeOK'
        PROVE  LifecycleInv'
    <2>1. /\ UNCHANGED <<status, run, attempts, claim, admitted, context, intent>>
          /\ UNCHANGED <<shelf, stream, pc, on, nth, stage, seen, plan, call>>
      BY <1>2 DEF itemVars, workVars
    <2>2. StreamInv' /\ ClaimInv' /\ StageInv' /\ AttemptInv'
      BY <2>1 DEF LifecycleInv, StreamInv, ClaimInv, StageInv, AttemptInv, Phase, Mine
    <2>3. LastAttemptInv'
      BY <2>1 DEF LifecycleInv, LastAttemptInv, Current, Owns, Phase, Mine
    <2>4. ArtifactInv'
      BY <2>1 DEF LifecycleInv, ArtifactInv, ContextIsOfThisRun, Loads, Key, Built, Mine
    <2>5. RequeueInv'
      BY <2>1 DEF LifecycleInv, RequeueInv, MaySwap, Owns, Ledger, Dispatching,
         Phase, Mine
    <2> QED BY <1>2, <2>2, <2>3, <2>4, <2>5 DEF LifecycleInv
  <1>3. CASE PullRequestMoves
    <2>1. TypeOK'
      BY <1>3, MovesTypes DEF LifecycleInv
    <2> QED BY <1>2, <1>3, <2>1 DEF PullRequestMoves
  <1>4. CASE UNCHANGED vars
    BY <1>2, <1>4 DEF vars, itemVars, workVars, LifecycleInv, TypeOK
  <1> QED BY <1>1, <1>3, <1>4 DEF Next

\* LifecycleInv is inductive: whatever is delivered, raised, lost or crashed,
\* every reachable state satisfies it.
THEOREM LifecycleInductive == Spec => []LifecycleInv
  <1>1. LifecycleInv /\ [Next]_vars => LifecycleInv'
    BY InvariantKept
  <1> QED BY InitInvariant, <1>1, PTL DEF Spec

\* Every value keeps its type.
THEOREM LifecycleTypes == Spec => []TypeOK
  <1>1. LifecycleInv => TypeOK
    BY DEF LifecycleInv
  <1> QED BY LifecycleInductive, <1>1, PTL

\* update_status, store_context and the head successor never leave an item
\* waiting for a phase without the stream record that starts it.
THEOREM EveryPhaseHasItsRecord == Spec => []PhaseHasItsRecord
  <1>1. LifecycleInv => PhaseHasItsRecord
    <2>1. SUFFICES ASSUME LifecycleInv, status \in {"PENDING", "CONTEXT_READY"}
                   PROVE  \E e \in DOMAIN stream :
                            stream[e] = [status |-> status, run |-> run]
      BY DEF PhaseHasItsRecord
    <2>2. Len(stream) > 0 /\ stream[Len(stream)] = [status |-> status, run |-> run]
      BY <2>1 DEF LifecycleInv, StreamInv
    <2>3. stream \in Seq([status : {"PENDING", "CONTEXT_READY"}, run : Run])
      BY <2>1 DEF LifecycleInv, TypeOK
    <2>4. Len(stream) \in DOMAIN stream
      BY <2>2, <2>3
    <2> QED BY <2>2, <2>4
  <1> QED BY LifecycleInductive, <1>1, PTL

\* A record whose deliveries have all returned normally describes a phase the
\* item has left, on every path through process_record and both phases.
THEOREM QuietReturnsMovedOn == Spec => []NormalReturnMovesOn
  <1>1. LifecycleInv => NormalReturnMovesOn
    <2>1. SUFFICES ASSUME LifecycleInv, NEW e \in DOMAIN stream,
                          NEW o \in Owners, pc[o] # "idle", on[o] = e,
                          \A c \in Owners : pc[c] # "idle" /\ on[c] = e => pc[c] = "done",
                          stream[e] = [status |-> status, run |-> run]
                   PROVE  FALSE
      BY DEF NormalReturnMovesOn
    <2>2. Current(o) /\ pc[o] = "done"
      BY <2>1 DEF Current, Mine
    <2>3. nth[o] > 0
      BY <2>1, <2>2 DEF LifecycleInv, LastAttemptInv
    <2>4. PICK c \in Owners :
            on[c] = on[o] /\ nth[c] = attempts[Phase(o)] /\ pc[c] # "done"
      BY <2>1, <2>2, <2>3 DEF LifecycleInv, LastAttemptInv
    <2>5. nth[c] > 0 /\ pc[c] # "idle"
      <3>1. nth[o] <= attempts[Phase(o)] /\ attempts[Phase(o)] \in Nat /\ nth[o] \in Nat
        BY <2>1, RecordTypes DEF LifecycleInv, AttemptInv, TypeOK
      <3>2. nth[c] > 0
        BY <2>3, <2>4, <3>1
      <3> QED BY <2>1, <3>2 DEF LifecycleInv, AttemptInv
    <2> QED BY <2>1, <2>4, <2>5
  <1> QED BY LifecycleInductive, <1>1, PTL

\* The review phase always finds the bundle store_context committed for this
\* head and run.
THEOREM ContextSurvives == Spec => []ContextIsOfThisRun
  <1>1. LifecycleInv => ContextIsOfThisRun
    BY DEF LifecycleInv, ArtifactInv
  <1> QED BY LifecycleInductive, <1>1, PTL

\* No two deliveries of a phase buy under the same attempt number, and none
\* beyond the cap, a head successor included.
THEOREM PaidAttemptsAreSerial == Spec => []AttemptsAreSerial
  <1>1. LifecycleInv => AttemptsAreSerial
    <2>1. SUFFICES ASSUME LifecycleInv, NEW o \in Owners, call[o] # None
                   PROVE  /\ nth[o] \in 1..MaxAttempts
                          /\ \A b \in Owners : call[b] # None /\ Phase(o) = Phase(b)
                                               /\ nth[o] = nth[b] => o = b
      BY DEF AttemptsAreSerial
    <2>2. nth[o] \in 1..MaxAttempts
      BY <2>1 DEF LifecycleInv, AttemptInv
    <2>3. nth[o] > 0
      BY <2>2
    <2> QED BY <2>1, <2>2, <2>3 DEF LifecycleInv, AttemptInv
  <1> QED BY LifecycleInductive, <1>1, PTL

\* requeue_head_successor replaces the head once, and although it tests the
\* provider calls in a read before its write, none is open when it writes.
THEOREM SuccessorFollowsSettled == Spec => PredecessorWasSettled
  <1>1. ASSUME LifecycleInv, [Next]_vars, run' # run
        PROVE  /\ ~run.successor /\ run'.successor /\ run'.head # run.head
               /\ status = "PENDING" /\ status' = "PENDING"
               /\ Dispatching = {} /\ ~intent /\ context = None
    <2>1. PICK o \in Owners : Step(o)
      BY <1>1 DEF Next, PullRequestMoves, vars, itemVars
    <2>2. RequeueStep(o)
      BY <1>1, <2>1, Kinds DEF LifecycleInv, Kind, ClaimStep, EndStep, ReleaseStep,
         CommitStep, CommitContext, CalmStep
    <2>3. /\ pc[o] = "swap" /\ MaySwap(o) /\ status' = status
          /\ run' = [head |-> seen[o].head, successor |-> TRUE]
      BY <2>2 DEF RequeueStep, WriteRequeue
    <2>4. status = "PENDING" /\ run = Mine(o) /\ ~run.successor /\ ~intent
      BY <2>3 DEF MaySwap
    <2>5. Dispatching = {} /\ seen[o].head # Mine(o).head
      BY <1>1, <2>3 DEF LifecycleInv, RequeueInv
    <2>6. context = None
      BY <1>1, <2>4 DEF LifecycleInv, ArtifactInv
    <2> QED BY <2>3, <2>4, <2>5, <2>6
  <1> QED BY LifecycleInductive, <1>1, PTL DEF PredecessorWasSettled, Spec
=============================================================================

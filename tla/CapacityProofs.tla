---------------------------- MODULE CapacityProofs ----------------------------
(***************************************************************************)
(* Proofs about CapacityAdmission, for any number of runs, repositories,    *)
(* days and deliveries: the daily counters are exact, the daily limits hold *)
(* and a repository is told at most once a day.                            *)
(***************************************************************************)
EXTENDS CapacityAdmission, FiniteSetTheorems, TLAPS

\* Admitted runs are finitely many.
LEMMA AdmittedFinite ==
  ASSUME TypeOK, NEW d \in Days, NEW r \in Repos
  PROVE  /\ IsFiniteSet(ids[d]) /\ IsFiniteSet(ids[d] \cap RunsOf(r))
         /\ Cardinality(ids[d]) \in Nat
         /\ Cardinality(ids[d] \cap RunsOf(r)) \in Nat
  <1>1. IsFiniteSet(Runs) /\ ids[d] \subseteq Runs
    BY PoliciesAssumption DEF TypeOK
  <1>2. IsFiniteSet(ids[d]) /\ IsFiniteSet(ids[d] \cap RunsOf(r))
    BY <1>1, FS_Subset
  <1> QED BY <1>2, FS_CardinalityType

\* One more admission adds one to the day and to the run's own repository.
LEMMA AdmittingCounts ==
  ASSUME TypeOK, NEW d \in Days, NEW run \in Runs \ ids[d], NEW r \in Repos
  PROVE  /\ Cardinality(ids[d] \cup {run}) = Cardinality(ids[d]) + 1
         /\ Cardinality((ids[d] \cup {run}) \cap RunsOf(r)) =
              Cardinality(ids[d] \cap RunsOf(r))
                + (IF RepoOf[run] = r THEN 1 ELSE 0)
  <1>1. Cardinality(ids[d] \cup {run}) = Cardinality(ids[d]) + 1
    BY AdmittedFinite, FS_AddElement
  <1>2. CASE RepoOf[run] = r
    <2>1. (ids[d] \cup {run}) \cap RunsOf(r) = (ids[d] \cap RunsOf(r)) \cup {run}
      BY <1>2 DEF RunsOf
    <2>2. run \notin ids[d] \cap RunsOf(r)
      OBVIOUS
    <2>3. Cardinality((ids[d] \cap RunsOf(r)) \cup {run}) =
            Cardinality(ids[d] \cap RunsOf(r)) + 1
      BY <2>2, AdmittedFinite, FS_AddElement
    <2> QED BY <1>1, <1>2, <2>1, <2>3
  <1>3. CASE RepoOf[run] # r
    <2>1. (ids[d] \cup {run}) \cap RunsOf(r) = ids[d] \cap RunsOf(r)
      BY <1>3 DEF RunsOf
    <2> DEFINE n == Cardinality(ids[d] \cap RunsOf(r))
    <2>2. n \in Nat
      BY AdmittedFinite
    <2> HIDE DEF n
    <2>3. n + 0 = n
      BY <2>2
    <2> QED BY <1>1, <1>3, <2>1, <2>3 DEF n
  <1> QED BY <1>2, <1>3

\* What has been deployed is read off the invocations' policies.
LEMMA SamePolicies ==
  ASSUME UNCHANGED policy
  PROVE  Deployed' = Deployed /\ (OnePolicy' <=> OnePolicy)
  BY DEF Deployed, OnePolicy

\* The conditional update charges once, within the limits, for its own run.
LEMMA AdmitOnceKeeps ==
  ASSUME CapacityInv, NEW o \in Owners, AdmitOnce(o)
  PROVE  CapacityInv'
  <1> DEFINE run == on[o]  d == window[o]  p == policy[o]
  <1>1. /\ run \in Runs /\ d \in Days /\ p \in Policies /\ Enabled(p)
        /\ p.repo \in Nat /\ p.global \in Nat /\ p.global > 0
        /\ RepoOf[run] \in Repos /\ pc[o] = "admit"
    BY PoliciesAssumption
       DEF CapacityInv, TypeOK, WorkInv, AdmitOnce, Enabled, Steps
  <1>2. /\ UNCHANGED <<today, noticeOwner, outcome, blockedOn, claim, paid>>
        /\ UNCHANGED <<on, policy, window>>
    BY DEF AdmitOnce, itemVars, workVars
  <1>3. CASE ~CanAdmit(run, d, p)
    <2>1. /\ UNCHANGED <<ids, repoCount, globalCount>>
          /\ pc' = [pc EXCEPT ![o] = "read"]
      BY <1>3 DEF AdmitOnce, Goto
    <2>2. run \in ids[d] \/ Full(run, d, p)
      <3>1. repoCount[d][RepoOf[run]] \in Nat /\ globalCount[d] \in Nat
        BY <1>1 DEF CapacityInv, TypeOK
      <3> QED BY <1>1, <1>3, <3>1 DEF CanAdmit, Full
    <2>3. TypeOK'
      BY <1>2, <2>1 DEF CapacityInv, TypeOK, Steps
    <2>4. CountersAreAdmissions' /\ DailyLimits' /\ PaidRunsAreAdmitted'
      BY <1>2, <2>1 DEF CapacityInv, CountersAreAdmissions, DailyLimits,
                        PaidRunsAreAdmitted
    <2>5. WorkInv'
      BY <1>1, <1>2, <2>1 DEF CapacityInv, TypeOK, WorkInv, Steps
    <2>6. RefusalInv'
      BY <1>1, <1>2, <2>1, <2>2, SamePolicies
         DEF CapacityInv, TypeOK, RefusalInv, Full
    <2>7. OutcomeInv' /\ TurnedAwayWasFull'
      BY <1>2, <2>1, SamePolicies
         DEF CapacityInv, OutcomeInv, TurnedAwayWasFull, Full
    <2> QED BY <2>3, <2>4, <2>5, <2>6, <2>7 DEF CapacityInv
  <1>4. CASE CanAdmit(run, d, p)
    <2>1. /\ ids' = [ids EXCEPT ![d] = @ \cup {run}]
          /\ repoCount' = IF p.repo > 0
                          THEN [repoCount EXCEPT ![d][RepoOf[run]] = @ + 1]
                          ELSE repoCount
          /\ globalCount' = [globalCount EXCEPT ![d] = @ + 1]
          /\ pc' = [pc EXCEPT ![o] = "work"]
      BY <1>1, <1>4 DEF AdmitOnce, Goto
    <2>2. run \notin ids[d] /\ ~Full(run, d, p)
      <3>1. repoCount[d][RepoOf[run]] \in Nat /\ globalCount[d] \in Nat
        BY <1>1 DEF CapacityInv, TypeOK
      <3> QED BY <1>1, <1>4, <3>1 DEF CanAdmit, Full
    <2>3. /\ ids' \in [Days -> SUBSET Runs]
          /\ ids'[d] = ids[d] \cup {run}
          /\ \A e \in Days \ {d} : ids'[e] = ids[e]
      BY <1>1, <2>1 DEF CapacityInv, TypeOK
    <2>4. /\ globalCount' \in [Days -> Nat]
          /\ globalCount'[d] = globalCount[d] + 1
          /\ \A e \in Days \ {d} : globalCount'[e] = globalCount[e]
      BY <1>1, <2>1 DEF CapacityInv, TypeOK
    <2>5. /\ repoCount' \in [Days -> [Repos -> Nat]]
          /\ \A e \in Days \ {d} : repoCount'[e] = repoCount[e]
          /\ \A r \in Repos \ {RepoOf[run]} : repoCount'[d][r] = repoCount[d][r]
          /\ repoCount'[d][RepoOf[run]] = repoCount[d][RepoOf[run]]
                                            + (IF p.repo > 0 THEN 1 ELSE 0)
      <3>1. repoCount \in [Days -> [Repos -> Nat]]
        BY DEF CapacityInv, TypeOK
      <3>2. CASE p.repo > 0
        <4> DEFINE n == repoCount[d][RepoOf[run]] + 1
                   row == [repoCount[d] EXCEPT ![RepoOf[run]] = n]
        <4>1. repoCount' = [repoCount EXCEPT ![d] = row]
          BY <2>1, <3>1, <3>2, <1>1
        <4>2. n \in Nat
          BY <3>1, <1>1
        <4> HIDE DEF n
        <4>3. row \in [Repos -> Nat]
          BY <3>1, <1>1, <4>2
        <4>4. /\ row[RepoOf[run]] = n
              /\ \A r \in Repos \ {RepoOf[run]} : row[r] = repoCount[d][r]
          BY <3>1, <1>1
        <4> HIDE DEF row
        <4> QED BY <3>1, <3>2, <4>1, <4>3, <4>4, <1>1 DEF n
      <3>3. CASE ~(p.repo > 0)
        <4>1. repoCount[d][RepoOf[run]] \in Nat
          BY <3>1, <1>1
        <4> QED BY <2>1, <3>1, <3>3, <4>1
      <3> QED BY <3>2, <3>3
    <2> HIDE DEF run, d, p
    <2>6. TypeOK'
      BY <1>2, <2>1, <2>3, <2>4, <2>5 DEF CapacityInv, TypeOK, Steps
    <2>7. CountersAreAdmissions'
      <3> SUFFICES ASSUME NEW e \in Days, NEW r \in Repos
          PROVE  /\ globalCount'[e] = Cardinality(ids'[e])
                 /\ repoCount'[e][r] <= Cardinality(ids'[e] \cap RunsOf(r))
                 /\ (\A q \in Policies : q.repo > 0) =>
                      repoCount'[e][r] = Cardinality(ids'[e] \cap RunsOf(r))
        BY <1>1 DEF CountersAreAdmissions
      <3>1. CASE e # d
        BY <2>3, <2>4, <2>5, <3>1 DEF CapacityInv, CountersAreAdmissions
      <3>2. CASE e = d
        <4>1. /\ Cardinality(ids[d] \cup {run}) = Cardinality(ids[d]) + 1
              /\ Cardinality((ids[d] \cup {run}) \cap RunsOf(r)) =
                   Cardinality(ids[d] \cap RunsOf(r))
                     + (IF RepoOf[run] = r THEN 1 ELSE 0)
          BY <1>1, <2>2, AdmittingCounts DEF CapacityInv
        <4>2. /\ Cardinality(ids[d] \cap RunsOf(r)) \in Nat
              /\ repoCount[d][r] \in Nat
          BY <1>1, AdmittedFinite DEF CapacityInv, TypeOK
        <4>3. /\ globalCount[d] = Cardinality(ids[d])
              /\ repoCount[d][r] <= Cardinality(ids[d] \cap RunsOf(r))
              /\ (\A q \in Policies : q.repo > 0) =>
                   repoCount[d][r] = Cardinality(ids[d] \cap RunsOf(r))
          BY <1>1 DEF CapacityInv, CountersAreAdmissions
        <4>4. /\ repoCount'[d][r] <= repoCount[d][r]
                                       + (IF RepoOf[run] = r THEN 1 ELSE 0)
              /\ p.repo > 0 => repoCount'[d][r] =
                   repoCount[d][r] + (IF RepoOf[run] = r THEN 1 ELSE 0)
          BY <1>1, <2>5, <4>2
        <4>5. (\A q \in Policies : q.repo > 0) => p.repo > 0
          BY <1>1
        <4>6. repoCount'[d][r] \in Nat
          BY <1>1, <2>5
        <4> DEFINE n == Cardinality(ids[d] \cap RunsOf(r))
                   m == IF RepoOf[run] = r THEN 1 ELSE 0
        <4>7. n \in Nat /\ m \in Nat /\ Cardinality(ids'[d] \cap RunsOf(r)) = n + m
          BY <2>3, <4>1, <4>2
        <4>8. globalCount'[d] = Cardinality(ids'[d])
          BY <2>3, <2>4, <4>1, <4>3
        <4> HIDE DEF n, m
        <4>9. repoCount'[d][r] <= n + m
          <5>1. repoCount'[d][r] <= repoCount[d][r] + m /\ repoCount[d][r] <= n
            BY <4>3, <4>4 DEF n, m
          <5> QED BY <4>2, <4>6, <4>7, <5>1
        <4>10. (\A q \in Policies : q.repo > 0) => repoCount'[d][r] = n + m
          BY <4>3, <4>4, <4>5 DEF n, m
        <4> QED BY <3>2, <4>7, <4>8, <4>9, <4>10
      <3> QED BY <3>1, <3>2
    <2>8. DailyLimits'
      <3>1. Cardinality(ids'[d]) <= p.global
        <4>1. globalCount[d] < p.global /\ globalCount[d] \in Nat
          BY <1>1, <1>4 DEF CanAdmit, CapacityInv, TypeOK
        <4>2. globalCount'[d] <= p.global
          BY <1>1, <2>4, <4>1
        <4> QED BY <1>1, <2>7, <4>2 DEF CountersAreAdmissions
      <3>2. \A r \in Repos :
              repoCount'[d][r] > 0 => \E q \in Policies : repoCount'[d][r] <= q.repo
        <4> SUFFICES ASSUME NEW r \in Repos, repoCount'[d][r] > 0
            PROVE  \E q \in Policies : repoCount'[d][r] <= q.repo
          OBVIOUS
        <4>1. CASE repoCount'[d][r] = repoCount[d][r]
          BY <1>1, <4>1 DEF CapacityInv, DailyLimits
        <4>2. CASE r = RepoOf[run] /\ p.repo > 0
          <5>1. repoCount[d][r] < p.repo /\ repoCount[d][r] \in Nat
            BY <1>1, <1>4, <4>2 DEF CanAdmit, CapacityInv, TypeOK
          <5> QED BY <1>1, <2>5, <4>2, <5>1
        <4>3. repoCount[d][r] \in Nat
          BY <1>1 DEF CapacityInv, TypeOK
        <4> QED BY <2>5, <4>1, <4>2, <4>3
      <3>3. \A e \in Days \ {d} :
              ids'[e] = ids[e] /\ repoCount'[e] = repoCount[e]
        BY <2>3, <2>5
      <3>4. ASSUME NEW e \in Days
            PROVE  /\ ids'[e] # {} =>
                        \E q \in Policies : Cardinality(ids'[e]) <= q.global
                   /\ \A r \in Repos : repoCount'[e][r] > 0 =>
                        \E q \in Policies : repoCount'[e][r] <= q.repo
        <4>1. CASE e = d
          BY <1>1, <3>1, <3>2, <4>1
        <4>2. CASE e # d
          BY <3>3, <4>2 DEF CapacityInv, DailyLimits
        <4> QED BY <4>1, <4>2
      <3> QED BY <3>4 DEF DailyLimits
    <2>9. WorkInv'
      <3>1. pc'[o] = "work" /\ on'[o] \in ids'[window'[o]]
        BY <1>2, <2>1, <2>3 DEF CapacityInv, TypeOK, run, d
      <3>2. \A e \in Days : ids[e] \subseteq ids'[e]
        BY <2>3
      <3> QED BY <1>1, <1>2, <2>1, <3>1, <3>2
              DEF CapacityInv, TypeOK, WorkInv, Steps, run, d, p
    <2>10. \A e \in Days, x \in Runs, q \in Policies :
             Full(x, e, q) => Full(x, e, q)'
      <3> SUFFICES ASSUME NEW e \in Days, NEW x \in Runs, NEW q \in Policies
                   PROVE  /\ repoCount[e][RepoOf[x]] <= repoCount'[e][RepoOf[x]]
                          /\ globalCount[e] <= globalCount'[e]
                          /\ repoCount[e][RepoOf[x]] \in Nat
                          /\ repoCount'[e][RepoOf[x]] \in Nat
                          /\ globalCount[e] \in Nat /\ globalCount'[e] \in Nat
                          /\ q.repo \in Nat /\ q.global \in Nat
        BY DEF Full
      <3>1. /\ repoCount[e][RepoOf[x]] \in Nat /\ repoCount'[e][RepoOf[x]] \in Nat
            /\ globalCount[e] \in Nat /\ globalCount'[e] \in Nat
            /\ RepoOf[x] \in Repos
        BY <2>6, PoliciesAssumption DEF CapacityInv, TypeOK
      <3>2. globalCount[e] <= globalCount'[e]
        BY <2>4, <3>1
      <3>3. repoCount[e][RepoOf[x]] <= repoCount'[e][RepoOf[x]]
        BY <2>5, <3>1
      <3> QED BY <3>1, <3>2, <3>3, PoliciesAssumption
    <2>11. OnePolicy => \A x \in Runs, e \in Days, q \in Deployed :
             x \in ids'[e] => x \in ids[e] \/ ~Full(x, e, q)
      <3>1. p \in Deployed
        BY <1>1, PoliciesAssumption DEF CapacityInv, TypeOK, WorkInv, Deployed, p
      <3> QED BY <2>2, <2>3, <3>1 DEF OnePolicy
    <2>12. RefusalInv'
      <3> SUFFICES ASSUME OnePolicy, NEW u \in Owners
          PROVE  /\ pc'[u] \in {"read", "notice", "speak", "silence"} =>
                      \/ on[u] \in ids'[window[u]]
                      \/ Full(on[u], window[u], policy[u])'
                 /\ pc'[u] \in {"notice", "speak", "silence"} =>
                      on[u] \notin ids'[window[u]]
        BY <1>2, SamePolicies DEF RefusalInv, Full
      <3>1. CASE pc'[u] \in {"read", "notice", "speak", "silence"}
        <4>1. u # o /\ pc'[u] = pc[u]
          BY <2>1, <3>1 DEF CapacityInv, TypeOK
        <4>2. /\ on[u] \in Runs /\ window[u] \in Days
              /\ policy[u] \in Policies /\ policy[u] \in Deployed
          BY <3>1, <4>1 DEF CapacityInv, TypeOK, WorkInv, Steps, Deployed
        <4>3. /\ on[u] \in ids[window[u]] \/ Full(on[u], window[u], policy[u])
              /\ pc[u] \in {"notice", "speak", "silence"} =>
                   on[u] \notin ids[window[u]]
          BY <3>1, <4>1 DEF CapacityInv, RefusalInv
        <4>4. ids[window[u]] \subseteq ids'[window[u]]
          BY <2>3, <4>2
        <4>5. on[u] \in ids'[window[u]] \/ Full(on[u], window[u], policy[u])'
          BY <1>2, <2>10, <4>2, <4>3, <4>4
        <4>6. ASSUME pc'[u] \in {"notice", "speak", "silence"}
              PROVE  on[u] \notin ids'[window[u]]
          <5>1. /\ on[u] \notin ids[window[u]]
                /\ Full(on[u], window[u], policy[u])
            BY <4>1, <4>3, <4>6
          <5> QED BY <2>11, <4>2, <5>1
        <4> QED BY <4>5, <4>6
      <3> QED BY <3>1
    <2>13. OutcomeInv'
      BY <1>2 DEF CapacityInv, OutcomeInv
    <2>14. TurnedAwayWasFull'
      <3> SUFFICES ASSUME OnePolicy, NEW x \in Runs,
                          outcome[x] \in {"notified", "silenced"}
          PROVE  /\ x \notin ids'[blockedOn[x]]
                 /\ \E q \in Deployed : Full(x, blockedOn[x], q)'
        BY <1>2, SamePolicies DEF TurnedAwayWasFull, Full
      <3>1. blockedOn[x] \in Days
        BY DEF CapacityInv, TypeOK, OutcomeInv
      <3>2. PICK q \in Deployed : Full(x, blockedOn[x], q)
        BY DEF CapacityInv, TurnedAwayWasFull
      <3>3. x \notin ids[blockedOn[x]]
        BY DEF CapacityInv, TurnedAwayWasFull
      <3>4. q \in Policies
        BY DEF CapacityInv, TypeOK, Deployed
      <3>5. Full(x, blockedOn[x], q)'
        BY <1>2, <2>10, <3>1, <3>2, <3>4
      <3>6. x \notin ids'[blockedOn[x]]
        BY <2>11, <3>1, <3>2, <3>3
      <3> QED BY <3>5, <3>6
    <2>15. PaidRunsAreAdmitted'
      <3>1. \A e \in Days : ids[e] \subseteq ids'[e]
        BY <2>3
      <3> QED BY <1>2, <3>1 DEF CapacityInv, PaidRunsAreAdmitted
    <2> QED BY <2>6, <2>7, <2>8, <2>9, <2>12, <2>13, <2>14, <2>15 DEF CapacityInv
  <1> QED BY <1>3, <1>4

\* Steps that leave the sentinel's counters alone.
LEMMA OthersKeep ==
  ASSUME CapacityInv, NEW o \in Owners,
         ClaimPhase(o) \/ Consume(o) \/ ReadSentinel(o) \/ BuyModelCall(o)
  PROVE  CapacityInv'
  <1>1. UNCHANGED <<ids, repoCount, globalCount, noticeOwner, outcome, blockedOn>>
    BY DEF ClaimPhase, Consume, ReadSentinel, BuyModelCall, sentinelVars, itemVars
  <1>2. TypeOK'
    <2>1. CASE ClaimPhase(o)
      BY <2>1 DEF CapacityInv, TypeOK, ClaimPhase, Goto, sentinelVars, Steps
    <2>2. CASE Consume(o)
      BY <2>2 DEF CapacityInv, TypeOK, Consume, Goto, sentinelVars, itemVars, Steps
    <2>3. CASE ReadSentinel(o)
      BY <2>3 DEF CapacityInv, TypeOK, ReadSentinel, Goto, sentinelVars, itemVars,
                  workVars, Steps
    <2>4. CASE BuyModelCall(o)
      BY <2>4 DEF CapacityInv, TypeOK, WorkInv, BuyModelCall, sentinelVars, itemVars,
                  workVars, Steps
    <2> QED BY <2>1, <2>2, <2>3, <2>4
  <1>3. CountersAreAdmissions' /\ DailyLimits' /\ OutcomeInv'
    BY <1>1 DEF CapacityInv, CountersAreAdmissions, DailyLimits, OutcomeInv
  <1>7. Deployed \subseteq Deployed' /\ (OnePolicy' => OnePolicy)
    <2>1. \A u \in Owners : policy[u] # None => policy'[u] = policy[u]
      <3>1. CASE ClaimPhase(o)
        BY <3>1 DEF CapacityInv, TypeOK, WorkInv, ClaimPhase
      <3>2. CASE UNCHANGED policy
        BY <3>2
      <3> QED BY <3>1, <3>2 DEF Consume, ReadSentinel, BuyModelCall, workVars
    <2>2. Deployed \subseteq Deployed'
      BY <2>1 DEF Deployed
    <2> QED BY <2>2 DEF OnePolicy
  <1>8. TurnedAwayWasFull'
    BY <1>1, <1>7 DEF CapacityInv, TurnedAwayWasFull, Full
  <1>4. WorkInv'
    <2>1. CASE ClaimPhase(o)
      BY <2>1, PoliciesAssumption
         DEF CapacityInv, TypeOK, WorkInv, ClaimPhase, Goto, sentinelVars, Steps
    <2>2. CASE Consume(o)
      BY <2>2, PoliciesAssumption
         DEF CapacityInv, TypeOK, WorkInv, Consume, Goto, sentinelVars,
             itemVars, Steps, Days
    <2>3. CASE ReadSentinel(o)
      BY <2>3 DEF CapacityInv, TypeOK, WorkInv, ReadSentinel, Goto,
                  sentinelVars, itemVars, workVars, Steps
    <2>4. CASE BuyModelCall(o)
      BY <2>4 DEF CapacityInv, TypeOK, WorkInv, BuyModelCall, sentinelVars,
                  itemVars, workVars, Steps
    <2> QED BY <2>1, <2>2, <2>3, <2>4
  <1>5. RefusalInv'
    <2>1. CASE ClaimPhase(o)
      BY <1>7, <2>1 DEF CapacityInv, TypeOK, RefusalInv, Full, ClaimPhase, Goto,
                  sentinelVars
    <2>2. CASE Consume(o)
      BY <1>7, <2>2 DEF CapacityInv, TypeOK, RefusalInv, Full, Consume, Goto,
                  sentinelVars, itemVars
    <2>3. CASE ReadSentinel(o)
      BY <1>7, <2>3 DEF CapacityInv, TypeOK, RefusalInv, Full, ReadSentinel, Goto,
                  sentinelVars, itemVars, workVars
    <2>4. CASE BuyModelCall(o)
      BY <1>7, <2>4 DEF CapacityInv, TypeOK, RefusalInv, Full, BuyModelCall,
                  sentinelVars, itemVars, workVars
    <2> QED BY <2>1, <2>2, <2>3, <2>4
  <1>6. PaidRunsAreAdmitted'
    <2>1. CASE BuyModelCall(o)
      <3>1. pc[o] = "work" /\ on[o] \in Runs /\ policy[o] \in Policies
        BY <2>1, PoliciesAssumption DEF CapacityInv, TypeOK, WorkInv, BuyModelCall
      <3>2. Enabled(policy[o]) => window[o] \in Days /\ on[o] \in ids[window[o]]
        BY <3>1 DEF CapacityInv, TypeOK, WorkInv, Steps
      <3> QED BY <1>1, <2>1, <3>1, <3>2
              DEF CapacityInv, PaidRunsAreAdmitted, BuyModelCall
    <2>2. CASE UNCHANGED paid
      BY <1>1, <2>2 DEF CapacityInv, PaidRunsAreAdmitted
    <2> QED BY <2>1, <2>2 DEF ClaimPhase, Consume, ReadSentinel
  <1> QED BY <1>2, <1>3, <1>4, <1>5, <1>6, <1>8 DEF CapacityInv

\* The notice of a day is claimed by one run.
LEMMA ClaimNoticeKeeps ==
  ASSUME CapacityInv, NEW o \in Owners, ClaimNotice(o)
  PROVE  CapacityInv'
  <1> DEFINE run == on[o]  d == window[o]  r == RepoOf[run]
  <1>1. /\ run \in Runs /\ d \in Days /\ r \in Repos /\ run \notin Successors
        /\ pc[o] = "notice" /\ Enabled(policy[o])
    BY PoliciesAssumption DEF CapacityInv, TypeOK, WorkInv, ClaimNotice, Steps
  <1>2. /\ UNCHANGED <<today, ids, repoCount, globalCount, outcome, blockedOn>>
        /\ UNCHANGED <<claim, paid, on, policy, window>>
    BY DEF ClaimNotice, itemVars, workVars
  <1>3. \/ /\ noticeOwner[d][r] \in {None, run}
           /\ noticeOwner' = [noticeOwner EXCEPT ![d][r] = run]
           /\ pc' = [pc EXCEPT ![o] = "speak"]
        \/ noticeOwner' = noticeOwner /\ pc' = [pc EXCEPT ![o] = "silence"]
    BY DEF ClaimNotice, Goto
  <1>4. /\ noticeOwner' \in [Days -> [Repos -> Runs \cup {None}]]
        /\ \A e \in Days, s \in Repos :
             noticeOwner[e][s] # None => noticeOwner'[e][s] = noticeOwner[e][s]
        /\ pc'[o] = "speak" => noticeOwner'[d][r] = run
    <2>1. noticeOwner \in [Days -> [Repos -> Runs \cup {None}]] /\ pc \in [Owners -> Steps]
      BY DEF CapacityInv, TypeOK
    <2> HIDE DEF run, d, r
    <2> QED BY <1>1, <1>3, <2>1
  <1>5. TypeOK'
    BY <1>2, <1>3, <1>4 DEF CapacityInv, TypeOK, Steps
  <1>6. CountersAreAdmissions' /\ DailyLimits' /\ TurnedAwayWasFull'
          /\ PaidRunsAreAdmitted'
    BY <1>2, SamePolicies
       DEF CapacityInv, CountersAreAdmissions, DailyLimits,
           TurnedAwayWasFull, Full, PaidRunsAreAdmitted
  <1>7. WorkInv'
    <2> SUFFICES ASSUME NEW u \in Owners
        PROVE  /\ pc'[u] = "idle" => policy[u] = None
               /\ pc'[u] # "idle" => on[u] # None /\ policy[u] # None
               /\ pc'[u] \in Steps \ {"idle", "consume", "gone"} =>
                    window[u] # None
               /\ pc'[u] \in {"admit", "read", "notice", "speak", "silence"} =>
                    Enabled(policy[u])
               /\ pc'[u] = "work" /\ Enabled(policy[u]) => on[u] \in ids[window[u]]
               /\ pc'[u] \in {"notice", "speak"} => on[u] \notin Successors
               /\ pc'[u] = "speak" =>
                    noticeOwner'[window[u]][RepoOf[on[u]]] = on[u]
      BY <1>2 DEF WorkInv
    <2>1. CASE u = o
      BY <1>1, <1>3, <1>4, <2>1 DEF CapacityInv, TypeOK, WorkInv, Steps
    <2>2. CASE u # o
      <3>1. pc'[u] = pc[u]
        BY <1>3, <2>2 DEF CapacityInv, TypeOK
      <3>2. pc[u] = "speak" =>
              noticeOwner'[window[u]][RepoOf[on[u]]] = on[u]
        <4> SUFFICES ASSUME pc[u] = "speak"
                     PROVE  noticeOwner'[window[u]][RepoOf[on[u]]] = on[u]
          OBVIOUS
        <4>1. /\ on[u] # None /\ window[u] # None
              /\ noticeOwner[window[u]][RepoOf[on[u]]] = on[u]
          BY DEF CapacityInv, WorkInv, Steps
        <4>2. window[u] \in Days /\ on[u] \in Runs
          BY <4>1 DEF CapacityInv, TypeOK
        <4>3. RepoOf[on[u]] \in Repos
          BY <4>2, PoliciesAssumption
        <4> QED BY <1>4, <4>1, <4>2, <4>3
      <3> QED BY <3>1, <3>2 DEF CapacityInv, WorkInv
    <2> QED BY <2>1, <2>2
  <1>8. RefusalInv'
    BY <1>1, <1>2, <1>3, SamePolicies DEF CapacityInv, TypeOK, RefusalInv, Full
  <1>9. OutcomeInv'
    BY <1>2, <1>4, PoliciesAssumption DEF CapacityInv, TypeOK, OutcomeInv
  <1> QED BY <1>5, <1>6, <1>7, <1>8, <1>9 DEF CapacityInv

\* Turning a run away records the reason that was established for it.
LEMMA TurnAwayKeeps ==
  ASSUME CapacityInv, NEW o \in Owners, TurnAway(o)
  PROVE  CapacityInv'
  <1>1. PICK how \in {"notified", "silenced"} :
          /\ EndRun(o, how)
          /\ how = "notified" => pc[o] = "speak"
          /\ how = "silenced" => pc[o] = "silence"
    BY DEF TurnAway
  <1>2. /\ UNCHANGED <<today, ids, repoCount, globalCount, noticeOwner, paid>>
        /\ UNCHANGED <<on, policy, window>>
        /\ outcome' = [outcome EXCEPT ![on[o]] = how]
        /\ blockedOn' = [blockedOn EXCEPT ![on[o]] = window[o]]
        /\ claim' = [claim EXCEPT ![on[o]] = None]
        /\ pc' = [pc EXCEPT ![o] = "gone"]
    BY <1>1 DEF EndRun, TurnAway, Goto, sentinelVars, workVars
  <1>3. on[o] \in Runs /\ window[o] \in Days /\ policy[o] \in Policies
    BY <1>1 DEF CapacityInv, TypeOK, WorkInv, Steps
  <1>4. TypeOK'
    BY <1>2, <1>3 DEF CapacityInv, TypeOK, Steps
  <1>5. CountersAreAdmissions' /\ DailyLimits' /\ PaidRunsAreAdmitted'
    BY <1>2 DEF CapacityInv, CountersAreAdmissions, DailyLimits,
                PaidRunsAreAdmitted
  <1>6. WorkInv'
    BY <1>1, <1>2 DEF CapacityInv, TypeOK, WorkInv, Steps
  <1>7. RefusalInv'
    BY <1>2, SamePolicies DEF CapacityInv, TypeOK, RefusalInv, Full
  <1>8. OutcomeInv'
    BY <1>1, <1>2, <1>3, PoliciesAssumption
       DEF CapacityInv, TypeOK, WorkInv, OutcomeInv, Days
  <1>9. TurnedAwayWasFull'
    <2> SUFFICES ASSUME OnePolicy, NEW x \in Runs,
                        outcome'[x] \in {"notified", "silenced"}
        PROVE  /\ x \notin ids[blockedOn'[x]]
               /\ \E q \in Deployed : Full(x, blockedOn'[x], q)
      BY <1>2, SamePolicies DEF TurnedAwayWasFull, Full
    <2>1. CASE x = on[o]
      <3>1. blockedOn'[x] = window[o] /\ policy[o] \in Deployed
        BY <1>2, <1>3, <2>1, PoliciesAssumption DEF Deployed, CapacityInv, TypeOK
      <3> QED BY <1>1, <2>1, <3>1 DEF CapacityInv, RefusalInv
    <2>2. CASE x # on[o]
      BY <1>2, <2>2 DEF CapacityInv, TypeOK, TurnedAwayWasFull
    <2> QED BY <2>1, <2>2
  <1> QED BY <1>4, <1>5, <1>6, <1>7, <1>8, <1>9 DEF CapacityInv

\* Ends, failures, crashes and midnight touch nothing that was counted.
LEMMA EndsKeep ==
  ASSUME CapacityInv,
         Midnight \/ \E o \in Owners : LeavePhase(o) \/ ReleaseClaim(o) \/ Crash(o)
  PROVE  CapacityInv'
  <1>1. /\ UNCHANGED <<ids, repoCount, globalCount, noticeOwner, blockedOn, paid>>
        /\ UNCHANGED <<on, policy, window>>
    BY DEF Midnight, LeavePhase, EndRun, ReleaseClaim, Crash, sentinelVars,
           itemVars, workVars
  <1>2. TypeOK'
    <2>1. CASE Midnight
      BY <2>1, PoliciesAssumption
         DEF CapacityInv, TypeOK, Midnight, sentinelVars, itemVars, workVars, Days
    <2>2. ASSUME NEW o \in Owners, LeavePhase(o) PROVE TypeOK'
      BY <2>2 DEF CapacityInv, TypeOK, LeavePhase, EndRun, Goto, sentinelVars,
                  workVars, Steps
    <2>3. ASSUME NEW o \in Owners, ReleaseClaim(o) PROVE TypeOK'
      BY <2>3 DEF CapacityInv, TypeOK, ReleaseClaim, Goto, sentinelVars,
                  workVars, Steps
    <2>4. ASSUME NEW o \in Owners, Crash(o) PROVE TypeOK'
      BY <2>4 DEF CapacityInv, TypeOK, Crash, Goto, sentinelVars, itemVars,
                  workVars, Steps
    <2> QED BY <2>1, <2>2, <2>3, <2>4
  <1>3. /\ \A u \in Owners : pc'[u] = pc[u] \/ (pc'[u] = "gone" /\ pc[u] # "idle")
        /\ \A x \in Runs : outcome'[x] = outcome[x] \/ outcome'[x] = "left"
    <2>1. pc \in [Owners -> Steps]
      BY DEF CapacityInv, TypeOK
    <2>2. outcome \in [Runs -> {"live", "notified", "silenced", "left"}]
      BY DEF CapacityInv, TypeOK
    <2> QED BY <2>1, <2>2 DEF Midnight, LeavePhase, EndRun, ReleaseClaim, Crash,
                              Goto, itemVars
  <1>4. CountersAreAdmissions' /\ DailyLimits' /\ PaidRunsAreAdmitted'
    BY <1>1 DEF CapacityInv, CountersAreAdmissions, DailyLimits,
                PaidRunsAreAdmitted
  <1>5. WorkInv'
    BY <1>1, <1>3 DEF CapacityInv, WorkInv
  <1>6. RefusalInv'
    BY <1>1, <1>3, SamePolicies DEF CapacityInv, RefusalInv, Full
  <1>7. OutcomeInv' /\ TurnedAwayWasFull'
    BY <1>1, <1>3, SamePolicies
       DEF CapacityInv, OutcomeInv, TurnedAwayWasFull, Full
  <1> QED BY <1>2, <1>4, <1>5, <1>6, <1>7 DEF CapacityInv

\* Before the first delivery nothing is charged.
LEMMA InitEstablishes == Init => CapacityInv
  <1> SUFFICES ASSUME Init PROVE CapacityInv
    OBVIOUS
  <1> USE DEF Init
  <1>1. TypeOK
    BY PoliciesAssumption DEF TypeOK, Days, Steps
  <1>2. CountersAreAdmissions
    <2>1. \A d \in Days, r \in Repos :
            ids[d] = {} /\ ids[d] \cap RunsOf(r) = {} /\ globalCount[d] = 0
              /\ repoCount[d][r] = 0
      OBVIOUS
    <2>2. Cardinality({}) = 0
      BY FS_EmptySet
    <2>3. \A d \in Days : globalCount[d] = 0 /\ ids[d] = {}
      OBVIOUS
    <2> QED BY <2>1, <2>2, <2>3 DEF CountersAreAdmissions
  <1>3. DailyLimits
    BY DEF DailyLimits
  <1>4. WorkInv /\ RefusalInv
    BY DEF WorkInv, RefusalInv
  <1>5. OutcomeInv /\ TurnedAwayWasFull /\ PaidRunsAreAdmitted
    BY DEF OutcomeInv, TurnedAwayWasFull, PaidRunsAreAdmitted
  <1> QED BY <1>1, <1>2, <1>3, <1>4, <1>5 DEF CapacityInv

\* The invariant is about the variables alone.
LEMMA StutterKeeps == CapacityInv /\ UNCHANGED vars => CapacityInv'
  <1> SUFFICES ASSUME CapacityInv, UNCHANGED vars PROVE CapacityInv'
    OBVIOUS
  <1> USE DEF CapacityInv, vars, sentinelVars, itemVars, workVars
  <1>1. TypeOK' /\ WorkInv'
    BY DEF TypeOK, WorkInv
  <1>2. CountersAreAdmissions' /\ DailyLimits' /\ PaidRunsAreAdmitted'
    BY DEF CountersAreAdmissions, DailyLimits, PaidRunsAreAdmitted
  <1>3. RefusalInv' /\ OutcomeInv' /\ TurnedAwayWasFull'
    BY SamePolicies DEF RefusalInv, OutcomeInv, TurnedAwayWasFull, Full
  <1> QED BY <1>1, <1>2, <1>3

\* CapacityInv, the inductive invariant of the daily sentinel.
THEOREM CapacityInductive == Spec => []CapacityInv
  <1>1. CapacityInv /\ [Next]_vars => CapacityInv'
    BY AdmitOnceKeeps, OthersKeep, ClaimNoticeKeeps, TurnAwayKeeps, EndsKeep,
       StutterKeeps DEF Next
  <1> QED BY <1>1, InitEstablishes, PTL DEF Spec

\* Each counter is the number of runs it admitted (_admit_once).
THEOREM CountersExact == Spec => []CountersAreAdmissions
  <1>1. CapacityInv => CountersAreAdmissions
    BY DEF CapacityInv
  <1> QED BY <1>1, CapacityInductive, PTL

\* No race or retry admits more than the deployed limits (_admit_once).
THEOREM LimitsHold == Spec => []DailyLimits
  <1>1. CapacityInv => DailyLimits
    BY DEF CapacityInv
  <1> QED BY <1>1, CapacityInductive, PTL

\* One notice per repository and day, none for a successor (_claim_notice).
THEOREM ToldOnceADay == Spec => []OneNoticePerDay
  <1>1. CapacityInv => OneNoticePerDay
    BY DEF CapacityInv, OutcomeInv, OneNoticePerDay
  <1> QED BY <1>1, CapacityInductive, PTL

\* A refusal is true when it takes effect (consume).
THEOREM RefusedOnlyWhenFull == Spec => []TurnedAwayWasFull
  <1>1. CapacityInv => TurnedAwayWasFull
    BY DEF CapacityInv
  <1> QED BY <1>1, CapacityInductive, PTL

\* Bounded capacity is consumed before the first model call
\* (run_context_phase).
THEOREM NothingPaidUnadmitted == Spec => []PaidRunsAreAdmitted
  <1>1. CapacityInv => PaidRunsAreAdmitted
    BY DEF CapacityInv
  <1> QED BY <1>1, CapacityInductive, PTL
=============================================================================

----------------------------- MODULE LoopProofs -----------------------------
(***************************************************************************)
(* Proofs about the evidence loop, for every set of questions, every plan  *)
(* and judgement, and every cap.                                           *)
(*                                                                         *)
(* CollectionInv is inductive.  It says of each stage what the later ones  *)
(* rely on: while a judgement is applied, that every answer it kept is     *)
(* answered in the ledger or downgraded; until the log is sealed, that     *)
(* nothing has been marked uncovered; and while a sweep may still end the  *)
(* collection, where in the log the judgement's evidence stopped.          *)
(***************************************************************************)
EXTENDS EvidenceLoop, RecursionFacts, SequenceTheorems

\* Two rounds at most, and one repair in both together.
BoundsInv ==
  /\ judgements <= round + (IF repairUsed THEN 1 ELSE 0)
  /\ stage = "indexing" => judgements < round + (IF repairUsed THEN 1 ELSE 0)
  /\ stage = "planning" => round = 0
  /\ stage \in {"executing", "sweeping"} => round < Rounds
  /\ seen <= Len(events)
  /\ Ended => sealedAt = Len(events)

\* What a judgement that is being applied has kept, and what it leaves.
ReadingInv ==
  /\ stage \notin {"answers", "gaps"} => heard = {} /\ downgraded = {}
  /\ \A a \in heard : a.q \in downgraded \/ resolution[a.q].status = "answered"
  /\ ShownAnswersStand

\* How far the last judgement's evidence reaches, at each stage.
ScopeInv ==
  /\ ~ Ended => covers /\ ~ directOnly
  /\ stage \in {"judging", "repairing", "answers", "gaps", "judged"} => seen = Len(events)
  /\ stage = "judged" => available
  /\ stage = "executing" /\ back = "followed" => ~ reply.complete
  /\ stage = "sweeping" =>
       /\ back \in {"again", "settle"}
       /\ back = "settle" => available /\ sweepFrom = seen
  /\ ScopeIsHonest

\* A planned question waits in the queue.
PlannedInv ==
  \A q \in Questions : lifecycle[q] = "planned" =>
    stage = "raised" \/ (stage = "executing" /\ q \in ToSet(queue))

CollectionInv ==
  /\ TypeOK /\ BoundsInv /\ AnswersRestOnHits
  /\ ReadingInv /\ ScopeInv /\ PlannedInv

-----------------------------------------------------------------------------
(* What the operators return.                                               *)

LEMMA SomeAreRequests == Requests \subseteq Questions
  BY LoopAssumption DEF Requests

LEMMA OrderedIs ==
  ASSUME NEW s \in Seq(Requests)
  PROVE  Ordered(s) \in Seq(Requests)
  BY AtSelects DEF Ordered

LEMMA CappedIs ==
  ASSUME NEW s \in Seq(Requests)
  PROVE  Capped(s) \in Seq(Requests)
  BY AtSelects DEF Capped

\* Removing one element loses no other.
LEMMA RemoveAtIs ==
  ASSUME NEW S, NEW s \in Seq(S), NEW i \in DOMAIN s
  PROVE  /\ RemoveAt(s, i) \in Seq(S)
         /\ ToSet(s) \subseteq ToSet(RemoveAt(s, i)) \cup {s[i]}
         /\ ToSet(RemoveAt(s, i)) \subseteq S
  <1> DEFINE a == SubSeq(s, 1, i - 1)
             b == SubSeq(s, i + 1, Len(s))
  <1>1. /\ Len(s) \in Nat /\ i \in 1 .. Len(s) /\ DOMAIN s = 1 .. Len(s)
        /\ \A k \in 1 .. Len(s) : s[k] \in S
    OBVIOUS
  <1>2. /\ a \in Seq(S) /\ Len(a) = i - 1
        /\ \A k \in 1 .. i - 1 : a[k] = s[k]
    <2>1. /\ i - 1 \in Nat /\ (i - 1) - 1 + 1 = i - 1
          /\ \A k \in 1 .. i - 1 : s[k] \in S /\ 1 + k - 1 = k
      BY <1>1
    <2>2. /\ a \in Seq(S)
          /\ Len(a) = IF 1 <= i - 1 THEN (i - 1) - 1 + 1 ELSE 0
          /\ \A k \in 1 .. (i - 1) - 1 + 1 : a[k] = s[1 + k - 1]
      BY <2>1, SubSeqProperties
    <2> HIDE DEF a
    <2> QED BY <2>1, <2>2
  <1>3. /\ b \in Seq(S) /\ Len(b) = Len(s) - i
        /\ \A k \in 1 .. Len(s) - i : b[k] = s[i + k]
    <2>1. /\ i + 1 \in Int /\ Len(s) \in Int /\ Len(s) - (i + 1) + 1 = Len(s) - i
          /\ \A k \in i + 1 .. Len(s) : s[k] \in S
          /\ \A k \in 1 .. Len(s) - i : i + 1 + k - 1 = i + k
      BY <1>1
    <2>2. /\ b \in Seq(S)
          /\ Len(b) = IF i + 1 <= Len(s) THEN Len(s) - (i + 1) + 1 ELSE 0
          /\ \A k \in 1 .. Len(s) - (i + 1) + 1 : b[k] = s[i + 1 + k - 1]
      BY <2>1, SubSeqProperties
    <2> HIDE DEF b
    <2>3. Len(b) = Len(s) - i
      BY <1>1, <2>1, <2>2
    <2>4. \A k \in 1 .. Len(s) - i : b[k] = s[i + k]
      BY <2>1, <2>2
    <2> QED BY <2>2, <2>3, <2>4
  <1> HIDE DEF a, b
  <1> DEFINE c == a \o b
  <1>4. /\ c \in Seq(S) /\ Len(c) = (i - 1) + (Len(s) - i)
        /\ \A k \in 1 .. Len(c) : c[k] = IF k <= i - 1 THEN a[k] ELSE b[k - (i - 1)]
    <2>1. /\ c \in Seq(S) /\ Len(c) = Len(a) + Len(b)
          /\ \A k \in 1 .. Len(a) + Len(b) : c[k] = IF k <= Len(a) THEN a[k] ELSE b[k - Len(a)]
      BY <1>2, <1>3, ConcatProperties
    <2> HIDE DEF c
    <2> QED BY <1>2, <1>3, <2>1
  <1> HIDE DEF c
  <1>5. ASSUME NEW k \in 1 .. Len(s), k # i
        PROVE  \E j \in DOMAIN c : c[j] = s[k]
    <2>1. CASE k < i
      <3>1. k \in 1 .. Len(c) /\ k <= i - 1 /\ k \in 1 .. i - 1
        BY <1>1, <1>4, <2>1
      <3>2. c[k] = s[k]
        BY <1>2, <1>4, <3>1
      <3>3. DOMAIN c = 1 .. Len(c)
        BY <1>4
      <3> QED BY <3>1, <3>2, <3>3
    <2>2. CASE k > i
      <3> DEFINE j == k - 1
      <3>1. /\ j \in 1 .. Len(c) /\ ~ (j <= i - 1)
            /\ j - (i - 1) = k - i /\ k - i \in 1 .. Len(s) - i /\ i + (k - i) = k
        BY <1>1, <1>4, <2>2
      <3> HIDE DEF j
      <3>2. c[j] = s[k]
        BY <1>3, <1>4, <3>1
      <3>3. DOMAIN c = 1 .. Len(c)
        BY <1>4
      <3> QED BY <3>1, <3>2, <3>3
    <2> QED BY <1>1, <1>5, <2>1, <2>2
  <1>6. RemoveAt(s, i) = c
    BY DEF RemoveAt, c, a, b
  <1>7. ToSet(s) \subseteq ToSet(c) \cup {s[i]}
    BY <1>1, <1>5 DEF ToSet
  <1>8. ToSet(c) \subseteq S
    BY <1>4 DEF ToSet
  <1> QED BY <1>4, <1>6, <1>7, <1>8

\* The rescued position is one of the queue, if there is one.
LEMMA RescuedIs ==
  ASSUME TypeOK, NEW s \in Seq(Requests), Rescued(s) # 0
  PROVE  Rescued(s) \in DOMAIN s /\ s[Rescued(s)] \in Reads
  <1> DEFINE can == {i \in DOMAIN s : CanExpand(s[i])}
             prio(i) == PlanPriority(s[i])
             before(i, j) == prio(i) < prio(j) \/ (prio(i) = prio(j) /\ i < j)
  <1>1. can # {} /\ Rescued(s) = CHOOSE i \in can : \A j \in can \ {i} : before(i, j)
    BY DEF Rescued
  <1>2. can \in SUBSET Nat /\ \A i \in can : s[i] \in Reads
    BY DEF CanExpand
  <1>3. \A i \in can : prio(i) \in Nat
    <2>1. plan \in Seq(Requests)
      BY DEF TypeOK
    <2> SUFFICES ASSUME NEW i \in can PROVE PlanPriority(s[i]) \in Nat
      OBVIOUS
    <2>2. CASE s[i] \in ToSet(plan)
      <3>1. \E k \in DOMAIN plan : plan[k] = s[i]
        BY <2>2 DEF ToSet
      <3> QED BY <2>1, <2>2, <3>1 DEF PlanPriority
    <2>3. CASE s[i] \notin ToSet(plan)
      BY <2>1, <2>3 DEF PlanPriority
    <2> QED BY <2>2, <2>3
  <1> HIDE DEF can, prio
  <1>a. {prio(i) : i \in can} \in SUBSET Nat /\ {prio(i) : i \in can} # {}
    BY <1>1, <1>3 DEF can
  <1>4. PICK m \in {prio(i) : i \in can} : \A n \in {prio(i) : i \in can} : m <= n
    BY <1>a, HasLeast
  <1>5. PICK k \in {i \in can : prio(i) = m} : \A j \in {i \in can : prio(i) = m} : k <= j
    BY <1>2, <1>4, HasLeast
  <1>6. \A j \in can \ {k} : before(k, j)
    <2> SUFFICES ASSUME NEW j \in can \ {k} PROVE before(k, j)
      OBVIOUS
    <2>1. prio(k) = m /\ m \in Nat /\ prio(j) \in Nat /\ m <= prio(j)
      BY <1>3, <1>4, <1>5
    <2>2. prio(j) = m => k <= j
      BY <1>5
    <2> QED BY <1>2, <2>1, <2>2
  <1>7. Rescued(s) \in can
    BY <1>1, <1>5, <1>6
  <1> QED BY <1>2, <1>7 DEF can

LEMMA LastReadIs ==
  ASSUME TypeOK, LastRead # 0
  PROVE  /\ LastRead \in DOMAIN Ordered(reply.followups)
         /\ Ordered(reply.followups)[LastRead] \in Reads
         /\ Ordered(reply.followups) \in Seq(Requests)
  <1> DEFINE o == Ordered(reply.followups)
             can == {i \in DOMAIN o : o[i] \in Addressable}
  <1>1. o \in Seq(Requests)
    BY OrderedIs DEF TypeOK, Reply
  <1> HIDE DEF o
  <1>2. can # {} /\ LastRead = Min(can)
    BY DEF LastRead, o
  <1>3. can \in SUBSET Nat
    BY <1>1
  <1>4. Min(can) \in can
    <2>1. \E m \in can : \A n \in can : m <= n
      BY <1>2, <1>3, HasLeast
    <2> QED BY <2>1 DEF Min
  <1> QED BY <1>1, <1>2, <1>4 DEF o, Addressable

\* What a tool answers, and that the call counters stay numbers.
LEMMA OutcomesAre ==
  ASSUME NEW q PROVE OutcomesOf(q) \subseteq Outcomes
  BY DEF OutcomesOf, Outcomes

\* Hits already recorded stay recorded.
LEMMA SupportGrows ==
  ASSUME TypeOK, NEW e, events' = Append(events, e), NEW q
  PROVE  Supporting(q) \subseteq Supporting(q)'
  BY DEF TypeOK, LedgerTypeOK, Supporting

\* With the answers as they were, a longer log supports them as well.
LEMMA AnswersStillRest ==
  ASSUME TypeOK, AnswersRestOnHits, resolution' = resolution,
         events' = events \/ \E e : events' = Append(events, e)
  PROVE  AnswersRestOnHits'
  <1>1. \A q \in Questions : Supporting(q) \subseteq Supporting(q)'
    BY SupportGrows DEF Supporting
  <1> QED BY <1>1 DEF AnswersRestOnHits

-----------------------------------------------------------------------------
(* Planning and executing.                                                  *)

LEMMA CollectionInit == Init => CollectionInv
  <1> SUFFICES ASSUME Init PROVE CollectionInv
    OBVIOUS
  <1> USE LoopAssumption DEF Init, LedgerInit
  <1>1. TypeOK
    <2>1. lifecycle \in [Questions -> Lifecycles] /\ resolution \in [Questions -> Resolution]
      BY DEF Lifecycles, Statuses, Resolution
    <2>2. events \in Seq(Event) /\ queue \in Seq(Requests) /\ plan \in Seq(Requests)
      OBVIOUS
    <2>3. reply \in Reply
      BY DEF Reply, NoReply
    <2>4. round \in 0 .. Rounds /\ stage \in Stages
      BY DEF Stages
    <2> QED BY <2>1, <2>2, <2>3, <2>4 DEF TypeOK, LedgerTypeOK
  <1>2. BoundsInv
    BY DEF BoundsInv, Ended
  <1>3. AnswersRestOnHits
    BY DEF AnswersRestOnHits
  <1>4. ReadingInv
    BY DEF ReadingInv, ShownAnswersStand
  <1>5. ScopeInv
    BY DEF ScopeInv, Ended, ScopeIsHonest
  <1>6. PlannedInv
    BY DEF PlannedInv
  <1> QED BY <1>1, <1>2, <1>3, <1>4, <1>5, <1>6 DEF CollectionInv

\* A plan registers its questions and queues the kept ones, the planned ones.
LEMMA PlanKeeps ==
  ASSUME CollectionInv, Plan
  PROVE  CollectionInv'
  <1> USE DEF work, judge, reading, sweep, calls, verdict
  <1>0. /\ stage = "planning" /\ stage' = "executing" /\ back' = "judge"
        /\ queue' \in Seq(Requests) /\ plan' = queue' /\ tried' \subseteq Requests
        /\ lifecycle' \in [Questions -> Lifecycles]
        /\ \A q \in Questions :
             lifecycle'[q] = "planned" => q \in ToSet(queue') \/ lifecycle[q] = "planned"
        /\ UNCHANGED <<events, resolution, round, judge, seen, sealedAt, sweep, calls,
                       judgements, repairUsed, verdict, exhausted, health, soft>>
    <2>1. PICK s \in Planned, bad \in Rejected :
            LET kept    == Capped(Ordered(s))
                dropped == ToSet(s) \ ToSet(kept)
            IN  /\ plan' = kept /\ queue' = kept
                /\ tried' = ToSet(kept) \cap Searches
                /\ lifecycle' = [q \in Questions |->
                     IF q \in ToSet(kept) THEN "planned"
                     ELSE IF q \in dropped THEN "dropped_cap"
                     ELSE IF q \in bad THEN "dropped_invalid" ELSE lifecycle[q]]
      BY DEF Plan
    <2>2. s \in Seq(Requests)
      <3>1. PICK m \in 0 .. MaxPlan : s \in [1 .. m -> Requests]
        BY LoopAssumption DEF Planned, Step, SeqOf
      <3> QED BY <3>1, LoopAssumption
    <2>3. Capped(Ordered(s)) \in Seq(Requests)
      BY <2>2, OrderedIs, CappedIs
    <2>4. lifecycle \in [Questions -> Lifecycles]
      BY DEF CollectionInv, TypeOK, LedgerTypeOK
    <2>5. lifecycle' \in [Questions -> Lifecycles]
      BY <2>1, <2>4 DEF Lifecycles
    <2>6. \A q \in Questions :
            lifecycle'[q] = "planned" => q \in ToSet(queue') \/ lifecycle[q] = "planned"
      BY <2>1
    <2> QED BY <2>1, <2>3, <2>5, <2>6 DEF Plan, Requests
  <1>1. TypeOK'
    BY <1>0 DEF CollectionInv, TypeOK, LedgerTypeOK, Stages
  <1>2. BoundsInv'
    BY <1>0, LoopAssumption DEF CollectionInv, BoundsInv, Ended
  <1>3. AnswersRestOnHits'
    BY <1>0, AnswersStillRest DEF CollectionInv
  <1>4. ReadingInv'
    BY <1>0 DEF CollectionInv, ReadingInv, ShownAnswersStand
  <1>5. ScopeInv'
    BY <1>0 DEF CollectionInv, ScopeInv, Ended, ScopeIsHonest
  <1>6. PlannedInv'
    BY <1>0 DEF CollectionInv, PlannedInv
  <1> QED BY <1>1, <1>2, <1>3, <1>4, <1>5, <1>6 DEF CollectionInv

\* Nothing but the stage changes when the collection is given up.
LEMMA RaiseKeeps ==
  ASSUME CollectionInv, Raise, stage \notin {"answers", "gaps"}, ~ Ended
  PROVE  CollectionInv'
  <1> USE DEF Raise, work, judge, reading, sweep, calls, verdict, ledger
  <1>1. TypeOK'
    BY DEF CollectionInv, TypeOK, LedgerTypeOK, Stages
  <1>2. BoundsInv'
    BY DEF CollectionInv, BoundsInv, Ended
  <1>3. AnswersRestOnHits'
    BY AnswersStillRest DEF CollectionInv
  <1>4. ReadingInv'
    BY DEF CollectionInv, ReadingInv, ShownAnswersStand
  <1>5. ScopeInv'
    BY DEF CollectionInv, ScopeInv, Ended, ScopeIsHonest
  <1>6. PlannedInv'
    BY DEF CollectionInv, PlannedInv
  <1> QED BY <1>1, <1>2, <1>3, <1>4, <1>5, <1>6 DEF CollectionInv

\* One tool call: its event is appended, its question executed.
LEMMA CallIs ==
  ASSUME TypeOK, NEW q \in Questions, NEW out \in OutcomesOf(q),
         events' = Append(events, [q |-> q, outcome |-> out])
  PROVE  /\ events' \in Seq(Event) /\ Len(events') = Len(events) + 1
         /\ \A i \in DOMAIN events : events'[i] = events[i]
         /\ events'[Len(events) + 1].outcome = out
         /\ DOMAIN events' = 1 .. Len(events) + 1 /\ DOMAIN events = 1 .. Len(events)
         /\ Len(events) \in Nat
  <1>1. [q |-> q, outcome |-> out] \in Event
    BY OutcomesAre DEF Event
  <1>2. events \in Seq(Event)
    BY DEF TypeOK, LedgerTypeOK
  <1> QED BY <1>1, <1>2

\* The first element and the others.
LEMMA HeadAndTail ==
  ASSUME NEW S, NEW s \in Seq(S), s # <<>>
  PROVE  /\ Head(s) \in S /\ Tail(s) \in Seq(S)
         /\ ToSet(s) \subseteq {Head(s)} \cup ToSet(Tail(s))
  <1>1. /\ Head(s) \in S /\ Tail(s) \in Seq(S) /\ Head(s) = s[1]
        /\ Len(s) \in Nat /\ Len(Tail(s)) = Len(s) - 1
        /\ \A i \in 1 .. Len(Tail(s)) : Tail(s)[i] = s[i + 1]
    BY HeadTailProperties
  <1>2. DOMAIN s = 1 .. Len(s) /\ DOMAIN Tail(s) = 1 .. Len(Tail(s))
    BY <1>1
  <1>3. ASSUME NEW i \in 1 .. Len(s), i # 1
        PROVE  \E j \in DOMAIN Tail(s) : Tail(s)[j] = s[i]
    <2>1. i - 1 \in 1 .. Len(Tail(s)) /\ (i - 1) + 1 = i
      BY <1>1, <1>3
    <2> QED BY <1>1, <1>2, <2>1
  <1> QED BY <1>1, <1>2, <1>3 DEF ToSet

LEMMA ExecuteNextKeeps ==
  ASSUME CollectionInv, ExecuteNext
  PROVE  CollectionInv'
  <1> USE DEF work, judge, reading, sweep, calls, verdict
  <1> DEFINE q == Head(queue)
  <1>0. /\ stage = "executing" /\ queue # <<>> /\ queue' = Tail(queue)
        /\ UNCHANGED <<resolution, stage, back, plan, tried, round, judge, seen,
                       sealedAt, sweep, judgements, repairUsed, verdict, exhausted,
                       health, soft>>
    BY DEF ExecuteNext
  <1>a. PICK out \in OutcomesOf(q) :
          /\ events' = Append(events, [q |-> q, outcome |-> out])
          /\ lifecycle' = [lifecycle EXCEPT ![q] = "executed"]
          /\ readCalls' = readCalls + IF q \in Reads /\ Charged(q, out) THEN 1 ELSE 0
          /\ searchCalls' = searchCalls + IF q \notin Reads /\ Charged(q, out) THEN 1 ELSE 0
    BY DEF ExecuteNext, Execute, RecordEvent
  <1>b. /\ queue \in Seq(Requests) /\ lifecycle \in [Questions -> Lifecycles]
        /\ readCalls \in Nat /\ searchCalls \in Nat
    BY DEF CollectionInv, TypeOK, LedgerTypeOK
  <1>c. /\ q \in Requests /\ Tail(queue) \in Seq(Requests)
        /\ ToSet(queue) \subseteq {q} \cup ToSet(Tail(queue))
    BY <1>0, <1>b, HeadAndTail
  <1>d. q \in Questions
    BY <1>c, SomeAreRequests
  <1>e. /\ events' \in Seq(Event) /\ Len(events') = Len(events) + 1 /\ Len(events) \in Nat
    BY <1>a, <1>d, CallIs DEF CollectionInv
  <1>f. lifecycle' \in [Questions -> Lifecycles] /\ readCalls' \in Nat /\ searchCalls' \in Nat
    <2>1. lifecycle' \in [Questions -> Lifecycles]
      BY <1>a, <1>b, <1>d DEF Lifecycles
    <2> HIDE DEF q
    <2>2. readCalls' \in Nat /\ searchCalls' \in Nat
      BY <1>a, <1>b
    <2> QED BY <2>1, <2>2
  <1> HIDE DEF q
  <1>1. TypeOK'
    BY <1>0, <1>c, <1>e, <1>f DEF CollectionInv, TypeOK, LedgerTypeOK
  <1>2. BoundsInv'
    BY <1>0, <1>e DEF CollectionInv, BoundsInv, Ended, TypeOK
  <1>3. AnswersRestOnHits'
    BY <1>0, <1>a, AnswersStillRest DEF CollectionInv
  <1>4. ReadingInv'
    BY <1>0 DEF CollectionInv, ReadingInv, ShownAnswersStand
  <1>5. ScopeInv'
    BY <1>0 DEF CollectionInv, ScopeInv, Ended, ScopeIsHonest
  <1>6. PlannedInv'
    BY <1>0, <1>a, <1>b, <1>c DEF CollectionInv, PlannedInv
  <1> QED BY <1>1, <1>2, <1>3, <1>4, <1>5, <1>6 DEF CollectionInv

\* The steps left over are marked, but for the one that is still read.
LEMMA SkipRestKeeps ==
  ASSUME CollectionInv, SkipRest
  PROVE  CollectionInv'
  <1> USE DEF work, judge, reading, sweep, calls, verdict, ledger
  <1>0. /\ stage = "executing" /\ queue' = <<>> /\ exhausted' = TRUE
        /\ UNCHANGED <<resolution, stage, back, plan, tried, round, judge, seen,
                       sealedAt, sweep, judgements, repairUsed, verdict, health, soft>>
    BY DEF SkipRest
  <1>a. /\ queue \in Seq(Requests) /\ lifecycle \in [Questions -> Lifecycles]
        /\ readCalls \in Nat /\ searchCalls \in Nat /\ events \in Seq(Event)
    BY DEF CollectionInv, TypeOK, LedgerTypeOK
  <1>b. \A q \in Questions : lifecycle[q] = "planned" => q \in ToSet(queue)
    BY <1>0 DEF CollectionInv, PlannedInv
  <1>c. /\ lifecycle' \in [Questions -> Lifecycles]
        /\ \A q \in Questions : lifecycle'[q] # "planned"
        /\ readCalls' \in Nat /\ searchCalls' \in Nat
        /\ events' = events \/ \E e : events' = Append(events, e)
        /\ events' \in Seq(Event) /\ Len(events') >= Len(events)
    <2>1. CASE /\ lifecycle' = Skipped(ToSet(queue), lifecycle)
               /\ UNCHANGED <<events, calls>>
      <3>1. lifecycle' \in [Questions -> Lifecycles]
        BY <1>a, <2>1 DEF Skipped, Lifecycles
      <3>2. \A q \in Questions : lifecycle'[q] # "planned"
        BY <1>b, <2>1 DEF Skipped
      <3> QED BY <1>a, <2>1, <3>1, <3>2
    <2>2. CASE ~ (/\ lifecycle' = Skipped(ToSet(queue), lifecycle)
                  /\ UNCHANGED <<events, calls>>)
      <3> DEFINE i == Rescued(queue)
      <3>1. i # 0
        BY <2>2 DEF SkipRest
      <3>2. PICK out \in OutcomesOf(queue[i]) :
              /\ events' = Append(events, [q |-> queue[i], outcome |-> out])
              /\ lifecycle' = Skipped(ToSet(RemoveAt(queue, i)),
                                      [lifecycle EXCEPT ![queue[i]] = "executed"])
              /\ readCalls' = readCalls + IF Charged(queue[i], out) THEN 1 ELSE 0
              /\ UNCHANGED searchCalls
        BY <2>2 DEF SkipRest
      <3>3. i \in DOMAIN queue /\ queue[i] \in Reads
        BY <1>a, <3>1, RescuedIs DEF CollectionInv
      <3>4. ToSet(queue) \subseteq ToSet(RemoveAt(queue, i)) \cup {queue[i]}
        BY <1>a, <3>3, RemoveAtIs
      <3> HIDE DEF i
      <3>5. queue[i] \in Questions
        BY <3>3, LoopAssumption
      <3>6. lifecycle' \in [Questions -> Lifecycles]
        BY <1>a, <3>2, <3>5 DEF Skipped, Lifecycles
      <3>7. \A q \in Questions : lifecycle'[q] # "planned"
        BY <1>a, <1>b, <3>2, <3>4, <3>5 DEF Skipped
      <3>8. readCalls' \in Nat /\ searchCalls' \in Nat
        BY <1>a, <3>2
      <3>9. events' \in Seq(Event) /\ Len(events') >= Len(events)
        BY <3>2, <3>5, CallIs DEF CollectionInv
      <3> QED BY <3>2, <3>6, <3>7, <3>8, <3>9
    <2> QED BY <2>1, <2>2
  <1>1. TypeOK'
    BY <1>0, <1>c DEF CollectionInv, TypeOK, LedgerTypeOK
  <1>2. BoundsInv'
    <2>1. seen <= Len(events) /\ seen \in Nat /\ Len(events) \in Nat /\ Len(events') \in Nat
      BY <1>a, <1>c DEF CollectionInv, BoundsInv, TypeOK
    <2>2. seen <= Len(events')
      BY <1>c, <2>1
    <2> QED BY <1>0, <2>2 DEF CollectionInv, BoundsInv, Ended
  <1>3. AnswersRestOnHits'
    BY <1>0, <1>c, AnswersStillRest DEF CollectionInv
  <1>4. ReadingInv'
    BY <1>0 DEF CollectionInv, ReadingInv, ShownAnswersStand
  <1>5. ScopeInv'
    BY <1>0 DEF CollectionInv, ScopeInv, Ended, ScopeIsHonest
  <1>6. PlannedInv'
    BY <1>c DEF PlannedInv
  <1> QED BY <1>1, <1>2, <1>3, <1>4, <1>5, <1>6 DEF CollectionInv

-----------------------------------------------------------------------------
(* Judging the evidence.                                                    *)

LEMMA CallbackReturnsKeeps ==
  ASSUME CollectionInv, CallbackReturns
  PROVE  CollectionInv'
  <1> USE DEF work, judge, reading, sweep, calls, verdict, ledger
  <1>e. ToSet(<<>>) = {}
    BY DEF ToSet
  <1> USE DEF CallbackReturns, NextRound
  <1>1. TypeOK'
    BY LoopAssumption DEF CollectionInv, TypeOK, LedgerTypeOK, Stages, BoundsInv
  <1>2. BoundsInv'
    BY DEF CollectionInv, BoundsInv, Ended, TypeOK
  <1>3. AnswersRestOnHits'
    BY AnswersStillRest DEF CollectionInv
  <1>4. ReadingInv'
    BY DEF CollectionInv, ReadingInv, ShownAnswersStand
  <1>5. ScopeInv'
    BY DEF CollectionInv, ScopeInv, Ended, ScopeIsHonest
  <1>6. PlannedInv'
    BY <1>e DEF CollectionInv, PlannedInv
  <1> QED BY <1>1, <1>2, <1>3, <1>4, <1>5, <1>6 DEF CollectionInv

LEMMA AskJudgementKeeps ==
  ASSUME CollectionInv, AskJudgement
  PROVE  CollectionInv'
  <1> USE DEF work, judge, reading, sweep, calls, verdict, ledger
  <1> USE DEF AskJudgement
  <1>1. TypeOK'
    BY DEF CollectionInv, TypeOK, LedgerTypeOK, Stages
  <1>2. BoundsInv'
    BY DEF CollectionInv, BoundsInv, Ended, TypeOK, LedgerTypeOK
  <1>3. AnswersRestOnHits'
    BY AnswersStillRest DEF CollectionInv
  <1>4. ReadingInv'
    BY DEF CollectionInv, ReadingInv, ShownAnswersStand
  <1>5. ScopeInv'
    BY DEF CollectionInv, ScopeInv, Ended, ScopeIsHonest
  <1>6. PlannedInv'
    BY DEF CollectionInv, PlannedInv
  <1> QED BY <1>1, <1>2, <1>3, <1>4, <1>5, <1>6 DEF CollectionInv

\* A reply of the model's.
LEMMA RepliesAre ==
  ASSUME NEW c \in BOOLEAN, NEW f \in Step
  PROVE  [complete |-> c, followups |-> f] \in Reply
  <1>1. PICK m \in 0 .. MaxPlan : f \in [1 .. m -> Requests]
    BY LoopAssumption DEF Step, SeqOf
  <1>2. f \in Seq(Requests)
    BY <1>1, LoopAssumption
  <1> QED BY <1>2 DEF Reply

LEMMA JudgementArrivesKeeps ==
  ASSUME CollectionInv, JudgementArrives
  PROVE  CollectionInv'
  <1> USE DEF work, judge, reading, sweep, calls, verdict, ledger
  <1>0. /\ stage \in {"judging", "repairing"} /\ stage' = "answers" /\ reply' \in Reply
        /\ UNCHANGED <<ledger, work, round, reading, view, seen, sealedAt, sweep, calls,
                       judgements, repairUsed, verdict, exhausted, health, soft>>
    BY RepliesAre DEF JudgementArrives, Accept
  <1>1. TypeOK'
    BY <1>0 DEF CollectionInv, TypeOK, LedgerTypeOK, Stages
  <1>2. BoundsInv'
    BY <1>0 DEF CollectionInv, BoundsInv, Ended, TypeOK
  <1>3. AnswersRestOnHits'
    BY <1>0, AnswersStillRest DEF CollectionInv
  <1>4. ReadingInv'
    BY <1>0 DEF CollectionInv, ReadingInv, ShownAnswersStand
  <1>5. ScopeInv'
    BY <1>0 DEF CollectionInv, ScopeInv, Ended, ScopeIsHonest
  <1>6. PlannedInv'
    BY <1>0 DEF CollectionInv, PlannedInv
  <1> QED BY <1>1, <1>2, <1>3, <1>4, <1>5, <1>6 DEF CollectionInv

LEMMA JudgementIsSentBackKeeps ==
  ASSUME CollectionInv, JudgementIsSentBack
  PROVE  CollectionInv'
  <1> USE DEF work, judge, reading, sweep, calls, verdict, ledger
  <1>0. /\ stage = "judging" /\ stage' = "repairing" /\ reply' \in Reply
        /\ repairUsed = FALSE /\ repairUsed' = TRUE /\ judgements' = judgements + 1
        /\ UNCHANGED <<ledger, work, round, reading, view,
                       seen, sealedAt, sweep, calls, verdict, exhausted, health, soft>>
    BY RepliesAre DEF JudgementIsSentBack, MayRepair, CollectionInv, TypeOK
  <1>1. TypeOK'
    BY <1>0 DEF CollectionInv, TypeOK, LedgerTypeOK, Stages
  <1>2. BoundsInv'
    BY <1>0 DEF CollectionInv, BoundsInv, Ended, TypeOK
  <1>3. AnswersRestOnHits'
    BY <1>0, AnswersStillRest DEF CollectionInv
  <1>4. ReadingInv'
    BY <1>0 DEF CollectionInv, ReadingInv, ShownAnswersStand
  <1>5. ScopeInv'
    BY <1>0 DEF CollectionInv, ScopeInv, Ended, ScopeIsHonest
  <1>6. PlannedInv'
    BY <1>0 DEF CollectionInv, PlannedInv
  <1> QED BY <1>1, <1>2, <1>3, <1>4, <1>5, <1>6 DEF CollectionInv

LEMMA RepairArrivesKeeps ==
  ASSUME CollectionInv, RepairArrives
  PROVE  CollectionInv'
  <1> USE DEF work, judge, reading, sweep, calls, verdict, ledger
  <1>a. ASSUME NEW r \in Contractions(reply) PROVE r \in Reply
    <2>1. reply \in Reply /\ reply.followups \in Seq(Requests) /\ reply.complete \in BOOLEAN
      BY DEF CollectionInv, TypeOK, Reply
    <2>2. \A i \in DOMAIN reply.followups : RemoveAt(reply.followups, i) \in Seq(Requests)
      BY <2>1, RemoveAtIs
    <2>3. <<>> \in Seq(Requests)
      OBVIOUS
    <2>4. PICK c \in {FALSE, reply.complete},
               f \in {reply.followups, <<>>} \cup
                     {RemoveAt(reply.followups, i) : i \in DOMAIN reply.followups} :
            r = [complete |-> c, followups |-> f]
      BY <1>a DEF Contractions
    <2>5. c \in BOOLEAN /\ f \in Seq(Requests)
      BY <2>1, <2>2, <2>3, <2>4
    <2> QED BY <2>4, <2>5 DEF Reply
  <1>0. /\ stage \in {"judging", "repairing"} /\ stage' = "answers" /\ reply' \in Reply
        /\ UNCHANGED <<ledger, work, round, reading, view, seen, sealedAt, sweep, calls,
                       judgements, repairUsed, verdict, exhausted, health, soft>>
    BY <1>a DEF RepairArrives, Accept
  <1>1. TypeOK'
    BY <1>0 DEF CollectionInv, TypeOK, LedgerTypeOK, Stages
  <1>2. BoundsInv'
    BY <1>0 DEF CollectionInv, BoundsInv, Ended, TypeOK
  <1>3. AnswersRestOnHits'
    BY <1>0, AnswersStillRest DEF CollectionInv
  <1>4. ReadingInv'
    BY <1>0 DEF CollectionInv, ReadingInv, ShownAnswersStand
  <1>5. ScopeInv'
    BY <1>0 DEF CollectionInv, ScopeInv, Ended, ScopeIsHonest
  <1>6. PlannedInv'
    BY <1>0 DEF CollectionInv, PlannedInv
  <1> QED BY <1>1, <1>2, <1>3, <1>4, <1>5, <1>6 DEF CollectionInv

\* The review gets unjudged evidence, and is told so.
LEMMA UnjudgedKeeps ==
  ASSUME CollectionInv, Unjudged, stage \in {"indexing", "judging", "repairing"}
  PROVE  CollectionInv'
  <1> USE DEF work, judge, reading, sweep, calls, verdict, ledger
  <1>r. NoReply \in Reply /\ Len(events) \in Nat
    BY DEF NoReply, Reply, CollectionInv, TypeOK, LedgerTypeOK
  <1> USE DEF Unjudged, Seal
  <1>1. TypeOK'
    BY <1>r DEF CollectionInv, TypeOK, LedgerTypeOK, Stages
  <1>2. BoundsInv'
    BY DEF CollectionInv, BoundsInv, Ended, TypeOK, LedgerTypeOK
  <1>3. AnswersRestOnHits'
    BY AnswersStillRest DEF CollectionInv
  <1>4. ReadingInv'
    BY DEF CollectionInv, ReadingInv, ShownAnswersStand
  <1>5. ScopeInv'
    BY DEF CollectionInv, ScopeInv, Ended, ScopeIsHonest, NoReply
  <1>6. PlannedInv'
    BY DEF CollectionInv, PlannedInv
  <1> QED BY <1>1, <1>2, <1>3, <1>4, <1>5, <1>6 DEF CollectionInv

-----------------------------------------------------------------------------
(* Applying the judgement.                                                  *)

\* The references an answer keeps are hits of its question.
LEMMA BoundRefsAre ==
  ASSUME TypeOK, NEW q, NEW given, NEW refs
  PROVE  BoundRefs(q, given, refs) \subseteq Supporting(q) /\ Supporting(q) \subseteq Nat
  <1>1. events \in Seq(Event)
    BY DEF TypeOK, LedgerTypeOK
  <1> QED BY <1>1 DEF BoundRefs, Supporting

\* Making questions unknown takes answers away and adds none.
LEMMA UnknownIs ==
  ASSUME TypeOK, AnswersRestOnHits, NEW qs, resolution' = Unknown(qs), events' = events
  PROVE  /\ resolution' \in [Questions -> Resolution] /\ AnswersRestOnHits'
         /\ \A q \in Questions \ qs : resolution'[q] = resolution[q]
  <1>1. resolution \in [Questions -> Resolution]
    BY DEF TypeOK, LedgerTypeOK
  <1>2. \A q \in Questions : resolution'[q] =
          IF q \in qs THEN [status |-> "unknown", refs |-> {}] ELSE resolution[q]
    BY DEF Unknown
  <1>3. resolution' \in [Questions -> Resolution]
    BY <1>1 DEF Unknown, Resolution, Statuses
  <1>4. \A q \in Questions : Supporting(q)' = Supporting(q)
    BY DEF Supporting
  <1>5. AnswersRestOnHits'
    BY <1>2, <1>4 DEF AnswersRestOnHits
  <1> QED BY <1>2, <1>3, <1>5

LEMMA ApplyAnswerKeeps ==
  ASSUME CollectionInv, ApplyAnswer
  PROVE  CollectionInv'
  <1> USE DEF work, judge, reading, sweep, calls, verdict, ledger
  <1>0. /\ stage = "answers"
        /\ UNCHANGED <<lifecycle, events, stage, work, round, reply, view, seen,
                       sealedAt, sweep, calls, judgements, repairUsed, verdict,
                       exhausted, health, soft>>
    BY DEF ApplyAnswer
  <1>a. PICK q \in Registered, given \in BOOLEAN, says \in {1, 2}, refs \in SUBSET DOMAIN events :
          /\ resolution' = Answered(q, BoundRefs(q, given, refs))
          /\ IF BoundRefs(q, given, refs) = {}
             THEN /\ downgraded' = downgraded \cup {q} /\ degraded' = TRUE
                  /\ UNCHANGED heard
             ELSE /\ heard' = heard \cup
                       {[q |-> q, refs |-> BoundRefs(q, given, refs), says |-> says]}
                  /\ UNCHANGED <<downgraded, degraded>>
          /\ items' = items + 1
    <2>1. PICK q \in Registered, given \in BOOLEAN, says \in {1, 2} :
            \E refs \in IF given THEN {{}} \cup {{i} : i \in DOMAIN events} ELSE {{}} :
              /\ resolution' = Answered(q, BoundRefs(q, given, refs))
              /\ IF BoundRefs(q, given, refs) = {}
                 THEN /\ downgraded' = downgraded \cup {q} /\ degraded' = TRUE
                      /\ UNCHANGED heard
                 ELSE /\ heard' = heard \cup
                           {[q |-> q, refs |-> BoundRefs(q, given, refs), says |-> says]}
                      /\ UNCHANGED <<downgraded, degraded>>
      BY DEF ApplyAnswer
    <2>2. PICK refs \in IF given THEN {{}} \cup {{i} : i \in DOMAIN events} ELSE {{}} :
              /\ resolution' = Answered(q, BoundRefs(q, given, refs))
              /\ IF BoundRefs(q, given, refs) = {}
                 THEN /\ downgraded' = downgraded \cup {q} /\ degraded' = TRUE
                      /\ UNCHANGED heard
                 ELSE /\ heard' = heard \cup
                           {[q |-> q, refs |-> BoundRefs(q, given, refs), says |-> says]}
                      /\ UNCHANGED <<downgraded, degraded>>
      BY <2>1
    <2>3. refs \in SUBSET DOMAIN events
      BY <2>2
    <2> QED BY <2>2, <2>3 DEF ApplyAnswer
  <1> DEFINE kept == BoundRefs(q, given, refs)
  <1>b. /\ q \in Questions /\ kept \subseteq Supporting(q) /\ kept \in SUBSET Nat
        /\ heard \subseteq Answer /\ downgraded \subseteq Questions /\ degraded \in BOOLEAN
        /\ items \in Nat /\ resolution \in [Questions -> Resolution]
    BY BoundRefsAre DEF Registered, CollectionInv, TypeOK, LedgerTypeOK
  <1>c. \A p \in Questions : Supporting(p)' = Supporting(p)
    BY <1>0 DEF Supporting
  <1>d. resolution' = [resolution EXCEPT ![q] =
          [status |-> IF kept = {} THEN "unknown" ELSE "answered", refs |-> kept]]
    BY <1>a DEF Answered
  <1> HIDE DEF kept
  <1>f. /\ kept = {} => resolution'[q] = [status |-> "unknown", refs |-> kept]
        /\ kept # {} => resolution'[q] = [status |-> "answered", refs |-> kept]
        /\ \A p \in Questions \ {q} : resolution'[p] = resolution[p]
    BY <1>b, <1>d
  <1>g. \/ kept = {} /\ downgraded' = downgraded \cup {q} /\ degraded' = TRUE /\ heard' = heard
        \/ /\ kept # {} /\ heard' = heard \cup {[q |-> q, refs |-> kept, says |-> says]}
           /\ downgraded' = downgraded /\ degraded' = degraded
    BY <1>a DEF kept
  <1>h. /\ resolution' \in [Questions -> Resolution] /\ heard' \subseteq Answer
        /\ downgraded' \subseteq Questions /\ degraded' \in BOOLEAN /\ items' \in Nat
    <2>1. [status |-> IF kept = {} THEN "unknown" ELSE "answered", refs |-> kept] \in Resolution
      BY <1>b DEF Resolution, Statuses
    <2>2. [q |-> q, refs |-> kept, says |-> says] \in Answer
      BY <1>b DEF Answer
    <2>3. heard' \subseteq Answer
      BY <1>b, <1>g, <2>2
    <2>4. downgraded' \subseteq Questions /\ degraded' \in BOOLEAN
      BY <1>b, <1>g
    <2>5. items' \in Nat
      BY <1>a, <1>b
    <2>6. resolution' \in [Questions -> Resolution]
      BY <1>b, <1>d, <2>1
    <2> QED BY <2>3, <2>4, <2>5, <2>6
  <1>1. TypeOK'
    BY <1>0, <1>h DEF CollectionInv, TypeOK, LedgerTypeOK
  <1>2. BoundsInv'
    BY <1>0 DEF CollectionInv, BoundsInv, Ended
  <1>3. AnswersRestOnHits'
    <2> SUFFICES ASSUME NEW p \in Questions, resolution'[p].status = "answered"
                 PROVE  resolution'[p].refs # {} /\ resolution'[p].refs \subseteq Supporting(p)
      BY <1>c DEF AnswersRestOnHits
    <2>1. CASE p = q
      <3>1. kept # {} /\ resolution'[p].refs = kept
        BY <1>f, <2>1
      <3> QED BY <1>b, <2>1, <3>1
    <2>2. CASE p # q
      BY <1>f, <2>2 DEF CollectionInv, AnswersRestOnHits
    <2> QED BY <2>1, <2>2
  <1>4. ReadingInv'
    <2>1. \A a \in heard' : a.q \in downgraded' \/ resolution'[a.q].status = "answered"
      <3> SUFFICES ASSUME NEW a \in heard'
                   PROVE  a.q \in downgraded' \/ resolution'[a.q].status = "answered"
        OBVIOUS
      <3>1. a.q \in Questions
        BY <1>h DEF Answer
      <3>2. CASE a.q = q
        <4>1. CASE kept = {}
          BY <1>g, <3>2, <4>1
        <4>2. CASE kept # {}
          <5>1. resolution'[q].status = "answered"
            BY <1>b, <1>f, <4>2
          <5> QED BY <3>2, <5>1
        <4> QED BY <4>1, <4>2
      <3>3. CASE a.q # q
        <4>1. a \in heard
          BY <1>g, <3>3
        <4>2. a.q \in downgraded \/ resolution[a.q].status = "answered"
          BY <4>1 DEF CollectionInv, ReadingInv
        <4> QED BY <1>f, <1>g, <3>1, <3>3, <4>2
      <3> QED BY <3>2, <3>3
    <2> QED BY <1>0, <2>1 DEF ReadingInv, ShownAnswersStand
  <1>5. ScopeInv'
    BY <1>0 DEF CollectionInv, ScopeInv, Ended, ScopeIsHonest
  <1>6. PlannedInv'
    BY <1>0 DEF CollectionInv, PlannedInv
  <1> QED BY <1>1, <1>2, <1>3, <1>4, <1>5, <1>6 DEF CollectionInv

LEMMA UnboundAnswerKeeps ==
  ASSUME CollectionInv, UnboundAnswer
  PROVE  CollectionInv'
  <1> USE DEF work, judge, reading, sweep, calls, verdict, ledger
  <1>0. /\ stage = "answers" /\ degraded' = TRUE /\ items' = items + 1
        /\ downgraded \subseteq downgraded' /\ downgraded' \subseteq Questions
        /\ UNCHANGED <<ledger, stage, work, round, reply, heard, view, seen, sealedAt,
                       sweep, calls, judgements, repairUsed, verdict, exhausted,
                       health, soft>>
    BY DEF UnboundAnswer, Registered, CollectionInv, TypeOK
  <1>1. TypeOK'
    BY <1>0 DEF CollectionInv, TypeOK, LedgerTypeOK
  <1>2. BoundsInv'
    BY <1>0 DEF CollectionInv, BoundsInv, Ended
  <1>3. AnswersRestOnHits'
    BY <1>0, AnswersStillRest DEF CollectionInv
  <1>4. ReadingInv'
    BY <1>0 DEF CollectionInv, ReadingInv, ShownAnswersStand
  <1>5. ScopeInv'
    BY <1>0 DEF CollectionInv, ScopeInv, Ended, ScopeIsHonest
  <1>6. PlannedInv'
    BY <1>0 DEF CollectionInv, PlannedInv
  <1> QED BY <1>1, <1>2, <1>3, <1>4, <1>5, <1>6 DEF CollectionInv

LEMMA CollapseAnswersKeeps ==
  ASSUME CollectionInv, CollapseAnswers
  PROVE  CollectionInv'
  <1> USE DEF work, judge, reading, sweep, calls, verdict, ledger
  <1>a. Conflicting \subseteq Questions
    BY DEF Conflicting, Answer, CollectionInv, TypeOK
  <1>0. /\ stage = "answers" /\ stage' = "gaps" /\ resolution' = Unknown(Conflicting)
        /\ downgraded' = downgraded \cup Conflicting
        /\ downgraded' \subseteq Questions /\ degraded' \in BOOLEAN
        /\ UNCHANGED <<lifecycle, events, work, round, reply, heard, items, view,
                       seen, sealedAt, sweep, calls, judgements, repairUsed, verdict,
                       exhausted, health, soft>>
    BY <1>a DEF CollapseAnswers, CollectionInv, TypeOK
  <1>b. /\ resolution' \in [Questions -> Resolution] /\ AnswersRestOnHits'
        /\ \A q \in Questions \ Conflicting : resolution'[q] = resolution[q]
    BY <1>0, UnknownIs DEF CollectionInv
  <1>1. TypeOK'
    BY <1>0, <1>b DEF CollectionInv, TypeOK, LedgerTypeOK, Stages
  <1>2. BoundsInv'
    BY <1>0 DEF CollectionInv, BoundsInv, Ended
  <1>3. AnswersRestOnHits'
    BY <1>b
  <1>4. ReadingInv'
    <2>1. heard \subseteq Answer
      BY DEF CollectionInv, TypeOK
    <2>2. \A a \in heard : a.q \in downgraded' \/ resolution'[a.q].status = "answered"
      <3> SUFFICES ASSUME NEW a \in heard
                   PROVE  a.q \in downgraded' \/ resolution'[a.q].status = "answered"
        OBVIOUS
      <3>1. a.q \in Questions
        BY <2>1 DEF Answer
      <3>2. a.q \in downgraded \/ resolution[a.q].status = "answered"
        BY DEF CollectionInv, ReadingInv
      <3> QED BY <1>0, <1>b, <3>1, <3>2
    <2> QED BY <1>0, <2>2 DEF ReadingInv, ShownAnswersStand
  <1>5. ScopeInv'
    BY <1>0 DEF CollectionInv, ScopeInv, Ended, ScopeIsHonest
  <1>6. PlannedInv'
    BY <1>0 DEF CollectionInv, PlannedInv
  <1> QED BY <1>1, <1>2, <1>3, <1>4, <1>5, <1>6 DEF CollectionInv

LEMMA ApplyGapKeeps ==
  ASSUME CollectionInv, ApplyGap
  PROVE  CollectionInv'
  <1> USE DEF work, judge, reading, sweep, calls, verdict, ledger
  <1>a. PICK p \in Registered :
          resolution' = Unknown({p}) /\ downgraded' = downgraded \cup {p}
    BY DEF ApplyGap
  <1>0. /\ stage = "gaps" /\ items' = items + 1 /\ resolution' = Unknown({p})
        /\ downgraded' = downgraded \cup {p}
        /\ downgraded' \subseteq Questions /\ items' \in Nat
        /\ UNCHANGED <<lifecycle, events, stage, work, round, reply, heard, degraded,
                       view, seen, sealedAt, sweep, calls, judgements, repairUsed,
                       verdict, exhausted, health, soft>>
    BY <1>a DEF ApplyGap, Registered, CollectionInv, TypeOK
  <1>b. /\ resolution' \in [Questions -> Resolution] /\ AnswersRestOnHits'
        /\ \A q \in Questions \ {p} : resolution'[q] = resolution[q]
    BY <1>0, UnknownIs DEF CollectionInv
  <1>1. TypeOK'
    BY <1>0, <1>b DEF CollectionInv, TypeOK, LedgerTypeOK, Stages
  <1>2. BoundsInv'
    BY <1>0 DEF CollectionInv, BoundsInv, Ended
  <1>3. AnswersRestOnHits'
    BY <1>b
  <1>4. ReadingInv'
    <2>1. heard \subseteq Answer
      BY DEF CollectionInv, TypeOK
    <2>2. \A a \in heard : a.q \in downgraded' \/ resolution'[a.q].status = "answered"
      <3> SUFFICES ASSUME NEW a \in heard
                   PROVE  a.q \in downgraded' \/ resolution'[a.q].status = "answered"
        OBVIOUS
      <3>1. a.q \in Questions
        BY <2>1 DEF Answer
      <3>2. a.q \in downgraded \/ resolution[a.q].status = "answered"
        BY DEF CollectionInv, ReadingInv
      <3> QED BY <1>0, <1>b, <3>1, <3>2
    <2> QED BY <1>0, <2>2 DEF ReadingInv, ShownAnswersStand
  <1>5. ScopeInv'
    BY <1>0 DEF CollectionInv, ScopeInv, Ended, ScopeIsHonest
  <1>6. PlannedInv'
    BY <1>0 DEF CollectionInv, PlannedInv
  <1> QED BY <1>1, <1>2, <1>3, <1>4, <1>5, <1>6 DEF CollectionInv

LEMMA JudgementAppliedKeeps ==
  ASSUME CollectionInv, JudgementApplied
  PROVE  CollectionInv'
  <1> USE DEF work, judge, reading, sweep, calls, verdict, ledger
  <1>0. /\ stage = "gaps" /\ stage' = "judged" /\ view' = Shown /\ available' = TRUE
        /\ heard' = {} /\ downgraded' = {} /\ degraded' = FALSE /\ items' = 0
        /\ UNCHANGED <<ledger, work, round, seen,
                       sealedAt, sweep, calls, judgements, repairUsed, covers,
                       directOnly, exhausted, health, soft>>
    BY DEF JudgementApplied
  <1>a. reply' \in Reply
    BY DEF JudgementApplied, Reply, CollectionInv, TypeOK
  <1>b. view' \subseteq Questions
    BY <1>0 DEF Shown, Answer, CollectionInv, TypeOK
  <1>c. \A q \in view' : resolution[q].status = "answered"
    BY <1>0 DEF Shown, CollectionInv, ReadingInv
  <1>1. TypeOK'
    BY <1>0, <1>a, <1>b DEF CollectionInv, TypeOK, LedgerTypeOK, Stages
  <1>2. BoundsInv'
    BY <1>0 DEF CollectionInv, BoundsInv, Ended
  <1>3. AnswersRestOnHits'
    BY <1>0, AnswersStillRest DEF CollectionInv
  <1>4. ReadingInv'
    BY <1>0, <1>c DEF ReadingInv, ShownAnswersStand
  <1>5. ScopeInv'
    BY <1>0 DEF CollectionInv, ScopeInv, Ended, ScopeIsHonest
  <1>6. PlannedInv'
    BY <1>0 DEF CollectionInv, PlannedInv
  <1> QED BY <1>1, <1>2, <1>3, <1>4, <1>5, <1>6 DEF CollectionInv

-----------------------------------------------------------------------------
(* After a judgement.                                                       *)

\* Marking questions with a final lifecycle plans none of them.
LEMMA UnexecutedIs ==
  ASSUME NEW qs, NEW l \in [Questions -> Lifecycles], \A q \in Questions : l[q] # "planned"
  PROVE  /\ Unexecuted(qs, l) \in [Questions -> Lifecycles]
         /\ \A q \in Questions : Unexecuted(qs, l)[q] # "planned"
  BY DEF Unexecuted, Lifecycles

\* A read after the last judgement: its hit is not covered, and the review is told.
LEMMA ReadOnceKeeps ==
  ASSUME CollectionInv, ReadOnce
  PROVE  CollectionInv'
  <1> USE DEF work, judge, reading, sweep, calls, verdict, ledger
  <1> DEFINE q == Ordered(reply.followups)[LastRead]
  <1>0. /\ stage = "judged" /\ stage' = "sealed" /\ sealedAt' = Len(events) + 1
        /\ ~ reply.complete /\ LastRead # 0
        /\ UNCHANGED <<resolution, work, round, judge, seen, sweep, searchCalls,
                       judgements, repairUsed, available, exhausted, health, soft>>
    BY DEF ReadOnce, Seal, MayReadOnce
  <1>a. PICK out \in OutcomesOf(q) :
          /\ events' = Append(events, [q |-> q, outcome |-> out])
          /\ lifecycle' = Unexecuted(ToSet(RemoveAt(Ordered(reply.followups), LastRead)),
                                     [lifecycle EXCEPT ![q] = "executed"])
          /\ readCalls' = readCalls + IF Charged(q, out) THEN 1 ELSE 0
          /\ IF out = "hit" THEN covers' = FALSE /\ directOnly' = TRUE
                            ELSE UNCHANGED <<covers, directOnly>>
    BY DEF ReadOnce, Coverage
  <1>b. q \in Questions
    BY <1>0, LastReadIs, LoopAssumption DEF CollectionInv
  <1> HIDE DEF q
  <1>c. /\ events' \in Seq(Event) /\ Len(events') = Len(events) + 1 /\ Len(events) \in Nat
        /\ \A i \in DOMAIN events : events'[i] = events[i]
        /\ events'[Len(events) + 1].outcome = out
        /\ DOMAIN events' = 1 .. Len(events) + 1 /\ DOMAIN events = 1 .. Len(events)
    BY <1>a, <1>b, CallIs DEF CollectionInv
  <1>d. /\ lifecycle \in [Questions -> Lifecycles] /\ readCalls \in Nat
        /\ \A p \in Questions : lifecycle[p] # "planned"
    BY <1>0 DEF CollectionInv, TypeOK, LedgerTypeOK, PlannedInv
  <1>f. /\ lifecycle' \in [Questions -> Lifecycles]
        /\ \A p \in Questions : lifecycle'[p] # "planned"
    <2>1. /\ [lifecycle EXCEPT ![q] = "executed"] \in [Questions -> Lifecycles]
          /\ \A p \in Questions : [lifecycle EXCEPT ![q] = "executed"][p] # "planned"
      BY <1>b, <1>d DEF Lifecycles
    <2> QED BY <1>a, <2>1, UnexecutedIs
  <1>g. readCalls' \in Nat
    BY <1>a, <1>d
  <1>h. /\ covers /\ ~ directOnly /\ seen = Len(events) /\ available
        /\ covers' \in BOOLEAN /\ directOnly' \in BOOLEAN
    BY <1>0, <1>a DEF CollectionInv, ScopeInv, Ended, TypeOK
  <1>1. TypeOK'
    BY <1>0, <1>c, <1>f, <1>g, <1>h DEF CollectionInv, TypeOK, LedgerTypeOK, Stages
  <1>2. BoundsInv'
    BY <1>0, <1>c, <1>h DEF CollectionInv, BoundsInv, Ended
  <1>3. AnswersRestOnHits'
    BY <1>0, <1>a, AnswersStillRest DEF CollectionInv
  <1>4. ReadingInv'
    BY <1>0 DEF CollectionInv, ReadingInv, ShownAnswersStand
  <1>5. ScopeInv'
    <2>1. CASE out = "hit"
      BY <1>0, <1>a, <1>h, <2>1 DEF ScopeInv, Ended, ScopeIsHonest
    <2>2. CASE out # "hit"
      <3>1. \A i \in DOMAIN events' : events'[i].outcome = "hit" => i <= seen
        BY <1>c, <1>h, <2>2
      <3>2. seen' = seen /\ covers' = covers /\ directOnly' = directOnly /\ available' = available
        BY <1>0, <1>a, <2>2
      <3>3. ~ reply'.complete
        BY <1>0
      <3>4. ScopeIsHonest'
        BY <1>h, <3>1, <3>2, <3>3 DEF ScopeIsHonest
      <3> QED BY <1>0, <3>4 DEF ScopeInv, Ended
    <2> QED BY <2>1, <2>2
  <1>6. PlannedInv'
    BY <1>f DEF PlannedInv
  <1> QED BY <1>1, <1>2, <1>3, <1>4, <1>5, <1>6 DEF CollectionInv

LEMMA ReadNoMoreKeeps ==
  ASSUME CollectionInv, ReadNoMore
  PROVE  CollectionInv'
  <1> USE DEF work, judge, reading, sweep, calls, verdict, ledger
  <1>0. /\ stage = "judged" /\ stage' = "sealed" /\ sealedAt' = Len(events)
        /\ lifecycle' = Unexecuted(ToSet(reply.followups), lifecycle)
        /\ UNCHANGED <<events, resolution, work, round, judge, seen, sweep, calls,
                       judgements, repairUsed, verdict, exhausted, health, soft>>
    BY DEF ReadNoMore, Seal
  <1>f. /\ lifecycle' \in [Questions -> Lifecycles]
        /\ \A p \in Questions : lifecycle'[p] # "planned"
    BY <1>0, UnexecutedIs DEF CollectionInv, TypeOK, LedgerTypeOK, PlannedInv
  <1>h. /\ covers /\ ~ directOnly /\ seen = Len(events) /\ available
        /\ DOMAIN events = 1 .. Len(events) /\ Len(events) \in Nat
    BY <1>0 DEF CollectionInv, ScopeInv, Ended, TypeOK, LedgerTypeOK
  <1>1. TypeOK'
    BY <1>0, <1>f, <1>h DEF CollectionInv, TypeOK, LedgerTypeOK, Stages
  <1>2. BoundsInv'
    BY <1>0, <1>h DEF CollectionInv, BoundsInv, Ended
  <1>3. AnswersRestOnHits'
    BY <1>0, AnswersStillRest DEF CollectionInv
  <1>4. ReadingInv'
    BY <1>0 DEF CollectionInv, ReadingInv, ShownAnswersStand
  <1>5. ScopeInv'
    <2>1. ScopeIsHonest'
      BY <1>0, <1>h DEF ScopeIsHonest
    <2> QED BY <1>0, <2>1 DEF ScopeInv, Ended
  <1>6. PlannedInv'
    BY <1>f DEF PlannedInv
  <1> QED BY <1>1, <1>2, <1>3, <1>4, <1>5, <1>6 DEF CollectionInv

LEMMA RequestMoreKeeps ==
  ASSUME CollectionInv, RequestMore
  PROVE  CollectionInv'
  <1> USE DEF work, judge, reading, sweep, calls, verdict, ledger
  <1>0. /\ stage = "judged" /\ stage' = "executing" /\ back' = "followed"
        /\ round < Rounds /\ ~ reply.complete
        /\ queue' = Shortened(Ordered(reply.followups))
        /\ tried' = tried \cup (ToSet(queue') \cap Searches)
        /\ reply' = [reply EXCEPT !.followups = <<>>]
        /\ UNCHANGED <<ledger, plan, round, reading, view, seen, sealedAt, sweep, calls,
                       judgements, repairUsed, verdict, exhausted, health, soft>>
    BY DEF RequestMore
  <1>a. reply \in Reply /\ tried \subseteq Requests
    BY DEF CollectionInv, TypeOK
  <1>b. reply' \in Reply /\ ~ reply'.complete
    <2>1. PICK c \in BOOLEAN, f \in Seq(Requests) : reply = [complete |-> c, followups |-> f]
      BY <1>a DEF Reply
    <2>2. c = FALSE /\ reply' = [complete |-> c, followups |-> <<>>]
      BY <1>0, <2>1
    <2>3. <<>> \in Seq(Requests)
      OBVIOUS
    <2> QED BY <2>2, <2>3 DEF Reply
  <1>c. queue' \in Seq(Requests)
    <2>1. Ordered(reply.followups) \in Seq(Requests)
      BY <1>a, OrderedIs DEF Reply
    <2> DEFINE s == Ordered(reply.followups)
               n == IF Len(s) < FollowupCap THEN Len(s) ELSE FollowupCap
    <2>2. n \in Int /\ n <= Len(s) /\ Len(s) \in Nat
      BY <2>1, LoopAssumption
    <2> HIDE DEF n
    <2>3. \A i \in 1 .. n : s[i] \in Requests
      BY <2>1, <2>2
    <2> HIDE DEF s
    <2>4. SubSeq(s, 1, n) \in Seq(Requests)
      BY <2>2, <2>3, SubSeqProperties
    <2> QED BY <1>0, <2>4 DEF Shortened, s, n
  <1>d. tried' \subseteq Requests
    BY <1>0, <1>a DEF Requests
  <1>1. TypeOK'
    BY <1>0, <1>b, <1>c, <1>d DEF CollectionInv, TypeOK, LedgerTypeOK, Stages
  <1>2. BoundsInv'
    BY <1>0 DEF CollectionInv, BoundsInv, Ended
  <1>3. AnswersRestOnHits'
    BY <1>0, AnswersStillRest DEF CollectionInv
  <1>4. ReadingInv'
    BY <1>0 DEF CollectionInv, ReadingInv, ShownAnswersStand
  <1>5. ScopeInv'
    BY <1>0, <1>b DEF CollectionInv, ScopeInv, Ended, ScopeIsHonest
  <1>6. PlannedInv'
    BY <1>0 DEF CollectionInv, PlannedInv
  <1> QED BY <1>1, <1>2, <1>3, <1>4, <1>5, <1>6 DEF CollectionInv

LEMMA FollowupsUnjudgedKeeps ==
  ASSUME CollectionInv, FollowupsUnjudged
  PROVE  CollectionInv'
  <1> USE DEF work, judge, reading, sweep, calls, verdict, ledger
  <1>e. ToSet(<<>>) = {}
    BY DEF ToSet
  <1>n. Len(events) \in Nat
    BY DEF CollectionInv, TypeOK, LedgerTypeOK
  <1> USE DEF FollowupsUnjudged, Seal
  <1>1. TypeOK'
    BY <1>n DEF CollectionInv, TypeOK, LedgerTypeOK, Stages
  <1>2. BoundsInv'
    BY <1>n DEF CollectionInv, BoundsInv, Ended
  <1>3. AnswersRestOnHits'
    BY AnswersStillRest DEF CollectionInv
  <1>4. ReadingInv'
    BY DEF CollectionInv, ReadingInv, ShownAnswersStand
  <1>5. ScopeInv'
    BY DEF CollectionInv, ScopeInv, Ended, ScopeIsHonest
  <1>6. PlannedInv'
    BY <1>e DEF CollectionInv, PlannedInv
  <1> QED BY <1>1, <1>2, <1>3, <1>4, <1>5, <1>6 DEF CollectionInv

LEMMA SweepAfterFollowupsKeeps ==
  ASSUME CollectionInv, SweepAfterFollowups
  PROVE  CollectionInv'
  <1> USE DEF work, judge, reading, sweep, calls, verdict, ledger
  <1>e. ToSet(<<>>) = {}
    BY DEF ToSet
  <1>n. Len(events) \in Nat
    BY DEF CollectionInv, TypeOK, LedgerTypeOK
  <1> USE DEF SweepAfterFollowups, StartSweep
  <1>1. TypeOK'
    BY <1>n DEF CollectionInv, TypeOK, LedgerTypeOK, Stages
  <1>2. BoundsInv'
    BY <1>n DEF CollectionInv, BoundsInv, Ended
  <1>3. AnswersRestOnHits'
    BY AnswersStillRest DEF CollectionInv
  <1>4. ReadingInv'
    BY DEF CollectionInv, ReadingInv, ShownAnswersStand
  <1>5. ScopeInv'
    BY DEF CollectionInv, ScopeInv, Ended, ScopeIsHonest
  <1>6. PlannedInv'
    BY <1>e DEF CollectionInv, PlannedInv
  <1> QED BY <1>1, <1>2, <1>3, <1>4, <1>5, <1>6 DEF CollectionInv

LEMMA SweepAfterJudgementKeeps ==
  ASSUME CollectionInv, SweepAfterJudgement
  PROVE  CollectionInv'
  <1> USE DEF work, judge, reading, sweep, calls, verdict, ledger
  <1>n. Len(events) \in Nat
    BY DEF CollectionInv, TypeOK, LedgerTypeOK
  <1> USE DEF SweepAfterJudgement, StartSweep
  <1>1. TypeOK'
    BY <1>n DEF CollectionInv, TypeOK, LedgerTypeOK, Stages
  <1>2. BoundsInv'
    BY <1>n DEF CollectionInv, BoundsInv, Ended
  <1>3. AnswersRestOnHits'
    BY AnswersStillRest DEF CollectionInv
  <1>4. ReadingInv'
    BY DEF CollectionInv, ReadingInv, ShownAnswersStand
  <1>5. ScopeInv'
    BY DEF CollectionInv, ScopeInv, Ended, ScopeIsHonest
  <1>6. PlannedInv'
    BY DEF CollectionInv, PlannedInv
  <1> QED BY <1>1, <1>2, <1>3, <1>4, <1>5, <1>6 DEF CollectionInv

LEMMA SettleUnsweptKeeps ==
  ASSUME CollectionInv, SettleUnswept
  PROVE  CollectionInv'
  <1> USE DEF work, judge, reading, sweep, calls, verdict, ledger
  <1>0. /\ stage = "judged" /\ stage' = "sealed" /\ sealedAt' = Len(events)
        /\ UNCHANGED <<ledger, work, round, judge, seen, sweep, calls, judgements,
                       repairUsed, verdict, exhausted, health, soft>>
    BY DEF SettleUnswept, Seal
  <1>h. /\ covers /\ ~ directOnly /\ seen = Len(events) /\ available
        /\ DOMAIN events = 1 .. Len(events) /\ Len(events) \in Nat
    BY <1>0 DEF CollectionInv, ScopeInv, Ended, TypeOK, LedgerTypeOK
  <1>1. TypeOK'
    BY <1>0, <1>h DEF CollectionInv, TypeOK, LedgerTypeOK, Stages
  <1>2. BoundsInv'
    BY <1>0, <1>h DEF CollectionInv, BoundsInv, Ended
  <1>3. AnswersRestOnHits'
    BY <1>0, AnswersStillRest DEF CollectionInv
  <1>4. ReadingInv'
    BY <1>0 DEF CollectionInv, ReadingInv, ShownAnswersStand
  <1>5. ScopeInv'
    <2>1. ScopeIsHonest'
      BY <1>0, <1>h DEF ScopeIsHonest
    <2> QED BY <1>0, <2>1 DEF ScopeInv, Ended
  <1>6. PlannedInv'
    BY <1>0 DEF CollectionInv, PlannedInv
  <1> QED BY <1>1, <1>2, <1>3, <1>4, <1>5, <1>6 DEF CollectionInv

\* A sweep's call lengthens the log; the judgement's evidence ends where it did.
LEMMA SweepNextKeeps ==
  ASSUME CollectionInv, SweepNext
  PROVE  CollectionInv'
  <1> USE DEF work, judge, reading, sweep, calls, verdict, ledger
  <1>0. /\ stage = "sweeping"
        /\ UNCHANGED <<resolution, stage, work, round, judge, seen, sealedAt, sweepFrom,
                       judgements, repairUsed, verdict, exhausted, health, soft>>
    BY DEF SweepNext
  <1>a. PICK w \in Sweeps :
          /\ swept' = swept \cup {w}
          /\ IF AskedBy[w] \cap tried # {}
             THEN UNCHANGED <<events, lifecycle, calls>>
             ELSE searchCalls < MaxSearches /\ Execute(w)
    BY DEF SweepNext
  <1>b. /\ w \in Questions /\ events \in Seq(Event) /\ lifecycle \in [Questions -> Lifecycles]
        /\ readCalls \in Nat /\ searchCalls \in Nat /\ swept \subseteq Sweeps
        /\ \A p \in Questions : lifecycle[p] # "planned"
    BY <1>0, LoopAssumption DEF CollectionInv, TypeOK, LedgerTypeOK, PlannedInv
  <1>c. /\ events' \in Seq(Event) /\ Len(events') >= Len(events)
        /\ events' = events \/ \E e : events' = Append(events, e)
        /\ lifecycle' \in [Questions -> Lifecycles]
        /\ \A p \in Questions : lifecycle'[p] # "planned"
        /\ readCalls' \in Nat /\ searchCalls' \in Nat
    <2>1. CASE AskedBy[w] \cap tried # {}
      BY <1>a, <1>b, <2>1
    <2>2. CASE AskedBy[w] \cap tried = {}
      <3>1. PICK out \in OutcomesOf(w) :
              /\ events' = Append(events, [q |-> w, outcome |-> out])
              /\ lifecycle' = [lifecycle EXCEPT ![w] = "executed"]
              /\ readCalls' = readCalls + IF w \in Reads /\ Charged(w, out) THEN 1 ELSE 0
              /\ searchCalls' = searchCalls + IF w \notin Reads /\ Charged(w, out) THEN 1 ELSE 0
        BY <1>a, <2>2 DEF Execute, RecordEvent
      <3>2. events' \in Seq(Event) /\ Len(events') >= Len(events)
        BY <1>b, <3>1, CallIs DEF CollectionInv
      <3>3. /\ lifecycle' \in [Questions -> Lifecycles]
            /\ \A p \in Questions : lifecycle'[p] # "planned"
        BY <1>b, <3>1 DEF Lifecycles
      <3>4. readCalls' \in Nat /\ searchCalls' \in Nat
        BY <1>b, <3>1
      <3> QED BY <3>1, <3>2, <3>3, <3>4
    <2> QED BY <2>1, <2>2
  <1>d. swept' \subseteq Sweeps
    BY <1>a, <1>b
  <1>1. TypeOK'
    BY <1>0, <1>c, <1>d DEF CollectionInv, TypeOK, LedgerTypeOK
  <1>2. BoundsInv'
    <2>1. seen <= Len(events) /\ seen \in Nat /\ Len(events) \in Nat /\ Len(events') \in Nat
      BY <1>b, <1>c DEF CollectionInv, BoundsInv, TypeOK
    <2>2. seen <= Len(events')
      BY <1>c, <2>1
    <2> QED BY <1>0, <2>2 DEF CollectionInv, BoundsInv, Ended
  <1>3. AnswersRestOnHits'
    BY <1>0, <1>c, AnswersStillRest DEF CollectionInv
  <1>4. ReadingInv'
    BY <1>0 DEF CollectionInv, ReadingInv, ShownAnswersStand
  <1>5. ScopeInv'
    BY <1>0 DEF CollectionInv, ScopeInv, Ended, ScopeIsHonest
  <1>6. PlannedInv'
    BY <1>c DEF PlannedInv
  <1> QED BY <1>1, <1>2, <1>3, <1>4, <1>5, <1>6 DEF CollectionInv

\* A sweep with a hit leads to another judgement; without one, the last one stands.
LEMMA SweepEndsKeeps ==
  ASSUME CollectionInv, SweepEnds
  PROVE  CollectionInv'
  <1> USE DEF work, judge, reading, sweep, calls, verdict, ledger
  <1>0. /\ stage = "sweeping" /\ swept' = {} /\ sweepFrom' = 0 /\ back' = "judge"
        /\ exhausted' = (exhausted \/ (soft /\ swept # Sweeps))
        /\ UNCHANGED <<ledger, queue, plan, tried, judge, seen, calls, judgements,
                       repairUsed, verdict, health, soft>>
    BY DEF SweepEnds
  <1>a. \/ /\ stage' = "indexing" /\ round' = round + 1 /\ sealedAt' = sealedAt
        \/ /\ ~ (back = "again" \/ SweepHit) /\ stage' = "sealed"
           /\ sealedAt' = Len(events) /\ round' = round
    BY DEF SweepEnds, NextRound, Seal
  <1>b. /\ Len(events) \in Nat /\ DOMAIN events = 1 .. Len(events) /\ seen \in Nat
        /\ round \in 0 .. Rounds /\ round < Rounds /\ exhausted \in BOOLEAN
        /\ covers /\ ~ directOnly /\ judgements \in Nat
    BY <1>0 DEF CollectionInv, TypeOK, LedgerTypeOK, BoundsInv, ScopeInv, Ended
  <1>1. TypeOK'
    <2>1. round' \in 0 .. Rounds /\ sealedAt' \in Nat /\ stage' \in Stages
      BY <1>a, <1>b, LoopAssumption DEF CollectionInv, TypeOK, Stages
    <2> QED BY <1>0, <2>1 DEF CollectionInv, TypeOK, LedgerTypeOK
  <1>2. BoundsInv'
    BY <1>0, <1>a, <1>b, LoopAssumption DEF CollectionInv, BoundsInv, Ended
  <1>3. AnswersRestOnHits'
    BY <1>0, AnswersStillRest DEF CollectionInv
  <1>4. ReadingInv'
    BY <1>0, <1>a DEF CollectionInv, ReadingInv, ShownAnswersStand
  <1>5. ScopeInv'
    <2>1. CASE stage' = "indexing"
      BY <1>0, <1>b, <2>1 DEF ScopeInv, Ended, ScopeIsHonest
    <2>2. CASE stage' = "sealed"
      <3>1. ~ SweepHit /\ available /\ sweepFrom = seen
        BY <1>0, <1>a, <2>2 DEF CollectionInv, ScopeInv
      <3>2. \A i \in DOMAIN events : events[i].outcome = "hit" => i <= seen
        BY <1>b, <3>1 DEF SweepHit
      <3>3. ScopeIsHonest'
        BY <1>0, <1>b, <3>1, <3>2 DEF ScopeIsHonest
      <3> QED BY <2>2, <3>3 DEF ScopeInv, Ended
    <2> QED BY <1>a, <2>1, <2>2
  <1>6. PlannedInv'
    BY <1>0 DEF CollectionInv, PlannedInv
  <1> QED BY <1>1, <1>2, <1>3, <1>4, <1>5, <1>6 DEF CollectionInv

-----------------------------------------------------------------------------
(* The end.                                                                 *)

\* Closing the open questions touches no answer.
LEMMA FinishKeeps ==
  ASSUME CollectionInv, Finish
  PROVE  CollectionInv'
  <1> USE DEF work, judge, reading, sweep, calls, verdict, ledger
  <1> DEFINE left == {q \in Questions : lifecycle[q] # "none" /\ resolution[q].status = "open"}
  <1>0. /\ stage = "sealed" /\ stage' = "done" /\ resolution' = Unknown(left)
        /\ health' \in {"healthy", "partial_or_failed_context"}
        /\ UNCHANGED <<lifecycle, events, work, round, judge, seen, sealedAt, sweep,
                       calls, judgements, repairUsed, verdict, exhausted, soft>>
    BY DEF Finish, Closed, FetchHealth
  <1>b. /\ resolution' \in [Questions -> Resolution] /\ AnswersRestOnHits'
        /\ \A q \in Questions \ left : resolution'[q] = resolution[q]
    BY <1>0, UnknownIs DEF CollectionInv
  <1>c. \A q \in view : resolution[q].status = "answered" /\ q \in Questions \ left
    BY <1>0 DEF CollectionInv, ReadingInv, ShownAnswersStand, TypeOK
  <1> HIDE DEF left
  <1>1. TypeOK'
    BY <1>0, <1>b DEF CollectionInv, TypeOK, LedgerTypeOK, Stages
  <1>2. BoundsInv'
    BY <1>0 DEF CollectionInv, BoundsInv, Ended
  <1>3. AnswersRestOnHits'
    BY <1>b
  <1>4. ReadingInv'
    <2>1. heard = {} /\ downgraded = {}
      BY <1>0 DEF CollectionInv, ReadingInv
    <2>2. ShownAnswersStand'
      BY <1>0, <1>b, <1>c DEF ShownAnswersStand
    <2> QED BY <1>0, <2>1, <2>2 DEF ReadingInv
  <1>5. ScopeInv'
    BY <1>0 DEF CollectionInv, ScopeInv, Ended, ScopeIsHonest
  <1>6. PlannedInv'
    BY <1>0 DEF CollectionInv, PlannedInv
  <1> QED BY <1>1, <1>2, <1>3, <1>4, <1>5, <1>6 DEF CollectionInv

LEMMA TimeKeeps ==
  ASSUME CollectionInv, TimePasses \/ UNCHANGED vars
  PROVE  CollectionInv'
  <1> USE DEF work, judge, reading, sweep, calls, verdict, ledger
  <1>0. /\ soft' \in BOOLEAN
        /\ UNCHANGED <<ledger, stage, work, round, judge, seen, sealedAt, sweep, calls,
                       judgements, repairUsed, verdict, exhausted, health>>
    BY DEF TimePasses, vars, CollectionInv, TypeOK
  <1>1. TypeOK'
    BY <1>0 DEF CollectionInv, TypeOK, LedgerTypeOK
  <1>2. BoundsInv'
    BY <1>0 DEF CollectionInv, BoundsInv, Ended
  <1>3. AnswersRestOnHits'
    BY <1>0, AnswersStillRest DEF CollectionInv
  <1>4. ReadingInv'
    BY <1>0 DEF CollectionInv, ReadingInv, ShownAnswersStand
  <1>5. ScopeInv'
    BY <1>0 DEF CollectionInv, ScopeInv, Ended, ScopeIsHonest
  <1>6. PlannedInv'
    BY <1>0 DEF CollectionInv, PlannedInv
  <1> QED BY <1>1, <1>2, <1>3, <1>4, <1>5, <1>6 DEF CollectionInv

LEMMA CollectionStep == CollectionInv /\ [Next]_vars => CollectionInv'
  <1> SUFFICES ASSUME CollectionInv, [Next]_vars PROVE CollectionInv'
    OBVIOUS
  <1>1. CASE PlanRaises \/ CallbackRaises \/ JudgementRaises
    BY <1>1, RaiseKeeps DEF PlanRaises, CallbackRaises, JudgementRaises, Ended
  <1>2. CASE IndexOverflows \/ JudgementFails
    BY <1>2, UnjudgedKeeps DEF IndexOverflows, JudgementFails
  <1>3. CASE TimePasses \/ UNCHANGED vars
    BY <1>3, TimeKeeps
  <1>4. CASE Plan
    BY <1>4, PlanKeeps
  <1>5. CASE ExecuteNext
    BY <1>5, ExecuteNextKeeps
  <1>6. CASE SkipRest
    BY <1>6, SkipRestKeeps
  <1>7. CASE CallbackReturns
    BY <1>7, CallbackReturnsKeeps
  <1>8. CASE AskJudgement
    BY <1>8, AskJudgementKeeps
  <1>9. CASE JudgementArrives
    BY <1>9, JudgementArrivesKeeps
  <1>10. CASE JudgementIsSentBack
    BY <1>10, JudgementIsSentBackKeeps
  <1>11. CASE RepairArrives
    BY <1>11, RepairArrivesKeeps
  <1>12. CASE ApplyAnswer
    BY <1>12, ApplyAnswerKeeps
  <1>13. CASE UnboundAnswer
    BY <1>13, UnboundAnswerKeeps
  <1>14. CASE CollapseAnswers
    BY <1>14, CollapseAnswersKeeps
  <1>15. CASE ApplyGap
    BY <1>15, ApplyGapKeeps
  <1>16. CASE JudgementApplied
    BY <1>16, JudgementAppliedKeeps
  <1>17. CASE ReadOnce
    BY <1>17, ReadOnceKeeps
  <1>18. CASE ReadNoMore
    BY <1>18, ReadNoMoreKeeps
  <1>19. CASE RequestMore
    BY <1>19, RequestMoreKeeps
  <1>20. CASE FollowupsUnjudged
    BY <1>20, FollowupsUnjudgedKeeps
  <1>21. CASE SweepAfterFollowups
    BY <1>21, SweepAfterFollowupsKeeps
  <1>22. CASE SweepAfterJudgement
    BY <1>22, SweepAfterJudgementKeeps
  <1>23. CASE SettleUnswept
    BY <1>23, SettleUnsweptKeeps
  <1>24. CASE SweepNext
    BY <1>24, SweepNextKeeps
  <1>25. CASE SweepEnds
    BY <1>25, SweepEndsKeeps
  <1>26. CASE Finish
    BY <1>26, FinishKeeps
  <1> QED
    BY <1>1, <1>2, <1>3, <1>4, <1>5, <1>6, <1>7, <1>8, <1>9, <1>10, <1>11,
       <1>12, <1>13, <1>14, <1>15, <1>16, <1>17, <1>18, <1>19, <1>20, <1>21,
       <1>22, <1>23, <1>24, <1>25, <1>26 DEF Next

-----------------------------------------------------------------------------
(* The theorems.                                                            *)

\* The inductive invariant of a collection: its types, and of every stage
\* what the properties below rest on.
THEOREM CollectionInvariant == Spec => []CollectionInv
  BY CollectionInit, CollectionStep, PTL DEF Spec

\* At most one judgement a round and one repair in both together, two rounds
\* at most, and a terminal count that is the length of the log.
THEOREM LoopIsBounded == Spec => []LoopInv
  <1>1. CollectionInv => LoopInv
    BY DEF CollectionInv, BoundsInv, LoopInv
  <1> QED BY <1>1, CollectionInvariant, PTL

\* Every answered question of the ledger rests on hits of its own, whatever
\* the judgement cited, and they outlive every later call.
THEOREM AnswersRest == Spec => []AnswersRestOnHits
  <1>1. CollectionInv => AnswersRestOnHits
    BY DEF CollectionInv
  <1> QED BY <1>1, CollectionInvariant, PTL

\* What the review is told about the coverage of the last judgement is true
\* at the seal and after it, by whichever of the ways the collection ends.
THEOREM ScopeTold == Spec => []ScopeIsHonest
  <1>1. CollectionInv => ScopeIsHonest
    BY DEF CollectionInv, ScopeInv
  <1> QED BY <1>1, CollectionInvariant, PTL

\* Every registered lookup is executed or carries the reason it was not.
THEOREM NoneForgotten == Spec => []NoRequestIsForgotten
  <1>1. CollectionInv => NoRequestIsForgotten
    BY DEF CollectionInv, PlannedInv, NoRequestIsForgotten, Ended
  <1> QED BY <1>1, CollectionInvariant, PTL

\* What the judgement's record shows as answered is answered in the ledger.
THEOREM ShownStand == Spec => []ShownAnswersStand
  <1>1. CollectionInv => ShownAnswersStand
    BY DEF CollectionInv, ReadingInv
  <1> QED BY <1>1, CollectionInvariant, PTL
=============================================================================

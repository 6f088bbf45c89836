----------------------------- MODULE ReadsProofs -----------------------------
(***************************************************************************)
(* Proofs that the retrieval tools tell the truth about the pull request's *)
(* head, for any repository, any set of literals and any quotas: what they *)
(* let a later stage cite holds at the head, what they derive rests on a   *)
(* call that was made, and a path is charged twice only when the first     *)
(* read of it bought nothing.                                              *)
(*                                                                         *)
(* Every step records one event.  Said(e) is what the event says if it is  *)
(* a hit, Rests(e) what it was derived from; both only grow truer, since   *)
(* the head never changes and the log is only appended to.  HeadInv ties   *)
(* the path lists to the head, which is what an answer of "absent" needs.  *)
(***************************************************************************)
EXTENDS ExactHeadReads, FiniteSetTheorems, WellFoundedInduction, TLAPS

\* What the listing and the diff say of the head.
HeadInv ==
  /\ \A p \in removed : kind[p] = "missing"
  /\ \A p \in listed : kind[p] \in Files => p \in discoverable
  /\ status = "complete" => \A p \in Paths : kind[p] \in Files \cup {"directory"} => p \in listed

\* A hit says something true of the head, and stays fit to be derived from.
Said(e) ==
  /\ e.mode \in {"content", "exact"} => e.arg \in Paths
  /\ e.outcome = "hit" =>
       /\ e.mode = "exact" => (e.obs = "absent" <=> kind[e.arg] = "missing")
       /\ e.mode = "content" =>
            /\ kind[e.arg] \in Text
            /\ e.full \/ e.cov = "full_file" => kind[e.arg] = "small"
            /\ e.cov = "file_slice" => e.syms \cap has[e.arg] # {}
       /\ e.mode = "search" /\ e.atHead => \A p \in e.found : e.arg \in has[p]

\* The hit of the first n events that e was derived from, and the call behind it.
Rests(e, n) ==
  ~ e.backend =>
    LET j == e.from IN
    /\ j \in 1 .. n
    /\ events[j].outcome = "hit"
    /\ events[j].mode = e.mode /\ events[j].arg = e.arg
    /\ \E k \in 1 .. j : /\ events[k].backend /\ events[k].outcome = "hit"
                         /\ events[k].arg = e.arg

LogInv == \A i \in 1 .. Len(events) : Said(events[i]) /\ Rests(events[i], i - 1)

EvidenceInv == ReadsInv /\ HeadInv /\ LogInv

\* A content read that was paid for and got nothing to show.
Excused(e) ==
  /\ e.mode = "content"
  /\ \/ e.outcome \in {"error", "unreadable", "excluded_by_policy"}
     \/ /\ e.outcome = "no_hit"
        /\ kind[e.arg] \in {"middling", "large", "huge"}
        /\ e.syms \cap has[e.arg] = {}

\* A probed path that is not on the collection's list is out of reach for good.
Spent(p) == p \in probes /\ p \notin accessible

\* Where a paid path stands: out of reach, collected, or not yet shown.
Settled(e) ==
  \/ Spent(e.arg)
  \/ e.mode = "content" /\ e.arg \in accessible /\ e.arg \in collected
  \/ e.arg \in accessible /\ Excused(e)

BillInv ==
  /\ RepeatsAreExcused
  /\ \A i \in 1 .. Len(events) : Charged(events[i]) => Settled(events[i])

-----------------------------------------------------------------------------
(* The latest of finitely many events.                                      *)

\* A finite set of numbers has a last one: a smallest set without one would
\* lose its last element with any of its elements.
LEMMA HasLast ==
  ASSUME NEW S \in SUBSET Nat, IsFiniteSet(S), S # {}
  PROVE  \E i \in S : \A j \in S : j <= i
  <1> DEFINE Last(U) == \E i \in U : \A j \in U : j <= i
             Bad == {U \in FiniteSubsetsOf(Nat) : U # {} /\ ~ Last(U)}
  <1> SUFFICES Bad = {}
    BY DEF FiniteSubsetsOf
  <1> SUFFICES ASSUME Bad # {} PROVE FALSE
    OBVIOUS
  <1>1. PICK U \in Bad : \A V \in Bad : ~ (<<V, U>> \in StrictSubsetOrdering(Nat))
    BY FS_StrictSubsetOrderingWellFounded, WFMin
  <1>2. PICK x \in U : TRUE
    OBVIOUS
  <1>3. U \in SUBSET Nat /\ IsFiniteSet(U)
    BY DEF FiniteSubsetsOf
  <1> DEFINE V == U \ {x}
  <1>4. V \in FiniteSubsetsOf(Nat) /\ <<V, U>> \in StrictSubsetOrdering(Nat)
    BY <1>2, <1>3, FS_RemoveElement DEF FiniteSubsetsOf, StrictSubsetOrdering
  <1>5. V = {} \/ Last(V)
    BY <1>1, <1>4
  <1>6. CASE V = {}
    BY <1>2, <1>3, <1>6
  <1>7. CASE Last(V)
    <2>1. PICK y \in V : \A j \in V : j <= y
      BY <1>7
    <2>2. \A j \in U : j <= (IF x <= y THEN y ELSE x)
      BY <1>2, <1>3, <2>1
    <2> QED BY <1>2, <1>3, <2>1, <2>2
  <1> QED BY <1>5, <1>6, <1>7

\* PriorHit is 0, or a hit of the log for the same mode and argument.
LEMMA PriorHitIs ==
  ASSUME TypeOK, NEW m, NEW a, PriorHit(m, a) # 0
  PROVE  LET i == PriorHit(m, a) IN
         /\ i \in 1 .. Len(events)
         /\ events[i].mode = m /\ events[i].arg = a /\ events[i].outcome = "hit"
  <1> DEFINE hits == {i \in 1 .. Len(events) :
                        /\ events[i].mode = m /\ events[i].arg = a
                        /\ events[i].outcome = "hit"
                        /\ m = "search" => /\ events[i].found # {}
                                           /\ events[i].atHead}
  <1>1. hits # {} /\ PriorHit(m, a) = CHOOSE i \in hits : \A j \in hits : j <= i
    BY DEF PriorHit
  <1>2. Len(events) \in Nat
    BY DEF TypeOK
  <1>3. hits \in SUBSET Nat /\ IsFiniteSet(hits)
    <2>1. IsFiniteSet(1 .. Len(events))
      BY <1>2, FS_Interval
    <2> QED BY <1>2, <2>1, FS_Subset
  <1>4. \E i \in hits : \A j \in hits : j <= i
    BY <1>1, <1>3, HasLast
  <1>5. PriorHit(m, a) \in hits
    BY <1>1, <1>4
  <1> QED BY <1>5

-----------------------------------------------------------------------------
(* Recording one event.                                                     *)

\* What _record_event appends, when it says and rests on what it should.
LEMMA Recorded ==
  ASSUME EvidenceInv, NEW e \in Event, Record(e), Len(events) < MaxCalls,
         UNCHANGED <<kind, has>>, Said(e), Rests(e, Len(events))
  PROVE  LogInv' /\ events' \in Seq(Event) /\ Len(events') <= MaxCalls
  <1> DEFINE n == Len(events)
  <1>1. /\ n \in Nat /\ MaxCalls \in Nat
        /\ events' \in Seq(Event) /\ Len(events') = n + 1
        /\ events'[n + 1] = e
        /\ \A i \in 1 .. n : events'[i] = events[i]
    BY ReadsAssumption DEF Record, EvidenceInv, ReadsInv, TypeOK
  <1>2. ASSUME NEW i \in 1 .. n + 1
        PROVE  (Said(events[i]) /\ Rests(events[i], i - 1))'
    <2>1. CASE i \in 1 .. n
      <3>1. Said(events[i]) /\ Rests(events[i], i - 1) /\ events'[i] = events[i]
        BY <1>1, <2>1 DEF EvidenceInv, LogInv
      <3>2. Said(events[i])'
        BY <3>1 DEF Said
      <3>3. \A j \in 1 .. i - 1 : events'[j] = events[j]
        BY <1>1, <2>1
      <3>4. Rests(events[i], i - 1)'
        <4> SUFFICES ASSUME ~ events[i].backend
                     PROVE  Rests(events[i], i - 1)'
          BY <3>1 DEF Rests
        <4>1. events[i].from \in 1 .. i - 1
          BY <3>1 DEF Rests
        <4>2. \A k \in 1 .. events[i].from : k \in 1 .. i - 1
          BY <1>1, <4>1
        <4> QED BY <3>1, <3>3, <4>1, <4>2 DEF Rests
      <3> QED BY <3>2, <3>4
    <2>2. CASE i = n + 1
      <3>1. Said(events[i])'
        BY <1>1, <2>2 DEF Said
      <3>2. Rests(events[i], i - 1)'
        <4> SUFFICES ASSUME ~ e.backend
                     PROVE  Rests(events[i], i - 1)'
          BY <1>1, <2>2 DEF Rests
        <4>1. e.from \in 1 .. n /\ i - 1 = n
          BY <1>1, <2>2 DEF Rests
        <4>2. \A k \in 1 .. e.from : k \in 1 .. n
          BY <1>1, <4>1
        <4> QED BY <1>1, <2>2, <4>1, <4>2 DEF Rests
      <3> QED BY <3>1, <3>2
    <2> QED BY <1>1, <2>1, <2>2
  <1> QED BY <1>1, <1>2 DEF LogInv

\* The fields of an answer, and that it may be logged.
LEMMA AnswerIs ==
  ASSUME NEW m \in Modes, NEW a \in Paths \cup Literals \cup {"root"},
         NEW s \in SUBSET Literals, NEW out \in Outcomes, NEW cov \in Coverage,
         NEW obs \in Observed
  PROVE  /\ Answer(m, a, s, out, cov, obs) \in Event
         /\ Answer(m, a, s, out, cov, obs) =
              [mode |-> m, arg |-> a, syms |-> s, outcome |-> out, cov |-> cov,
               obs |-> obs, src |-> "none", backend |-> TRUE, from |-> 0, full |-> FALSE,
               atHead |-> TRUE, found |-> {}]
  <1>1. 0 \in 0 .. MaxCalls /\ {} \in SUBSET Paths /\ "none" \in Sources
    BY ReadsAssumption DEF Sources
  <1> QED BY <1>1 DEF Answer, Event

\* Naming where an answer was taken from changes nothing else in it.
LEMMA QuotingIs ==
  ASSUME NEW e \in Event, NEW src \in Sources
  PROVE  LET q == Quoting(src, e) IN
         /\ q \in Event /\ q.src = src
         /\ q.mode = e.mode /\ q.arg = e.arg /\ q.syms = e.syms
         /\ q.outcome = e.outcome /\ q.cov = e.cov /\ q.obs = e.obs
         /\ q.backend = e.backend /\ q.from = e.from /\ q.full = e.full
         /\ q.atHead = e.atHead /\ q.found = e.found
         /\ Said(q) <=> Said(e)
         /\ \A n : Rests(q, n) <=> Rests(e, n)
  <1> DEFINE q == Quoting(src, e)
  <1>1. /\ q \in Event /\ q.src = src
        /\ q.mode = e.mode /\ q.arg = e.arg /\ q.syms = e.syms
        /\ q.outcome = e.outcome /\ q.cov = e.cov /\ q.obs = e.obs
        /\ q.backend = e.backend /\ q.from = e.from /\ q.full = e.full
        /\ q.atHead = e.atHead /\ q.found = e.found
    BY DEF Quoting, Event
  <1> HIDE DEF q
  <1>2. Said(q) <=> Said(e)
    BY <1>1 DEF Said
  <1>3. ASSUME NEW n PROVE Rests(q, n) <=> Rests(e, n)
    BY <1>1 DEF Rests
  <1> QED BY <1>1, <1>2, <1>3 DEF q

\* A call that ends without a hit says nothing of the head.
LEMMA Unheard ==
  ASSUME NEW m \in Modes, NEW a \in Paths \cup Literals \cup {"root"},
         NEW s \in SUBSET Literals, NEW out \in Outcomes \ {"hit"},
         NEW obs \in Observed, NEW n, m \in {"content", "exact"} => a \in Paths
  PROVE  /\ Answer(m, a, s, out, "none", obs) \in Event
         /\ Said(Answer(m, a, s, out, "none", obs))
         /\ Rests(Answer(m, a, s, out, "none", obs), n)
  <1> DEFINE e == Answer(m, a, s, out, "none", obs)
  <1>1. "none" \in Coverage /\ out \in Outcomes
    BY DEF Coverage
  <1>2. e \in Event
    BY <1>1, AnswerIs
  <1>3. e.backend = TRUE
    BY DEF Answer
  <1>4. e.mode = m /\ e.arg = a /\ e.outcome = out
    BY DEF Answer
  <1> HIDE DEF e
  <1>5. Said(e)
    BY <1>4 DEF Said
  <1>6. Rests(e, n)
    BY <1>3 DEF Rests
  <1> QED BY <1>2, <1>5, <1>6 DEF e

\* An event derived from an earlier hit rests on it, and on what it rests on.
LEMMA DerivedRests ==
  ASSUME EvidenceInv, NEW m, NEW a, PriorHit(m, a) # 0, NEW s \in SUBSET Literals
  PROVE  /\ DerivedFrom(PriorHit(m, a), s) \in Event
         /\ Rests(DerivedFrom(PriorHit(m, a), s), Len(events))
         /\ PriorHit(m, a) \in 1 .. Len(events)
         /\ events[PriorHit(m, a)] \in Event
         /\ Said(events[PriorHit(m, a)])
         /\ events[PriorHit(m, a)].mode = m
         /\ events[PriorHit(m, a)].arg = a
         /\ events[PriorHit(m, a)].outcome = "hit"
  <1> DEFINE i == PriorHit(m, a)
             d == DerivedFrom(i, s)
  <1>1. /\ i \in 1 .. Len(events) /\ Len(events) \in Nat /\ Len(events) <= MaxCalls
        /\ events[i].mode = m /\ events[i].arg = a /\ events[i].outcome = "hit"
        /\ events[i] \in Event /\ MaxCalls \in Nat
    BY PriorHitIs, ReadsAssumption DEF EvidenceInv, ReadsInv, TypeOK
  <1>2. Said(events[i]) /\ Rests(events[i], i - 1)
    BY <1>1 DEF EvidenceInv, LogInv
  <1> HIDE DEF i
  <1>3. /\ d \in Event
        /\ d.backend = FALSE /\ d.from = i /\ d.mode = m /\ d.arg = a
    <2> PICK ev \in Event : ev = events[i]
      BY <1>1
    <2>1. i \in 0 .. MaxCalls
      BY <1>1
    <2>2. d = [ev EXCEPT !.syms = s, !.backend = FALSE, !.from = i]
      BY DEF DerivedFrom
    <2> HIDE DEF d
    <2>3. d \in Event /\ d.backend = FALSE /\ d.from = i /\ d.mode = ev.mode /\ d.arg = ev.arg
      BY <2>1, <2>2 DEF Event
    <2> QED BY <1>1, <2>3
  <1>4. \E k \in 1 .. i : /\ events[k].backend /\ events[k].outcome = "hit"
                         /\ events[k].arg = a
    <2>1. CASE events[i].backend
      BY <1>1, <2>1
    <2>2. CASE ~ events[i].backend
      <3>1. PICK k \in 1 .. events[i].from :
              /\ events[k].backend /\ events[k].outcome = "hit" /\ events[k].arg = a
        BY <1>1, <1>2, <2>2 DEF Rests
      <3>2. k \in 1 .. i
        BY <1>1, <1>2, <2>2, <3>1 DEF Rests
      <3> QED BY <3>1, <3>2
    <2> QED BY <2>1, <2>2
  <1>5. Rests(d, Len(events))
    BY <1>1, <1>3, <1>4 DEF Rests
  <1> QED BY <1>1, <1>2, <1>3, <1>5 DEF i

-----------------------------------------------------------------------------
(* What a step must leave behind.                                           *)

\* A step that logs e and only adds to the discovered paths keeps it all.
LEMMA StepKeeps ==
  ASSUME EvidenceInv, Len(events) < MaxCalls, NEW e \in Event, Record(e),
         UNCHANGED head, Said(e), Rests(e, Len(events)),
         discoverable \subseteq discoverable',
         discoverable' \subseteq Paths, accessible' \subseteq Paths,
         probes' \subseteq Paths, queries' \subseteq Literals,
         readCalls' \in Nat, searchCalls' \in Nat,
         cached' \subseteq Paths, collected' \subseteq Paths,
         readOk' \subseteq Paths, readErr' \subseteq Paths,
         nonExistent' \subseteq Paths, PathsAgree', BudgetsHold'
  PROVE  EvidenceInv'
  <1>1. LogInv' /\ events' \in Seq(Event) /\ Len(events') <= MaxCalls
    BY Recorded DEF head
  <1>2. HeadInv'
    BY DEF EvidenceInv, HeadInv, head
  <1>3. TypeOK'
    BY <1>1 DEF EvidenceInv, ReadsInv, TypeOK, head
  <1> QED BY <1>1, <1>2, <1>3 DEF EvidenceInv, ReadsInv

\* A step that only logs.
LEMMA QuietStep ==
  ASSUME EvidenceInv, Len(events) < MaxCalls, NEW e \in Event, Record(e),
         UNCHANGED <<head, paths, reads, srch>>, Said(e), Rests(e, Len(events))
  PROVE  EvidenceInv'
  <1>1. PathsAgree' /\ BudgetsHold'
    BY DEF EvidenceInv, ReadsInv, PathsAgree, BudgetsHold, head, paths, reads, srch
  <1> QED BY <1>1, StepKeeps DEF EvidenceInv, ReadsInv, TypeOK, head, paths, reads, srch

\* A step that logs a call without a hit, and nothing else.
LEMMA QuietMiss ==
  ASSUME EvidenceInv, Len(events) < MaxCalls,
         NEW m \in Modes, NEW a \in Paths \cup Literals \cup {"root"},
         NEW s \in SUBSET Literals, NEW out \in Outcomes \ {"hit"},
         NEW obs \in Observed, m \in {"content", "exact"} => a \in Paths,
         Record(Answer(m, a, s, out, "none", obs)),
         UNCHANGED <<head, paths, reads, srch>>
  PROVE  EvidenceInv'
  <1> DEFINE e == Answer(m, a, s, out, "none", obs)
  <1>1. e \in Event /\ Said(e) /\ Rests(e, Len(events))
    BY Unheard
  <1> HIDE DEF e
  <1>2. Record(e)
    BY DEF e
  <1> QED BY <1>1, <1>2, QuietStep

\* The same for a call that names where it looked.
LEMMA QuietQuote ==
  ASSUME EvidenceInv, Len(events) < MaxCalls,
         NEW m \in Modes, NEW a \in Paths \cup Literals \cup {"root"},
         NEW s \in SUBSET Literals, NEW out \in Outcomes \ {"hit"},
         NEW obs \in Observed, m \in {"content", "exact"} => a \in Paths,
         NEW src \in Sources, Record(Quoting(src, Answer(m, a, s, out, "none", obs))),
         UNCHANGED <<head, paths, reads, srch>>
  PROVE  EvidenceInv'
  <1> DEFINE e == Answer(m, a, s, out, "none", obs)
             q == Quoting(src, e)
  <1>1. e \in Event /\ Said(e) /\ Rests(e, Len(events))
    BY Unheard
  <1> HIDE DEF e
  <1>2. q \in Event /\ Said(q) /\ Rests(q, Len(events))
    BY <1>1, QuotingIs
  <1>3. Record(q)
    BY DEF e
  <1> HIDE DEF q
  <1> QED BY <1>2, <1>3, QuietStep

-----------------------------------------------------------------------------
(* The reuse of earlier events.                                             *)

LEMMA DeriveSameKeeps ==
  ASSUME EvidenceInv, Len(events) < MaxCalls, NEW m \in Modes \ {"content"}, NEW a,
         DeriveSame(m, a)
  PROVE  EvidenceInv'
  <1> DEFINE i == PriorHit(m, a)
             d == DerivedFrom(i, {})
  <1>1. /\ d \in Event /\ Rests(d, Len(events)) /\ i \in 1 .. Len(events)
        /\ events[i] \in Event /\ Said(events[i])
        /\ events[i].mode = m
    <2>1. {} \in SUBSET Literals /\ i # 0
      BY DEF DeriveSame
    <2> QED BY <2>1, DerivedRests
  <1>4. d = [events[i] EXCEPT !.syms = {}, !.backend = FALSE, !.from = i]
    BY DEF DerivedFrom
  <1>2. Record(d) /\ UNCHANGED <<head, paths, reads, srch>>
    BY DEF DeriveSame, Reuse
  <1> HIDE DEF i, d
  <1>3. Said(d)
    <2> PICK ev \in Event : ev = events[i]
      BY <1>1
    <2>1. d.mode = m /\ d.arg = ev.arg /\ d.outcome = ev.outcome /\ d.obs = ev.obs
          /\ d.found = ev.found /\ d.atHead = ev.atHead /\ ev.mode = m /\ Said(ev)
      BY <1>1, <1>4 DEF Event
    <2> QED BY <2>1 DEF Said
  <1> QED BY <1>1, <1>2, <1>3, QuietStep

LEMMA DeriveContentKeeps ==
  ASSUME EvidenceInv, Len(events) < MaxCalls, NEW p \in Paths, NEW s \in SUBSET Literals,
         DeriveContent(p, s)
  PROVE  EvidenceInv'
  <1> DEFINE i == PriorHit("content", p)
             d == DerivedFrom(i, s)
             e == DerivedRead(p, s)
  <1>1. /\ d \in Event /\ Rests(d, Len(events)) /\ i \in 1 .. Len(events)
        /\ events[i] \in Event /\ Said(events[i])
        /\ events[i].mode = "content" /\ events[i].arg = p /\ events[i].outcome = "hit"
    <2>1. i # 0
      BY DEF DeriveContent, Derivable
    <2> QED BY <2>1, DerivedRests
  <1>10. d = [events[i] EXCEPT !.syms = s, !.backend = FALSE, !.from = i]
    BY DEF DerivedFrom
  <1>2. Record(e) /\ UNCHANGED <<head, paths, reads, srch>>
    BY DEF DeriveContent, Reuse
  <1>3. s = {} => events[i].full
    BY DEF DeriveContent, Derivable
  <1>4. e = IF s = {} THEN [d EXCEPT !.cov = "full_file"]
            ELSE IF s \cap has[p] # {} THEN [d EXCEPT !.cov = "file_slice"]
            ELSE [d EXCEPT !.outcome = "no_hit", !.cov = "none",
                           !.obs = "content_unobserved"]
    BY DEF DerivedRead
  <1> HIDE DEF i, d, e
  <1> PICK ev \in Event : ev = events[i]
    BY <1>1
  <1>5. /\ d.mode = "content" /\ d.arg = p /\ d.outcome = "hit" /\ d.syms = s
        /\ d.full = ev.full /\ d.backend = FALSE /\ d.from = i
    BY <1>1, <1>10 DEF Event
  <1>6. kind[p] \in Text /\ (ev.full => kind[p] = "small")
    BY <1>1 DEF Said
  <1>7. CASE s = {}
    <2>1. e = [d EXCEPT !.cov = "full_file"]
      BY <1>4, <1>7
    <2>2. /\ e \in Event /\ e.mode = "content" /\ e.arg = p /\ e.cov = "full_file"
          /\ e.backend = d.backend /\ e.from = d.from /\ e.outcome = "hit"
      BY <1>1, <1>5, <2>1 DEF Event, Coverage
    <2>3. Said(e)
      BY <1>3, <1>6, <1>7, <2>2 DEF Said
    <2>4. Rests(e, Len(events))
      BY <1>1, <1>5, <2>2 DEF Rests
    <2> QED BY <1>2, <2>2, <2>3, <2>4, QuietStep
  <1>8. CASE s # {} /\ s \cap has[p] # {}
    <2>1. e = [d EXCEPT !.cov = "file_slice"]
      BY <1>4, <1>8
    <2>2. /\ e \in Event /\ e.mode = "content" /\ e.arg = p /\ e.cov = "file_slice"
          /\ e.backend = d.backend /\ e.from = d.from /\ e.syms = s /\ e.full = ev.full
      <3> PICK dd \in Event : dd = d
        BY <1>1
      <3>1. e = [dd EXCEPT !.cov = "file_slice"] /\ "file_slice" \in Coverage
        BY <2>1 DEF Coverage
      <3>2. /\ e \in Event /\ e.mode = dd.mode /\ e.arg = dd.arg /\ e.cov = "file_slice"
            /\ e.backend = dd.backend /\ e.from = dd.from /\ e.syms = dd.syms
            /\ e.full = dd.full
        BY <3>1 DEF Event
      <3> QED BY <1>5, <3>2
    <2>3. Said(e)
      BY <1>6, <1>8, <2>2 DEF Said
    <2>4. Rests(e, Len(events))
      BY <1>1, <1>5, <2>2 DEF Rests
    <2> QED BY <1>2, <2>2, <2>3, <2>4, QuietStep
  <1>9. CASE s # {} /\ s \cap has[p] = {}
    <2>1. e = [d EXCEPT !.outcome = "no_hit", !.cov = "none", !.obs = "content_unobserved"]
      BY <1>4, <1>9
    <2>2. /\ e \in Event /\ e.mode = "content" /\ e.arg = p /\ e.outcome = "no_hit"
          /\ e.backend = d.backend /\ e.from = d.from
      <3> PICK dd \in Event : dd = d
        BY <1>1
      <3>1. /\ e = [dd EXCEPT !.outcome = "no_hit", !.cov = "none",
                              !.obs = "content_unobserved"]
            /\ "no_hit" \in Outcomes /\ "none" \in Coverage
            /\ "content_unobserved" \in Observed
        BY <2>1 DEF Coverage, Outcomes, Observed
      <3>2. /\ e \in Event /\ e.mode = dd.mode /\ e.arg = dd.arg /\ e.outcome = "no_hit"
            /\ e.backend = dd.backend /\ e.from = dd.from
        BY <3>1 DEF Event
      <3> QED BY <1>5, <3>2
    <2>3. Said(e)
      BY <2>2 DEF Said
    <2>4. Rests(e, Len(events))
      BY <1>1, <1>5, <2>2 DEF Rests
    <2> QED BY <1>2, <2>2, <2>3, <2>4, QuietStep
  <1> QED BY <1>7, <1>8, <1>9

-----------------------------------------------------------------------------
(* The calls that reach no backend.                                         *)

LEMMA RefusedKeeps ==
  ASSUME EvidenceInv, Len(events) < MaxCalls, NEW p \in Paths,
         NEW m \in {"content", "exact"}, ReadRefused(p, m)
  PROVE  EvidenceInv'
  <1>1. UNCHANGED <<head, paths, reads, srch>>
    BY DEF ReadRefused
  <1>2. CASE /\ p \in removed /\ m = "exact"
             /\ Record(Quoting("head", Answer("exact", p, {}, "hit", "exact_path_state",
                                              "absent")))
    <2> DEFINE e == Answer("exact", p, {}, "hit", "exact_path_state", "absent")
               q == Quoting("head", e)
    <2>1. e \in Event
      <3>1. /\ "exact" \in Modes /\ {} \in SUBSET Literals /\ "hit" \in Outcomes
            /\ "exact_path_state" \in Coverage /\ "absent" \in Observed
        BY DEF Modes, Outcomes, Coverage, Observed
      <3> QED BY <3>1, AnswerIs
    <2>2. e.backend = TRUE /\ e.mode = "exact" /\ e.arg = p /\ e.obs = "absent"
      BY DEF Answer
    <2>3. kind[p] = "missing"
      BY <1>2 DEF EvidenceInv, HeadInv
    <2> HIDE DEF e
    <2>4. q \in Event /\ Said(q) /\ Rests(q, Len(events))
      BY <2>1, <2>2, <2>3, QuotingIs DEF Said, Rests, Sources
    <2>5. Record(q)
      BY <1>2 DEF e
    <2> HIDE DEF q
    <2> QED BY <1>1, <2>4, <2>5, QuietStep
  <1>3. CASE \E obs \in {"unknown", "content_unobserved"} :
               \/ Record(Answer(m, p, {}, "excluded_sensitive", "none", obs))
               \/ Record(Quoting("head", Answer(m, p, {}, "removed_path", "none", obs)))
    <2>1. /\ {"excluded_sensitive", "removed_path"} \subseteq Outcomes \ {"hit"}
          /\ "head" \in Sources /\ {} \in SUBSET Literals
          /\ {"unknown", "content_unobserved"} \subseteq Observed
          /\ m \in Modes
      BY DEF Modes, Outcomes, Observed, Sources
    <2> QED BY <1>1, <1>3, <2>1, QuietMiss, QuietQuote
  <1> QED BY <1>2, <1>3 DEF ReadRefused

LEMMA ExactFromInventoryKeeps ==
  ASSUME EvidenceInv, Len(events) < MaxCalls, NEW p \in Paths, ExactFromInventory(p)
  PROVE  EvidenceInv'
  <1>1. UNCHANGED <<head, paths, reads, srch>>
    BY DEF ExactFromInventory
  <1>2. CASE /\ ExactPathState(p) \in {"present", "absent"}
             /\ Record(Quoting("inventory", Answer("exact", p, {}, "hit", "exact_path_state",
                                                   ExactPathState(p))))
    <2> DEFINE e == Answer("exact", p, {}, "hit", "exact_path_state", ExactPathState(p))
               q == Quoting("inventory", e)
    <2>1. e \in Event
      <3>1. /\ "exact" \in Modes /\ {} \in SUBSET Literals /\ "hit" \in Outcomes
            /\ "exact_path_state" \in Coverage /\ ExactPathState(p) \in Observed
        BY <1>2 DEF Modes, Outcomes, Coverage, Observed
      <3> QED BY <3>1, AnswerIs
    <2>2. e.backend = TRUE /\ e.mode = "exact" /\ e.arg = p /\ e.obs = ExactPathState(p)
      BY DEF Answer
    <2>3. ExactPathState(p) = "absent" <=> kind[p] = "missing"
      <3>1. p \in discoverable => kind[p] \in Files
        BY DEF EvidenceInv, ReadsInv, PathsAgree
      <3>2. kind[p] \in Kinds
        BY DEF EvidenceInv, ReadsInv, TypeOK
      <3>3. status = "complete" /\ kind[p] \in Files \cup {"directory"} =>
              p \in listed /\ (kind[p] \in Files => p \in discoverable)
        BY DEF EvidenceInv, HeadInv
      <3> QED BY <1>2, <3>1, <3>2, <3>3 DEF ExactPathState, Files, Kinds, Text
    <2> HIDE DEF e
    <2>4. q \in Event /\ Said(q) /\ Rests(q, Len(events))
      BY <2>1, <2>2, <2>3, QuotingIs DEF Said, Rests, Sources
    <2>5. Record(q)
      BY <1>2 DEF e
    <2> HIDE DEF q
    <2> QED BY <1>1, <2>4, <2>5, QuietStep
  <1>3. CASE \/ Record(Answer("exact", p, {}, "quota_exhausted", "none", "unknown"))
             \/ Record(Quoting("inventory", Answer("exact", p, {}, "no_hit", "none", "unknown")))
    <2>1. /\ {"quota_exhausted", "no_hit"} \subseteq Outcomes \ {"hit"}
          /\ "inventory" \in Sources /\ {} \in SUBSET Literals
          /\ "unknown" \in Observed /\ "exact" \in Modes
      BY DEF Modes, Outcomes, Observed, Sources
    <2> QED BY <1>1, <1>3, <2>1, QuietMiss, QuietQuote
  <1> QED BY <1>2, <1>3 DEF ExactFromInventory

LEMMA WithoutBackendKeeps ==
  ASSUME EvidenceInv, Len(events) < MaxCalls, NEW p \in Paths, NEW s \in SUBSET Literals,
         ReadWithoutBackend(p, s)
  PROVE  EvidenceInv'
  <1>1. PICK out \in {"invalid_path", "quota_exhausted", "no_hit", "repeat"},
             obs \in {"content_unobserved", "not_applicable"} :
          /\ \/ Record(Answer("content", p, s, out, "none", obs))
             \/ Record(Quoting("inventory", Answer("content", p, s, out, "none", obs)))
          /\ readErr' \subseteq readErr \cup {p}
          /\ nonExistent' \subseteq nonExistent \cup {p}
    BY DEF ReadWithoutBackend
  <1> DEFINE e == Answer("content", p, s, out, "none", obs)
  <1>2. e \in Event /\ Said(e) /\ Rests(e, Len(events))
    BY Unheard DEF Modes, Outcomes, Observed
  <1>3. UNCHANGED <<head, paths, readCalls, cached, collected, readOk, srch>>
    BY DEF ReadWithoutBackend
  <1>4. PathsAgree' /\ BudgetsHold'
    BY <1>3 DEF EvidenceInv, ReadsInv, PathsAgree, BudgetsHold, head, paths, srch
  <1>5. Record(e) \/ Record(Quoting("inventory", e))
    BY <1>1
  <1> HIDE DEF e
  <1>6. PICK q \in Event : Record(q) /\ Said(q) /\ Rests(q, Len(events))
    BY <1>2, <1>5, QuotingIs DEF Sources
  <1> QED BY <1>1, <1>3, <1>4, <1>6, StepKeeps
          DEF EvidenceInv, ReadsInv, TypeOK, head, paths, srch

-----------------------------------------------------------------------------
(* The calls that read the head.                                            *)

\* What a text body is reported as: a slice that holds an asked literal, the
\* whole of a small file, or nothing.
LEMMA RenderedIs ==
  ASSUME NEW p \in Paths, NEW s \in SUBSET Literals, kind[p] \in Text, NEW n
  PROVE  /\ Rendered(p, s) \in Event
         /\ Said(Rendered(p, s)) /\ Rests(Rendered(p, s), n)
         /\ Rendered(p, s).arg = p /\ Rendered(p, s).mode = "content"
         /\ Rendered(p, s).backend
         /\ Rendered(p, s).outcome = "hit" \/ Excused(Rendered(p, s))
  <1> DEFINE e == Rendered(p, s)
             hit(cov) == Answer("content", p, s, "hit", cov, "content_observed")
             whole == kind[p] = "small"
  <1>0. /\ "content" \in Modes /\ "hit" \in Outcomes /\ "no_hit" \in Outcomes
        /\ {"file_slice", "full_file", "none"} \subseteq Coverage
        /\ {"content_observed", "content_unobserved"} \subseteq Observed
    BY DEF Modes, Outcomes, Coverage, Observed
  <1>1. ASSUME NEW cov \in {"file_slice", "full_file"}, NEW w \in BOOLEAN,
               e = [hit(cov) EXCEPT !.full = w]
        PROVE  /\ e \in Event /\ e.mode = "content" /\ e.arg = p /\ e.syms = s
               /\ e.cov = cov /\ e.full = w /\ e.backend = TRUE /\ e.outcome = "hit"
    <2>1. hit(cov) \in Event
      BY <1>0, AnswerIs
    <2>2. /\ hit(cov).mode = "content" /\ hit(cov).arg = p /\ hit(cov).syms = s
          /\ hit(cov).cov = cov /\ hit(cov).backend = TRUE /\ hit(cov).outcome = "hit"
      BY DEF Answer
    <2> PICK h \in Event : h = hit(cov)
      BY <2>1
    <2> HIDE DEF e, hit
    <2>3. e = [h EXCEPT !.full = w]
      BY <1>1
    <2>4. /\ e \in Event /\ e.mode = h.mode /\ e.arg = h.arg /\ e.syms = h.syms
          /\ e.cov = h.cov /\ e.full = w /\ e.backend = h.backend
          /\ e.outcome = h.outcome
      BY <2>3 DEF Event
    <2> QED BY <2>2, <2>4
  <1>2. CASE s \cap has[p] # {}
    <2>1. e = [hit("file_slice") EXCEPT !.full = whole]
      BY <1>2 DEF Rendered
    <2>2. /\ e \in Event /\ e.mode = "content" /\ e.arg = p /\ e.syms = s
          /\ e.cov = "file_slice" /\ e.full = whole /\ e.backend = TRUE
          /\ e.outcome = "hit"
      BY <1>1, <2>1
    <2> HIDE DEF e
    <2>3. Said(e) /\ Rests(e, n)
      BY <1>2, <2>2 DEF Said, Rests
    <2> QED BY <2>2, <2>3 DEF e
  <1>3. CASE s \cap has[p] = {} /\ whole
    <2>1. e = [hit("full_file") EXCEPT !.full = TRUE]
      BY <1>3 DEF Rendered
    <2>2. /\ e \in Event /\ e.mode = "content" /\ e.arg = p
          /\ e.cov = "full_file" /\ e.backend = TRUE /\ e.outcome = "hit"
      BY <1>1, <2>1
    <2> HIDE DEF e
    <2>3. Said(e) /\ Rests(e, n)
      BY <1>3, <2>2 DEF Said, Rests
    <2> QED BY <2>2, <2>3 DEF e
  <1>4. CASE s \cap has[p] = {} /\ ~ whole
    <2>1. e = Answer("content", p, s, "no_hit", "none", "content_unobserved")
      BY <1>4 DEF Rendered
    <2>2. e \in Event /\ Said(e) /\ Rests(e, n)
      BY <1>0, <2>1, Unheard
    <2>3. /\ e.arg = p /\ e.mode = "content" /\ e.backend /\ e.outcome = "no_hit"
          /\ e.syms = s
      BY <2>1 DEF Answer
    <2> HIDE DEF e
    <2>4. Excused(e)
      BY <1>4, <2>3 DEF Excused, Text
    <2> QED BY <2>2, <2>3, <2>4 DEF e
  <1> QED BY <1>2, <1>3, <1>4

\* A read that yields no text.
LEMMA FailedRead ==
  ASSUME NEW p \in Paths, NEW s \in SUBSET Literals, NEW fails \in BOOLEAN,
         ReadText(p, fails) # "success", NEW n
  PROVE  LET e == Answer("content", p, s, ReadText(p, fails), "none", "content_unobserved")
         IN  /\ e \in Event /\ Said(e) /\ Rests(e, n)
             /\ e.arg = p /\ e.mode = "content" /\ e.backend
             /\ kind[p] \in Files => Excused(e)
  <1> DEFINE out == ReadText(p, fails)
             e == Answer("content", p, s, out, "none", "content_unobserved")
  <1>1. out \in Outcomes \ {"hit"} /\ "content" \in Modes /\ "content_unobserved" \in Observed
    BY DEF ReadText, Outcomes, Modes, Observed
  <1>2. e \in Event /\ Said(e) /\ Rests(e, n)
    BY <1>1, Unheard
  <1>3. e.arg = p /\ e.mode = "content" /\ e.backend /\ e.outcome = out
    BY DEF Answer
  <1>4. kind[p] \in Files => out \in {"error", "unreadable", "excluded_by_policy"}
    BY DEF ReadText, Files, Text
  <1> HIDE DEF e, out
  <1>5. kind[p] \in Files => Excused(e)
    BY <1>3, <1>4 DEF Excused
  <1> QED BY <1>2, <1>3, <1>5 DEF e, out

LEMMA TextRead ==
  ASSUME NEW p, NEW fails, ReadText(p, fails) = "success"
  PROVE  kind[p] \in Text
  BY DEF ReadText

\* A probe stays within its allowance and only adds files.
LEMMA ProbeBudget ==
  ASSUME BudgetsHold, TypeOK, NEW p \in Paths, CanDirectProbe(p)
  PROVE  /\ IsFiniteSet(probes \cup {p})
         /\ Cardinality(probes \cup {p}) <= ProbeCap
  <1>1. Cardinality(probes \cup {p}) = Cardinality(probes) + 1
        /\ IsFiniteSet(probes \cup {p}) /\ Cardinality(probes) \in Nat
    BY FS_AddElement, FS_CardinalityType DEF BudgetsHold, CanDirectProbe
  <1> QED BY <1>1, ReadsAssumption DEF CanDirectProbe

LEMMA ExactProbeKeeps ==
  ASSUME EvidenceInv, Len(events) < MaxCalls, NEW p \in Paths, NEW fails \in BOOLEAN,
         ExactProbe(p, fails)
  PROVE  /\ EvidenceInv' /\ p \notin probes /\ p \notin accessible
         /\ readCalls' = readCalls + 1 /\ probes' = probes \cup {p}
         /\ UNCHANGED <<head, accessible, collected>>
         /\ \E e \in Event : /\ Record(e) /\ e.mode = "exact" /\ e.arg = p
                             /\ e.backend /\ e.src = "head"
  <1> DEFINE out == ReadText(p, fails)
             seen == IF out = "not_found" THEN "absent" ELSE "present"
             unclear == out \in {"error", "excluded_by_policy"}
             e == IF unclear
                  THEN Answer("exact", p, {}, "error", "none", "unknown")
                  ELSE Answer("exact", p, {}, "hit", "exact_path_state", seen)
             q == Quoting("head", e)
  <1>0. /\ "exact" \in Modes /\ {"hit", "error"} \subseteq Outcomes
        /\ {"exact_path_state", "none"} \subseteq Coverage
        /\ {"present", "absent", "unknown"} \subseteq Observed /\ {} \in SUBSET Literals
    BY DEF Modes, Outcomes, Coverage, Observed
  <1>1. e \in Event /\ Said(e) /\ Rests(e, Len(events)) /\ e.arg = p
    <2>1. CASE unclear
      <3>1. e = Answer("exact", p, {}, "error", "none", "unknown")
        BY <2>1
      <3>2. e \in Event /\ Said(e) /\ Rests(e, Len(events))
        BY <1>0, <3>1, Unheard
      <3> QED BY <3>1, <3>2 DEF Answer
    <2>2. CASE ~ unclear
      <3>1. e = Answer("exact", p, {}, "hit", "exact_path_state", seen)
        BY <2>2
      <3>2. e \in Event
        BY <1>0, <3>1, AnswerIs
      <3>3. e.backend = TRUE /\ e.mode = "exact" /\ e.arg = p /\ e.obs = seen
        BY <3>1 DEF Answer
      <3>4. seen = "absent" <=> kind[p] = "missing"
        BY <2>2 DEF ReadText, Text
      <3> HIDE DEF e, seen
      <3> QED BY <3>2, <3>3, <3>4 DEF Said, Rests
    <2> QED BY <2>1, <2>2
  <1>2. Record(q) /\ Charge /\ RecordProbe(p, out = "success")
        /\ UNCHANGED <<head, accessible, cached, collected, readOk, readErr, nonExistent, srch>>
        /\ readCalls < MaxReads /\ CanDirectProbe(p) /\ ExactPathState(p) = "unknown"
    BY DEF ExactProbe
  <1>11. e.mode = "exact" /\ e.backend
    BY DEF Answer
  <1> HIDE DEF e
  <1>12. /\ q \in Event /\ Said(q) /\ Rests(q, Len(events))
         /\ q.arg = p /\ q.mode = "exact" /\ q.backend /\ q.src = "head"
    BY <1>1, <1>11, QuotingIs DEF Sources
  <1> HIDE DEF q
  <1>3. IsFiniteSet(probes') /\ Cardinality(probes') <= ProbeCap /\ probes' \subseteq Paths
    BY <1>2, ProbeBudget DEF EvidenceInv, ReadsInv, TypeOK, RecordProbe
  <1>4. readCalls' \in Nat /\ readCalls' <= MaxReads
    BY <1>2, ReadsAssumption DEF Charge, EvidenceInv, ReadsInv, TypeOK
  <1>5. discoverable' \subseteq {w \in Paths : kind[w] \in Files}
        /\ discoverable \subseteq discoverable'
    BY <1>2, TextRead DEF RecordProbe, EvidenceInv, ReadsInv, PathsAgree, Text, Files
  <1>6. PathsAgree'
    BY <1>2, <1>5 DEF EvidenceInv, ReadsInv, PathsAgree, head
  <1>7. BudgetsHold'
    BY <1>2, <1>3, <1>4 DEF EvidenceInv, ReadsInv, BudgetsHold, srch
  <1>8. EvidenceInv'
    BY <1>12, <1>2, <1>3, <1>4, <1>5, <1>6, <1>7, StepKeeps
    DEF EvidenceInv, ReadsInv, TypeOK, srch
  <1>9. p \notin probes /\ p \notin accessible
    BY <1>2 DEF ExactPathState, EvidenceInv, ReadsInv, PathsAgree, CanDirectProbe
  <1> QED BY <1>2, <1>8, <1>9, <1>12 DEF Charge, RecordProbe

\* The end of a content read: one more charged call, whose text is kept.
LEMMA ContentReadKeeps ==
  ASSUME EvidenceInv, Len(events) < MaxCalls, NEW p \in Paths, NEW s \in SUBSET Literals,
         NEW fails \in BOOLEAN, ReadBackend(p, s, fails) \/ ReadByProbe(p, s, fails)
  PROVE  /\ EvidenceInv' /\ readCalls' = readCalls + 1
         /\ collected \subseteq collected' /\ UNCHANGED head
         /\ \/ /\ p \in accessible /\ p \notin collected
               /\ UNCHANGED <<probes, accessible>>
            \/ /\ p \notin accessible /\ p \notin probes
               /\ probes' = probes \cup {p}
               /\ accessible \subseteq accessible' /\ accessible' \subseteq accessible \cup {p}
         /\ \E e \in Event :
              /\ Record(e) /\ e.mode = "content" /\ e.arg = p /\ e.backend /\ e.src = "head"
              /\ \/ p \notin accessible'
                 \/ p \in collected'
                 \/ Excused(e)
  <1> DEFINE out == ReadText(p, fails)
             miss == Answer("content", p, s, out, "none", "content_unobserved")
             e == IF out = "success" THEN Rendered(p, s) ELSE miss
             q == Quoting("head", e)
  <1>1. /\ e \in Event /\ Said(e) /\ Rests(e, Len(events))
        /\ e.arg = p /\ e.mode = "content" /\ e.backend
    BY RenderedIs, FailedRead, TextRead
  <1>2. /\ Record(q) /\ Charge /\ readCalls < MaxReads
        /\ UNCHANGED <<head, nonExistent, srch>>
        /\ readErr' \subseteq readErr \cup {p}
    BY DEF ReadBackend, ReadByProbe, Keep, Unread, Fetchable
  <1>3. /\ out # "success" => UNCHANGED <<accessible, cached, collected, readOk>>
        /\ out = "success" =>
             /\ cached' = IF kind[p] = "huge" THEN cached ELSE cached \cup {p}
             /\ accessible' = accessible \cup {p}
             /\ \/ collected' = collected \cup {p} /\ readOk' = readOk \cup {p}
                \/ e.outcome # "hit" /\ UNCHANGED <<collected, readOk>>
    BY DEF ReadBackend, ReadByProbe, Keep, Unread, Fetchable, paths
  <1>4. \/ p \in accessible /\ UNCHANGED <<probes, discoverable, accessible>>
        \/ /\ p \notin accessible /\ CanDirectProbe(p) /\ probes' = probes \cup {p}
           /\ discoverable' = IF out = "success" THEN discoverable \cup {p} ELSE discoverable
    BY DEF ReadBackend, ReadByProbe, Fetchable, RecordProbe, paths
  <1>5. p \notin collected
    BY DEF ReadBackend, ReadByProbe, Fetchable, EvidenceInv, ReadsInv, PathsAgree
  <1>17. /\ out = "success" => e.outcome = "hit" \/ Excused(e)
         /\ out # "success" => p \notin accessible \/ Excused(e)
    <2>1. p \in accessible => kind[p] \in Files
      BY DEF EvidenceInv, ReadsInv, PathsAgree
    <2> QED BY <2>1, RenderedIs, FailedRead, TextRead
  <1> HIDE DEF e
  <1>18. /\ q \in Event /\ Said(q) /\ Rests(q, Len(events))
         /\ q.arg = p /\ q.mode = "content" /\ q.backend /\ q.src = "head"
         /\ q.outcome = e.outcome /\ (Excused(e) => Excused(q))
    <2>1. "head" \in Sources
      BY DEF Sources
    <2>2. /\ q \in Event /\ Said(q) /\ Rests(q, Len(events)) /\ q.arg = e.arg
          /\ q.mode = e.mode /\ q.backend = e.backend /\ q.src = "head"
          /\ q.outcome = e.outcome /\ q.syms = e.syms
      BY <1>1, <2>1, QuotingIs
    <2> HIDE DEF q
    <2> QED BY <1>1, <2>2 DEF Excused
  <1> HIDE DEF q
  <1>6. out = "success" => kind[p] \in Text
    BY TextRead
  <1> HIDE DEF out
  <1>7. IsFiniteSet(probes') /\ Cardinality(probes') <= ProbeCap /\ probes' \subseteq Paths
    BY <1>4, ProbeBudget DEF EvidenceInv, ReadsInv, TypeOK, BudgetsHold
  <1>8. readCalls' \in Nat /\ readCalls' <= MaxReads
    BY <1>2, ReadsAssumption DEF Charge, EvidenceInv, ReadsInv, TypeOK
  <1>9. discoverable' \subseteq {w \in Paths : kind[w] \in Files}
        /\ discoverable \subseteq discoverable' /\ accessible' \subseteq discoverable'
    BY <1>3, <1>4, <1>6 DEF EvidenceInv, ReadsInv, PathsAgree, Text, Files
  <1>10. /\ \A r \in collected' : kind[r] # "huge" => r \in cached'
         /\ collected' = readOk' /\ collected' \subseteq accessible'
         /\ cached' \subseteq {w \in accessible' : kind[w] \in Text}
    BY <1>3, <1>6 DEF EvidenceInv, ReadsInv, PathsAgree
  <1>11. kind' = kind
    BY <1>2 DEF head
  <1>12. PathsAgree'
    BY <1>9, <1>10, <1>11 DEF PathsAgree
  <1>13. BudgetsHold'
    BY <1>2, <1>7, <1>8 DEF EvidenceInv, ReadsInv, BudgetsHold, srch
  <1>14. /\ accessible' \subseteq Paths /\ cached' \subseteq Paths
         /\ collected' \subseteq Paths /\ readOk' \subseteq Paths
    BY <1>9, <1>10
  <1>15. /\ readErr' \subseteq Paths /\ nonExistent' \subseteq Paths
         /\ queries' \subseteq Literals /\ searchCalls' \in Nat
    BY <1>2 DEF EvidenceInv, ReadsInv, TypeOK, srch
  <1>16. EvidenceInv'
    BY <1>18, <1>2, <1>7, <1>8, <1>9, <1>12, <1>13, <1>14, <1>15, StepKeeps
  <1>19. p \notin accessible' \/ p \in collected' \/ Excused(q)
    BY <1>3, <1>4, <1>17, <1>18
  <1>20. /\ collected \subseteq collected' /\ readCalls' = readCalls + 1
         /\ \/ p \in accessible /\ p \notin collected /\ UNCHANGED <<probes, accessible>>
            \/ /\ p \notin accessible /\ p \notin probes /\ probes' = probes \cup {p}
               /\ accessible \subseteq accessible' /\ accessible' \subseteq accessible \cup {p}
    BY <1>2, <1>3, <1>4, <1>5 DEF Charge, CanDirectProbe
  <1> QED BY <1>2, <1>16, <1>18, <1>19, <1>20

-----------------------------------------------------------------------------
(* Searches and the listing.                                                *)

LEMMA SearchWithoutBackendKeeps ==
  ASSUME EvidenceInv, Len(events) < MaxCalls, NEW q \in Literals, SearchWithoutBackend(q)
  PROVE  EvidenceInv'
  <1>1. PICK out \in {"repeat", "quota_exhausted"} :
          Record(Answer("search", q, {}, out, "none", "not_applicable"))
    BY DEF SearchWithoutBackend
  <1>2. UNCHANGED <<head, paths, reads, srch>>
    BY DEF SearchWithoutBackend
  <1>3. /\ "search" \in Modes /\ {} \in SUBSET Literals
        /\ out \in Outcomes \ {"hit"} /\ "not_applicable" \in Observed
    BY DEF Modes, Outcomes, Observed
  <1> QED BY <1>1, <1>2, <1>3, QuietMiss

\* An attempted query is charged once.
LEMMA SearchBudget ==
  ASSUME BudgetsHold, TypeOK, NEW q \in Literals, SearchAllowed(q), SearchSpent(q)
  PROVE  /\ searchCalls' \in Nat /\ searchCalls' <= MaxSearches
         /\ IsFiniteSet(queries') /\ searchCalls' = Cardinality(queries')
         /\ queries' \subseteq Literals
  <1>1. q \notin queries /\ searchCalls < MaxSearches
        /\ queries' = queries \cup {q} /\ searchCalls' = searchCalls + 1
    BY DEF SearchAllowed, SearchSpent
  <1>2. IsFiniteSet(queries') /\ Cardinality(queries') = Cardinality(queries) + 1
    BY <1>1, FS_AddElement DEF BudgetsHold
  <1> QED BY <1>1, <1>2, ReadsAssumption DEF BudgetsHold, TypeOK

LEMMA SearchFailsKeeps ==
  ASSUME EvidenceInv, Len(events) < MaxCalls, NEW q \in Literals, SearchFails(q)
  PROVE  EvidenceInv'
  <1> DEFINE e == Answer("search", q, {}, "search_error", "none", "content_unobserved")
  <1>1. /\ "search" \in Modes /\ {} \in SUBSET Literals
        /\ "search_error" \in Outcomes \ {"hit"} /\ "content_unobserved" \in Observed
    BY DEF Modes, Outcomes, Observed
  <1>2. e \in Event /\ Said(e) /\ Rests(e, Len(events))
    BY <1>1, Unheard
  <1>3. Record(e) /\ UNCHANGED <<head, paths, reads>>
    BY DEF SearchFails
  <1> HIDE DEF e
  <1>4. /\ searchCalls' \in Nat /\ searchCalls' <= MaxSearches
        /\ IsFiniteSet(queries') /\ searchCalls' = Cardinality(queries')
        /\ queries' \subseteq Literals
    BY SearchBudget DEF SearchFails, EvidenceInv, ReadsInv
  <1>5. PathsAgree' /\ BudgetsHold'
    BY <1>3, <1>4 DEF EvidenceInv, ReadsInv, PathsAgree, BudgetsHold, head, paths, reads
  <1> QED BY <1>2, <1>3, <1>4, <1>5, StepKeeps
          DEF EvidenceInv, ReadsInv, TypeOK, head, paths, reads

LEMMA SearchHitsKeeps ==
  ASSUME EvidenceInv, Len(events) < MaxCalls, NEW q \in Literals,
         NEW found \in SUBSET Paths, NEW probed \in SUBSET found,
         NEW read \in SUBSET found, SearchHits(q, found, probed, read)
  PROVE  EvidenceInv'
  <1> DEFINE safe == {p \in found : kind[p] # "sensitive"}
             at == Relocated(q, read) = safe
             hit == Answer("search", q, {}, "hit", "search_snippet", "content_observed")
             none == Answer("search", q, {}, "no_hit", "none", "content_unobserved")
             e == IF safe = {} THEN none ELSE [hit EXCEPT !.found = safe, !.atHead = at]
  <1>0. /\ "search" \in Modes /\ {} \in SUBSET Literals
        /\ {"hit", "no_hit"} \subseteq Outcomes
        /\ {"search_snippet", "none"} \subseteq Coverage
        /\ {"content_observed", "content_unobserved"} \subseteq Observed
    BY DEF Modes, Outcomes, Coverage, Observed
  <1>1. e \in Event /\ Said(e) /\ Rests(e, Len(events))
    <2>1. CASE safe = {}
      <3>1. e = none
        BY <2>1
      <3> QED BY <1>0, <3>1, Unheard
    <2>2. CASE safe # {}
      <3>1. hit \in Event
        BY <1>0, AnswerIs
      <3>2. hit.mode = "search" /\ hit.arg = q /\ hit.backend = TRUE
        BY DEF Answer
      <3>3. at => \A p \in safe : q \in has[p]
        BY DEF Relocated
      <3>4. e = [hit EXCEPT !.found = safe, !.atHead = at] /\ at \in BOOLEAN
            /\ safe \in SUBSET Paths
        BY <2>2
      <3> PICK h \in Event : h = hit
        BY <3>1
      <3> HIDE DEF e, hit, safe, at
      <3>5. e = [h EXCEPT !.found = safe, !.atHead = at]
        BY <3>4
      <3>6. /\ e \in Event /\ e.mode = h.mode /\ e.arg = h.arg /\ e.backend = h.backend
            /\ e.found = safe /\ e.atHead = at
        BY <3>4, <3>5 DEF Event
      <3> QED BY <3>2, <3>3, <3>6 DEF Said, Rests
    <2> QED BY <2>1, <2>2
  <1>2. /\ Record(e) /\ UNCHANGED <<head, reads>>
        /\ probes' = probes \cup probed
        /\ discoverable' = discoverable \cup (probed \cap read)
        /\ accessible' = accessible \cup (probed \cap read)
        /\ \A p \in read : kind[p] \in Text
        /\ Cardinality(probes') <= ProbeCap
    <2>1. Record(e)
      BY DEF SearchHits
    <2>2. UNCHANGED <<head, reads>> /\ probes' = probes \cup probed
          /\ discoverable' = discoverable \cup (probed \cap read)
          /\ accessible' = accessible \cup (probed \cap read)
      BY DEF SearchHits
    <2>3. read \subseteq {p \in (safe \cap accessible) \cup probed : kind[p] \in Text}
      BY DEF SearchHits
    <2>4. Cardinality(probes \cup probed) <= ProbeCap
      <3>1. Cardinality(probes \cup probed) <= ProbeCap \/ Cardinality(probes \cup probed) = ProbeCap
        BY DEF SearchHits
      <3> QED BY <3>1, ReadsAssumption
    <2> QED BY <2>1, <2>2, <2>3, <2>4
  <1> HIDE DEF e
  <1>3. probes' \subseteq Paths /\ IsFiniteSet(probes')
    BY <1>2, ReadsAssumption, FS_Subset DEF EvidenceInv, ReadsInv, TypeOK
  <1>4. /\ searchCalls' \in Nat /\ searchCalls' <= MaxSearches
        /\ IsFiniteSet(queries') /\ searchCalls' = Cardinality(queries')
        /\ queries' \subseteq Literals
    BY SearchBudget DEF SearchHits, EvidenceInv, ReadsInv
  <1>5. /\ discoverable' \subseteq {p \in Paths : kind[p] \in Files}
        /\ accessible' \subseteq discoverable' /\ discoverable \subseteq discoverable'
        /\ accessible \subseteq accessible'
    BY <1>2 DEF EvidenceInv, ReadsInv, PathsAgree, Text, Files
  <1>6. PathsAgree'
    BY <1>2, <1>5 DEF EvidenceInv, ReadsInv, PathsAgree, head, reads
  <1>7. BudgetsHold'
    BY <1>2, <1>3, <1>4 DEF EvidenceInv, ReadsInv, BudgetsHold, reads
  <1>8. /\ readCalls' \in Nat /\ cached' \subseteq Paths /\ collected' \subseteq Paths
        /\ readOk' \subseteq Paths /\ readErr' \subseteq Paths /\ nonExistent' \subseteq Paths
    BY <1>2 DEF EvidenceInv, ReadsInv, TypeOK, reads
  <1>9. discoverable' \subseteq Paths /\ accessible' \subseteq Paths
    BY <1>5
  <1> QED BY <1>1, <1>2, <1>3, <1>4, <1>5, <1>6, <1>7, <1>8, <1>9, StepKeeps

LEMMA ListDirKeeps ==
  ASSUME EvidenceInv, Len(events) < MaxCalls, ListDir
  PROVE  EvidenceInv'
  <1>1. UNCHANGED <<head, paths, reads, srch>>
    BY DEF ListDir
  <1>2. "list" \in Modes /\ {} \in SUBSET Literals /\ "not_applicable" \in Observed
        /\ "root" \in Paths \cup Literals \cup {"root"}
        /\ {"hit", "no_hit", "error"} \subseteq Outcomes /\ "directory_inventory" \in Coverage
    BY DEF Modes, Observed, Outcomes, Coverage
  <1>3. CASE Record(Answer("list", "root", {}, "hit", "directory_inventory", "not_applicable"))
    <2> DEFINE e == Answer("list", "root", {}, "hit", "directory_inventory", "not_applicable")
    <2>1. e \in Event
      BY <1>2, AnswerIs
    <2>2. e.mode = "list" /\ e.backend = TRUE
      BY DEF Answer
    <2> HIDE DEF e
    <2>3. Said(e) /\ Rests(e, Len(events))
      BY <2>2 DEF Said, Rests
    <2>4. Record(e)
      BY <1>3 DEF e
    <2> QED BY <1>1, <2>1, <2>3, <2>4, QuietStep
  <1>4. CASE \E out \in {"error", "no_hit"} :
               Record(Answer("list", "root", {}, out, "none", "not_applicable"))
    <2> PICK out \in {"error", "no_hit"} :
               Record(Answer("list", "root", {}, out, "none", "not_applicable"))
      BY <1>4
    <2>1. out \in Outcomes \ {"hit"}
      BY <1>2
    <2> QED BY <1>1, <1>2, <2>1, QuietMiss
  <1> QED BY <1>3, <1>4 DEF ListDir

-----------------------------------------------------------------------------
(* The whole specification.                                                 *)

\* The fetched inventory describes the head, and nothing is logged yet.
LEMMA EvidenceInit ==
  Init => EvidenceInv
  <1> SUFFICES ASSUME Init PROVE EvidenceInv
    OBVIOUS
  <1>1. listed \subseteq {p \in Paths : kind[p] \in Files \cup {"directory"}}
        /\ (status = "complete" =>
              listed = {p \in Paths : kind[p] \in Files \cup {"directory"}})
    BY DEF Init, TreeListing, Statuses
  <1>2. events = <<>> /\ Len(events) = 0 /\ events \in Seq(Event)
    BY DEF Init
  <1>3. TypeOK
    BY <1>1, <1>2, ReadsAssumption DEF Init, TypeOK
  <1>4. HeadInv
    BY <1>1 DEF Init, HeadInv
  <1>5. PathsAgree
    BY <1>1 DEF Init, PathsAgree
  <1>6. BudgetsHold
    BY FS_EmptySet, ReadsAssumption DEF Init, BudgetsHold
  <1>7. LogInv
    BY <1>2 DEF LogInv
  <1> QED BY <1>3, <1>4, <1>5, <1>6, <1>7 DEF EvidenceInv, ReadsInv

\* Every tool call keeps the invariant, whatever it is asked and answers.
LEMMA EvidenceInductive ==
  EvidenceInv /\ [Next]_vars => EvidenceInv'
  <1> SUFFICES ASSUME EvidenceInv, [Next]_vars PROVE EvidenceInv'
    OBVIOUS
  <1>1. CASE UNCHANGED vars
    BY <1>1 DEF vars, head, paths, reads, srch, EvidenceInv, ReadsInv, TypeOK, PathsAgree,
                BudgetsHold, HeadInv, LogInv, Said, Rests
  <1>2. CASE Next
    <2>0. Len(events) < MaxCalls
      BY <1>2 DEF Next
    <2>1. ASSUME NEW p \in Paths, NEW s \in SUBSET Literals, ReadContent(p, s)
          PROVE  EvidenceInv'
      BY <2>0, <2>1, DeriveContentKeeps, RefusedKeeps, WithoutBackendKeeps, ContentReadKeeps
      DEF ReadContent
    <2>2. ASSUME NEW p \in Paths, CheckExactPath(p)
          PROVE  EvidenceInv'
      <3>1. "exact" \in Modes \ {"content"}
        BY DEF Modes
      <3> QED BY <2>0, <2>2, <3>1, DeriveSameKeeps, RefusedKeeps, ExactFromInventoryKeeps,
                 ExactProbeKeeps DEF CheckExactPath
    <2>3. ASSUME NEW q \in Literals, SearchCode(q)
          PROVE  EvidenceInv'
      <3>1. "search" \in Modes \ {"content"}
        BY DEF Modes
      <3> QED BY <2>0, <2>3, <3>1, DeriveSameKeeps, SearchWithoutBackendKeeps,
                 SearchFailsKeeps, SearchHitsKeeps DEF SearchCode
    <2>4. CASE ListDir \/ DeriveSame("list", "root")
      <3>1. "list" \in Modes \ {"content"}
        BY DEF Modes
      <3> QED BY <2>0, <2>4, <3>1, ListDirKeeps, DeriveSameKeeps
    <2> QED BY <1>2, <2>1, <2>2, <2>3, <2>4 DEF Next
  <1> QED BY <1>1, <1>2

\* The inductive invariant: the path lists describe the head, every hit in the
\* log is true of it, and every reused hit rests on an earlier one.
THEOREM EvidenceIsSound == Spec => []EvidenceInv
  BY EvidenceInit, EvidenceInductive, PTL DEF Spec

\* Types, path lists and budgets: the collection only reads files of the
\* head, and probes, reads and searches stay within their allowances.
THEOREM PathsAndBudgets == Spec => []ReadsInv
  <1>1. EvidenceInv => ReadsInv
    BY DEF EvidenceInv
  <1> QED BY <1>1, EvidenceIsSound, PTL

\* Whatever ToolExecutor lets a later stage cite is true of the PR head.
THEOREM EvidenceHoldsAtHead == Spec => []EvidenceIsTrueAtHead
  <1>1. EvidenceInv => EvidenceIsTrueAtHead
    <2> SUFFICES ASSUME EvidenceInv, NEW i \in 1 .. Len(events), Supports(events[i])
                 PROVE  TrueAtHead(events[i])
      BY DEF EvidenceIsTrueAtHead
    <2>1. Said(events[i]) /\ events[i] \in Event
      BY DEF EvidenceInv, ReadsInv, TypeOK, LogInv
    <2> PICK e \in Event : e = events[i]
      BY <2>1
    <2>2. e.mode \in Modes
      BY DEF Event
    <2> QED BY <2>1, <2>2 DEF Said, Supports, TrueAtHead, Modes
  <1> QED BY <1>1, EvidenceIsSound, PTL

\* A reused observation rests on a hit, and that on a call that was made.
THEOREM ReuseRestsOnACall == Spec => []DerivedRestsOnAnEarlierHit
  <1>1. EvidenceInv => DerivedRestsOnAnEarlierHit
    BY DEF EvidenceInv, LogInv, Rests, DerivedRestsOnAnEarlierHit
  <1> QED BY <1>1, EvidenceIsSound, PTL

-----------------------------------------------------------------------------
(* The bill.                                                                *)

\* Appending one event to the log adds it to the charged ones, or leaves them.
LEMMA BillGrows ==
  ASSUME TypeOK, NEW e, Record(e), UNCHANGED removed
  PROVE  LET paid == {i \in 1 .. Len(events) : Charged(events[i])} IN
         /\ Len(events') = Len(events) + 1 /\ Len(events) \in Nat
         /\ events'[Len(events')] = e
         /\ \A i \in 1 .. Len(events) : events'[i] = events[i]
         /\ Cardinality({i \in 1 .. Len(events) : Charged(events[i])})' =
              Cardinality(paid) + (IF Charged(e) THEN 1 ELSE 0)
  <1> DEFINE n == Len(events)
             paid == {i \in 1 .. n : Charged(events[i])}
             next == {i \in 1 .. Len(events') : Charged(events'[i])}
  <1>1. /\ n \in Nat /\ Len(events') = n + 1 /\ events'[n + 1] = e
        /\ \A i \in 1 .. n : events'[i] = events[i]
    <2>1. events \in Seq(Event \cup {e})
      BY DEF TypeOK
    <2> QED BY <2>1 DEF Record
  <1>2. IsFiniteSet(paid) /\ n + 1 \notin paid
    <2>1. IsFiniteSet(1 .. n)
      BY <1>1, FS_Interval
    <2> QED BY <1>1, <2>1, FS_Subset
  <1>3. next = IF Charged(e) THEN paid \cup {n + 1} ELSE paid
    BY <1>1
  <1>4. {i \in 1 .. Len(events) : Charged(events[i])}' = next
    BY DEF Charged
  <1>5. Cardinality(paid) \in Nat
    BY <1>2, FS_CardinalityType
  <1> HIDE DEF paid, next
  <1>6. Cardinality(next) = Cardinality(paid) + (IF Charged(e) THEN 1 ELSE 0)
    <2>1. Cardinality(paid \cup {n + 1}) = Cardinality(paid) + 1
      BY <1>2, FS_AddElement
    <2> QED BY <1>3, <1>5, <2>1
  <1> QED BY <1>1, <1>4, <1>6 DEF paid

\* What the lists and the allowance may do in a step: a path taken onto the
\* collection's list was not probed before.
Widens == /\ UNCHANGED head
          /\ probes \subseteq probes' /\ collected \subseteq collected'
          /\ accessible \subseteq accessible'
          /\ \A p \in accessible' \ accessible : p \notin probes

\* Such a step leaves every settled path settled.
LEMMA SettledStays ==
  ASSUME NEW e, Settled(e), Widens
  PROVE  Settled(e)'
  <1>1. Spent(e.arg) => Spent(e.arg)'
    BY DEF Spent, Widens
  <1>2. Excused(e) => Excused(e)'
    BY DEF Excused, Widens, head
  <1> QED BY <1>1, <1>2 DEF Settled, Widens

\* A call that is not charged leaves the bill as it is.
LEMMA UnbilledKeeps ==
  ASSUME EvidenceInv, BillInv, NEW e, Record(e), ~ Charged(e),
         UNCHANGED readCalls, Widens
  PROVE  BillInv'
  <1> DEFINE n == Len(events)
  <1>1. TypeOK /\ UNCHANGED <<kind, has, removed>>
    BY DEF EvidenceInv, ReadsInv, TypeOK, Widens, head
  <1>2. /\ Len(events') = n + 1 /\ n \in Nat
        /\ events'[n + 1] = e /\ \A i \in 1 .. n : events'[i] = events[i]
        /\ Cardinality({i \in 1 .. n : Charged(events[i])})' =
             Cardinality({i \in 1 .. n : Charged(events[i])}) + 0
    BY <1>1, BillGrows
  <1>3. ASSUME NEW i \in 1 .. n + 1, Charged(events[i])'
        PROVE  i \in 1 .. n /\ events'[i] = events[i] /\ Charged(events[i])
    BY <1>1, <1>2, <1>3 DEF Charged
  <1>4. ASSUME NEW i \in 1 .. n + 1, Charged(events[i])'
        PROVE  Settled(events[i])'
    <2>1. Settled(events[i]) /\ events'[i] = events[i]
      BY <1>3, <1>4 DEF BillInv
    <2> QED BY <2>1, SettledStays DEF Settled, Spent, Excused
  <1>5. readCalls' = Cardinality({i \in 1 .. n : Charged(events[i])})'
    <2> DEFINE paid == Cardinality({i \in 1 .. n : Charged(events[i])})
               now == Cardinality({i \in 1 .. n : Charged(events[i])})'
    <2>1. readCalls = paid /\ readCalls \in Nat
      BY DEF BillInv, RepeatsAreExcused, EvidenceInv, ReadsInv, TypeOK
    <2>2. now = paid + 0
      BY <1>2
    <2> HIDE DEF paid, now
    <2>3. readCalls' = now
      BY <2>1, <2>2
    <2> QED BY <2>3 DEF now
  <1>6. RepeatsAreExcused'
    <2>1. ASSUME NEW j \in 1 .. n + 1, NEW i \in 1 .. j - 1,
                 Charged(events[i])', Charged(events[j])'
          PROVE  /\ i \in 1 .. n /\ events'[i] = events[i] /\ Charged(events[i])
                 /\ j \in 1 .. n /\ events'[j] = events[j] /\ Charged(events[j])
      BY <1>2, <1>3, <2>1
    <2>2. accessible \subseteq accessible'
      BY DEF Widens
    <2> QED BY <1>1, <1>2, <1>5, <2>1, <2>2 DEF RepeatsAreExcused, BillInv
  <1> QED BY <1>2, <1>4, <1>6 DEF BillInv

\* A charged call, when every earlier payment for its path was excused.
LEMMA BilledKeeps ==
  ASSUME EvidenceInv, BillInv, NEW e, Record(e), Charged(e),
         readCalls' = readCalls + 1, Widens, Settled(e)',
         \A i \in 1 .. Len(events) :
           Charged(events[i]) /\ events[i].arg = e.arg =>
             Excused(events[i]) /\ e.mode = "content" /\ e.arg \in accessible
  PROVE  BillInv'
  <1> DEFINE n == Len(events)
  <1>1. TypeOK /\ UNCHANGED <<kind, has, removed>>
    BY DEF EvidenceInv, ReadsInv, TypeOK, Widens, head
  <1>2. /\ Len(events') = n + 1 /\ n \in Nat
        /\ events'[n + 1] = e /\ \A i \in 1 .. n : events'[i] = events[i]
        /\ Cardinality({i \in 1 .. n : Charged(events[i])})' =
             Cardinality({i \in 1 .. n : Charged(events[i])}) + 1
    BY <1>1, BillGrows
  <1>3. ASSUME NEW i \in 1 .. n, Charged(events[i])'
        PROVE  events'[i] = events[i] /\ Charged(events[i])
    BY <1>1, <1>2, <1>3 DEF Charged
  <1>4. ASSUME NEW i \in 1 .. n + 1, Charged(events[i])'
        PROVE  Settled(events[i])'
    <2>1. CASE i \in 1 .. n
      <3>1. Settled(events[i]) /\ events'[i] = events[i]
        BY <1>3, <1>4, <2>1 DEF BillInv
      <3> QED BY <3>1, SettledStays DEF Settled, Spent, Excused
    <2>2. CASE i = n + 1
      BY <1>2, <2>2 DEF Settled, Spent, Excused
    <2> QED BY <1>2, <2>1, <2>2
  <1>5. readCalls' = Cardinality({i \in 1 .. n : Charged(events[i])})'
    <2> DEFINE paid == Cardinality({i \in 1 .. n : Charged(events[i])})
               now == Cardinality({i \in 1 .. n : Charged(events[i])})'
    <2>1. readCalls = paid /\ readCalls \in Nat
      BY DEF BillInv, RepeatsAreExcused, EvidenceInv, ReadsInv, TypeOK
    <2>2. now = paid + 1
      BY <1>2
    <2> HIDE DEF paid, now
    <2>3. readCalls' = now
      BY <2>1, <2>2
    <2> QED BY <2>3 DEF now
  <1>6. RepeatsAreExcused'
    <2>1. ASSUME NEW j \in 1 .. n + 1, NEW i \in 1 .. j - 1,
                 Charged(events[i])', Charged(events[j])', events'[i].arg = events'[j].arg
          PROVE  LET p == events'[i].arg IN
                 /\ events'[i].mode = "content" /\ events'[j].mode = "content"
                 /\ p \in accessible'
                 /\ \/ events'[i].outcome \in {"error", "unreadable", "excluded_by_policy"}
                    \/ /\ events'[i].outcome = "no_hit"
                       /\ kind[p] \in {"middling", "large", "huge"}
                       /\ events'[i].syms \cap has[p] = {}
      <3>1. i \in 1 .. n
        BY <1>2
      <3>2. events'[i] = events[i] /\ Charged(events[i])
        BY <1>3, <2>1, <3>1
      <3>3. CASE j \in 1 .. n
        <4>1. events'[j] = events[j] /\ Charged(events[j])
          BY <1>3, <2>1, <3>3
        <4> QED BY <2>1, <3>2, <3>3, <4>1 DEF BillInv, RepeatsAreExcused, Widens
      <3>4. CASE j = n + 1
        BY <1>2, <2>1, <3>1, <3>2, <3>4 DEF Excused, Widens
      <3> QED BY <1>2, <3>3, <3>4
    <2> QED BY <1>1, <1>2, <1>5, <2>1 DEF RepeatsAreExcused
  <1> QED BY <1>2, <1>4, <1>6 DEF BillInv

\* What is answered from an earlier event or without a download is free.
LEMMA FreeCalls ==
  ASSUME EvidenceInv, BillInv, Len(events) < MaxCalls
  PROVE  /\ \A m \in Modes : \A a : DeriveSame(m, a) => BillInv'
         /\ \A p \in Paths, s \in SUBSET Literals : DeriveContent(p, s) => BillInv'
         /\ \A p \in Paths, m \in Modes : ReadRefused(p, m) => BillInv'
         /\ \A p \in Paths : ExactFromInventory(p) => BillInv'
         /\ \A p \in Paths, s \in SUBSET Literals : ReadWithoutBackend(p, s) => BillInv'
         /\ ListDir => BillInv'
  <1> DEFINE Quiet == UNCHANGED <<head, accessible, probes, collected, readCalls>>
  <1>0. ASSUME NEW e, Record(e), ~ Charged(e), Quiet PROVE BillInv'
    <2>1. Widens
      BY <1>0 DEF Widens
    <2> QED BY <1>0, <2>1, UnbilledKeeps
  <1>1. ASSUME NEW m, NEW a, NEW s, NEW o \in Outcomes, NEW c, NEW b
        PROVE  /\ ~ Charged(Answer(m, a, s, o, c, b))
               /\ ~ Charged(Quoting("inventory", Answer(m, a, s, o, c, b)))
               /\ a \in removed => ~ Charged(Quoting("head", Answer(m, a, s, o, c, b)))
    BY DEF Charged, Answer, Quoting
  <1>2. ASSUME NEW m \in Modes, NEW a, DeriveSame(m, a) PROVE BillInv'
    <2> DEFINE d == DerivedFrom(PriorHit(m, a), {})
    <2>1. d.backend = FALSE
      <3>1. d \in Event /\ events[PriorHit(m, a)] \in Event
        BY <1>2, DerivedRests DEF DeriveSame
      <3> QED BY <3>1 DEF DerivedFrom, Event
    <2>2. Record(d) /\ Quiet
      BY <1>2 DEF DeriveSame, Reuse, paths, reads
    <2> HIDE DEF d
    <2> QED BY <1>0, <2>1, <2>2 DEF Charged
  <1>3. ASSUME NEW p \in Paths, NEW s \in SUBSET Literals, DeriveContent(p, s) PROVE BillInv'
    <2> DEFINE d == DerivedFrom(PriorHit("content", p), s)
               e == DerivedRead(p, s)
    <2>1. d \in Event /\ d.backend = FALSE
      <3>1. d \in Event /\ events[PriorHit("content", p)] \in Event
        BY <1>3, DerivedRests DEF DeriveContent, Derivable
      <3> QED BY <3>1 DEF DerivedFrom, Event
    <2>2. \/ e = [d EXCEPT !.cov = "full_file"]
          \/ e = [d EXCEPT !.cov = "file_slice"]
          \/ e = [d EXCEPT !.outcome = "no_hit", !.cov = "none", !.obs = "content_unobserved"]
      BY DEF DerivedRead
    <2>3. Record(e) /\ Quiet
      BY <1>3 DEF DeriveContent, Reuse, paths, reads
    <2> HIDE DEF d, e
    <2>4. e.backend = FALSE
      BY <2>1, <2>2 DEF Event
    <2> QED BY <1>0, <2>3, <2>4 DEF Charged
  <1>4. ASSUME NEW p \in Paths, NEW m \in Modes, ReadRefused(p, m) PROVE BillInv'
    <2>1. Quiet /\ {"hit", "removed_path", "excluded_sensitive"} \subseteq Outcomes
      BY <1>4 DEF ReadRefused, paths, reads, Outcomes
    <2> HIDE DEF Quiet
    <2> QED BY <1>0, <1>1, <1>4, <2>1 DEF ReadRefused
  <1>5. ASSUME NEW p \in Paths, ExactFromInventory(p) PROVE BillInv'
    <2>1. Quiet /\ {"hit", "no_hit", "quota_exhausted"} \subseteq Outcomes
      BY <1>5 DEF ExactFromInventory, paths, reads, Outcomes
    <2> HIDE DEF Quiet
    <2> QED BY <1>0, <1>1, <1>5, <2>1 DEF ExactFromInventory
  <1>6. ASSUME NEW p \in Paths, NEW s \in SUBSET Literals, ReadWithoutBackend(p, s) PROVE BillInv'
    <2>1. Quiet /\ {"invalid_path", "quota_exhausted", "no_hit", "repeat"} \subseteq Outcomes
      BY <1>6 DEF ReadWithoutBackend, paths, Outcomes
    <2>2. PICK o \in Outcomes, b \in {"content_unobserved", "not_applicable"} :
            \/ Record(Answer("content", p, s, o, "none", b))
            \/ Record(Quoting("inventory", Answer("content", p, s, o, "none", b)))
      BY <1>6, <2>1 DEF ReadWithoutBackend
    <2> HIDE DEF Quiet
    <2> QED BY <1>0, <1>1, <2>1, <2>2
  <1>7. ASSUME ListDir PROVE BillInv'
    <2>1. Quiet /\ {"error", "hit", "no_hit"} \subseteq Outcomes
      BY <1>7 DEF ListDir, paths, reads, Outcomes
    <2>2. PICK o \in Outcomes, c \in {"none", "directory_inventory"} :
            Record(Answer("list", "root", {}, o, c, "not_applicable"))
      BY <1>7, <2>1 DEF ListDir
    <2> HIDE DEF Quiet
    <2> QED BY <1>0, <1>1, <2>1, <2>2
  <1> QED BY <1>2, <1>3, <1>4, <1>5, <1>6, <1>7

\* A search spends its own quota; the paths it lists were probed by it first.
LEMMA SearchesAreFree ==
  ASSUME EvidenceInv, BillInv, Len(events) < MaxCalls, NEW q \in Literals, SearchCode(q)
  PROVE  BillInv'
  <1>1. ASSUME NEW o, NEW c, NEW b PROVE ~ Charged(Answer("search", q, {}, o, c, b))
    BY DEF Charged, Answer
  <1>2. CASE DeriveSame("search", q)
    BY <1>2, FreeCalls DEF Modes
  <1>3. CASE SearchWithoutBackend(q) \/ SearchFails(q)
    <2>1. Widens /\ UNCHANGED readCalls
      BY <1>3 DEF SearchWithoutBackend, SearchFails, Widens, paths, reads
    <2>2. PICK o, b : Record(Answer("search", q, {}, o, "none", b))
      BY <1>3 DEF SearchWithoutBackend, SearchFails
    <2> QED BY <1>1, <2>1, <2>2, UnbilledKeeps
  <1>4. ASSUME NEW found \in SUBSET Paths, NEW probed \in SUBSET found,
               NEW read \in SUBSET found, SearchHits(q, found, probed, read)
        PROVE  BillInv'
    <2> DEFINE safe == {p \in found : kind[p] # "sensitive"}
               hit == Answer("search", q, {}, "hit", "search_snippet", "content_observed")
               e == IF safe = {}
                    THEN Answer("search", q, {}, "no_hit", "none", "content_unobserved")
                    ELSE [hit EXCEPT !.found = safe, !.atHead = (Relocated(q, read) = safe)]
    <2>1. /\ Record(e) /\ UNCHANGED head /\ UNCHANGED reads
          /\ probes' = probes \cup probed
          /\ accessible' = accessible \cup (probed \cap read)
          /\ probed \subseteq {p \in safe : CanDirectProbe(p)}
      BY <1>4 DEF SearchHits
    <2>2. ~ Charged(e)
      BY <1>1 DEF Charged, Answer
    <2> HIDE DEF e, safe
    <2>3. Widens /\ UNCHANGED readCalls
      BY <2>1 DEF Widens, reads, CanDirectProbe
    <2> QED BY <2>1, <2>2, <2>3, UnbilledKeeps
  <1> QED BY <1>2, <1>3, <1>4 DEF SearchCode

\* Of a path neither listed nor probed nothing was paid for yet.
LEMMA ProbesAreBilled ==
  ASSUME EvidenceInv, BillInv, Len(events) < MaxCalls, NEW p \in Paths,
         NEW fails \in BOOLEAN, ExactProbe(p, fails)
  PROVE  BillInv'
  <1>1. /\ p \notin probes /\ p \notin accessible /\ readCalls' = readCalls + 1
        /\ probes' = probes \cup {p} /\ UNCHANGED <<head, accessible, collected>>
    BY ExactProbeKeeps
  <1>2. PICK e \in Event : /\ Record(e) /\ e.mode = "exact" /\ e.arg = p
                           /\ e.backend /\ e.src = "head"
    BY ExactProbeKeeps
  <1>3. Charged(e)
    BY <1>2 DEF Charged, ExactProbe, Eligible
  <1>4. Widens /\ Settled(e)'
    BY <1>1, <1>2 DEF Widens, Settled, Spent
  <1>5. \A i \in 1 .. Len(events) : Charged(events[i]) => events[i].arg # p
    BY <1>1 DEF BillInv, Settled, Spent
  <1> QED BY <1>1, <1>2, <1>3, <1>4, <1>5, BilledKeeps

\* A listed path that is read was neither bought by a probe nor collected.
LEMMA DownloadsAreBilled ==
  ASSUME EvidenceInv, BillInv, Len(events) < MaxCalls, NEW p \in Paths,
         NEW s \in SUBSET Literals, NEW fails \in BOOLEAN,
         ReadBackend(p, s, fails) \/ ReadByProbe(p, s, fails)
  PROVE  BillInv'
  <1>1. /\ EvidenceInv' /\ readCalls' = readCalls + 1
        /\ collected \subseteq collected' /\ UNCHANGED head
        /\ \/ /\ p \in accessible /\ p \notin collected
              /\ UNCHANGED <<probes, accessible>>
           \/ /\ p \notin accessible /\ p \notin probes
              /\ probes' = probes \cup {p}
              /\ accessible \subseteq accessible' /\ accessible' \subseteq accessible \cup {p}
    BY ContentReadKeeps
  <1>2. PICK e \in Event :
          /\ Record(e) /\ e.mode = "content" /\ e.arg = p /\ e.backend /\ e.src = "head"
          /\ \/ p \notin accessible'
             \/ p \in collected'
             \/ Excused(e)
    BY ContentReadKeeps
  <1>3. Charged(e)
    BY <1>2 DEF Charged, ReadBackend, ReadByProbe, Eligible
  <1>4. Widens
    BY <1>1 DEF Widens
  <1>5. Settled(e)'
    <2>1. collected' \subseteq accessible'
      BY <1>1 DEF EvidenceInv, ReadsInv, PathsAgree
    <2>2. p \in accessible' \/ p \in probes'
      BY <1>1
    <2>3. Excused(e) => Excused(e)'
      BY <1>1 DEF Excused, head
    <2> QED BY <1>2, <2>1, <2>2, <2>3 DEF Settled, Spent
  <1>6. \A i \in 1 .. Len(events) : Charged(events[i]) /\ events[i].arg = p =>
          Excused(events[i]) /\ p \in accessible
    BY <1>1 DEF BillInv, Settled, Spent
  <1> QED BY <1>1, <1>2, <1>3, <1>4, <1>5, <1>6, BilledKeeps

\* Every tool call keeps the bill.
LEMMA BillInductive ==
  EvidenceInv /\ BillInv /\ [Next]_vars => BillInv'
  <1> SUFFICES ASSUME EvidenceInv, BillInv, [Next]_vars PROVE BillInv'
    OBVIOUS
  <1>1. CASE UNCHANGED vars
    BY <1>1 DEF vars, head, paths, reads, BillInv, RepeatsAreExcused, Charged, Settled,
                Spent, Excused
  <1>2. CASE Next
    <2>0. Len(events) < MaxCalls /\ {"content", "exact", "list"} \subseteq Modes
      BY <1>2 DEF Next, Modes
    <2>1. ASSUME NEW p \in Paths, NEW s \in SUBSET Literals, ReadContent(p, s)
          PROVE  BillInv'
      BY <2>0, <2>1, FreeCalls, DownloadsAreBilled DEF ReadContent
    <2>2. ASSUME NEW p \in Paths, CheckExactPath(p)
          PROVE  BillInv'
      BY <2>0, <2>2, FreeCalls, ProbesAreBilled DEF CheckExactPath
    <2>3. ASSUME NEW q \in Literals, SearchCode(q)
          PROVE  BillInv'
      BY <2>0, <2>3, SearchesAreFree
    <2>4. CASE ListDir \/ DeriveSame("list", "root")
      BY <2>0, <2>4, FreeCalls
    <2> QED BY <1>2, <2>1, <2>2, <2>3, <2>4 DEF Next
  <1> QED BY <1>1, <1>2

\* The log accounts for every unit of the read quota, and a path is paid for
\* twice only when the first payment got nothing to show.
THEOREM QuotaIsAccountedFor == Spec => []RepeatsAreExcused
  <1>1. Init => BillInv
    <2> SUFFICES ASSUME Init PROVE BillInv
      OBVIOUS
    <2>1. Len(events) = 0 /\ readCalls = 0
      BY DEF Init
    <2>2. {i \in 1 .. Len(events) : Charged(events[i])} = {}
      BY <2>1
    <2> QED BY <2>1, <2>2, FS_EmptySet DEF BillInv, RepeatsAreExcused
  <1>2. BillInv => RepeatsAreExcused
    BY DEF BillInv
  <1> QED BY <1>1, <1>2, BillInductive, EvidenceIsSound, PTL DEF Spec
=============================================================================

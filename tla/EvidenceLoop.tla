---------------------------- MODULE EvidenceLoop ----------------------------
(***************************************************************************)
(* collect_context_pfr: plan, fetch, reconcile.  A model plans retrieval   *)
(* questions; the code caps and executes them; a second model call judges  *)
(* the evidence and may ask for more; at most one further round follows,   *)
(* then at most one last read that no judgement sees.  What is handed to   *)
(* the review is the ledger, the last judgement, and a statement of how    *)
(* much of the evidence that judgement covers.                             *)
(*                                                                         *)
(* Time is one fact that can become true at any moment, the soft budget is *)
(* spent (soft); whether the phase has time left for a repair or for one   *)
(* last read is a free choice where the code asks.                         *)
(***************************************************************************)
EXTENDS EvidenceLedger, SequencesExt, Subsequences

CONSTANTS
  Reads,        \* content reads of listed paths
  Bare,         \* the large ones among them to which no literal is attached
  Searches,     \* planned or requested searches
  Floor,        \* the reserved check of a removed symbol among them
  Sweeps,       \* the safety sweep's searches, one per changed symbol
  AskedBy,      \* sweep -> the searches that ask for the same symbol
  Rounds,       \* reconcile rounds: max(1, min(2, configured))
  PlanCap,      \* questions kept from a plan
  FollowupCap,  \* follow-ups executed in the first round (3 in the code)
  MaxReads, MaxSearches,   \* max_read_calls, max_search_calls
  MaxPlan,      \* bound of the model: steps a plan or a reply may hold
  MaxItems      \* bound of the model: answers and gaps in one judgement

ASSUME LoopAssumption ==
  /\ Questions = Reads \cup Searches \cup Sweeps
  /\ Reads \cap Searches = {} /\ Reads \cap Sweeps = {} /\ Searches \cap Sweeps = {}
  /\ Bare \subseteq Reads /\ Floor \subseteq Searches
  /\ AskedBy \in [Sweeps -> SUBSET Searches]
  /\ Rounds \in 1 .. 2 /\ PlanCap \in Nat \ {0} /\ FollowupCap \in Nat
  /\ MaxReads \in Nat /\ MaxSearches \in Nat
  /\ MaxPlan \in Nat /\ MaxItems \in Nat

Requests == Reads \cup Searches
Step     == SeqOf(Requests, MaxPlan)

Stages == {"planning", "executing", "indexing", "judging", "repairing",
           "answers", "gaps", "judged", "sweeping", "sealed", "done", "raised"}

VARIABLES
  stage,
  queue,        \* steps still to execute
  back,         \* what follows the queue, or the sweep
  plan,         \* the planned steps, in priority order
  tried,        \* planned and follow-up searches, for the sweep
  round,
  reply,        \* the judgement being applied: complete, and its follow-ups
  heard,        \* its answers that were bound, as far as they are read
  downgraded,   \* questions it failed to answer or called unknown
  degraded,     \* one of its answers could not be bound
  items,        \* answers and gaps read so far
  view,         \* the questions the judgement's record shows as answered
  seen,         \* events the last judgement's index held
  sealedAt,     \* terminal_tool_event_count
  swept, sweepFrom,
  readCalls, searchCalls, judgements,
  repairUsed,   \* representation_repair_consumed
  available,    \* terminal_reconcile_available
  covers,       \* terminal_reconcile_covers_all_evidence
  directOnly,   \* direct_evidence_only
  exhausted,    \* soft_budget_exhausted
  health,       \* fetch_health status
  soft

work     == <<queue, back, plan, tried>>
reading  == <<heard, downgraded, degraded, items>>
judge    == <<reply, reading, view>>
sweep    == <<swept, sweepFrom>>
calls    == <<readCalls, searchCalls>>
verdict  == <<available, covers, directOnly>>
vars == <<ledger, stage, work, round, judge, seen, sealedAt, sweep, calls,
          judgements, repairUsed, verdict, exhausted, health, soft>>

\* An answer as the judgement keeps it: its question, references and text.
Answer == [q : Questions, refs : SUBSET Nat, says : {1, 2}]
Reply  == [complete : BOOLEAN, followups : Seq(Requests)]

TypeOK ==
  /\ LedgerTypeOK
  /\ stage \in Stages /\ queue \in Seq(Requests) /\ plan \in Seq(Requests)
  /\ back \in {"judge", "followed", "again", "settle"}
  /\ tried \subseteq Requests /\ round \in 0 .. Rounds
  /\ reply \in Reply /\ heard \subseteq Answer
  /\ downgraded \subseteq Questions /\ degraded \in BOOLEAN
  /\ items \in Nat /\ view \subseteq Questions
  /\ seen \in Nat /\ sealedAt \in Nat
  /\ swept \subseteq Sweeps /\ sweepFrom \in Nat
  /\ readCalls \in Nat /\ searchCalls \in Nat /\ judgements \in Nat
  /\ repairUsed \in BOOLEAN /\ available \in BOOLEAN /\ covers \in BOOLEAN
  /\ directOnly \in BOOLEAN /\ exhausted \in BOOLEAN
  /\ health \in {"open", "healthy", "partial_or_failed_context"}
  /\ soft \in BOOLEAN

NoReply == [complete |-> FALSE, followups |-> <<>>]

Init ==
  /\ LedgerInit
  /\ stage = "planning" /\ queue = <<>> /\ plan = <<>> /\ tried = {}
  /\ back = "judge" /\ round = 0 /\ reply = NoReply
  /\ heard = {} /\ downgraded = {} /\ degraded = FALSE /\ items = 0 /\ view = {}
  /\ seen = 0 /\ sealedAt = 0 /\ swept = {} /\ sweepFrom = 0
  /\ readCalls = 0 /\ searchCalls = 0 /\ judgements = 0
  /\ repairUsed = FALSE /\ available = FALSE /\ covers = TRUE
  /\ directOnly = FALSE /\ exhausted = FALSE /\ health = "open"
  /\ soft = FALSE

-----------------------------------------------------------------------------
(* One tool call. *)

HasHit(q) == Supporting(q) # {}

\* _address_large_read_steps: small reads, and large ones to which a literal
\* named by the question or the diff could be attached.
Addressable == Reads \ Bare

\* What the tools can answer q with (module ExactHeadReads is the detail): a
\* repeat is derived from the earlier hit, a large read with no literal is
\* refused, and past its quota a call ends without a lookup.
OutcomesOf(q) ==
  IF HasHit(q) THEN {"hit"}
  ELSE IF q \in Reads \ Addressable THEN {"unaddressable"}
  ELSE IF q \in Reads
  THEN IF readCalls < MaxReads THEN {"hit", "removed_path", "error"}
                               ELSE {"quota_exhausted", "removed_path"}
  ELSE IF searchCalls < MaxSearches THEN {"hit", "no_hit", "error"}
                                    ELSE {"quota_exhausted"}

Charged(q, out) == ~HasHit(q) /\ out \in {"hit", "no_hit", "error"}

\* executor.execute for one question.
Execute(q) ==
  \E out \in OutcomesOf(q) :
    /\ RecordEvent(q, out)
    /\ readCalls' = readCalls + IF q \in Reads /\ Charged(q, out) THEN 1 ELSE 0
    /\ searchCalls' = searchCalls + IF q \notin Reads /\ Charged(q, out) THEN 1 ELSE 0

\* _prioritize_steps: only the reserved removed-symbol check moves.
Ordered(s) ==
  At(s, {i \in DOMAIN s : s[i] \in Floor}) \o At(s, {i \in DOMAIN s : s[i] \notin Floor})

\* _cap_planned_steps: the first PlanCap steps that fit their tool's own cap.
Capped(s) ==
  LET cap(q)     == IF q \in Reads THEN MaxReads ELSE MaxSearches
      earlier(i) == {j \in 1 .. i - 1 : (s[j] \in Reads) = (s[i] \in Reads)}
      fitting    == {i \in DOMAIN s : Cardinality(earlier(i)) < cap(s[i])}
  IN  At(s, {i \in fitting : Cardinality({j \in fitting : j < i}) < PlanCap})

-----------------------------------------------------------------------------
(* Planning and executing. *)

\* The steps a plan may come to: the model's own, past the tool contract, or
\* the deterministic fallback.  A question is planned once.
Planned == {s \in Step : Cardinality(ToSet(s)) = Len(s)}

\* Requests of the plan that validation turned down (bounded by one).
Rejected == {{}} \cup {{q} : q \in Requests}

\* Register, cap and queue the plan; a plan with no valid step gets the floor.
Plan ==
  /\ stage = "planning"
  /\ \E s \in Planned, bad \in Rejected :
       /\ bad \cap ToSet(s) = {}
       /\ LET kept    == Capped(Ordered(s))
              dropped == ToSet(s) \ ToSet(kept)
          IN  /\ plan' = kept /\ queue' = kept
              /\ tried' = ToSet(kept) \cap Searches
              /\ lifecycle' = [q \in Questions |->
                   IF q \in ToSet(kept) THEN "planned"
                   ELSE IF q \in dropped THEN "dropped_cap"
                   ELSE IF q \in bad THEN "dropped_invalid" ELSE lifecycle[q]]
  /\ stage' = "executing" /\ back' = "judge"
  /\ UNCHANGED <<events, resolution, round, judge, seen, sealedAt, sweep, calls,
                 judgements, repairUsed, verdict, exhausted, health, soft>>

Raise ==
  /\ stage' = "raised"
  /\ UNCHANGED <<ledger, work, round, judge, seen, sealedAt, sweep, calls,
                 judgements, repairUsed, verdict, exhausted, health, soft>>

\* The deadline, or a failure of the provider's own controls, ends the
\* collection; so does a failure of the callback before the first judgement.
PlanRaises     == stage = "planning" /\ Raise
CallbackRaises == stage = "executing" /\ queue = <<>> /\ back = "judge" /\ Raise

\* _execute_steps within the soft budget.
ExecuteNext ==
  /\ stage = "executing" /\ queue # <<>> /\ ~soft
  /\ Execute(Head(queue)) /\ queue' = Tail(queue)
  /\ UNCHANGED <<resolution, stage, back, plan, tried, round, judge, seen,
                 sealedAt, sweep, judgements, repairUsed, verdict, exhausted,
                 health, soft>>

\* _read_step_can_expand_evidence: not a repeat of a read that succeeded.
CanExpand(q) == q \in Reads /\ ~HasHit(q)

\* _terminal_read_rescue_index: a listed path not yet read, by plan priority.
PlanPriority(q) ==
  IF q \in ToSet(plan) THEN CHOOSE i \in DOMAIN plan : plan[i] = q ELSE Len(plan) + 1

Rescued(s) ==
  LET can == {i \in DOMAIN s : CanExpand(s[i])}
  IN  IF can = {} THEN 0
      ELSE CHOOSE i \in can : \A j \in can \ {i} :
             \/ PlanPriority(s[i]) < PlanPriority(s[j])
             \/ PlanPriority(s[i]) = PlanPriority(s[j]) /\ i < j

\* Mutant of Skipped: the skipped steps are not recorded.
SkippedSilently(qs, l) == l

Skipped(qs, l) == [q \in Questions |-> IF q \in qs THEN "budget_skipped" ELSE l[q]]

\* The soft budget is spent with steps left.  Follow-ups may still have one
\* read; every other step is recorded as skipped.
SkipRest ==
  /\ stage = "executing" /\ queue # <<>> /\ soft
  /\ exhausted' = TRUE /\ queue' = <<>>
  /\ LET i == IF back = "followed" THEN Rescued(queue) ELSE 0
     IN  IF i = 0
         THEN /\ lifecycle' = Skipped(ToSet(queue), lifecycle)
              /\ UNCHANGED <<events, calls>>
         ELSE \E out \in OutcomesOf(queue[i]) :
              /\ events' = Append(events, [q |-> queue[i], outcome |-> out])
              /\ lifecycle' = Skipped(ToSet(RemoveAt(queue, i)),
                                      [lifecycle EXCEPT ![queue[i]] = "executed"])
              /\ readCalls' = readCalls + IF Charged(queue[i], out) THEN 1 ELSE 0
              /\ UNCHANGED searchCalls
  /\ UNCHANGED <<resolution, stage, back, plan, tried, round, judge, seen,
                 sealedAt, sweep, judgements, repairUsed, verdict, health, soft>>

-----------------------------------------------------------------------------
(* Judging the evidence. *)

NextRound ==
  /\ round' = round + 1 /\ stage' = "indexing"

CallbackReturns ==
  /\ stage = "executing" /\ queue = <<>> /\ back = "judge"
  /\ NextRound
  /\ UNCHANGED <<ledger, work, judge, seen, sealedAt, sweep, calls, judgements,
                 repairUsed, verdict, exhausted, health, soft>>

Seal(n) == stage' = "sealed" /\ sealedAt' = n

\* No judgement covers the evidence: the review gets it directly.
Unjudged ==
  /\ Seal(Len(events))
  /\ reply' = NoReply /\ view' = {}
  /\ available' = FALSE /\ directOnly' = TRUE
  /\ UNCHANGED <<ledger, work, round, reading, seen,
                 sweep, calls, judgements, repairUsed, covers, exhausted,
                 health, soft>>

\* assemble_reconcile_context: an index too large for a request is not cut.
IndexOverflows == stage = "indexing" /\ Unjudged

AskJudgement ==
  /\ stage = "indexing"
  /\ stage' = "judging" /\ seen' = Len(events) /\ judgements' = judgements + 1
  /\ UNCHANGED <<ledger, work, round, judge, sealedAt, sweep, calls, repairUsed,
                 verdict, exhausted, health, soft>>

\* A complete judgement may not ask for more.
Contract(r) == r.complete => r.followups = <<>>

Accept(r) ==
  /\ Contract(r) /\ reply' = r /\ stage' = "answers"
  /\ UNCHANGED <<ledger, work, round, reading, view, seen, sealedAt, sweep, calls,
                 verdict, exhausted, health, soft>>

JudgementArrives ==
  /\ stage = "judging"
  /\ \E c \in BOOLEAN, f \in Step : Accept([complete |-> c, followups |-> f])
  /\ UNCHANGED <<judgements, repairUsed>>

\* Mutant of MayRepair: every round may have its own repair.
MayRepairAgain == TRUE

MayRepair == ~repairUsed

\* A parsed reply with repairable faults is sent back once in a collection.
JudgementIsSentBack ==
  /\ stage = "judging" /\ MayRepair
  /\ \E c \in BOOLEAN, f \in Step : reply' = [complete |-> c, followups |-> f]
  /\ stage' = "repairing" /\ repairUsed' = TRUE /\ judgements' = judgements + 1
  /\ UNCHANGED <<ledger, work, round, reading, view,
                 seen, sealedAt, sweep, calls, verdict, exhausted, health, soft>>

\* _validate_reconcile_repair_delta: items may only go, and whatever
\* changes leaves the judgement incomplete.
Contractions(r) ==
  {[complete |-> c, followups |-> f] :
     c \in {FALSE, r.complete},
     f \in {r.followups, <<>>} \cup {RemoveAt(r.followups, i) : i \in DOMAIN r.followups}}

RepairArrives ==
  /\ stage = "repairing"
  /\ \E r \in Contractions(reply) :
       /\ r.followups # reply.followups => ~r.complete
       /\ Accept(r)
  /\ UNCHANGED <<judgements, repairUsed>>

\* Malformed past repair, rejected by the delta guard, or no provider answer.
JudgementFails  == stage \in {"judging", "repairing"} /\ Unjudged
JudgementRaises == stage \in {"judging", "repairing"} /\ Raise

-----------------------------------------------------------------------------
(* Applying the judgement to the ledger, item by item. *)

Registered == {q \in Questions : lifecycle[q] # "none"}

\* An answer that names a registered question, with references or without.
ApplyAnswer ==
  /\ stage = "answers" /\ items < MaxItems
  /\ \E q \in Registered, given \in BOOLEAN, says \in {1, 2} :
     \E refs \in IF given THEN {{}} \cup {{i} : i \in DOMAIN events} ELSE {{}} :
       LET kept == BoundRefs(q, given, refs)
       IN  /\ resolution' = Answered(q, kept)
           /\ IF kept = {}
              THEN /\ downgraded' = downgraded \cup {q} /\ degraded' = TRUE
                   /\ UNCHANGED heard
              ELSE /\ heard' = heard \cup {[q |-> q, refs |-> kept, says |-> says]}
                   /\ UNCHANGED <<downgraded, degraded>>
  /\ items' = items + 1
  /\ UNCHANGED <<lifecycle, events, stage, work, round, reply, view, seen,
                 sealedAt, sweep, calls, judgements, repairUsed, verdict,
                 exhausted, health, soft>>

\* An answer whose text and question disagree is bound to no question.
UnboundAnswer ==
  /\ stage = "answers" /\ items < MaxItems
  /\ \E down \in {{}} \cup {{q} : q \in Registered} : downgraded' = downgraded \cup down
  /\ degraded' = TRUE /\ items' = items + 1
  /\ UNCHANGED <<ledger, stage, work, round, reply, heard, view, seen, sealedAt,
                 sweep, calls, judgements, repairUsed, verdict, exhausted,
                 health, soft>>

\* Two different answers to one question make it unknown.
Conflicting == {a.q : a \in {b \in heard : \E c \in heard : c.q = b.q /\ c # b}}

CollapseAnswers ==
  /\ stage = "answers" /\ stage' = "gaps"
  /\ resolution' = Unknown(Conflicting)
  /\ downgraded' = downgraded \cup Conflicting
  /\ degraded' = (degraded \/ Conflicting # {})
  /\ UNCHANGED <<lifecycle, events, work, round, reply, heard, items, view,
                 seen, sealedAt, sweep, calls, judgements, repairUsed, verdict,
                 exhausted, health, soft>>

\* A gap about a registered question; any other becomes a question of its own
\* (register_unresolved_gap) that no tool and no health count looks at.
ApplyGap ==
  /\ stage = "gaps" /\ items < MaxItems
  /\ \E q \in Registered :
       /\ resolution' = Unknown({q}) /\ downgraded' = downgraded \cup {q}
  /\ items' = items + 1
  /\ UNCHANGED <<lifecycle, events, stage, work, round, reply, heard, degraded,
                 view, seen, sealedAt, sweep, calls, judgements, repairUsed,
                 verdict, exhausted, health, soft>>

\* Mutant of Shown: what was downgraded stays in the judgement's record.
ShownAnyway == {a.q : a \in heard}

Shown == {a.q : a \in heard} \ downgraded

JudgementApplied ==
  /\ stage = "gaps" /\ stage' = "judged"
  /\ view' = Shown /\ available' = TRUE
  /\ reply' = [reply EXCEPT !.complete = @ /\ ~degraded]
  /\ heard' = {} /\ downgraded' = {} /\ degraded' = FALSE /\ items' = 0
  /\ UNCHANGED <<ledger, work, round, seen,
                 sealedAt, sweep, calls, judgements, repairUsed, covers,
                 directOnly, exhausted, health, soft>>

-----------------------------------------------------------------------------
(* After a judgement: the last read, one more round, or the end. *)

\* _record_terminal_unexecuted_followups.
Unexecuted(qs, l) ==
  [q \in Questions |-> IF q \in qs THEN "terminal_unexecuted" ELSE l[q]]

\* The earliest follow-up that is a content read a tool can still answer.
LastRead ==
  LET o   == Ordered(reply.followups)
      can == {i \in DOMAIN o : o[i] \in Addressable}
  IN  IF can = {} THEN 0 ELSE Min(can)

MayReadOnce ==
  /\ Rounds > 1 /\ ~reply.complete /\ LastRead # 0
  /\ readCalls < MaxReads

\* Mutant of Coverage: a late hit is taken to be covered.
CoverageKept(out) == UNCHANGED <<covers, directOnly>>

\* What the review is told once a read came after the last judgement.
Coverage(out) ==
  IF out = "hit" THEN covers' = FALSE /\ directOnly' = TRUE
                 ELSE UNCHANGED <<covers, directOnly>>

\* _terminal_evidence_read: one read after the last judgement, then the seal.
ReadOnce ==
  /\ stage = "judged" /\ round = Rounds /\ MayReadOnce
  /\ LET o == Ordered(reply.followups)
         q == o[LastRead]
     IN  \E out \in OutcomesOf(q) :
         /\ events' = Append(events, [q |-> q, outcome |-> out])
         /\ lifecycle' = Unexecuted(ToSet(RemoveAt(o, LastRead)),
                                    [lifecycle EXCEPT ![q] = "executed"])
         /\ readCalls' = readCalls + IF Charged(q, out) THEN 1 ELSE 0
         /\ Coverage(out)
  /\ Seal(Len(events) + 1)
  /\ UNCHANGED <<resolution, work, round, judge, seen, sweep, searchCalls,
                 judgements, repairUsed, available, exhausted, health, soft>>

\* No such read, or less than 30 seconds left for it.
ReadNoMore ==
  /\ stage = "judged" /\ round = Rounds
  /\ lifecycle' = Unexecuted(ToSet(reply.followups), lifecycle)
  /\ Seal(Len(events))
  /\ UNCHANGED <<events, resolution, work, round, judge, seen, sweep, calls,
                 judgements, repairUsed, verdict, exhausted, health, soft>>

Shortened(s) == SubSeq(s, 1, IF Len(s) < FollowupCap THEN Len(s) ELSE FollowupCap)

\* The first round asks for more: the first FollowupCap requests are run, the
\* others are neither run nor recorded.
RequestMore ==
  /\ stage = "judged" /\ round < Rounds
  /\ ~reply.complete /\ reply.followups # <<>>
  /\ queue' = Shortened(Ordered(reply.followups))
  /\ tried' = tried \cup (ToSet(queue') \cap Searches)
  /\ stage' = "executing" /\ back' = "followed"
  /\ reply' = [reply EXCEPT !.followups = <<>>]
  /\ UNCHANGED <<ledger, plan, round, reading, view, seen, sealedAt, sweep, calls,
                 judgements, repairUsed, verdict, exhausted, health, soft>>

\* No time for a second judgement: the follow-ups stay unjudged.
FollowupsUnjudged ==
  /\ stage = "executing" /\ queue = <<>> /\ back = "followed" /\ soft
  /\ exhausted' = TRUE /\ covers' = FALSE /\ directOnly' = TRUE
  /\ Seal(Len(events))
  /\ UNCHANGED <<ledger, work, round, judge, seen, sweep, calls, judgements,
                 repairUsed, available, health, soft>>

StartSweep(next) ==
  /\ stage' = "sweeping" /\ back' = next
  /\ sweepFrom' = Len(events)
  /\ UNCHANGED <<ledger, queue, plan, tried, round, judge, seen, sealedAt, swept,
                 calls, judgements, repairUsed, verdict, exhausted, health, soft>>

SweepAfterFollowups ==
  stage = "executing" /\ queue = <<>> /\ back = "followed" /\ ~soft /\ StartSweep("again")

SweepAfterJudgement ==
  /\ stage = "judged" /\ round < Rounds /\ reply.followups = <<>> /\ ~exhausted
  /\ StartSweep("settle")

\* With the soft budget already spent there is no sweep and no second round.
SettleUnswept ==
  /\ stage = "judged" /\ round < Rounds /\ reply.followups = <<>> /\ exhausted
  /\ Seal(Len(events))
  /\ UNCHANGED <<ledger, work, round, judge, seen, sweep, calls, judgements,
                 repairUsed, verdict, exhausted, health, soft>>

\* One changed symbol: skipped when a step already asked for it.
SweepNext ==
  /\ stage = "sweeping" /\ ~soft
  /\ \E w \in Sweeps \ swept :
       /\ swept' = swept \cup {w}
       /\ IF AskedBy[w] \cap tried # {}
          THEN UNCHANGED <<events, lifecycle, calls>>
          ELSE searchCalls < MaxSearches /\ Execute(w)
  /\ UNCHANGED <<resolution, stage, work, round, judge, seen, sealedAt, sweepFrom,
                 judgements, repairUsed, verdict, exhausted, health, soft>>

SweepHit == \E i \in DOMAIN events : i > sweepFrom /\ events[i].outcome = "hit"

SweepEnds ==
  /\ stage = "sweeping"
  /\ swept = Sweeps \/ soft \/ searchCalls >= MaxSearches
  /\ exhausted' = (exhausted \/ (soft /\ swept # Sweeps))
  /\ IF back = "again" \/ SweepHit
     THEN NextRound /\ UNCHANGED sealedAt
     ELSE Seal(Len(events)) /\ UNCHANGED round
  /\ swept' = {} /\ sweepFrom' = 0 /\ back' = "judge"
  /\ UNCHANGED <<ledger, queue, plan, tried, judge, seen, calls, judgements, repairUsed,
                 verdict, health, soft>>

-----------------------------------------------------------------------------
(* The end: open questions are closed and retrieval health is counted. *)

Counted == {q \in Questions : lifecycle[q] \notin {"none", "dropped_cap"}}

\* A hit completes any question; a search is also complete with no hit, and
\* the read of a removed path with that answer.
Completed(q) ==
  /\ lifecycle[q] \in {"planned", "executed"}
  /\ \E i \in DOMAIN events : events[i].q = q /\ events[i].outcome \in
       {"hit"} \cup (IF q \in Reads THEN {"removed_path"} ELSE {"no_hit"})

FetchHealth ==
  IF \A q \in Counted : Completed(q) THEN "healthy" ELSE "partial_or_failed_context"

Finish ==
  /\ stage = "sealed" /\ stage' = "done"
  /\ resolution' = Closed /\ health' = FetchHealth
  /\ UNCHANGED <<lifecycle, events, work, round, judge, seen, sealedAt, sweep,
                 calls, judgements, repairUsed, verdict, exhausted, soft>>

TimePasses ==
  /\ stage \notin {"done", "raised"}
  /\ ~soft /\ soft' = TRUE
  /\ UNCHANGED <<ledger, stage, work, round, judge, seen, sealedAt, sweep, calls,
                 judgements, repairUsed, verdict, exhausted, health>>

Next ==
  \/ Plan \/ PlanRaises \/ CallbackRaises \/ ExecuteNext \/ SkipRest
  \/ CallbackReturns \/ IndexOverflows \/ AskJudgement \/ JudgementArrives
  \/ JudgementIsSentBack \/ RepairArrives \/ JudgementFails \/ JudgementRaises
  \/ ApplyAnswer \/ UnboundAnswer \/ CollapseAnswers \/ ApplyGap
  \/ JudgementApplied \/ ReadOnce \/ ReadNoMore \/ RequestMore
  \/ FollowupsUnjudged \/ SweepAfterFollowups \/ SweepAfterJudgement
  \/ SettleUnswept \/ SweepNext \/ SweepEnds \/ Finish \/ TimePasses

Spec == Init /\ [][Next]_vars

-----------------------------------------------------------------------------
(* Properties. *)

Ended == stage \in {"sealed", "done"}

\* The type invariant, with the facts that make it inductive: two rounds, one
\* repair in both together, and a log that only the seal's length describes.
LoopInv ==
  /\ TypeOK
  /\ judgements <= round + (IF repairUsed THEN 1 ELSE 0)
  /\ stage = "indexing" => judgements < round + (IF repairUsed THEN 1 ELSE 0)
  /\ seen <= Len(events)
  /\ Ended => sealedAt = Len(events)

\* What the review is told about the last judgement is true when collection
\* ends: it is said to cover all evidence only if its index held every hit of
\* the log; anything else is marked direct evidence only; and a judgement
\* that called itself complete is never followed by evidence it did not see.
ScopeIsHonest ==
  Ended =>
    /\ directOnly <=> ~(available /\ covers)
    /\ available /\ covers =>
         \A i \in DOMAIN events : events[i].outcome = "hit" => i <= seen
    /\ reply.complete => available /\ covers

\* No planned or requested lookup that was registered is left without a
\* word: at the end each was executed or carries the reason it was not.
NoRequestIsForgotten == Ended => \A q \in Questions : lifecycle[q] # "planned"

\* The judgement's own record never shows as answered a question the ledger
\* does not, once the judgement is applied and to the end of the collection.
ShownAnswersStand ==
  stage \notin {"answers", "gaps"} =>
    \A q \in view : resolution[q].status = "answered"

\* The comment at reconcile_contract.py:846 wants no array order to decide
\* evidence truth: a question with both a bound and a refused answer in one
\* judgement would then be unknown in the ledger, whichever came first.
MixedAnswersAreUnknown ==
  stage = "gaps" =>
    \A a \in heard : a.q \in downgraded => resolution[a.q].status = "unknown"
=============================================================================

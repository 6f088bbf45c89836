--------------------------- MODULE EvidenceLedger ---------------------------
(***************************************************************************)
(* The evidence ledger of one context collection: the retrieval questions  *)
(* it registered, the tool events recorded for them in order, and what     *)
(* each question was finally resolved to.  A question's identity is its    *)
(* text, tool and arguments, so asking it again finds the same entry.      *)
(***************************************************************************)
EXTENDS Naturals, Sequences, FiniteSets

CONSTANTS Questions      \* question identities: text, tool and arguments

ASSUME LedgerAssumption == IsFiniteSet(Questions)

Lifecycles == {"none", "planned", "executed", "dropped_cap", "dropped_invalid",
               "budget_skipped", "terminal_unexecuted"}
Outcomes   == {"hit", "no_hit", "removed_path", "unaddressable",
               "quota_exhausted", "error"}
Statuses   == {"open", "answered", "unknown"}

VARIABLES
  lifecycle,    \* question -> its lifecycle; "none" until it is registered
  events,       \* the event log, one entry per tool call
  resolution    \* question -> status and the events it rests on

ledger == <<lifecycle, events, resolution>>

Event      == [q : Questions, outcome : Outcomes]
Resolution == [status : Statuses, refs : SUBSET Nat]

LedgerTypeOK ==
  /\ lifecycle \in [Questions -> Lifecycles]
  /\ events \in Seq(Event)
  /\ resolution \in [Questions -> Resolution]

LedgerInit ==
  /\ lifecycle  = [q \in Questions |-> "none"]
  /\ events     = <<>>
  /\ resolution = [q \in Questions |-> [status |-> "open", refs |-> {}]]

\* supporting_event_ids: the hits recorded for this question.  Every hit is
\* at the pull request's head (module ExactHeadReads).
Supporting(q) == {i \in DOMAIN events : events[i].q = q /\ events[i].outcome = "hit"}

\* register_question and set_question_lifecycle for all of qs at once.
Marked(qs, l) == [q \in Questions |-> IF q \in qs THEN l ELSE lifecycle[q]]

\* record_event: the question becomes executed, whatever it was before.
RecordEvent(q, outcome) ==
  /\ events' = Append(events, [q |-> q, outcome |-> outcome])
  /\ lifecycle' = [lifecycle EXCEPT ![q] = "executed"]

\* Mutant of BoundRefs: a reference to any recorded event is accepted.
AnyRefs(q, given, refs) == refs \cap DOMAIN events

\* The references an answer to q may keep: all it gave, when every one
\* supports q; the single supporting event, when it gave none; else none.
BoundRefs(q, given, refs) ==
  IF given
  THEN IF refs \subseteq Supporting(q) THEN refs ELSE {}
  ELSE IF Cardinality(Supporting(q)) = 1 THEN Supporting(q) ELSE {}

\* resolve(status = "answered"): with nothing to rest on, the model's word
\* leaves the question unknown.
Answered(q, kept) ==
  [resolution EXCEPT ![q] =
     [status |-> IF kept = {} THEN "unknown" ELSE "answered", refs |-> kept]]

\* resolve(status = "unknown") for every question of qs.
Unknown(qs) ==
  [q \in Questions |-> IF q \in qs THEN [status |-> "unknown", refs |-> {}]
                                   ELSE resolution[q]]

\* ensure_terminal_resolutions.
Closed == Unknown({q \in Questions : lifecycle[q] # "none" /\ resolution[q].status = "open"})

\* An answered question rests on at least one hit of its own, whatever the
\* model cited and however often the question was answered or asked again.
AnswersRestOnHits ==
  \A q \in Questions : resolution[q].status = "answered" =>
    resolution[q].refs # {} /\ resolution[q].refs \subseteq Supporting(q)
=============================================================================

-------------------------- MODULE ReviewGeneration --------------------------
(***************************************************************************)
(* One review: the Deep call, the Final call whose answer is compiled, at  *)
(* most one repair call, and the recompilation against the CI state        *)
(* fetched just before publication (generate_review, then the rest of the  *)
(* review phase up to the publication intent).                             *)
(*                                                                         *)
(* Compilation first contracts prose that repeats a CI check the review    *)
(* only leans on.  The code does that in a loop; here every turn of the    *)
(* loop is a step, so that a loop that does not end is a behaviour that    *)
(* does not.                                                               *)
(***************************************************************************)
EXTENDS PresentationCompile

CONSTANTS
  Answers,      \* what the Final call may return
  Corrections   \* what the repair call may return

ASSUME AnswersAssumption == Answers \cup Corrections \subseteq Presentation

VARIABLES
  stage,    \* where the review is
  pass,     \* whose object is being compiled
  whole,    \* the provider finished the answer being compiled
  posture,  \* the verdict the Final call's answer gave, where it can be read
  answer,   \* history: the object the model gave, before any contraction
  draft,    \* the object being compiled, contracted so far
  floor,    \* findings a repaired review must have
  ctx,      \* the evidence catalog of the moment and the CI checks that changed
  kind,     \* the last compilation's failure kind
  review,   \* the review held for publication
  outcome

vars == <<stage, pass, whole, posture, answer, draft, floor, ctx, kind, review, outcome>>

Nothing == [form |-> "none"]

Stages   == {"deep", "before_final", "final", "contract", "before_repair", "repair",
             "generated", "ended"}
Passes   == {"final", "repair", "refresh"}
Outcomes == {"none", "publish", "failed", "retry", "stopped"}
Kinds    == NotTruth \cup {"unsafe_public_text", "supporting_ci_core_prose_tainted",
              "out_of_catalog_material_evidence", "blocking_decision_contraction_failed",
              "changed_ci_core_prose_tainted", "decision_finding_contradiction",
              "public_projection_failure"}

Shown0 == [known |-> Refs, changed |-> {}]

Init ==
  /\ stage = "deep" /\ pass = "final" /\ whole = TRUE
  /\ posture = "none" /\ answer = Nothing /\ draft = Nothing /\ review = Nothing
  /\ floor = 0 /\ ctx = Shown0 /\ kind = "none" /\ outcome = "none"

End(o) == stage' = "ended" /\ outcome' = o

-----------------------------------------------------------------------------
(* The model calls.                                                         *)

\* The required input does not fit, or the call fails in a way the provider
\* reports: an unpublishable artifact.
DeepFails ==
  /\ stage = "deep" /\ End("failed")
  /\ UNCHANGED <<pass, whole, posture, answer, draft, floor, ctx, kind, review>>

DeepAnswers ==
  /\ stage = "deep" /\ stage' = "before_final"
  /\ UNCHANGED <<pass, whole, posture, answer, draft, floor, ctx, kind, review, outcome>>

\* The lifecycle checkpoint before each further call: the PR may be closed or
\* its head superseded, which ends the review outside the model-error path.
PRHasMoved ==
  /\ stage \in {"before_final", "before_repair"} /\ End("stopped")
  /\ UNCHANGED <<pass, whole, posture, answer, draft, floor, ctx, kind, review>>

PRIsCurrent ==
  /\ stage \in {"before_final", "before_repair"}
  /\ stage' = IF stage = "before_final" THEN "final" ELSE "repair"
  /\ UNCHANGED <<pass, whole, posture, answer, draft, floor, ctx, kind, review, outcome>>

\* An answer cut short with visible text is still compiled, for its diagnosis.
FinalAnswers ==
  /\ stage = "final" /\ stage' = "contract" /\ pass' = "final"
  /\ \E d \in Answers :
        answer' = d /\ draft' = d /\ posture' = IF Readable(d) THEN d.verdict ELSE "none"
  /\ whole' \in BOOLEAN
  /\ UNCHANGED <<floor, ctx, kind, review, outcome>>

RepairAnswers ==
  /\ stage = "repair" /\ stage' = "contract" /\ pass' = "repair"
  /\ \E d \in Corrections : answer' = d /\ draft' = d
  /\ UNCHANGED <<whole, posture, floor, ctx, kind, review, outcome>>

\* A timeout, a refusal, an answer cut short.
CallFails ==
  /\ stage \in {"final", "repair"} /\ End("failed")
  /\ UNCHANGED <<pass, whole, posture, answer, draft, floor, ctx, kind, review>>

\* An unknown outcome or a lost fence is not the review's to judge.
CallPropagates ==
  /\ stage \in {"deep", "final", "repair"} /\ End("stopped")
  /\ UNCHANGED <<pass, whole, posture, answer, draft, floor, ctx, kind, review>>

-----------------------------------------------------------------------------
(* The turns of the contraction loop, decision first.                       *)

Contracting == stage = "contract" /\ draft.form = "object"

ContractSummary ==
  /\ Contracting /\ SummaryTainted(draft)
  /\ \E text \in SummarySource(draft) : draft' = [draft EXCEPT !.summary = text]
  /\ UNCHANGED <<stage, pass, whole, posture, answer, floor, ctx, kind, review, outcome>>

TaintedAdvice(d) == {i \in DOMAIN d.advice : Repeats(d.advice[i], LeantOn(d))}

ContractAdvice ==
  /\ Contracting /\ ~ SummaryTainted(draft) /\ TaintedAdvice(draft) # {}
  /\ draft' = [draft EXCEPT !.advice = RemoveAt(@, Min(TaintedAdvice(draft)))]
  /\ UNCHANGED <<stage, pass, whole, posture, answer, floor, ctx, kind, review, outcome>>

\* The first tainted finding goes, except the one a blocking verdict rests on:
\* its analysis shrinks to its headline.
Contracted(d, i) ==
  IF OnlyCarrier(d, i) THEN [d EXCEPT !.findings[i].body = d.findings[i].head]
  ELSE [d EXCEPT !.findings = RemoveAt(@, i)]

ContractFinding ==
  /\ Contracting /\ ~ Repeats(Spoken(draft), LeantOn(draft)) /\ TaintedFindings(draft) # {}
  /\ LET i == Min(TaintedFindings(draft))
     IN  /\ OnlyCarrier(draft, i) => BodyOnly(draft, i)
         /\ draft' = Contracted(draft, i)
  /\ UNCHANGED <<stage, pass, whole, posture, answer, floor, ctx, kind, review, outcome>>

\* The loop is over: nothing is tainted, or what is cannot be contracted.
Stuck(d) ==
  \/ SummaryTainted(d) /\ SummarySource(d) = {}
  \/ /\ ~ Repeats(Spoken(d), LeantOn(d)) /\ TaintedFindings(d) # {}
     /\ LET i == Min(TaintedFindings(d)) IN OnlyCarrier(d, i) /\ ~ BodyOnly(d, i)

Ready ==
  stage = "contract" /\ (draft.form # "object" \/ ~ Tainted(draft) \/ Stuck(draft))

-----------------------------------------------------------------------------
(* What generate_review does with a compilation.                            *)

\* Mutant of Clean: a publishable review is enough.
Publishable(compiled) == compiled.publishable

Clean(compiled) == compiled.publishable /\ compiled.lost = {}

\* _final_repair_issues: there is something a repair may act on.
Repairable(compiled) ==
  IF compiled.publishable THEN compiled.diagnosed # {}
  ELSE compiled.kind \in {"representation", "deciding_item_loss"}

\* Mutant of Hold: the review is not kept.
HoldNothing(r) == stage' = "generated" /\ UNCHANGED <<review, outcome>>

Hold(r) == review' = r /\ stage' = "generated" /\ UNCHANGED outcome

FinalVerdict(compiled) ==
  /\ kind' = compiled.kind
  /\ \/ whole /\ Clean(compiled) /\ Hold(compiled.review) /\ UNCHANGED floor
     \/ /\ whole /\ ~ Clean(compiled) /\ Repairable(compiled)
        /\ stage' = "before_repair"
        /\ floor' = IF compiled.publishable
                    THEN Len(compiled.review.findings) + Cardinality(compiled.lost)
                    ELSE 0
        /\ UNCHANGED <<review, outcome>>
     \/ /\ ~ (whole /\ (Clean(compiled) \/ Repairable(compiled)))
        /\ End("failed") /\ UNCHANGED <<floor, review>>

JudgeFinal ==
  /\ Ready /\ pass = "final" /\ FinalVerdict(Compile(ctx, draft))
  /\ UNCHANGED <<pass, whole, posture, answer, draft, ctx>>

\* Mutant of RepairAccepted: the repaired verdict is not compared.
AnyRepairAccepted(compiled) ==
  /\ Clean(compiled)
  /\ Len(compiled.review.findings) >= floor

\* A repair may restore evidence, never change the posture or lose items.
RepairAccepted(compiled) ==
  /\ Clean(compiled)
  /\ Len(compiled.review.findings) >= floor
  /\ posture # "none" => compiled.review.verdict = posture

RepairVerdict(compiled) ==
  /\ kind' = compiled.kind
  /\ \/ RepairAccepted(compiled) /\ Hold(compiled.review)
     \/ ~ RepairAccepted(compiled) /\ End("failed") /\ UNCHANGED review

JudgeRepair ==
  /\ Ready /\ pass = "repair" /\ RepairVerdict(Compile(ctx, draft))
  /\ UNCHANGED <<pass, whole, posture, answer, draft, floor, ctx>>

-----------------------------------------------------------------------------
(* CI at publication: reapply_latest_ci_guard.                              *)

\* The deadline of the phase is near, the pull request has moved, or CI cannot
\* be read: no review without knowing that its CI is current.
RefreshIsImpossible ==
  /\ stage = "generated" /\ End("stopped")
  /\ UNCHANGED <<pass, whole, posture, answer, draft, floor, ctx, kind, review>>

NothingChanged ==
  /\ stage = "generated" /\ End("publish")
  /\ UNCHANGED <<pass, whole, posture, answer, draft, floor, ctx, kind, review>>

\* Mutant of CIChanged: the old CI entries go, the fresh ones are not added.
CIForgotten ==
  /\ stage = "generated" /\ stage' = "contract" /\ pass' = "refresh"
  /\ \E changed \in SUBSET CI : ctx' = [known |-> Refs \ CI, changed |-> changed]
  /\ draft' = review
  /\ UNCHANGED <<whole, posture, answer, floor, kind, review, outcome>>

\* Checks changed since the model saw them; a re-run one has a new id, and the
\* old id is no longer in the catalog.  changed = {}: only the overall state.
CIChanged ==
  /\ stage = "generated" /\ stage' = "contract" /\ pass' = "refresh"
  /\ \E changed \in SUBSET CI : \E gone \in SUBSET changed :
        ctx' = [known |-> Refs \ gone, changed |-> changed]
  /\ draft' = review
  /\ UNCHANGED <<whole, posture, answer, floor, kind, review, outcome>>

NeedsRejudgment == {"deciding_item_loss", "changed_ci_core_prose_tainted"}

RefreshVerdict(compiled) ==
  /\ kind' = compiled.kind
  /\ \/ compiled.publishable /\ review' = compiled.review /\ End("publish")
     \/ /\ ~ compiled.publishable /\ UNCHANGED review
        /\ End(IF compiled.kind \in NeedsRejudgment THEN "retry" ELSE "failed")

JudgeRefresh ==
  /\ Ready /\ pass = "refresh" /\ RefreshVerdict(Compile(ctx, draft))
  /\ UNCHANGED <<pass, whole, posture, answer, draft, floor, ctx>>

Turn == ContractSummary \/ ContractAdvice \/ ContractFinding

Next ==
  \/ DeepFails \/ DeepAnswers \/ PRHasMoved \/ PRIsCurrent
  \/ FinalAnswers \/ RepairAnswers \/ CallFails \/ CallPropagates
  \/ Turn \/ JudgeFinal \/ JudgeRepair
  \/ RefreshIsImpossible \/ NothingChanged \/ CIChanged \/ JudgeRefresh

Spec == Init /\ [][Next]_vars

\* The loop is plain sequential code: it takes its next turn.
FairSpec == Spec /\ WF_vars(Turn)

-----------------------------------------------------------------------------
(* Properties.                                                              *)

Published == outcome = "publish"

\* Every variable keeps to its kind, and only the stages that may hold a
\* review hold one.
GenerationTypeOK ==
  /\ stage \in Stages /\ pass \in Passes /\ whole \in BOOLEAN
  /\ posture \in Verdicts \cup {"none"}
  /\ {answer, draft} \subseteq Presentation \cup {Nothing}
  /\ review \in Presentation \cup {Nothing}
  /\ floor \in Nat /\ kind \in Kinds /\ outcome \in Outcomes
  /\ ctx \in Context /\ Refs \ ctx.known \subseteq ctx.changed
  /\ outcome = "none" <=> stage # "ended"
  /\ Published \/ stage = "generated" => review # Nothing

\* The posture is the model's: whatever is dropped, repaired or recompiled
\* against newer CI, the review that is held has the verdict of the answer the
\* Final call gave, if that answer had a readable one.
PostureIsTheModels ==
  review # Nothing /\ posture # "none" => review.verdict = posture

\* What the contraction loop may delete of an answer: a finding whose prose
\* repeats a check it does not require, unless the blocking verdict has no
\* other substantive finding with required evidence.
ContractedAway(d, i) == i \in TaintedFindings(d) /\ ~ OnlyCarrier(d, i)

Holds(r, f) == \E j \in DOMAIN r.findings : r.findings[j].name = f.name

\* A review that is held after the model calls has every finding its verdict
\* rested on in the model's own answer, the Final call's or its correction:
\* losing one to its evidence leads to the repair, or to no review.  The
\* exception is a finding the contraction loop may delete.  It does so before
\* it is settled which findings decide, so a critical finding goes that way
\* with no correction call; those that decide in what is left are kept.
NoDecidingLoss ==
  stage = "generated" =>
    /\ \A i \in Deciding(answer) : Holds(review, answer.findings[i]) \/ ContractedAway(answer, i)
    /\ \A i \in Deciding(draft) : Holds(review, draft.findings[i])

\* After the refresh, nothing that is published cites a check that changed, and
\* the first screen and the findings do not repeat one.
ProseIsCurrent == ~ Repeats(CoreProse(review), ctx.changed)

NothingStaleIsPublished ==
  Published =>
    /\ ProseIsCurrent
    /\ \A i \in DOMAIN review.findings :
         (review.findings[i].required \cup review.findings[i].supporting) \cap ctx.changed = {}
    /\ \A i \in DOMAIN review.unknowns : Range(review.unknowns[i].refs) \cap ctx.changed = {}
    /\ \A i \in DOMAIN review.checks : review.checks[i].refs \cap ctx.changed = {}

\* A review that is held says what its items say: a P1 only under a blocking
\* verdict, a blocking verdict only with a supported finding to block on, a
\* request for verification only with something to verify.
PostureMatchesItems ==
  review # Nothing =>
    /\ (\E i \in DOMAIN review.findings : review.findings[i].priority = "P1")
         => review.verdict = "blocking"
    /\ review.verdict = "blocking" => Blocking(review.verdict, review.findings) # {}
    /\ review.verdict = "verification_needed" => review.unknowns # <<>>

\* The only diagnostic of a policy failure that this text repeats may be its
\* action's, which a blocking finding does not show.
OnlyAsks(f) ==
  f.path = NoPath /\ \E r \in f.ask : Catalog[r].diagnosed /\ r \notin f.head \cup f.body

\* What the strict validator judges otherwise than the compiler: a critical
\* finding that names no file, a critical one on a deleted region that leans on
\* CI, and a blocking one whose diagnostic only its owner action repeats.
Disputed(verdict, f) ==
  \/ f.priority = "P1" /\ f.path = NoPath
  \/ f.priority = "P1" /\ Anchored(f.snippet) = "deleted" /\ f.required \cap CI # {}
  \/ Carries(verdict, f) /\ OnlyAsks(f)

\* The compiler and the strict validator of the public contract agree on what
\* evidence can carry, except on the disputed findings: a compilation that the
\* validator alone refuses has one.
ValidatorsAgree ==
  kind = "public_projection_failure" =>
    \E i \in DOMAIN draft.findings : Disputed(draft.verdict, draft.findings[i])

\* The replacement for a tainted summary repeats the tainting check itself.
QuotesItself(d) ==
  /\ d.form = "object" /\ SummaryTainted(d)
  /\ \E text \in SummarySource(d) : Repeats(text, LeantOn(d))

\* The contraction loop of every compilation ends, with nothing tainted left or
\* with a failure, except on a summary whose replacement has the same taint:
\* that one is replaced by itself for ever.
ContractionEndsUnlessSelfQuoting == Contracting ~> (Ready \/ QuotesItself(draft))

\* A refresh that finds no check changed, only the overall state, publishes the
\* review with the verdict, the findings that rest on required evidence, the
\* unknowns and the checks it had.  An unverified note may lose a check that
\* supported it, or go; and a review whose prose repeats a check that a demoted
\* or dropped finding required is contracted, as it was not when it was compiled.
Verified(d) == At(d.findings, {i \in DOMAIN d.findings : d.findings[i].required # {}})

RecompilationIsStable ==
  [][stage = "contract" /\ pass = "refresh" /\ ctx.changed = {} /\ ~ Tainted(review)
       /\ stage' = "ended" =>
         /\ outcome' = "publish" /\ review'.verdict = review.verdict
         /\ Verified(review') = Verified(review)
         /\ review'.unknowns = review.unknowns /\ review'.checks = review.checks]_vars

\* A finding the verdict rested on, whose required CI check has changed, does
\* not reach publication: the review is judged again.
ChangedDecidingEvidenceFailsClosed ==
  Published /\ pass = "refresh" =>
    \A i \in Deciding(draft) : draft.findings[i].required \cap ctx.changed = {}
=============================================================================

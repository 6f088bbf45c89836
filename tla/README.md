# TLA+ models of LlamaPReview

LlamaPReview reviews pull requests. A webhook stores one item per pull request
in a DynamoDB table; the table's stream starts two Lambda phases over that item
(context, then review); the context phase collects evidence about the pull
request's head, the review phase generates a review from it, checks the review
against the evidence and posts it to GitHub. Both phases buy model calls. This
directory models what makes that correct under crashes, redelivery, races, a
pull request that keeps moving, evidence that goes stale, and model answers
that say anything.

Two kinds of module divide the work. The protocol modules (`PhaseLifecycle`,
and `PublicationTransaction`, `ProviderDispatch` and `CapacityAdmission`, which
each open up one of its steps) are about several invocations over one durable
state. The content modules (`ExactHeadReads`, `EvidenceLedger` with
`EvidenceLoop`, `PresentationCompile` with `ReviewGeneration`) follow one
invocation through code that decides what is true enough to be published.

Paths below are relative to `lambdas/LlamaPReviewPipeline/` unless they say
otherwise.

## 1. Inventory

| Component | State | Operations | Interacts with |
|---|---|---|---|
| Webhook handler (`../LlamaPReviewWebhookHandler/lambda_function.py`) | none of its own; creates the item | `build_pipeline_item`, `_put_once` | the item table |
| Stream dispatch (`lambda_function.py`) | none | `process_record` | starts a phase of the orchestrator |
| Orchestrator (`orchestrator.py`) | the running phase of one invocation | `run_context_phase`, `run_review_phase`, `_handle_phase_failure`, lifecycle checkpoints | everything below |
| PR admission (`pipeline_admission.py`) | none | `claim_phase_delivery`, `current_pr_disposition` | item, GitHub |
| Item persistence (`persistence.py`) | status, head, run, claims, attempts, intent, receipt, provider calls, successor receipt | conditional single-item updates; S3 artifacts by content digest | DynamoDB, S3 |
| Publication transaction (`pipeline_publication.py`, `review/publication.py`, `review/publication_candidate.py`, `review/github_publication_surface.py`) | candidate, intent, receipt | prepare, mark dispatching, POST, reconcile, recover, abort | item, GitHub |
| Provider dispatch (`deepseek_client.py`, `pipeline_accounting.py`, `direct_openai_budget.py`) | one call record per HTTP attempt; one shared grant counter | fence, send, settle, retry | item, grant counter, provider |
| Capacity (`pipeline_capacity.py`) | one sentinel per day: admitted ids, counters, notice owners | `consume`, `_admit_once`, `_claim_notice` | orchestrator |
| Failure classes (`errors.py`) | none | `classify_failure` | orchestrator |
| Retrieval tools (`context_engine/tools.py`, `repo_structure.py`, `exact_head_search.py`, `state.py`) | the tree listing, probes, quotas, source cache, event log of one collection | `read_file`, exact-path existence, `search_code`, `list_dir`, derived results | GitHub at the head, default-branch search |
| Evidence loop (`context_engine/pfr/`, `context_engine/evidence.py`) | questions, their lifecycle, answers and references; rounds; soft budget | plan, execute, index, judge, repair, sweep, last read, finish | retrieval tools, provider, deadline |
| Diff ingestion, packing and assembly (`pr_ingest.py`, `context_engine/packing.py`, `assembler.py`, `initialization.py`) | the text of one run | fetch, cut, pack | GitHub, the two above |
| Review generation (`review/generate.py`) | one answer and one repair | Deep call, Final call, repair, acceptance | provider, compiler |
| Compiler and validators (`review/presentation_projection.py`, `presentation.py`, `evidence_contract.py`, `v3_validation_*.py`) | one object and its evidence catalog | admit evidence, drop, demote, contract prose, cap, validate | review generation, CI refresh |
| CI (`pipeline_ci.py`) | the checks the model was shown | snapshot, `reapply_latest_ci_guard` | GitHub, compiler |
| Rendering (`review/render.py`, `rendering_safety.py`, `analyzer.py`) | none | Markdown | publication |
| Deadline (`deadline.py`), accounting sums, routing tables | none | pure functions | all phases |
| Terraform (`../../infra/terraform`) | - | one stream mapping: batch 1, one consumer per shard, two retries | deliveries |

What is hard in the protocol: the same stream record may be delivered again
while an earlier delivery still runs, so ownership of an item is a claim tested
inside each conditional write; every write may be applied and its reply lost;
GitHub has no conditional create, its list of reviews may lag, and the pull
request may be pushed to, merged, closed or locked between any two requests; a
model call is paid for whether or not anyone hears the answer.

What is hard in the content: the tree listing may be truncated or missing, code
search answers from another branch than the head, results are reused, and
quotas run out in the middle of anything; the soft budget may be spent between
any two steps of the evidence loop; a judgement may cite what it was never
shown; a review's items are dropped one by one while its verdict must stay the
model's; two validators judge the same item; CI changes between the answer and
the publication. PROJECT.json lists the hazards, each at its line.

## 2. Modules

| Module | What it is |
|---|---|
| `PublicationTransaction` | One item in one phase, any number of deliveries of it, and the pull request. Actions are the functions of the publication transaction in the order the code runs them. |
| `AtMostOnceWrite` | What the transaction promises: a permission granted once, at most one external write, a verdict that is true of it. |
| `ProviderDispatch` | The write-ahead fence of provider calls over several items that share one grant. |
| `SpendingCap` | What the grant promises: a bound fixed once, above the counter, above the bill. |
| `CapacityAdmission` | The daily admission sentinel, the context phase's gate, days and deployments. |
| `PhaseLifecycle` | One item through both phases: the stream records, their deliveries, the claims, the head successor and the context bundle. Publication, provider calls and capacity are one step each. |
| `ExactHeadReads` | The retrieval tools of one collection over an immutable head: the listing, direct probes, quotas, the cache, derived results and the event log. |
| `EvidenceLedger` | The questions of one collection, their events and what each was resolved to. `EvidenceLoop` extends it. |
| `EvidenceLoop` | The plan, fetch and reconcile rounds of `collect_context_pfr`. A tool call is one step whose outcomes are those `ExactHeadReads` details. |
| `PresentationCompile` | `compile_presentation_object` and the strict validator as operators: what a review answer becomes. Pure, except that the contraction of tainted prose is a state machine in the next module. |
| `ReviewGeneration` | `generate_review` and the CI refresh: Deep and Final calls, the contraction loop, the compilation, one repair, and what is published. |
| `Subsequences` | The elements of a list at given positions (`At`), as a recursive function that can be proved about. |
| `*Proofs` | Theorems about the module they extend. |
| `RecursionFacts` | What the recursive functions and sums of the models return; the proof modules share it. |
| `MC*` | Model values, constant definitions and symmetry for TLC. |

State corresponds to code as follows. Item attributes are variables of their
own (`status`, `claim`, `intent`, `receipt`, `call`, ...). A conditional
`update_item` is one action: the ConditionExpression is its guard, the
UpdateExpression its primed variables. An invocation is a process with a
control point `pc[o]`, and a value it read earlier and still relies on is
stored per process (`held`, `reply`, `window`, `seen`, `plan`), so that stale
reads are real. A delivery is a fresh process; it may start while another one
is running. A reply that is lost is a step that applies the write and goes to
the failure path. `Crash` may follow any step.

In the content modules the variables are the fields of the objects the code
passes along (`CollectionState`, `RepoInventory`, the evidence ledger, the
presentation object), the actions are tool calls, loop bodies and the branches
between model calls, and a model answer is any member of a set: `\E` over plans,
judgements, references and reviews, valid or not, that the parsers let through.

Operators named after a definition with a suffix (`RecoverFromScratch`,
`CanAdmitOneMore`, `AdmissibleOnceShown`, ...) are faulty variants that show
which property catches which bug; no specification uses them.

## 3. Runs and bounds

Run `tlc -workers 2 -config <cfg> <module>` in this directory. Times are of two
workers.

| Run | Bounds | What it shows |
|---|---|---|
| `publication` | 2 deliveries, 2 heads, 2 attempts, 2 pull-request moves; 89,752 states, half a minute | At most one review; no verdict that is false of GitHub; nothing private is posted; every step is a step of `AtMostOnceWrite` or leaves it alone; the item settles unless the last delivery crashed or could not claim it. Also `IInv`. |
| `dispatching_intent_ends_unknown` | the same | A violation: finding 1. |
| `old_head_is_never_published` | the same | A violation: finding 2. |
| `provider` | 2 items that share a grant of 2 units, 2 invocations, 2 logical operations of 2 HTTP attempts each | Each request has its own durable fence, and no item two open ones; a settled call is final; nothing is bought after an unknown outcome; the counter is the sum of the ledger; refines `SpendingCap`. |
| `capacity` | 4 runs (one a head successor) of 2 repositories, 3 invocations, 2 days, limits 1 a repository and 2 in all, one policy or two; 1.06 million states, a minute | The daily limit of the most generous policy deployed; whoever is turned away met a full day; one notice a day per repository. Also `CapacityInv`. |
| `over_capacity_costs_nothing` | one policy of the same | A violation: finding 3. |
| `lifecycle` | 3 deliveries, 2 heads, 2 attempts, 2 pushes; 1.02 million states, two minutes | No quiet return with the work undone; the item always has the record that starts its phase; serial paid attempts; the review reads its own run's bundle; only a settled predecessor is replaced, once. Also `LifecycleInv`. |
| `exact_head_reads` | 2 paths, 2 literals, `Heads` (below) and every listing of them, 3 tool calls, 2 reads, 1 search, 1 probe; 3.1 million states, a minute and a half | What a later stage may cite is true of the head; what is reused rests on a call that was made, and hit, for the same argument; the event log accounts for the read quota, and a path is paid for twice only when the first payment bought nothing; the path lists and budgets agree. |
| `evidence_loop` | one read, one search, one sweep search; 2 rounds, plan cap 1, follow-up cap 2, 1 read, 2 searches, plans of 3, 2 items a judgement; 5.3 million states, two and a half minutes | Answers rest on hits of their own; the coverage told to the review is true; no registered request is forgotten; what the judgement shows as answered is answered. |
| `mixed_answers_are_unknown` | the same | A violation: finding 4. |
| `review_generation` | 5 catalog entries, 24 kinds of finding, 3 of unknown and 4 of check, answers of at most two findings, one repair, any CI change; 98,211 states, under a minute | The posture is the model's and fits its items; a finding that decides is lost only to the contraction; nothing stale is published; the two validators agree and the contraction ends, each but for the named exceptions; a refresh that finds no check changed keeps the verdict, the verified findings, the unknowns and the checks. |
| `changed_deciding_evidence_fails_closed` | the same | A violation: finding 5. |

Why these bounds are enough to be interesting:

- Two deliveries already race. The third makes "a stalled owner, the one that
  took over from it, and the one after that" possible, which is where a stale
  snapshot outlives two changes of owner. Three is also what the stream mapping
  gives one record (the first delivery and `maximum_retry_attempts = 2`).
  `lifecycle` and `capacity` have three; `publication` has two, since its
  liveness property forbids symmetry, and its safety properties and its
  refinement are proved for any number (section 6).
- Two attempts reach both sides of the attempt cap. A requeue needs one attempt
  to spare, so only with three can the second attempt requeue while the first
  one's call is still open: that the requeue refuses to do so is not exercised
  by the run and is proved for any cap (`RequeueInv`).
- Two heads are the item's and another. `MaxMoves` bounds pushes, nothing else.
- Two days are the midnight between them. Limits of one place fill a day with
  one run; a global limit of two lets a run be admitted, retried and counted
  beside another's.
- A grant of two calls' worth is met before and after a refund, by two items at
  once.
- In `exact_head_reads` three calls are an observation, one that is derived
  from it, and a third that relies on either; the two quotas, the probe
  allowance (6 in the code) and the listing run out within them, and the head
  ranges over every placement of the literals. `Heads` holds every pair of
  kinds, except that a text between the two size limits (`middling`), one past
  the source cache's limit (`huge`) and one the bounded reader refuses
  (`policy`) stand beside a missing path only: paths are read
  independently but for the shared allowances. The proofs are for all heads.
- In `evidence_loop` two rounds are the code's maximum. The plan cap cuts plans
  of two and three steps; the follow-up cap (3 in the code) cuts replies of
  three; two items are the least that contradict each other. The sweep's symbol
  is one a planned search may already have asked for.
- In `review_generation` two findings are the least at which one decides and
  the other does not; the caps on headline and inline findings (2 and 4 in the
  code) are 1, so that two exceed them. The findings, unknowns, checks and
  screens are picked so that each rule of the compiler meets an item that
  passes it and one that fails it.

Every unbounded counter is capped by a constant (`MaxAttempts`, `MaxMoves`,
`MaxOps`, `MaxTries`, `LastDay`, `MaxCalls`, `MaxPlan`, `MaxItems`), and
`CHECK_DEADLOCK FALSE` is set because a finished item or collection is where
these systems stop. Deliveries are interchangeable, and so are the runs,
repositories, paths and literals that no definition names, which is the
symmetry the safety runs use; the two runs with liveness use none.

### Fairness

Two runs assume any.

- `publication`: weak fairness of each delivery's step. `compute.tf` maps the
  stream with batch size 1 and one consumer per shard, so a record is delivered
  and its handler runs to an end (or is killed, which is `Crash`) before the
  shard moves on, and it is delivered again at most twice. Delivery is at least
  once, so a second one may overlap a first one that lives on. The handler is
  sequential code: one that can take a step takes it, or dies. It does not
  justify that an item settles whatever happens: three deliveries may all die,
  or end before the lease of a dead owner does, and then nothing in the
  repository looks at the item again. `Settles` says exactly that much.
- `review_generation`: weak fairness of one turn of the contraction loop. It is
  a `while` over local data with no wait in it, so it takes its next turn. The
  model calls around it have no fairness.

## 4. What makes each component correct

- Publication: `AtMostOneReview`, `ReviewIsAccountedFor`, `NoPostIsHonest` and
  `ProcessedNamesTheReview` are one promise seen from four sides: GitHub never
  carries two reviews, a review is never forgotten, a verdict of "nothing was
  posted" is a proof, and a receipt names the review that exists. They rest on
  `IntentOnlyAdvances` (the intent is a latch) and `TerminalIsFinal`.
  `OnlyPublishableIsPosted` keeps private notices and unadmitted follow-ups off
  the pull request. `AtMostOnceWrite` is the promise in one small module.
- Provider calls: `RequestsAreFenced` (a record is durable before the request
  is on the wire, and is used for one request), `OneOpenFence`,
  `UnknownStopsPurchases` (an unknown outcome stops further buying),
  `SettlementIsFinal`, `CounterMatchesLedger`. `SpendingCap` is the promise: the
  bill never exceeds a bound fixed once.
- Capacity: `DailyLimits`, `CountersAreAdmissions`, `TurnedAwayWasFull`,
  `OneNoticePerDay`, `PaidRunsAreAdmitted`. `TurnedAwayWasFull` speaks of the
  states in which one policy has been deployed, because it is not true of two:
  `consume` re-reads the day after a refused condition, and an invocation of an
  older, more generous deployment may admit a run in between.
- Lifecycle: `PhaseHasItsRecord` (a write that leaves the item waiting passes
  `process_record`, successors included), `NormalReturnMovesOn` (Lambda drops a
  record whose delivery returned normally, so none may return with the work
  undone), `ContextIsOfThisRun`, `AttemptsAreSerial`, `PredecessorWasSettled`.
- Retrieval: `EvidenceIsTrueAtHead` (whatever may be cited holds at the head,
  by whichever of the five ways it was found out), `DerivedRestsOnAnEarlierHit`
  (reuse makes no evidence out of nothing), `RepeatsAreExcused` (the quota is
  spent once on a path whose state was bought, whose text was shown or whose
  probe failed; the repeats it allows are named in it), and in
  `ReadsInv` the agreement of the three path lists and the budgets.
- Evidence loop: `AnswersRestOnHits` (an answered question rests on hits
  recorded for that question), `ShownAnswersStand` (the judgement's record and
  the ledger agree), `ScopeIsHonest` (the review is told that the judgement
  covers all evidence only if it saw every hit), `NoRequestIsForgotten`; and in
  `LoopInv` that two rounds and one repair are all there are.
- Review generation: `PostureIsTheModels` (code drops items, it never changes
  the verdict), `NoDecidingLoss` (the findings that decided the model's own
  answer, kept in the history variable `answer`, are in the review; the
  exception, a finding the contraction may delete, is named in it),
  `PostureMatchesItems`, `ValidatorsAgree` (a
  review that was compiled is not lost to the second validator),
  `ContractionEndsUnlessSelfQuoting`.
- CI refresh: `NothingStaleIsPublished`, and `RecompilationIsStable`: a refresh
  that finds no check changed, of a review with no tainted prose, publishes it
  with the verdict, the verified findings, the unknowns and the checks it had.
  It does not promise the unverified notes: one that was demoted has its
  required references among its supporting ones, and when it is compiled again
  a check it leaned on may no longer be lent to it.

## 5. Findings

1. `docs/ARCHITECTURE.md` says a dispatching intent without proof or receipt
   "remains `publication_outcome_unknown`". Only the reconciliation verdict is
   mapped to that kind: a non-retryable POST failure, attempts exhausted before
   reconciliation, or a reconciliation that sees a review it must refuse, ends
   the item with the failure's own kind.
2. The same document says a late head change "can never publish the old
   review". The last snapshot and `create_review` are two requests, and a push
   between them leaves a review of the old head.
3. `docs/CONFIGURATION.md` says an over-capacity pull request "costs no model
   call". Capacity is charged to the day of the attempt, so a run that was
   admitted and paid, and is retried after midnight, may be turned away.
4. `reconcile_contract.py:836-841` says distinct answers to one question
   collapse to an unknown, since "selecting first/last would let array order
   decide evidence truth". Only answers that were bound are compared: of one
   bound and one refused answer, the ledger keeps the last.
5. `pipeline_ci.py:507-511` says changed deciding evidence fails closed. A check
   that was re-run has a new id, so the old one is unknown before it is changed:
   a finding that cites it beside other evidence keeps the finding without it,
   and the review is published with no new judgement.

Met while modelling, and not given a run of their own:

- The contraction loop (`presentation_projection.py:1525-1615`) replaces a
  tainted summary by the deciding finding's headline, or by the missing fact to
  verify. When that text repeats the same unsupported check, the summary is
  replaced by itself and the loop does not end. It is the exception
  `ContractionEndsUnlessSelfQuoting` names.
- A clear verdict keeps its summary when a P0 or P1 finding beside it is dropped
  for missing or insufficient evidence; the comment at line 1849 wants a summary
  that rested on it replaced. These are the losses with `orphans |-> FALSE` in
  `Losses`.
- The first substantive P2 finding of a blocking review counts as required only
  when it is also the first finding of all (`Losses`: `i = 1`; the comment is at
  line 773): at another position its loss is that of an optional item, so it
  starts no repair.
- The compiler accepts, and the strict validator refuses, a critical finding
  without a file path, a critical one on a deleted region that leans on CI, and
  a blocking policy failure whose diagnostic only its owner action repeats
  (`Disputed`). The review is lost after both model calls.
- `docs/REVIEW_OUTPUT.md:122` says tainted core prose makes a review
  nonpublishable. Taint is tested before items are dropped and demoted, so the
  prose of a published review may repeat a check that it then only leans on; a
  refresh contracts it.
- A critical finding that is removed because its prose repeats an unsupported
  check is not counted as lost while another one carries the verdict
  (`presentation_projection.py:1607`; which findings decide is settled after it,
  at 1643), where `docs/REVIEW_OUTPUT.md:5-14` promises one correction. It is
  the exception `NoDecidingLoss` names (`ContractedAway`).
- `out_of_catalog_material_evidence` is listed as repairable (`generate.py:86`)
  and never is.
- A repair is accepted on the number of its findings, not on which they are
  (`generate.py:815`).
- A Final answer that was cut short is refused without the repair, even when
  what arrived is readable.
- An exact-path probe that finds a file adds it to the inventory, but a later
  read checks the collection's copy of the list (`tools.py:907-957`,
  `state.py:73`), and refuses the path or probes for it again.
- A text too big to be shown whole, downloaded for a literal it does not
  contain, is cached (up to 2 MiB) but not collected, and reuse wants an earlier
  hit (`tools.py:1056`, `1099-1117`, `495`): the next read of it, for another
  literal or the same one, is charged and downloaded again. It is the second
  alternative of `RepeatsAreExcused`.
- `tools.py:593-595` says that a collected file whose text is not cached falls
  through to the backend. A text past 2 MiB is that case, and a call with a
  literal ends as a `repeat` before any download (`tools.py:1019-1023`), since
  it is collected.
- A search that was answered is remembered without its intent, and reused only
  for the same intent: asked with another one it is a `repeat`, which carries no
  evidence (`exact_head_search.py:204-243`).
- Follow-ups past the first three of a first-round reply are neither run nor
  recorded (`orchestration.py:783`). `NoRequestIsForgotten` is about registered
  requests, which these never become.
- Asking an answered question again resets its lifecycle (`evidence.py:168-194`).

## 6. Proofs

Each theorem holds for every value of the constants the module's assumptions
allow: any deliveries, heads, items, runs, policies, attempt caps, paths,
literals, quotas, catalogs, plans, judgements and answers. The assumptions are
typing facts (a cap is a number, a catalog id is a string, an answer is a
presentation, `None` is none of the values it stands beside, the item's head is
a head); that a limited repository implies a limited total; and that runs,
paths, literals and the owners of a grant are finite, which cardinalities and
sums need. TLC evaluates them on every run.

| Module | Inductive invariant | Theorems |
|---|---|---|
| `PublicationProofs` | `IInv`; beside it `PostableInv` | `TypeOK`, `AtMostOneReview`, `ProcessedNamesTheReview`, `NoPostIsHonest`, `ReviewIsAccountedFor`, `IntentOnlyAdvances`, `TerminalIsFinal`, `OnlyPublishableIsPosted`; the refinement of `AtMostOnceWrite` |
| `ProviderProofs` | `DispatchInv`; `GrantInv` | `TypeOK`, `OneOpenFence`, `RequestsAreFenced`, `SettlementIsFinal`, `UnknownStopsPurchases`, `CounterMatchesLedger`; the refinement of `SpendingCap` |
| `CapacityProofs` | `CapacityInv` | `CountersAreAdmissions`, `DailyLimits`, `OneNoticePerDay`, `TurnedAwayWasFull`, `PaidRunsAreAdmitted` |
| `LifecycleProofs` | `LifecycleInv` | `TypeOK`, `PhaseHasItsRecord`, `NormalReturnMovesOn`, `ContextIsOfThisRun`, `AttemptsAreSerial`, `PredecessorWasSettled` |
| `ReadsProofs` | `EvidenceInv` | `ReadsInv`, `EvidenceIsTrueAtHead`, `DerivedRestsOnAnEarlierHit`, `RepeatsAreExcused` |
| `LoopProofs` | `CollectionInv` | `LoopInv`, `AnswersRestOnHits`, `ScopeIsHonest`, `NoRequestIsForgotten`, `ShownAnswersStand` |
| `GenerationProofs` | `GenerationInv` | `GenerationTypeOK`, `PostureIsTheModels`, `PostureMatchesItems`, `NoDecidingLoss`, `NothingStaleIsPublished`, `ValidatorsAgree` |
| `RecursionFacts` | - | lemmas: `AtSelects`, `SumIsUnits`, `SumSplits`, `SumsAdd` and those they rest on |

Why the properties are not inductive by themselves, and the argument:

- `IInv`. That there is one review says nothing about an invocation that is
  about to post a second one. `PermitInv` says that at most one invocation is
  in the stretch between marking the intent dispatching and having posted or
  renounced, and that no review exists while it is; `OwnerInSync` says why the
  owner of the claim may act on its snapshot; `ReviewInv` and `WithheldInv` tie
  what GitHub shows to what the item says. The refinement maps that stretch to
  the abstract permission, and each action to a step of it or to a stutter.
- `DispatchInv`. The fence is opened under a condition on the whole ledger and
  used after the reply; the invariant relates each invocation's control point
  to the record it opened, and each open record to the one invocation that may
  still use it.
- `CapacityInv`. The counters are kept as numbers, the admissions as a set; the
  invariant states the cardinalities for each repository and for the day, and
  what an invocation that holds a stale refusal has read.
- `LifecycleInv`. `StreamInv`: exactly one record, the last, may describe the
  item, so whatever an old record's delivery does, it fails its condition.
  `ClaimInv`: a claim is held by the delivery that made the last attempt, of
  the current phase and run. `AttemptInv`: a number is given out once.
  `LastAttemptInv`: the last attempt stays with a delivery that has not
  returned normally, which is what `NormalReturnMovesOn` rests on.
  `RequeueInv`: what `requeue_head_successor` read before its write is still so
  when the write is accepted, because an open call needs the claim and any new
  claim changes the attempt number that the write tests. `ArtifactInv`: a key
  is the content it names, so the bucket only grows. `StageInv` ties lifecycle
  checkpoints to phases. The proof first sorts the twenty actions into six
  kinds of step (`Kinds`) and shows each conjunct for each kind.
- `EvidenceInv`. `EvidenceIsTrueAtHead` is about events that may be cited; a
  derived one copies an earlier event, so what an event *says* (`Said`) must
  hold of every hit in the log, cited or not, and must include that a file
  fetched in full is small. `HeadInv` relates the listing to the head, without
  which "absent" would be a guess. `Rests` is stated over a prefix of the log, so
  that it survives an append. `HasLast` (a finite set of numbers has a last one)
  makes the choice of the latest earlier hit well defined; it is proved from the
  well-foundedness of strict subset on finite sets. For `RepeatsAreExcused`,
  `BillInv` says what each charged call left behind (`Settled`): a probe that is
  remembered, a collected text, or one of the excuses.
- `GrantInv`. A call's record and its part of the counter are written by one
  conditional transaction, or the record alone by one that owes the counter
  nothing, so the counter is the sum of the records after every step. A sum over
  a function has no induction principle the provers can apply, so
  `RecursionFacts` proves each sum to be the number of its units, a set, and the
  steps argue about sets: one record changes, the units of the others stay.
- `CollectionInv`. While a judgement is applied, what it kept is answered in the
  ledger or downgraded; until the log is sealed nothing has been marked
  uncovered; and while a sweep may still end the collection, the invariant knows
  where in the log the judgement's evidence stopped. For `ScopeIsHonest` it
  says that the judgement of a settling sweep had seen every event up to the one
  where the sweep began, so only a hit of the sweep itself can be uncovered. For
  `NoRequestIsForgotten` it says that a planned question still waits in the
  queue, from its registration on.
- `GenerationInv`. Three facts about the compiler: it writes no verdict; a kept
  finding keeps its claim and its name and cites only what is admissible; a
  publishable compilation has passed the whole table of failures, so what the
  table asks is true of every review that is held (`DraftInv`, `ReviewInv`).
  `AnswerInv` says that every turn of the contraction keeps each finding that
  decided the answer, but for those it may delete, and that it still decides.
  `CurrencyInv` says that nothing has changed before the refresh, and that what
  is published is current. For `ValidatorsAgree` the strict validator
  is shown to accept what the compiler kept: demotion, placement and election
  leave a finding with the same evidence, and the caps are kept, so it can only
  refuse what it reads otherwise than the compiler (`RefusalInv`, `Disputed`).
- `PostableInv`. What may be posted is decided before the intent is written, by
  whoever writes it; the invariant says what each later control point, a
  recovering delivery's included, still knows of that decision.

Two statements were too strong for the code, and only their proofs showed it:
an earlier `ValidatorsAgree` did not know of policy failures whose diagnostic
only the owner action repeats, and an earlier `RecompilationIsStable` claimed
that the whole review stays. Both held on the findings the run then had. The
instance now has the findings that break them (`asks`, `asksP2`, `vouched`,
`elsewhere`, a check about `ci1`), and the statements say what is true.

Lists and sums are defined by recursive functions, and a proof about every list
is an induction. The library's induction theorems take the property as an
operator, which no installed prover can instantiate; `SetInduction` and
`SubsetInduction` take it as a set, and rest on a smallest counterexample, so
that `At` and `SumFunction` could be characterised for every argument.

Only model-checked: `Settles` and `ContractionEndsUnlessSelfQuoting`, since
liveness under fairness and ENABLED are outside what the prover can do; and
`RecompilationIsStable`, which needs the compiler to be idempotent on what it
kept, not proved yet.

## 7. Abstractions

- A payload, its digest and its size are the identity of what they describe.
  `update_item` with a condition is atomic; a read is consistent where the code
  asks for a consistent read.
- A lease (16 minutes) outlives a Lambda (15), so an expired claim
  is the claim of an invocation that has ended; time itself is not modelled.
- `PhaseLifecycle` has one provider call per delivery and does not order the
  gates of a phase; `ProviderDispatch`, `PublicationTransaction` and
  `CapacityAdmission` have the detail.
- The head successor's run id is a digest of its head, hence its identity; the
  webhook's is the first head's.
- `PublicationTransaction` is the review phase (or, with another
  `ExpectedStatus`, the context phase's skip notices) of one item.
- `ExactHeadReads`: a file is one of six kinds and the set of literals it
  contains; slices, windows and line numbers are whether an asked literal is
  there. Calls run one after another, as in the code.
- `EvidenceLoop`: a question is its identity (text, tool and arguments). Prompts,
  parsing and the index are the set of plans and judgements they can return. The
  soft budget is a fact that becomes true at some moment; what depends on
  seconds left is a choice.
- `PresentationCompile`: a text is the set of CI checks it repeats, which is what
  the contraction is about; P0 and P1 are treated alike by the code and are one
  priority; "defect" stands for every category that is neither a test gap, a
  question nor a note. A snippet is whether and how it is found in the diff.

## 8. Not modelled

- Diff ingestion, prompt packing, assembly, repository-structure hints and the
  fact sheet: they cut text to size and keep no state that another step trusts,
  beyond the listing and the catalog, which are modelled where they are used.
- Rendering, diagrams, suggestions, confidence, pr_type and JSON recovery:
  layout and wording. The compiler's rules about them drop only the decoration.
- The paged reads that fold check runs into one CI state: their result is a set
  of changed checks.
- Phase deadline: arithmetic over floats and the clock. The models let time run
  out anywhere the code asks, so what it computes is not needed; that the
  state-write reserve is large enough is a hazard no property covers.
- The item-size limit of DynamoDB, the second such hazard: sizes are data the
  models abstract.
- Provider routing, price tables, the continuous budget mode, GitHub App
  authentication, configuration parsing, the operator scripts, and the Terraform
  files beyond the stream mapping: tables, input and output, without protocol
  state.
- The webhook's filter of events and the decoding of stream images: what passes
  them is the initial state and the records of `PhaseLifecycle`.

PROJECT.json gives the status of each component.

## 9. Plan

What is left, in order of worth:

1. The mapping from failures to retry, abandon and supersede (`errors.py`), and
   the deadline reserves (`deadline.py`) over integers, as operators with a
   reference definition.
2. The CI fold of `pipeline_ci.py` in front of `ReviewGeneration`, and packing as
   an algorithm whose claims about what was cut are true.
3. The webhook's filter and duplicate events in front of `PhaseLifecycle`.
4. A proof of `RecompilationIsStable`: compiling what was compiled, in the same
   context, keeps every verified finding and passes the table of failures again.

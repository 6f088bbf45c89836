----------------------- MODULE PublicationTransaction -----------------------
(***************************************************************************)
(* The prepared -> dispatching -> receipt transaction that writes at most  *)
(* one GitHub review for one (repo, pull request) queue item.              *)
(*                                                                         *)
(* The item lives in DynamoDB and every change to it is one conditional    *)
(* write.  A phase runs as one Lambda invocation per delivery of the same  *)
(* stream record.  Deliveries are at least once, so a later invocation may *)
(* take the claim over while an earlier one is stalled and still running.  *)
(* An invocation is named by the owner_id it writes into the claim and     *)
(* runs once; it may crash between any two of its steps.  The pull request *)
(* moves on its own: it is pushed to, merged, closed, reopened, locked.    *)
(*                                                                         *)
(* Sources: pipeline_publication.py, review/publication.py,                *)
(* review/publication_candidate.py, review/github_publication_surface.py,  *)
(* persistence.py, pipeline_admission.py, and the failure handling of      *)
(* orchestrator.py.  The review itself (what the models write) is data.    *)
(***************************************************************************)
EXTENDS Naturals, Sequences, FiniteSets

CONSTANTS
  Owners,          \* invocation identities (aws_request_id), one per delivery
  Heads,           \* commit SHAs the pull request may point at
  ItemHead,        \* head_sha of the queue item
  ExpectedStatus,  \* PENDING in the context phase, CONTEXT_READY in review
  MaxAttempts,     \* config.MAX_ATTEMPTS
  MaxMoves,        \* bound: how often the pull request changes under us
  None,            \* an absent attribute
  Legacy,          \* publication key of an intent an older build left behind
  Foreign          \* key of a bot review that predates this item

ASSUME ConstantsAssumption ==
  /\ ItemHead \in Heads
  /\ ExpectedStatus \in {"PENDING", "CONTEXT_READY"}
  /\ MaxAttempts \in Nat \ {0}
  /\ MaxMoves \in Nat
  /\ Legacy \notin Owners /\ Foreign \notin Owners /\ Legacy # Foreign
  /\ None \notin Owners

VARIABLES
  status,    \* item.status
  claim,     \* item.<phase>_claim.owner_id
  attempts,  \* item.<phase>_attempt
  admitted,  \* item.initial_admission is present
  intent,    \* item.publication_intent
  receipt,   \* item.publication_receipt
  noPost,    \* item.publication_post_started = False was recorded
  errorKind, \* item.error_kind, as far as publication tells kinds apart
  cand,      \* the immutable candidate artifacts in S3, by publication key
  pr,        \* the pull request as GitHub reports it
  moves,     \* how often pr has changed (bound only)
  reviews,   \* bot reviews that exist on the pull request
  pc,        \* what each invocation does next
  tries,     \* the attempt number each invocation claimed
  held       \* the intent each invocation last read or wrote

itemVars == <<status, claim, attempts, admitted, intent, receipt, noPost,
              errorKind>>
envVars  == <<pr, moves>>
vars     == <<itemVars, cand, envVars, reviews, pc, tries, held>>

Keys == Owners \cup {Legacy}

TerminalStatus == {"PROCESSED", "PROCESSED_DRYRUN", "ERROR", "SUPERSEDED"}

Candidate == [kind : {"ordinary_review", "post_merge_follow_up",
                      "lifecycle_cancellation"},
              mode : {"final", "failed", "cancelled"}]

Intent == [key : Keys, state : {"prepared", "dispatching"},
           recovery : Nat, owner : Keys]

Ended == {"done", "failed", "crashed", "unclaimed"}

Failing == {"retry", "abandon", "unknown", "supersede"}

Steps == {"idle", "claimed", "recover", "start", "generate", "drycheck",
          "drycommit", "precheck", "preflight", "persist", "recheck",
          "reflight", "mark", "fresh", "post", "reconcile", "receipt",
          "abort", "suppress"} \cup Failing \cup Ended

\* An absent attribute is not mistaken for a present one.
ASSUME NoneAssumption ==
  None \notin Intent \cup Candidate \cup [key : Keys, recovery : Nat]

PullRequest == [head : Heads, state : {"open", "merged", "closed"},
                locked : BOOLEAN]

-----------------------------------------------------------------------------
(* Conditions of the conditional writes. *)

\* Faulty: the claim is not part of the condition.
OwnsPhaseByStatus(o) == status = ExpectedStatus

\* update_status, release_phase_claim: the phase is live and still ours.
OwnsPhase(o) == status = ExpectedStatus /\ claim = o

\* The publication_intent equality CAS of replace_publication_intent and of
\* the terminal writes that name an expected intent.
HoldsIntent(o) == OwnsPhase(o) /\ intent = held[o] /\ receipt = None

Goto(o, step) == pc' = [pc EXCEPT ![o] = step]

Hold(o, i) == held' = [held EXCEPT ![o] = i]

\* update_status: reach a terminal status and drop the claim.
Finish(s) == status' = s /\ claim' = None

-----------------------------------------------------------------------------
(* What GitHub's pull-request snapshot means for a candidate. *)

SameHead == pr.head = ItemHead

PrEnded == pr.state # "open"

Required(c) ==
  CASE c.kind = "ordinary_review"        -> {"open"}
    [] c.kind = "post_merge_follow_up"   -> {"merged"}
    [] c.kind = "lifecycle_cancellation" -> {"merged", "closed"}

\* _require_publication_disposition, in the order it tests.
DispositionVerdict(c) ==
  IF ~SameHead THEN IF PrEnded THEN "lifecycle" ELSE "head"
  ELSE IF PrEnded /\ c.kind = "ordinary_review" THEN "lifecycle"
  ELSE IF pr.locked /\ c.mode = "failed" THEN "lifecycle"
  ELSE IF PrEnded /\ pr.locked /\ c.kind # "ordinary_review" THEN "lifecycle"
  ELSE IF pr.state \in Required(c) THEN "ok" ELSE "conflict"

\* _require_fresh_dispatch_disposition: anything but the required state aborts.
FreshEnough(c) ==
  SameHead /\ pr.state \in Required(c) /\ ~(pr.locked /\ c.mode = "failed")

\* A complete listing always shows an old review; our own may lag behind.
NoBotReviewVisible == \A i \in DOMAIN reviews : reviews[i].key # Foreign

-----------------------------------------------------------------------------
(* An older build may have left a prepared notice that is no longer posted. *)

LegacyCandidate == {[kind |-> "ordinary_review", mode |-> "failed"],
                    [kind |-> "lifecycle_cancellation", mode |-> "cancelled"]}

LegacyIntent == [key |-> Legacy, state |-> "prepared",
                 recovery |-> 0, owner |-> Legacy]

Init ==
  /\ status = ExpectedStatus
  /\ claim = None /\ attempts = 0 /\ receipt = None
  /\ noPost = FALSE /\ errorKind = "none"
  /\ admitted \in BOOLEAN
  /\ \/ intent = None /\ cand = [k \in Keys |-> None]
     \/ /\ intent = LegacyIntent
        /\ \E c \in LegacyCandidate :
             cand = [k \in Keys |-> IF k = Legacy THEN c ELSE None]
  /\ pr \in [head : {ItemHead}, state : {"open"}, locked : {FALSE}]
  /\ moves = 0
  /\ reviews \in {<<>>, <<[key |-> Foreign, commit |-> ItemHead]>>}
  /\ pc = [o \in Owners |-> "idle"]
  /\ tries = [o \in Owners |-> 0]
  /\ held = [o \in Owners |-> None]

-----------------------------------------------------------------------------
(* Delivery: claim the phase, reread the item, decide what to run. *)

\* The first read already shows another status: the record is a no-op.
SkipStale(o) ==
  /\ pc[o] = "idle" /\ status # ExpectedStatus
  /\ Goto(o, "done")
  /\ UNCHANGED <<itemVars, cand, envVars, reviews, tries, held>>

\* The claim write raises, or a foreign record holds it: the delivery fails.
ClaimUnavailable(o) ==
  /\ pc[o] = "idle"
  /\ Goto(o, "unclaimed")
  /\ UNCHANGED <<itemVars, cand, envVars, reviews, tries, held>>

\* claim_phase_attempt.  Every delivery carries the same stream event, and
\* the same event takes an unexpired claim over at once.
ClaimPhase(o) ==
  /\ pc[o] = "idle" /\ status = ExpectedStatus
  /\ claim' = o
  /\ attempts' = attempts + 1
  /\ tries' = [tries EXCEPT ![o] = attempts + 1]
  /\ Goto(o, "claimed")
  /\ UNCHANGED <<status, admitted, intent, receipt, noPost, errorKind, cand,
                 envVars, reviews, held>>

\* Second consistent read: the snapshot the invocation works from.
VerifyClaim(o) ==
  /\ pc[o] = "claimed"
  /\ IF OwnsPhase(o) /\ attempts = tries[o]
     THEN /\ Hold(o, intent)
          /\ Goto(o, IF intent # None THEN "recover"
                     ELSE IF tries[o] > MaxAttempts THEN "abandon"
                     ELSE "start")
     ELSE Goto(o, "failed") /\ UNCHANGED held
  /\ UNCHANGED <<itemVars, cand, envVars, reviews, tries>>

\* The first lifecycle checkpoint: an open pull request at our head makes the
\* admission durable; anything else ends the item without a GitHub write.
StartCheckpoint(o) ==
  /\ pc[o] = "start"
  /\ \/ /\ SameHead /\ ~PrEnded /\ (admitted \/ OwnsPhase(o))
        /\ admitted' = TRUE
        /\ Goto(o, "generate")
     \/ /\ ~SameHead \/ PrEnded
        /\ Goto(o, "supersede") /\ UNCHANGED admitted
     \/ Goto(o, "retry") /\ UNCHANGED admitted
  /\ UNCHANGED <<status, claim, attempts, intent, receipt, noPost, errorKind,
                 cand, envVars, reviews, tries, held>>

\* Generation up to the last checkpoint before publication.  A candidate is
\* bound to the disposition that checkpoint saw; a retry that sees a bot
\* review stops; a failed generation is private.
Generate(o) ==
  /\ pc[o] = "generate"
  /\ \/ \E kind \in {"ordinary_review", "post_merge_follow_up"} :
          LET c == [kind |-> kind, mode |-> "final"] IN
          /\ SameHead /\ pr.state \in Required(c)
          /\ kind = "post_merge_follow_up" => admitted /\ ~pr.locked
          /\ tries[o] > 1 => NoBotReviewVisible
          /\ cand' = [cand EXCEPT ![o] = c]
          /\ \E step \in {"precheck", "drycheck"} : Goto(o, step)
     \/ /\ ~SameHead \/ PrEnded
        /\ Goto(o, "supersede") /\ UNCHANGED cand
     \/ /\ \E step \in {"retry", "abandon"} : Goto(o, step)
        /\ UNCHANGED cand
  /\ UNCHANGED <<itemVars, envVars, reviews, tries, held>>

-----------------------------------------------------------------------------
(* publish_prepared_transaction and the prepared branch of recovery. *)

\* make_pre_publish_check.  Before the intent exists a lifecycle change is an
\* ordinary supersession; afterwards it is a known-zero-write abort.
PrePublishCheck(o, c, next, onLifecycle) ==
  /\ \/ status # ExpectedStatus /\ Goto(o, "retry")
     \/ Goto(o, "retry")                          \* GitHub could not be read
     \/ /\ status = ExpectedStatus
        /\ IF c.kind # "ordinary_review" /\ ~admitted
           THEN Goto(o, "abandon")
           ELSE Goto(o, CASE DispositionVerdict(c) = "ok"        -> next
                          [] DispositionVerdict(c) = "head"      -> "supersede"
                          [] DispositionVerdict(c) = "lifecycle" -> onLifecycle
                          [] DispositionVerdict(c) = "conflict"  -> "abandon")
  /\ UNCHANGED <<itemVars, cand, envVars, reviews, tries, held>>

PreCheck(o) ==
  pc[o] = "precheck" /\ PrePublishCheck(o, cand[o], "preflight", "supersede")

ReCheck(o) ==
  pc[o] = "recheck" /\ PrePublishCheck(o, cand[held[o].key], "reflight", "abort")

\* assert_no_existing_bot_review.
AssertNoBotReview(o, next) ==
  /\ \/ NoBotReviewVisible /\ Goto(o, next)
     \/ reviews # <<>> /\ Goto(o, "abandon")      \* PublicationIntegrityFailure
     \/ Goto(o, "retry")                          \* listing unavailable
  /\ UNCHANGED <<itemVars, cand, envVars, reviews, tries, held>>

Preflight(o) == pc[o] = "preflight" /\ AssertNoBotReview(o, "persist")

\* Faulty: the intent stays prepared while the POST is made.
ReflightWithoutMark(o) == pc[o] = "reflight" /\ AssertNoBotReview(o, "fresh")

Reflight(o) == pc[o] = "reflight" /\ AssertNoBotReview(o, "mark")

\* store_publication_intent.  The write may land although its reply is lost.
PersistIntent(o) ==
  /\ pc[o] = "persist"
  /\ IF OwnsPhase(o) /\ intent = None /\ receipt = None
     THEN /\ intent' = [key |-> o, state |-> "prepared",
                        recovery |-> 0, owner |-> o]
          /\ Hold(o, intent')
          /\ \E step \in {"recheck", "retry"} : Goto(o, step)
     ELSE Goto(o, "abandon") /\ UNCHANGED <<intent, held>>
  /\ UNCHANGED <<status, claim, attempts, admitted, receipt, noPost, errorKind,
                 cand, envVars, reviews, tries>>

\* Faulty: recovery starts over, forgetting that the POST was authorised.
RecoverFromScratch(o) ==
  /\ pc[o] = "recover" /\ HoldsIntent(o)
  /\ intent' = [held[o] EXCEPT !.recovery = tries[o], !.owner = o,
                               !.state = "prepared"]
  /\ Hold(o, intent') /\ Goto(o, "recheck")
  /\ UNCHANGED <<status, claim, attempts, admitted, receipt, noPost, errorKind,
                 cand, envVars, reviews, tries>>

\* Faulty: a prepared notice of a failed run is published like a review.
RecoverAnyNotice(o) ==
  /\ pc[o] = "recover" /\ HoldsIntent(o)
  /\ intent' = [held[o] EXCEPT !.recovery = tries[o], !.owner = o]
  /\ Hold(o, intent')
  /\ Goto(o, IF held[o].state = "prepared" THEN "recheck" ELSE "reconcile")
  /\ UNCHANGED <<status, claim, attempts, admitted, receipt, noPost, errorKind,
                 cand, envVars, reviews, tries>>

\* begin_recovery, then the branch on the durable intent state.
Recover(o) ==
  /\ pc[o] = "recover"
  /\ IF HoldsIntent(o)
     THEN /\ intent' = [held[o] EXCEPT !.recovery = tries[o], !.owner = o]
          /\ Hold(o, intent')
          /\ \/ Goto(o, "retry")
             \/ held[o].state = "dispatching" /\ Goto(o, "reconcile")
             \/ /\ held[o].state = "prepared"
                /\ IF cand[held[o].key].mode # "final"
                   THEN Goto(o, "suppress")
                   ELSE \E step \in {"recheck", "drycommit"} : Goto(o, step)
     ELSE Goto(o, "abandon") /\ UNCHANGED <<intent, held>>
  /\ UNCHANGED <<status, claim, attempts, admitted, receipt, noPost, errorKind,
                 cand, envVars, reviews, tries>>

\* mark_dispatching: the only write that authorises a POST.
MarkDispatching(o) ==
  /\ pc[o] = "mark"
  /\ IF HoldsIntent(o) /\ held[o].state = "prepared"
     THEN /\ intent' = [held[o] EXCEPT !.state = "dispatching", !.owner = o]
          /\ Hold(o, intent')
          /\ \E step \in {"fresh", "retry"} : Goto(o, step)
     ELSE Goto(o, "abandon") /\ UNCHANGED <<intent, held>>
  /\ UNCHANGED <<status, claim, attempts, admitted, receipt, noPost, errorKind,
                 cand, envVars, reviews, tries>>

\* _resolve_exact_review_commit and _require_fresh_dispatch_disposition.
FreshDisposition(o) ==
  /\ pc[o] = "fresh"
  /\ \/ Goto(o, IF FreshEnough(cand[held[o].key]) THEN "post" ELSE "abort")
     \/ Goto(o, "retry")                          \* HeadVerificationUnavailable
     \/ Goto(o, "supersede")                      \* commit resolves elsewhere
  /\ UNCHANGED <<itemVars, cand, envVars, reviews, tries, held>>

\* Faulty: the HTTP client repeats the POST when it saw no reply.
PostReviewTwice(o) ==
  /\ pc[o] = "post"
  /\ reviews' = Append(reviews, [key |-> held[o].key, commit |-> ItemHead])
  /\ \E step \in {"post", "reconcile"} : Goto(o, step)
  /\ UNCHANGED <<itemVars, cand, envVars, tries, held>>

\* create_review.  The effect and the reply are independent: a retryable or
\* lost reply is reconciled, any other failure ends the attempt.
PostReview(o) ==
  /\ pc[o] = "post"
  /\ \/ reviews' = Append(reviews, [key |-> held[o].key, commit |-> ItemHead])
     \/ UNCHANGED reviews
  /\ \E step \in {"reconcile", "abandon"} : Goto(o, step)
  /\ UNCHANGED <<itemVars, cand, envVars, tries, held>>

\* Faulty: a review that cannot be seen is posted again.
ReconcileByReposting(o) ==
  /\ pc[o] = "reconcile" /\ NoBotReviewVisible /\ Goto(o, "fresh")
  /\ UNCHANGED <<itemVars, cand, envVars, reviews, tries, held>>

\* Faulty: a dispatching intent is taken for proof of the review.
ReconcileByTrust(o) ==
  /\ pc[o] = "reconcile" /\ NoBotReviewVisible /\ Goto(o, "receipt")
  /\ UNCHANGED <<itemVars, cand, envVars, reviews, tries, held>>

\* reconcile_dispatching: read-only, at most four observations.  Any bot
\* review that is seen may be refused: it is another publication's, it stands
\* beside a second one, or its body, time or comments (all of which can be
\* edited or deleted on GitHub) are no longer those of the intent.
Reconcile(o) ==
  /\ pc[o] = "reconcile"
  /\ \/ /\ Len(reviews) = 1 /\ reviews[1].key = held[o].key
        /\ reviews[1].commit = ItemHead
        /\ Goto(o, "receipt")
     \/ NoBotReviewVisible /\ Goto(o, "unknown")  \* PublicationOutcomeUnknown
     \/ reviews # <<>> /\ Goto(o, "abandon")      \* PublicationIntegrityFailure
     \/ Goto(o, "retry")                          \* deadline
  /\ UNCHANGED <<itemVars, cand, envVars, reviews, tries, held>>

Receipt(o) == [key |-> held[o].key, recovery |-> held[o].recovery]

\* store_terminal_receipt: one write, or proof that the same receipt won.
StoreReceipt(o) ==
  /\ pc[o] = "receipt"
  /\ \/ /\ HoldsIntent(o)
        /\ Finish("PROCESSED") /\ receipt' = Receipt(o)
        /\ \E step \in {"done", "retry"} : Goto(o, step)
     \/ /\ ~HoldsIntent(o)
        /\ Goto(o, IF status = "PROCESSED" /\ receipt = Receipt(o)
                   THEN "done" ELSE "abandon")
        /\ UNCHANGED <<status, claim, receipt>>
     \/ Goto(o, "retry") /\ UNCHANGED <<status, claim, receipt>>
  /\ UNCHANGED <<attempts, admitted, intent, noPost, errorKind, cand, envVars,
                 reviews, tries, held>>

-----------------------------------------------------------------------------
(* Terminal results that never reach GitHub. *)

\* A terminal write bound to the exact intent that also records
\* publication_post_started = False; losing it is a state conflict.
CommitWithoutPost(o, s) ==
  /\ IF HoldsIntent(o)
     THEN /\ Finish(s) /\ noPost' = TRUE
          /\ errorKind' = IF s = "ERROR" THEN "other" ELSE errorKind
          /\ \E step \in {"done", "retry"} : Goto(o, step)
     ELSE Goto(o, "abandon") /\ UNCHANGED <<status, claim, noPost, errorKind>>
  /\ UNCHANGED <<attempts, admitted, intent, receipt, cand, envVars, reviews,
                 tries, held>>

\* _commit_known_zero_write_abort.
ZeroWriteAbort(o) == pc[o] = "abort" /\ CommitWithoutPost(o, "SUPERSEDED")

\* suppress_unsuccessful_notice.
SuppressNotice(o) ==
  /\ pc[o] = "suppress"
  /\ CommitWithoutPost(o, IF cand[held[o].key].mode = "failed"
                          THEN "ERROR" ELSE "SUPERSEDED")

\* commit_prepared in dry-run: one more disposition check, then the write.
DryRunCheck(o) ==
  /\ pc[o] = "drycheck"
  /\ \/ Goto(o, CASE DispositionVerdict(cand[o]) = "ok"       -> "drycommit"
                  [] DispositionVerdict(cand[o]) = "conflict" -> "abandon"
                  [] OTHER                                    -> "supersede")
     \/ Goto(o, "retry")
  /\ UNCHANGED <<itemVars, cand, envVars, reviews, tries, held>>

\* store_review_result(dry_run=True); bound to the intent when recovering one.
DryRunCommit(o) ==
  /\ pc[o] = "drycommit"
  /\ IF IF held[o] = None THEN OwnsPhase(o) ELSE HoldsIntent(o)
     THEN /\ Finish("PROCESSED_DRYRUN")
          /\ \E step \in {"done", "retry"} : Goto(o, step)
     ELSE /\ Goto(o, IF held[o] = None THEN "done" ELSE "abandon")
          /\ UNCHANGED <<status, claim>>
  /\ UNCHANGED <<attempts, admitted, intent, receipt, noPost, errorKind, cand,
                 envVars, reviews, tries, held>>

-----------------------------------------------------------------------------
(* _handle_phase_failure: every write is bound to the owner alone. *)

\* Retryable with attempts left: release the claim and fail the delivery.
ReleaseForRetry(o) ==
  /\ pc[o] = "retry" /\ tries[o] < MaxAttempts
  /\ claim' = IF OwnsPhase(o) THEN None ELSE claim
  /\ Goto(o, "failed")
  /\ UNCHANGED <<status, attempts, admitted, intent, receipt, noPost, errorKind,
                 cand, envVars, reviews, tries, held>>

EndItem(o, s, kind) ==
  /\ IF OwnsPhase(o)
     THEN Finish(s) /\ errorKind' = kind
     ELSE UNCHANGED <<status, claim, errorKind>>
  /\ Goto(o, "done")
  /\ UNCHANGED <<attempts, admitted, intent, receipt, noPost, cand, envVars,
                 reviews, tries, held>>

\* Faulty: the last allowed attempt does not count as the last.
MarkTerminalErrorLate(o) ==
  /\ \/ pc[o] \in {"abandon", "unknown"}
     \/ pc[o] = "retry" /\ tries[o] > MaxAttempts
  /\ EndItem(o, "ERROR", "other")

\* Terminal class, or the attempt budget is spent.
MarkTerminalError(o) ==
  /\ \/ pc[o] \in {"abandon", "unknown"}
     \/ pc[o] = "retry" /\ tries[o] >= MaxAttempts
  /\ EndItem(o, "ERROR", IF pc[o] = "unknown"
                         THEN "publication_outcome_unknown" ELSE "other")

MarkSuperseded(o) ==
  pc[o] = "supersede" /\ EndItem(o, "SUPERSEDED", errorKind)

\* The runtime stops the invocation: killed, timed out, or an SDK error that
\* escapes the failure handler.
Crash(o) ==
  /\ pc[o] \notin Ended \cup {"idle"}
  /\ Goto(o, "crashed")
  /\ UNCHANGED <<itemVars, cand, envVars, reviews, tries, held>>

-----------------------------------------------------------------------------
(* The pull request's own life. *)

PullRequestMoves ==
  /\ moves < MaxMoves /\ moves' = moves + 1
  /\ \/ \E h \in Heads \ {pr.head} : ~PrEnded /\ pr' = [pr EXCEPT !.head = h]
     \/ \E s \in {"merged", "closed"} : ~PrEnded /\ pr' = [pr EXCEPT !.state = s]
     \/ pr.state = "closed" /\ pr' = [pr EXCEPT !.state = "open"]
     \/ pr' = [pr EXCEPT !.locked = ~pr.locked]
  /\ UNCHANGED <<itemVars, cand, reviews, pc, tries, held>>

-----------------------------------------------------------------------------

Step(o) ==
  \/ SkipStale(o) \/ ClaimPhase(o) \/ VerifyClaim(o)
  \/ StartCheckpoint(o) \/ Generate(o)
  \/ PreCheck(o) \/ Preflight(o) \/ PersistIntent(o)
  \/ Recover(o) \/ ReCheck(o) \/ Reflight(o) \/ MarkDispatching(o)
  \/ FreshDisposition(o) \/ PostReview(o) \/ Reconcile(o) \/ StoreReceipt(o)
  \/ ZeroWriteAbort(o) \/ SuppressNotice(o) \/ DryRunCheck(o) \/ DryRunCommit(o)
  \/ ReleaseForRetry(o) \/ MarkTerminalError(o) \/ MarkSuperseded(o)

Next ==
  \/ \E o \in Owners : Step(o) \/ ClaimUnavailable(o) \/ Crash(o)
  \/ PullRequestMoves

Spec == Init /\ [][Next]_vars

\* Lambda runs a live invocation on and redelivers the record; it promises
\* nothing about crashes, failed claims or the pull request.
FairSpec == Spec /\ \A o \in Owners : WF_vars(Step(o))

-----------------------------------------------------------------------------
TypeOK ==
  /\ status \in TerminalStatus \cup {ExpectedStatus}
  /\ claim \in Owners \cup {None}
  /\ attempts \in Nat
  /\ admitted \in BOOLEAN /\ noPost \in BOOLEAN
  /\ errorKind \in {"none", "publication_outcome_unknown", "other"}
  /\ intent \in Intent \cup {None}
  /\ receipt \in [key : Keys, recovery : Nat] \cup {None}
  /\ cand \in [Keys -> Candidate \cup {None}]
  /\ pr \in PullRequest /\ moves \in 0..MaxMoves
  /\ reviews \in Seq([key : Keys \cup {Foreign}, commit : Heads])
  /\ pc \in [Owners -> Steps]
  /\ tries \in [Owners -> Nat]
  /\ held \in [Owners -> Intent \cup {None}]

\* A review this item's transaction wrote, as opposed to an older one.
OurReview == \E i \in DOMAIN reviews : reviews[i].key # Foreign

\* Whatever is redelivered, taken over, retried or crashed, the pull request
\* never carries two reviews of the bot: a second create_review call would
\* post a duplicate verdict (publish_prepared_transaction and recovery).
AtMostOneReview == Len(reviews) <= 1

\* A PROCESSED item names, by key, the one review that exists, posted at the
\* item's head from the candidate the intent names (store_terminal_receipt).
ProcessedNamesTheReview ==
  status = "PROCESSED" =>
    /\ Len(reviews) = 1 /\ reviews[1].commit = ItemHead
    /\ receipt # None /\ receipt.key = reviews[1].key
    /\ intent # None /\ intent.key = receipt.key

\* publication_post_started = False is a proof: no review of this item exists
\* and no invocation that could still post one is left running.
NoPostIsHonest ==
  noPost => ~OurReview /\ \A o \in Owners : pc[o] # "post"

\* A review that reached GitHub is never forgotten: its dispatching intent is
\* on the item, and the item does not end as superseded or as a dry run.
ReviewIsAccountedFor ==
  OurReview =>
    /\ intent # None /\ intent.state = "dispatching"
    /\ \A i \in DOMAIN reviews : reviews[i].key \in {Foreign, intent.key}
    /\ status \notin {"SUPERSEDED", "PROCESSED_DRYRUN"}

\* A notice of a failed or cancelled run is private: it is never posted, and a
\* post-merge follow-up is posted only for an item that was admitted open.
OnlyPublishableIsPosted ==
  \A i \in DOMAIN reviews :
    LET k == reviews[i].key IN
    k # Foreign => /\ cand[k] # None /\ cand[k].mode = "final"
                   /\ cand[k].kind = "post_merge_follow_up" => admitted

\* The intent is a one-way latch: never removed, never rebound to another
\* candidate, never back from dispatching to prepared.
IntentOnlyAdvances ==
  [][intent # None =>
       /\ intent' # None /\ intent'.key = intent.key
       /\ intent.state = "dispatching" => intent'.state = "dispatching"]_vars

\* A terminal item is frozen, whoever is still running.
TerminalIsFinal ==
  [][(status \in TerminalStatus) =>
       UNCHANGED <<status, receipt, intent, noPost>>]_vars

\* ARCHITECTURE.md, exactly-once publication: a dispatching intent without the
\* typed zero-write proof or a receipt "remains publication_outcome_unknown".
DispatchingEndsUnknown ==
  (status = "ERROR" /\ intent # None /\ intent.state = "dispatching" /\ ~noPost)
    => errorKind = "publication_outcome_unknown"

\* ARCHITECTURE.md: a late head change "can never publish the old review".
OldHeadIsNeverPublished ==
  [][reviews' # reviews => SameHead]_vars

\* Every item reaches a terminal status unless an invocation was killed or a
\* delivery could not claim: the last allowed attempt may not leave it open.
Settles ==
  <>(\/ status \in TerminalStatus
     \/ \E o \in Owners : pc[o] \in {"crashed", "unclaimed"})
-----------------------------------------------------------------------------
(* The transaction implements the single-use permission of AtMostOnceWrite. *)

\* The invocation that moved the intent to dispatching and has not left the
\* stretch of code in which it may still call, or renounce, create_review.
HoldsPermit(o) ==
  \/ pc[o] \in {"fresh", "post"}
  \/ /\ pc[o] \in {"abort", "supersede"}
     /\ held[o] # None /\ held[o].state = "dispatching"

Permit ==
  IF \E o \in Owners : HoldsPermit(o) THEN "granted"
  ELSE IF intent # None /\ intent.state = "dispatching" THEN "spent"
  ELSE "absent"

Verdict ==
  CASE status = ExpectedStatus -> "open"
    [] status = "PROCESSED"    -> "published"
    [] status \in {"PROCESSED_DRYRUN", "SUPERSEDED"} \/ noPost -> "withheld"
    [] OTHER                   -> "unknown"

Abstract == INSTANCE AtMostOnceWrite
  WITH permit <- Permit, verdict <- Verdict,
       writes <- Cardinality({i \in DOMAIN reviews : reviews[i].key # Foreign})

\* Every step of every invocation is a step of the abstract permission, or
\* leaves it alone.
ImplementsAtMostOnceWrite == Abstract!Spec
-----------------------------------------------------------------------------
(* The inductive invariant behind the safety properties: what each step of   *)
(* an invocation may rely on about its snapshot, and who holds the permit.   *)

\* What the control point says about the intent snapshot in hand.
SnapshotInv ==
  \A o \in Owners :
    /\ pc[o] \in {"start", "generate", "drycheck", "precheck", "preflight",
                  "persist"} => held[o] = None
    /\ pc[o] \in {"recheck", "reflight", "mark", "suppress"} =>
         held[o] # None /\ held[o].state = "prepared"
    /\ pc[o] = "drycommit" => held[o] = None \/ held[o].state = "prepared"
    /\ pc[o] \in {"fresh", "post", "reconcile", "receipt"} =>
         held[o] # None /\ held[o].state = "dispatching"
    /\ pc[o] \in {"abort", "recover"} => held[o] # None

\* The current owner's snapshot is never stale once it has been verified.
OwnerInSync ==
  \A o \in Owners :
    claim = o => /\ pc[o] # "idle"
                 /\ pc[o] \notin Ended \cup {"claimed"} => held[o] = intent

\* At most one invocation may still write, and only before any review exists.
PermitInv ==
  /\ \A o, q \in Owners : HoldsPermit(o) /\ HoldsPermit(q) => o = q
  /\ \A o \in Owners :
       HoldsPermit(o) =>
         /\ intent # None /\ intent.state = "dispatching"
         /\ intent.key = held[o].key
         /\ reviews = <<>>

\* What exists on GitHub, and what the invocations have learnt about it.
ReviewInv ==
  /\ Len(reviews) <= 1
  /\ OurReview => /\ intent # None /\ intent.state = "dispatching"
                  /\ reviews[1] = [key |-> intent.key, commit |-> ItemHead]
  /\ \A o \in Owners :
       /\ pc[o] = "mark" => NoBotReviewVisible
       /\ pc[o] = "receipt" =>
            reviews = <<[key |-> held[o].key, commit |-> ItemHead]>>

\* An item that ended without a write stays without one.
WithheldInv ==
  noPost \/ status \in {"SUPERSEDED", "PROCESSED_DRYRUN"} =>
    /\ status # ExpectedStatus /\ ~OurReview
    /\ \A o \in Owners : ~HoldsPermit(o)

IInv ==
  /\ TypeOK /\ SnapshotInv /\ OwnerInSync /\ PermitInv /\ ReviewInv
  /\ WithheldInv /\ ProcessedNamesTheReview
=============================================================================

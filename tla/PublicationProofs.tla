------------------------- MODULE PublicationProofs -------------------------
(***************************************************************************)
(* Proofs that the publication transaction keeps its safety invariants for *)
(* every set of invocations, every set of heads and every attempt bound.   *)
(*                                                                         *)
(* IInv is inductive: Init implies it and every step preserves it.  Most   *)
(* steps only move one invocation's control point; ControlStep deals with  *)
(* all of them at once through Entitled, which says what an invocation     *)
(* must know to stand at a control point.  The steps that write the item,  *)
(* the candidate, the snapshot or GitHub have a lemma each.  The second    *)
(* part shows from it that only publishable candidates reach GitHub, the   *)
(* third that the transaction implements AtMostOnceWrite.                  *)
(***************************************************************************)
EXTENDS PublicationTransaction, FiniteSetTheorems, TLAPS

\* What invocation o must know, or must hold, to move to control point s.
Entitled(o, s) ==
  /\ s \in Steps \ {"idle", "claimed"}
  /\ pc[o] \in Ended \cup {"idle", "claimed"} => s \in Ended
  /\ s \in {"start", "generate", "drycheck", "precheck", "preflight",
            "persist"} => held[o] = None
  /\ s \in {"recheck", "reflight", "mark", "suppress"} =>
       held[o] # None /\ held[o].state = "prepared"
  /\ s = "drycommit" => held[o] = None \/ held[o].state = "prepared"
  /\ s \in {"fresh", "post", "reconcile", "receipt"} =>
       held[o] # None /\ held[o].state = "dispatching"
  /\ s \in {"abort", "recover"} => held[o] # None
  /\ s \in {"fresh", "post"} => HoldsPermit(o)
  /\ (s \in {"abort", "supersede"} /\ held[o] # None
        /\ held[o].state = "dispatching") => HoldsPermit(o)
  /\ s = "mark" => NoBotReviewVisible
  /\ s = "receipt" => reviews = <<[key |-> held[o].key, commit |-> ItemHead]>>

-----------------------------------------------------------------------------
(* Steps that move only a control point. *)

\* Moving an invocation to a control point it is entitled to breaks nothing.
LEMMA ControlStep ==
  ASSUME IInv, NEW o \in Owners, NEW s, Entitled(o, s), Goto(o, s),
         UNCHANGED <<itemVars, cand, envVars, reviews, tries, held>>
  PROVE  IInv'
  <1> USE DEF Goto, Entitled, itemVars, envVars
  <1>1. TypeOK' BY DEF IInv, TypeOK
  <1>2. SnapshotInv' BY DEF IInv, TypeOK, SnapshotInv
  <1>3. OwnerInSync' BY DEF IInv, TypeOK, OwnerInSync, Ended
  <1>4. PermitInv'
    BY DEF IInv, TypeOK, PermitInv, HoldsPermit
  <1>5. ReviewInv'
    BY DEF IInv, TypeOK, ReviewInv, OurReview, NoBotReviewVisible
  <1>6. WithheldInv'
    BY DEF IInv, TypeOK, WithheldInv, OurReview, HoldsPermit
  <1>7. ProcessedNamesTheReview'
    BY DEF IInv, TypeOK, ProcessedNamesTheReview
  <1> QED BY <1>1, <1>2, <1>3, <1>4, <1>5, <1>6, <1>7 DEF IInv

\* The snapshot of a pull request has exactly four readings.
LEMMA VerdictRange ==
  ASSUME NEW c
  PROVE  DispositionVerdict(c) \in {"ok", "head", "lifecycle", "conflict"}
  BY DEF DispositionVerdict

\* A listing of one review is that review.
LEMMA Singleton ==
  ASSUME NEW S, NEW s \in Seq(S), Len(s) = 1
  PROVE  s = <<s[1]>> /\ s[1] \in S
  <1>1. s[1] \in S /\ DOMAIN s = {1}
    OBVIOUS
  <1> DEFINE x == s[1]
  <1> HIDE DEF x
  <1>2. DOMAIN <<x>> = {1} /\ <<x>>[1] = x
    OBVIOUS
  <1>3. s = <<x>>
    BY <1>1, <1>2 DEF x
  <1> QED BY <1>1, <1>3 DEF x

\* A delivery of a settled item ends at once.
LEMMA SkipStaleKeeps ==
  ASSUME IInv, NEW o \in Owners, SkipStale(o)
  PROVE  IInv'
  <1>1. Entitled(o, "done") BY DEF SkipStale, Entitled, Steps, Ended
  <1> QED BY <1>1, ControlStep DEF SkipStale

\* A delivery that cannot claim ends at once.
LEMMA ClaimUnavailableKeeps ==
  ASSUME IInv, NEW o \in Owners, ClaimUnavailable(o)
  PROVE  IInv'
  <1>1. Entitled(o, "unclaimed") BY DEF ClaimUnavailable, Entitled, Steps, Ended
  <1> QED BY <1>1, ControlStep DEF ClaimUnavailable

\* A killed invocation gives its permit up, if it had one, unused.
LEMMA CrashKeeps ==
  ASSUME IInv, NEW o \in Owners, Crash(o)
  PROVE  IInv'
  <1>1. Entitled(o, "crashed") BY DEF Crash, Entitled, Steps, Ended
  <1> QED BY <1>1, ControlStep DEF Crash

\* The permit holder keeps the permit, or stops.
LEMMA FreshDispositionKeeps ==
  ASSUME IInv, NEW o \in Owners, FreshDisposition(o)
  PROVE  IInv'
  <1>1. PICK s \in {"post", "abort", "retry", "supersede"} : Goto(o, s)
    BY DEF FreshDisposition
  <1>2. Entitled(o, s)
    BY DEF FreshDisposition, IInv, SnapshotInv, Entitled, HoldsPermit, Steps,
           Failing, Ended
  <1> QED BY <1>1, <1>2, ControlStep DEF FreshDisposition

\* No snapshot is in hand before the intent is written.
LEMMA PreCheckKeeps ==
  ASSUME IInv, NEW o \in Owners, PreCheck(o)
  PROVE  IInv'
  <1>1. PICK s \in {"retry", "abandon", "supersede", "preflight"} : Goto(o, s)
    BY VerdictRange DEF PreCheck, PrePublishCheck
  <1>2. Entitled(o, s)
    BY DEF PreCheck, IInv, SnapshotInv, Entitled, HoldsPermit, Steps, Failing, Ended
  <1> QED BY <1>1, <1>2, ControlStep DEF PreCheck, PrePublishCheck

\* With a prepared snapshot no permit is claimed by moving on.
LEMMA ReCheckKeeps ==
  ASSUME IInv, NEW o \in Owners, ReCheck(o)
  PROVE  IInv'
  <1>1. PICK s \in {"retry", "abandon", "supersede", "abort", "reflight"} : Goto(o, s)
    BY VerdictRange DEF ReCheck, PrePublishCheck
  <1>2. Entitled(o, s)
    BY DEF ReCheck, IInv, SnapshotInv, Entitled, HoldsPermit, Steps, Failing, Ended
  <1> QED BY <1>1, <1>2, ControlStep DEF ReCheck, PrePublishCheck

\* The first listing lets the intent be written.
LEMMA PreflightKeeps ==
  ASSUME IInv, NEW o \in Owners, Preflight(o)
  PROVE  IInv'
  <1>1. PICK s \in {"retry", "abandon", "persist"} :
          Goto(o, s) /\ (s = "persist" => NoBotReviewVisible)
    BY DEF Preflight, AssertNoBotReview
  <1>2. Entitled(o, s)
    BY <1>1
    DEF Preflight, IInv, SnapshotInv, Entitled, HoldsPermit, Steps, Failing,
        Ended
  <1> QED BY <1>1, <1>2, ControlStep DEF Preflight, AssertNoBotReview

\* The second listing shows no older review before dispatching.
LEMMA ReflightKeeps ==
  ASSUME IInv, NEW o \in Owners, Reflight(o)
  PROVE  IInv'
  <1>1. PICK s \in {"retry", "abandon", "mark"} :
          Goto(o, s) /\ (s = "mark" => NoBotReviewVisible)
    BY DEF Reflight, AssertNoBotReview
  <1>2. Entitled(o, s)
    BY <1>1
    DEF Reflight, IInv, SnapshotInv, Entitled, HoldsPermit, Steps, Failing,
        Ended
  <1> QED BY <1>1, <1>2, ControlStep DEF Reflight, AssertNoBotReview

\* A dry run never holds a snapshot.
LEMMA DryRunCheckKeeps ==
  ASSUME IInv, NEW o \in Owners, DryRunCheck(o)
  PROVE  IInv'
  <1>1. PICK s \in {"retry", "abandon", "supersede", "drycommit"} : Goto(o, s)
    BY VerdictRange DEF DryRunCheck
  <1>2. Entitled(o, s)
    BY DEF DryRunCheck, IInv, SnapshotInv, Entitled, HoldsPermit, Steps,
           Failing, Ended
  <1> QED BY <1>1, <1>2, ControlStep DEF DryRunCheck

\* The one observation that may be turned into a receipt is our own review.
LEMMA ReconcileKeeps ==
  ASSUME IInv, NEW o \in Owners, Reconcile(o)
  PROVE  IInv'
  <1> DEFINE Ours == <<[key |-> held[o].key, commit |-> ItemHead]>>
  <1>1. PICK s \in {"receipt", "unknown", "abandon", "retry"} :
          /\ Goto(o, s)
          /\ s = "receipt" => /\ Len(reviews) = 1 /\ reviews[1].key = held[o].key
                              /\ reviews[1].commit = ItemHead
    BY DEF Reconcile
  <1>2. s = "receipt" => reviews = Ours
    <2>1. reviews \in Seq([key : Keys \cup {Foreign}, commit : Heads])
      BY DEF IInv, TypeOK
    <2>2. Len(reviews) = 1 =>
            /\ reviews = <<reviews[1]>>
            /\ reviews[1] \in [key : Keys \cup {Foreign}, commit : Heads]
      BY <2>1, Singleton
    <2> QED BY <1>1, <2>2
  <1>3. Entitled(o, s)
    BY <1>2 DEF Reconcile, IInv, SnapshotInv, Entitled, HoldsPermit, Steps,
                Failing, Ended
  <1> QED BY <1>1, <1>3, ControlStep DEF Reconcile

-----------------------------------------------------------------------------
(* Steps that write something. *)

\* A claim only names a new owner; the old owner is told nothing.
LEMMA ClaimPhaseKeeps ==
  ASSUME IInv, NEW o \in Owners, ClaimPhase(o)
  PROVE  IInv'
  <1>0. PICK s \in {"claimed"} : Goto(o, s)
    BY DEF ClaimPhase
  <1> USE ConstantsAssumption
      DEF ClaimPhase, Goto, itemVars, envVars
  <1>1. TypeOK'
    <2>1. pc' \in [Owners -> Steps]
      BY <1>0 DEF IInv, TypeOK, Steps, Failing, Ended
    <2>2. claim' \in Owners /\ attempts' \in Nat /\ tries' \in [Owners -> Nat]
      BY <1>0 DEF IInv, TypeOK, TerminalStatus
    <2> QED BY <2>1, <2>2 DEF IInv, TypeOK
  <1>2. SnapshotInv'
    BY <1>0 DEF IInv, TypeOK, SnapshotInv, OwnerInSync
  <1>3. OwnerInSync'
    BY <1>0 DEF IInv, TypeOK, OwnerInSync, SnapshotInv, Steps, Failing, Ended
  <1>4. PermitInv'
    BY <1>0 DEF IInv, TypeOK, PermitInv, OwnerInSync, SnapshotInv, ReviewInv,
           OurReview, HoldsPermit, Ended
  <1>5. ReviewInv'
    BY <1>0
    DEF IInv, TypeOK, ReviewInv, OurReview, NoBotReviewVisible, PermitInv,
        OwnerInSync, SnapshotInv, HoldsPermit, Ended, Keys
  <1>6. WithheldInv'
    BY <1>0 DEF IInv, TypeOK, WithheldInv, OurReview, PermitInv, OwnerInSync,
           SnapshotInv, ReviewInv, HoldsPermit, Ended, TerminalStatus
  <1>7. ProcessedNamesTheReview'
    BY <1>0
    DEF IInv, TypeOK, ProcessedNamesTheReview, SnapshotInv, OwnerInSync,
        ReviewInv, PermitInv, OurReview, Ended, TerminalStatus
  <1> QED BY <1>1, <1>2, <1>3, <1>4, <1>5, <1>6, <1>7 DEF IInv

\* The verified claim takes a fresh snapshot of the intent.
LEMMA VerifyClaimKeeps ==
  ASSUME IInv, NEW o \in Owners, VerifyClaim(o)
  PROVE  IInv'
  <1>0. PICK s \in {"recover", "abandon", "start", "failed"} :
          /\ Goto(o, s)
          /\ s # "failed" => Hold(o, intent) /\ OwnsPhase(o)
          /\ s = "failed" => UNCHANGED held
          /\ s \in {"start", "abandon"} => intent = None
          /\ s = "recover" => intent # None
    BY DEF VerifyClaim
  <1> USE ConstantsAssumption
      DEF VerifyClaim, Goto, Hold, OwnsPhase, itemVars, envVars
  <1>1. TypeOK'
    <2>1. pc' \in [Owners -> Steps]
      BY <1>0 DEF IInv, TypeOK, Steps, Failing, Ended
    <2>2. held' \in [Owners -> Intent \cup {None}]
      BY <1>0 DEF IInv, TypeOK, TerminalStatus
    <2> QED BY <2>1, <2>2 DEF IInv, TypeOK
  <1>2. SnapshotInv'
    BY <1>0 DEF IInv, TypeOK, SnapshotInv, OwnerInSync
  <1>3. OwnerInSync'
    BY <1>0 DEF IInv, TypeOK, OwnerInSync, SnapshotInv, Steps, Failing, Ended
  <1>4. PermitInv'
    <2>1. \A p \in Owners :
            HoldsPermit(p)' => HoldsPermit(p) /\ held'[p] = held[p]
      BY <1>0 DEF IInv, TypeOK, HoldsPermit
    <2> QED BY <1>0, <2>1 DEF IInv, PermitInv
  <1>5. ReviewInv'
    BY <1>0
    DEF IInv, TypeOK, ReviewInv, OurReview, NoBotReviewVisible, PermitInv,
        OwnerInSync, SnapshotInv, HoldsPermit, Ended, Keys
  <1>6. WithheldInv'
    BY <1>0 DEF IInv, TypeOK, WithheldInv, OurReview, PermitInv, OwnerInSync,
           SnapshotInv, ReviewInv, HoldsPermit, Ended, TerminalStatus
  <1>7. ProcessedNamesTheReview'
    BY <1>0
    DEF IInv, TypeOK, ProcessedNamesTheReview, SnapshotInv, OwnerInSync,
        ReviewInv, PermitInv, OurReview, Ended, TerminalStatus
  <1> QED BY <1>1, <1>2, <1>3, <1>4, <1>5, <1>6, <1>7 DEF IInv

\* The first checkpoint may only make the admission durable.
LEMMA StartCheckpointKeeps ==
  ASSUME IInv, NEW o \in Owners, StartCheckpoint(o)
  PROVE  IInv'
  <1>0. PICK s \in {"generate", "supersede", "retry"} :
          /\ Goto(o, s)
          /\ admitted' \in BOOLEAN
    BY DEF StartCheckpoint, IInv, TypeOK
  <1> USE ConstantsAssumption
      DEF StartCheckpoint, Goto, itemVars, envVars
  <1>1. TypeOK'
    <2>1. pc' \in [Owners -> Steps]
      BY <1>0 DEF IInv, TypeOK, Steps, Failing, Ended
    <2> QED BY <1>0, <2>1 DEF IInv, TypeOK
  <1>2. SnapshotInv'
    BY <1>0 DEF IInv, TypeOK, SnapshotInv, OwnerInSync
  <1>3. OwnerInSync'
    BY <1>0 DEF IInv, TypeOK, OwnerInSync, SnapshotInv, Steps, Failing, Ended
  <1>4. PermitInv'
    BY <1>0 DEF IInv, TypeOK, PermitInv, OwnerInSync, SnapshotInv, ReviewInv,
           OurReview, HoldsPermit, Ended
  <1>5. ReviewInv'
    BY <1>0
    DEF IInv, TypeOK, ReviewInv, OurReview, NoBotReviewVisible, PermitInv,
        OwnerInSync, SnapshotInv, HoldsPermit, Ended, Keys
  <1>6. WithheldInv'
    BY <1>0 DEF IInv, TypeOK, WithheldInv, OurReview, PermitInv, OwnerInSync,
           SnapshotInv, ReviewInv, HoldsPermit, Ended, TerminalStatus
  <1>7. ProcessedNamesTheReview'
    BY <1>0
    DEF IInv, TypeOK, ProcessedNamesTheReview, SnapshotInv, OwnerInSync,
        ReviewInv, PermitInv, OurReview, Ended, TerminalStatus
  <1> QED BY <1>1, <1>2, <1>3, <1>4, <1>5, <1>6, <1>7 DEF IInv

\* Generation writes a candidate and nothing else.
LEMMA GenerateKeeps ==
  ASSUME IInv, NEW o \in Owners, Generate(o)
  PROVE  IInv'
  <1>0. PICK s \in {"precheck", "drycheck", "supersede", "retry", "abandon"} :
          /\ Goto(o, s)
          /\ cand' \in [Keys -> Candidate \cup {None}]
    BY DEF Generate, IInv, TypeOK, Candidate, Keys
  <1> USE ConstantsAssumption
      DEF Generate, Goto, itemVars, envVars
  <1>1. TypeOK'
    <2>1. pc' \in [Owners -> Steps]
      BY <1>0 DEF IInv, TypeOK, Steps, Failing, Ended
    <2> QED BY <1>0, <2>1 DEF IInv, TypeOK
  <1>2. SnapshotInv'
    BY <1>0 DEF IInv, TypeOK, SnapshotInv, OwnerInSync
  <1>3. OwnerInSync'
    BY <1>0 DEF IInv, TypeOK, OwnerInSync, SnapshotInv, Steps, Failing, Ended
  <1>4. PermitInv'
    BY <1>0 DEF IInv, TypeOK, PermitInv, OwnerInSync, SnapshotInv, ReviewInv,
           OurReview, HoldsPermit, Ended
  <1>5. ReviewInv'
    BY <1>0
    DEF IInv, TypeOK, ReviewInv, OurReview, NoBotReviewVisible, PermitInv,
        OwnerInSync, SnapshotInv, HoldsPermit, Ended, Keys
  <1>6. WithheldInv'
    BY <1>0 DEF IInv, TypeOK, WithheldInv, OurReview, PermitInv, OwnerInSync,
           SnapshotInv, ReviewInv, HoldsPermit, Ended, TerminalStatus
  <1>7. ProcessedNamesTheReview'
    BY <1>0
    DEF IInv, TypeOK, ProcessedNamesTheReview, SnapshotInv, OwnerInSync,
        ReviewInv, PermitInv, OurReview, Ended, TerminalStatus
  <1> QED BY <1>1, <1>2, <1>3, <1>4, <1>5, <1>6, <1>7 DEF IInv

\* A prepared intent grants nothing yet.
LEMMA PersistIntentKeeps ==
  ASSUME IInv, NEW o \in Owners, PersistIntent(o)
  PROVE  IInv'
  <1> DEFINE new == [key |-> o, state |-> "prepared",
                     recovery |-> 0, owner |-> o]
  <1>0. PICK s \in {"recheck", "retry", "abandon"} :
          /\ Goto(o, s)
          /\ s # "abandon" => /\ OwnsPhase(o) /\ intent = None /\ receipt = None
                              /\ intent' = new /\ Hold(o, new)
          /\ s = "abandon" => UNCHANGED <<intent, held>>
    BY DEF PersistIntent
  <1>a. new \in Intent /\ new # None /\ new.state = "prepared"
    BY NoneAssumption DEF Intent, Keys
  <1> HIDE DEF new
  <1> USE ConstantsAssumption
      DEF PersistIntent, Goto, Hold, OwnsPhase, itemVars, envVars
  <1>1. TypeOK'
    <2>1. pc' \in [Owners -> Steps]
      BY <1>0 DEF IInv, TypeOK, Steps, Failing, Ended
    <2>2. intent' \in Intent \cup {None} /\ held' \in [Owners -> Intent \cup {None}]
      BY <1>0, <1>a DEF IInv, TypeOK, TerminalStatus
    <2> QED BY <2>1, <2>2 DEF IInv, TypeOK
  <1>2. SnapshotInv'
    BY <1>0, <1>a DEF IInv, TypeOK, SnapshotInv, OwnerInSync
  <1>3. OwnerInSync'
    BY <1>0, <1>a
    DEF IInv, TypeOK, OwnerInSync, SnapshotInv, Steps, Failing, Ended
  <1>4. PermitInv'
    <2>1. \A p \in Owners :
            HoldsPermit(p)' => HoldsPermit(p) /\ held'[p] = held[p]
      BY <1>0, <1>a DEF IInv, TypeOK, HoldsPermit
    <2> QED BY <1>0, <2>1 DEF IInv, PermitInv
  <1>5. ReviewInv'
    BY <1>0, <1>a
    DEF IInv, TypeOK, ReviewInv, OurReview, NoBotReviewVisible, PermitInv,
        OwnerInSync, SnapshotInv, HoldsPermit, Ended, Keys
  <1>6. WithheldInv'
    BY <1>0, <1>a
    DEF IInv, TypeOK, WithheldInv, OurReview, PermitInv, OwnerInSync,
        SnapshotInv, ReviewInv, HoldsPermit, Ended, TerminalStatus
  <1>7. ProcessedNamesTheReview'
    BY <1>0, <1>a
    DEF IInv, TypeOK, ProcessedNamesTheReview, SnapshotInv, OwnerInSync,
        ReviewInv, PermitInv, OurReview, Ended, TerminalStatus
  <1> QED BY <1>1, <1>2, <1>3, <1>4, <1>5, <1>6, <1>7 DEF IInv

\* Recovery restamps the intent; its key and its state stay as they are.
LEMMA RecoverKeeps ==
  ASSUME IInv, NEW o \in Owners, Recover(o)
  PROVE  IInv'
  <1> DEFINE new == [held[o] EXCEPT !.recovery = tries[o], !.owner = o]
  <1>0. PICK s \in {"retry", "reconcile", "suppress", "recheck", "drycommit", "abandon"} :
          /\ Goto(o, s)
          /\ s # "abandon" => /\ HoldsIntent(o)
                              /\ intent' = new /\ Hold(o, new)
          /\ s = "abandon" => UNCHANGED <<intent, held>>
          /\ s = "reconcile" => held[o].state = "dispatching"
          /\ s \in {"suppress", "recheck", "drycommit"} => held[o].state = "prepared"
    BY DEF Recover
  <1>a. /\ held[o] \in Intent /\ held[o] # None
        /\ new \in Intent /\ new # None /\ new.key = held[o].key
        /\ new.state = held[o].state
    BY NoneAssumption DEF IInv, TypeOK, SnapshotInv, Recover, Intent, Keys
  <1> HIDE DEF new
  <1> USE ConstantsAssumption
      DEF Recover, Goto, Hold, OwnsPhase, HoldsIntent, itemVars, envVars
  <1>1. TypeOK'
    <2>1. pc' \in [Owners -> Steps]
      BY <1>0 DEF IInv, TypeOK, Steps, Failing, Ended
    <2>2. intent' \in Intent \cup {None} /\ held' \in [Owners -> Intent \cup {None}]
      BY <1>0, <1>a DEF IInv, TypeOK, TerminalStatus
    <2> QED BY <2>1, <2>2 DEF IInv, TypeOK
  <1>2. SnapshotInv'
    BY <1>0, <1>a DEF IInv, TypeOK, SnapshotInv, OwnerInSync
  <1>3. OwnerInSync'
    BY <1>0, <1>a
    DEF IInv, TypeOK, OwnerInSync, SnapshotInv, Steps, Failing, Ended
  <1>4. PermitInv'
    BY <1>0, <1>a
    DEF IInv, TypeOK, PermitInv, OwnerInSync, SnapshotInv, ReviewInv,
        OurReview, HoldsPermit, Ended
  <1>5. ReviewInv'
    BY <1>0, <1>a
    DEF IInv, TypeOK, ReviewInv, OurReview, NoBotReviewVisible, PermitInv,
        OwnerInSync, SnapshotInv, HoldsPermit, Ended, Keys
  <1>6. WithheldInv'
    BY <1>0, <1>a
    DEF IInv, TypeOK, WithheldInv, OurReview, PermitInv, OwnerInSync,
        SnapshotInv, ReviewInv, HoldsPermit, Ended, TerminalStatus
  <1>7. ProcessedNamesTheReview'
    BY <1>0, <1>a
    DEF IInv, TypeOK, ProcessedNamesTheReview, SnapshotInv, OwnerInSync,
        ReviewInv, PermitInv, OurReview, Ended, TerminalStatus
  <1> QED BY <1>1, <1>2, <1>3, <1>4, <1>5, <1>6, <1>7 DEF IInv

\* The permit is granted once: before the write no invocation holds it.
LEMMA MarkDispatchingKeeps ==
  ASSUME IInv, NEW o \in Owners, MarkDispatching(o)
  PROVE  IInv'
  <1> DEFINE new == [held[o] EXCEPT !.state = "dispatching", !.owner = o]
  <1>0. PICK s \in {"fresh", "retry", "abandon"} :
          /\ Goto(o, s)
          /\ s # "abandon" => /\ HoldsIntent(o)
                              /\ intent' = new /\ Hold(o, new)
          /\ s = "abandon" => UNCHANGED <<intent, held>>
    BY DEF MarkDispatching
  <1>a. /\ held[o] \in Intent /\ held[o] # None
        /\ new \in Intent /\ new # None /\ new.key = held[o].key
        /\ new.state = "dispatching"
    BY NoneAssumption
    DEF IInv, TypeOK, SnapshotInv, MarkDispatching, Intent, Keys
  <1> HIDE DEF new
  <1> USE ConstantsAssumption
      DEF MarkDispatching, Goto, Hold, OwnsPhase, HoldsIntent, itemVars,
          envVars
  <1>1. TypeOK'
    <2>1. pc' \in [Owners -> Steps]
      BY <1>0 DEF IInv, TypeOK, Steps, Failing, Ended
    <2>2. intent' \in Intent \cup {None} /\ held' \in [Owners -> Intent \cup {None}]
      BY <1>0, <1>a DEF IInv, TypeOK, TerminalStatus
    <2> QED BY <2>1, <2>2 DEF IInv, TypeOK
  <1>2. SnapshotInv'
    BY <1>0, <1>a DEF IInv, TypeOK, SnapshotInv, OwnerInSync
  <1>3. OwnerInSync'
    BY <1>0, <1>a
    DEF IInv, TypeOK, OwnerInSync, SnapshotInv, Steps, Failing, Ended
  <1>4. PermitInv'
    <2>1. CASE s = "abandon"
      <3>1. \A p \in Owners :
              HoldsPermit(p)' => HoldsPermit(p) /\ held'[p] = held[p]
        BY <1>0, <2>1 DEF IInv, TypeOK, HoldsPermit
      <3> QED BY <1>0, <2>1, <3>1 DEF IInv, PermitInv
    <2>2. CASE s # "abandon"
      <3>1. intent.state = "prepared"
        BY <1>0, <2>2 DEF IInv, SnapshotInv
      <3>2. \A p \in Owners : HoldsPermit(p)' => p = o
        BY <1>0, <2>2, <3>1 DEF IInv, TypeOK, PermitInv, HoldsPermit
      <3>3. reviews = <<>>
        BY <2>2, <3>1
        DEF IInv, TypeOK, ReviewInv, OurReview, NoBotReviewVisible
      <3> QED BY <1>0, <1>a, <2>2, <3>2, <3>3 DEF IInv, TypeOK, PermitInv
    <2> QED BY <2>1, <2>2
  <1>5. ReviewInv'
    BY <1>0, <1>a
    DEF IInv, TypeOK, ReviewInv, OurReview, NoBotReviewVisible, PermitInv,
        OwnerInSync, SnapshotInv, HoldsPermit, Ended, Keys
  <1>6. WithheldInv'
    BY <1>0, <1>a
    DEF IInv, TypeOK, WithheldInv, OurReview, PermitInv, OwnerInSync,
        SnapshotInv, ReviewInv, HoldsPermit, Ended, TerminalStatus
  <1>7. ProcessedNamesTheReview'
    BY <1>0, <1>a
    DEF IInv, TypeOK, ProcessedNamesTheReview, SnapshotInv, OwnerInSync,
        ReviewInv, PermitInv, OurReview, Ended, TerminalStatus
  <1> QED BY <1>1, <1>2, <1>3, <1>4, <1>5, <1>6, <1>7 DEF IInv

\* The holder of the permit writes while no review exists, and gives it up.
LEMMA PostReviewKeeps ==
  ASSUME IInv, NEW o \in Owners, PostReview(o)
  PROVE  IInv'
  <1> DEFINE mine == [key |-> held[o].key, commit |-> ItemHead]
  <1>0. PICK s \in {"reconcile", "abandon"} :
          /\ Goto(o, s)
          /\ reviews' \in {reviews, Append(reviews, mine)}
    BY DEF PostReview
  <1>a. held[o] \in Intent /\ held[o] # None /\ reviews = <<>> /\ HoldsPermit(o)
    BY DEF IInv, TypeOK, SnapshotInv, PermitInv, HoldsPermit, PostReview
  <1>b. mine \in [key : Keys \cup {Foreign}, commit : Heads]
    BY <1>a, ConstantsAssumption DEF Intent
  <1>c. /\ Append(reviews, mine) = <<mine>>
        /\ <<mine>> \in Seq([key : Keys \cup {Foreign}, commit : Heads])
        /\ Len(<<mine>>) = 1 /\ DOMAIN <<mine>> = {1} /\ <<mine>>[1] = mine
    <2> HIDE DEF mine
    <2> QED BY <1>a, <1>b
  <1>d. /\ intent # None /\ intent.state = "dispatching"
        /\ intent.key = held[o].key
    BY <1>a DEF IInv, PermitInv
  <1> USE ConstantsAssumption
      DEF PostReview, Goto, itemVars, envVars
  <1>1. TypeOK'
    <2>1. pc' \in [Owners -> Steps]
      BY <1>0 DEF IInv, TypeOK, Steps, Failing, Ended
    <2>2. reviews' \in Seq([key : Keys \cup {Foreign}, commit : Heads])
      BY <1>0, <1>a, <1>b, <1>c, <1>d DEF IInv, TypeOK, TerminalStatus
    <2> QED BY <2>1, <2>2 DEF IInv, TypeOK
  <1>2. SnapshotInv'
    BY <1>0, <1>a, <1>b, <1>c, <1>d DEF IInv, TypeOK, SnapshotInv, OwnerInSync
  <1>3. OwnerInSync'
    BY <1>0, <1>a, <1>b, <1>c, <1>d
    DEF IInv, TypeOK, OwnerInSync, SnapshotInv, Steps, Failing, Ended
  <1>4. PermitInv'
    BY <1>0, <1>a, <1>b, <1>c, <1>d
    DEF IInv, TypeOK, PermitInv, OwnerInSync, SnapshotInv, ReviewInv,
        OurReview, HoldsPermit, Ended
  <1>5. ReviewInv'
    <2> DEFINE Rest == /\ mine.key # Foreign /\ mine.key = intent.key
                       /\ Len(reviews) = 0 /\ DOMAIN reviews = {}
    <2>1. Rest /\ (reviews' = <<>> \/ reviews' = <<mine>>)
      BY <1>0, <1>a, <1>c, <1>d, ConstantsAssumption DEF Intent, Keys
    <2>2. \A p \in Owners : pc'[p] # "receipt"
      <3>1. \A p \in Owners : pc[p] # "receipt"
        BY <1>a, <2>1 DEF IInv, ReviewInv
      <3> QED BY <1>0, <3>1 DEF IInv, TypeOK
    <2>3. CASE reviews' = <<>>
      BY <1>a, <2>1, <2>2, <2>3
      DEF ReviewInv, OurReview, NoBotReviewVisible
    <2>4. CASE reviews' = <<mine>>
      <3> HIDE DEF mine
      <3>1. Len(reviews') = 1 /\ DOMAIN reviews' = {1} /\ reviews'[1] = mine
        BY <2>4
      <3>2. NoBotReviewVisible'
        BY <2>1, <3>1 DEF NoBotReviewVisible
      <3>3. mine = [key |-> intent.key, commit |-> ItemHead]
        BY <2>1 DEF mine
      <3> QED BY <1>d, <2>2, <3>1, <3>2, <3>3 DEF ReviewInv, OurReview
    <2> QED BY <2>1, <2>3, <2>4
  <1>6. WithheldInv'
    BY <1>0, <1>a, <1>b, <1>c, <1>d
    DEF IInv, TypeOK, WithheldInv, OurReview, PermitInv, OwnerInSync,
        SnapshotInv, ReviewInv, HoldsPermit, Ended, TerminalStatus
  <1>7. ProcessedNamesTheReview'
    BY <1>0, <1>a, <1>b, <1>c, <1>d
    DEF IInv, TypeOK, ProcessedNamesTheReview, SnapshotInv, OwnerInSync,
        ReviewInv, PermitInv, OurReview, Ended, TerminalStatus
  <1> QED BY <1>1, <1>2, <1>3, <1>4, <1>5, <1>6, <1>7 DEF IInv

\* A receipt is stored for the review the invocation has just seen.
LEMMA StoreReceiptKeeps ==
  ASSUME IInv, NEW o \in Owners, StoreReceipt(o)
  PROVE  IInv'
  <1>0. PICK s \in {"done", "retry", "abandon"} :
          /\ Goto(o, s)
          /\ \/ HoldsIntent(o) /\ Finish("PROCESSED") /\ receipt' = Receipt(o)
             \/ UNCHANGED <<status, claim, receipt>>
    BY DEF StoreReceipt
  <1>a. held[o] \in Intent
    BY DEF IInv, TypeOK, SnapshotInv, StoreReceipt
  <1>b. Receipt(o) \in [key : Keys, recovery : Nat]
    BY <1>a DEF Intent, Receipt
  <1>c. Receipt(o) # None /\ Receipt(o).key = held[o].key
    BY <1>b, NoneAssumption DEF Receipt
  <1> USE ConstantsAssumption
      DEF StoreReceipt, Goto, Finish, OwnsPhase, HoldsIntent, itemVars, envVars
  <1>1. TypeOK'
    <2>1. pc' \in [Owners -> Steps]
      BY <1>0 DEF IInv, TypeOK, Steps, Failing, Ended
    <2>2. /\ receipt' \in [key : Keys, recovery : Nat] \cup {None}
          /\ status' \in TerminalStatus \cup {ExpectedStatus}
          /\ claim' \in Owners \cup {None}
      BY <1>0, <1>a, <1>b, <1>c DEF IInv, TypeOK, TerminalStatus
    <2> QED BY <2>1, <2>2 DEF IInv, TypeOK
  <1>2. SnapshotInv'
    BY <1>0, <1>a, <1>b, <1>c DEF IInv, TypeOK, SnapshotInv, OwnerInSync
  <1>3. OwnerInSync'
    BY <1>0, <1>a, <1>b, <1>c
    DEF IInv, TypeOK, OwnerInSync, SnapshotInv, Steps, Failing, Ended
  <1>4. PermitInv'
    BY <1>0, <1>a, <1>b, <1>c
    DEF IInv, TypeOK, PermitInv, OwnerInSync, SnapshotInv, ReviewInv,
        OurReview, HoldsPermit, Ended
  <1>5. ReviewInv'
    BY <1>0, <1>a, <1>b, <1>c
    DEF IInv, TypeOK, ReviewInv, OurReview, NoBotReviewVisible, PermitInv,
        OwnerInSync, SnapshotInv, HoldsPermit, Ended, Keys
  <1>6. WithheldInv'
    BY <1>0, <1>a, <1>b, <1>c
    DEF IInv, TypeOK, WithheldInv, OurReview, PermitInv, OwnerInSync,
        SnapshotInv, ReviewInv, HoldsPermit, Ended, TerminalStatus
  <1>7. ProcessedNamesTheReview'
    BY <1>0, <1>a, <1>b, <1>c
    DEF IInv, TypeOK, ProcessedNamesTheReview, SnapshotInv, OwnerInSync,
        ReviewInv, PermitInv, OurReview, Ended, TerminalStatus
  <1> QED BY <1>1, <1>2, <1>3, <1>4, <1>5, <1>6, <1>7 DEF IInv

\* Only the permit holder, or a snapshot that never granted one, aborts.
LEMMA ZeroWriteAbortKeeps ==
  ASSUME IInv, NEW o \in Owners, ZeroWriteAbort(o)
  PROVE  IInv'
  <1>0. PICK s \in {"done", "retry", "abandon"} :
          /\ Goto(o, s)
          /\ \/ /\ HoldsIntent(o) /\ claim' = None /\ noPost' = TRUE
                /\ status' \in {"ERROR", "SUPERSEDED"}
                /\ errorKind' \in {"other", errorKind}
             \/ UNCHANGED <<status, claim, noPost, errorKind>>
    BY DEF ZeroWriteAbort, CommitWithoutPost, Finish
  <1> USE ConstantsAssumption
      DEF ZeroWriteAbort, CommitWithoutPost, Goto, OwnsPhase, HoldsIntent,
          itemVars, envVars
  <1>1. TypeOK'
    <2>1. pc' \in [Owners -> Steps]
      BY <1>0 DEF IInv, TypeOK, Steps, Failing, Ended
    <2>2. /\ status' \in TerminalStatus \cup {ExpectedStatus}
          /\ claim' \in Owners \cup {None} /\ noPost' \in BOOLEAN
          /\ errorKind' \in {"none", "publication_outcome_unknown", "other"}
      BY <1>0 DEF IInv, TypeOK, TerminalStatus
    <2> QED BY <2>1, <2>2 DEF IInv, TypeOK
  <1>2. SnapshotInv'
    BY <1>0 DEF IInv, TypeOK, SnapshotInv, OwnerInSync
  <1>3. OwnerInSync'
    BY <1>0 DEF IInv, TypeOK, OwnerInSync, SnapshotInv, Steps, Failing, Ended
  <1>4. PermitInv'
    BY <1>0 DEF IInv, TypeOK, PermitInv, OwnerInSync, SnapshotInv, ReviewInv,
           OurReview, HoldsPermit, Ended
  <1>5. ReviewInv'
    BY <1>0
    DEF IInv, TypeOK, ReviewInv, OurReview, NoBotReviewVisible, PermitInv,
        OwnerInSync, SnapshotInv, HoldsPermit, Ended, Keys
  <1>6. WithheldInv'
    BY <1>0 DEF IInv, TypeOK, WithheldInv, OurReview, PermitInv, OwnerInSync,
           SnapshotInv, ReviewInv, HoldsPermit, Ended, TerminalStatus
  <1>7. ProcessedNamesTheReview'
    BY <1>0
    DEF IInv, TypeOK, ProcessedNamesTheReview, SnapshotInv, OwnerInSync,
        ReviewInv, PermitInv, OurReview, Ended, TerminalStatus
  <1> QED BY <1>1, <1>2, <1>3, <1>4, <1>5, <1>6, <1>7 DEF IInv

\* A prepared snapshot that still matches proves no permit was granted.
LEMMA SuppressNoticeKeeps ==
  ASSUME IInv, NEW o \in Owners, SuppressNotice(o)
  PROVE  IInv'
  <1>0. PICK s \in {"done", "retry", "abandon"} :
          /\ Goto(o, s)
          /\ \/ /\ HoldsIntent(o) /\ claim' = None /\ noPost' = TRUE
                /\ status' \in {"ERROR", "SUPERSEDED"}
                /\ errorKind' \in {"other", errorKind}
             \/ UNCHANGED <<status, claim, noPost, errorKind>>
    BY DEF SuppressNotice, CommitWithoutPost, Finish
  <1> USE ConstantsAssumption
      DEF SuppressNotice, CommitWithoutPost, Goto, OwnsPhase, HoldsIntent,
          itemVars, envVars
  <1>1. TypeOK'
    <2>1. pc' \in [Owners -> Steps]
      BY <1>0 DEF IInv, TypeOK, Steps, Failing, Ended
    <2>2. /\ status' \in TerminalStatus \cup {ExpectedStatus}
          /\ claim' \in Owners \cup {None} /\ noPost' \in BOOLEAN
          /\ errorKind' \in {"none", "publication_outcome_unknown", "other"}
      BY <1>0 DEF IInv, TypeOK, TerminalStatus
    <2> QED BY <2>1, <2>2 DEF IInv, TypeOK
  <1>2. SnapshotInv'
    BY <1>0 DEF IInv, TypeOK, SnapshotInv, OwnerInSync
  <1>3. OwnerInSync'
    BY <1>0 DEF IInv, TypeOK, OwnerInSync, SnapshotInv, Steps, Failing, Ended
  <1>4. PermitInv'
    BY <1>0 DEF IInv, TypeOK, PermitInv, OwnerInSync, SnapshotInv, ReviewInv,
           OurReview, HoldsPermit, Ended
  <1>5. ReviewInv'
    BY <1>0
    DEF IInv, TypeOK, ReviewInv, OurReview, NoBotReviewVisible, PermitInv,
        OwnerInSync, SnapshotInv, HoldsPermit, Ended, Keys
  <1>6. WithheldInv'
    BY <1>0 DEF IInv, TypeOK, WithheldInv, OurReview, PermitInv, OwnerInSync,
           SnapshotInv, ReviewInv, HoldsPermit, Ended, TerminalStatus
  <1>7. ProcessedNamesTheReview'
    BY <1>0
    DEF IInv, TypeOK, ProcessedNamesTheReview, SnapshotInv, OwnerInSync,
        ReviewInv, PermitInv, OurReview, Ended, TerminalStatus
  <1> QED BY <1>1, <1>2, <1>3, <1>4, <1>5, <1>6, <1>7 DEF IInv

\* A dry run ends an item whose snapshot grants nothing.
LEMMA DryRunCommitKeeps ==
  ASSUME IInv, NEW o \in Owners, DryRunCommit(o)
  PROVE  IInv'
  <1>0. PICK s \in {"done", "retry", "abandon"} :
          /\ Goto(o, s)
          /\ \/ /\ OwnsPhase(o) /\ held[o] # None => HoldsIntent(o)
                /\ Finish("PROCESSED_DRYRUN")
             \/ UNCHANGED <<status, claim>>
    BY DEF DryRunCommit, HoldsIntent
  <1> USE ConstantsAssumption
      DEF DryRunCommit, Goto, OwnsPhase, HoldsIntent, Finish, itemVars, envVars
  <1>1. TypeOK'
    <2>1. pc' \in [Owners -> Steps]
      BY <1>0 DEF IInv, TypeOK, Steps, Failing, Ended
    <2>2. /\ status' \in TerminalStatus \cup {ExpectedStatus}
          /\ claim' \in Owners \cup {None}
      BY <1>0 DEF IInv, TypeOK, TerminalStatus
    <2> QED BY <2>1, <2>2 DEF IInv, TypeOK
  <1>2. SnapshotInv'
    BY <1>0 DEF IInv, TypeOK, SnapshotInv, OwnerInSync
  <1>3. OwnerInSync'
    BY <1>0 DEF IInv, TypeOK, OwnerInSync, SnapshotInv, Steps, Failing, Ended
  <1>4. PermitInv'
    BY <1>0 DEF IInv, TypeOK, PermitInv, OwnerInSync, SnapshotInv, ReviewInv,
           OurReview, HoldsPermit, Ended
  <1>5. ReviewInv'
    BY <1>0
    DEF IInv, TypeOK, ReviewInv, OurReview, NoBotReviewVisible, PermitInv,
        OwnerInSync, SnapshotInv, HoldsPermit, Ended, Keys
  <1>6. WithheldInv'
    BY <1>0 DEF IInv, TypeOK, WithheldInv, OurReview, PermitInv, OwnerInSync,
           SnapshotInv, ReviewInv, HoldsPermit, Ended, TerminalStatus
  <1>7. ProcessedNamesTheReview'
    BY <1>0
    DEF IInv, TypeOK, ProcessedNamesTheReview, SnapshotInv, OwnerInSync,
        ReviewInv, PermitInv, OurReview, Ended, TerminalStatus
  <1> QED BY <1>1, <1>2, <1>3, <1>4, <1>5, <1>6, <1>7 DEF IInv

\* Releasing the claim leaves nobody the current owner.
LEMMA ReleaseForRetryKeeps ==
  ASSUME IInv, NEW o \in Owners, ReleaseForRetry(o)
  PROVE  IInv'
  <1>0. PICK s \in {"failed"} :
          /\ Goto(o, s)
          /\ claim' \in {claim, None}
    BY DEF ReleaseForRetry
  <1> USE ConstantsAssumption
      DEF ReleaseForRetry, Goto, itemVars, envVars
  <1>1. TypeOK'
    <2>1. pc' \in [Owners -> Steps]
      BY <1>0 DEF IInv, TypeOK, Steps, Failing, Ended
    <2>2. claim' \in Owners \cup {None}
      BY <1>0 DEF IInv, TypeOK, TerminalStatus
    <2> QED BY <2>1, <2>2 DEF IInv, TypeOK
  <1>2. SnapshotInv'
    BY <1>0 DEF IInv, TypeOK, SnapshotInv, OwnerInSync
  <1>3. OwnerInSync'
    BY <1>0 DEF IInv, TypeOK, OwnerInSync, SnapshotInv, Steps, Failing, Ended
  <1>4. PermitInv'
    BY <1>0 DEF IInv, TypeOK, PermitInv, OwnerInSync, SnapshotInv, ReviewInv,
           OurReview, HoldsPermit, Ended
  <1>5. ReviewInv'
    BY <1>0
    DEF IInv, TypeOK, ReviewInv, OurReview, NoBotReviewVisible, PermitInv,
        OwnerInSync, SnapshotInv, HoldsPermit, Ended, Keys
  <1>6. WithheldInv'
    BY <1>0 DEF IInv, TypeOK, WithheldInv, OurReview, PermitInv, OwnerInSync,
           SnapshotInv, ReviewInv, HoldsPermit, Ended, TerminalStatus
  <1>7. ProcessedNamesTheReview'
    BY <1>0
    DEF IInv, TypeOK, ProcessedNamesTheReview, SnapshotInv, OwnerInSync,
        ReviewInv, PermitInv, OurReview, Ended, TerminalStatus
  <1> QED BY <1>1, <1>2, <1>3, <1>4, <1>5, <1>6, <1>7 DEF IInv

\* An error ends the item for its current owner only.
LEMMA MarkTerminalErrorKeeps ==
  ASSUME IInv, NEW o \in Owners, MarkTerminalError(o)
  PROVE  IInv'
  <1>0. PICK s \in {"done"} :
          /\ Goto(o, s)
          /\ \/ /\ OwnsPhase(o) /\ Finish("ERROR")
                /\ errorKind' \in {errorKind, "publication_outcome_unknown", "other"}
             \/ UNCHANGED <<status, claim, errorKind>>
    BY DEF MarkTerminalError, EndItem
  <1> USE ConstantsAssumption
      DEF MarkTerminalError, EndItem, Goto, OwnsPhase, Finish, itemVars,
          envVars
  <1>1. TypeOK'
    <2>1. pc' \in [Owners -> Steps]
      BY <1>0 DEF IInv, TypeOK, Steps, Failing, Ended
    <2>2. /\ status' \in TerminalStatus \cup {ExpectedStatus}
          /\ claim' \in Owners \cup {None}
          /\ errorKind' \in {"none", "publication_outcome_unknown", "other"}
      BY <1>0 DEF IInv, TypeOK, TerminalStatus
    <2> QED BY <2>1, <2>2 DEF IInv, TypeOK
  <1>2. SnapshotInv'
    BY <1>0 DEF IInv, TypeOK, SnapshotInv, OwnerInSync
  <1>3. OwnerInSync'
    BY <1>0 DEF IInv, TypeOK, OwnerInSync, SnapshotInv, Steps, Failing, Ended
  <1>4. PermitInv'
    BY <1>0 DEF IInv, TypeOK, PermitInv, OwnerInSync, SnapshotInv, ReviewInv,
           OurReview, HoldsPermit, Ended
  <1>5. ReviewInv'
    BY <1>0
    DEF IInv, TypeOK, ReviewInv, OurReview, NoBotReviewVisible, PermitInv,
        OwnerInSync, SnapshotInv, HoldsPermit, Ended, Keys
  <1>6. WithheldInv'
    BY <1>0 DEF IInv, TypeOK, WithheldInv, OurReview, PermitInv, OwnerInSync,
           SnapshotInv, ReviewInv, HoldsPermit, Ended, TerminalStatus
  <1>7. ProcessedNamesTheReview'
    BY <1>0
    DEF IInv, TypeOK, ProcessedNamesTheReview, SnapshotInv, OwnerInSync,
        ReviewInv, PermitInv, OurReview, Ended, TerminalStatus
  <1> QED BY <1>1, <1>2, <1>3, <1>4, <1>5, <1>6, <1>7 DEF IInv

\* A supersession ends the item for its current owner only.
LEMMA MarkSupersededKeeps ==
  ASSUME IInv, NEW o \in Owners, MarkSuperseded(o)
  PROVE  IInv'
  <1>0. PICK s \in {"done"} :
          /\ Goto(o, s)
          /\ \/ /\ OwnsPhase(o) /\ Finish("SUPERSEDED")
                /\ errorKind' \in {errorKind, "publication_outcome_unknown", "other"}
             \/ UNCHANGED <<status, claim, errorKind>>
    BY DEF MarkSuperseded, EndItem
  <1> USE ConstantsAssumption
      DEF MarkSuperseded, EndItem, Goto, OwnsPhase, Finish, itemVars, envVars
  <1>1. TypeOK'
    <2>1. pc' \in [Owners -> Steps]
      BY <1>0 DEF IInv, TypeOK, Steps, Failing, Ended
    <2>2. /\ status' \in TerminalStatus \cup {ExpectedStatus}
          /\ claim' \in Owners \cup {None}
          /\ errorKind' \in {"none", "publication_outcome_unknown", "other"}
      BY <1>0 DEF IInv, TypeOK, TerminalStatus
    <2> QED BY <2>1, <2>2 DEF IInv, TypeOK
  <1>2. SnapshotInv'
    BY <1>0 DEF IInv, TypeOK, SnapshotInv, OwnerInSync
  <1>3. OwnerInSync'
    BY <1>0 DEF IInv, TypeOK, OwnerInSync, SnapshotInv, Steps, Failing, Ended
  <1>4. PermitInv'
    BY <1>0 DEF IInv, TypeOK, PermitInv, OwnerInSync, SnapshotInv, ReviewInv,
           OurReview, HoldsPermit, Ended
  <1>5. ReviewInv'
    BY <1>0
    DEF IInv, TypeOK, ReviewInv, OurReview, NoBotReviewVisible, PermitInv,
        OwnerInSync, SnapshotInv, HoldsPermit, Ended, Keys
  <1>6. WithheldInv'
    BY <1>0 DEF IInv, TypeOK, WithheldInv, OurReview, PermitInv, OwnerInSync,
           SnapshotInv, ReviewInv, HoldsPermit, Ended, TerminalStatus
  <1>7. ProcessedNamesTheReview'
    BY <1>0
    DEF IInv, TypeOK, ProcessedNamesTheReview, SnapshotInv, OwnerInSync,
        ReviewInv, PermitInv, OurReview, Ended, TerminalStatus
  <1> QED BY <1>1, <1>2, <1>3, <1>4, <1>5, <1>6, <1>7 DEF IInv

\* No invariant looks at the pull request or at the number of its moves.
LEMMA PullRequestMovesKeeps ==
  ASSUME IInv, PullRequestMoves
  PROVE  IInv'
  <1> USE DEF PullRequestMoves, itemVars
  <1>1. TypeOK'
    <2>1. pr' \in PullRequest
      BY DEF IInv, TypeOK, PullRequest, PrEnded
    <2>2. moves' \in 0..MaxMoves
      BY ConstantsAssumption DEF IInv, TypeOK
    <2> QED BY <2>1, <2>2 DEF IInv, TypeOK
  <1>2. SnapshotInv' /\ OwnerInSync'
    BY DEF IInv, SnapshotInv, OwnerInSync
  <1>3. PermitInv'
    BY DEF IInv, PermitInv, HoldsPermit
  <1>4. ReviewInv'
    BY DEF IInv, ReviewInv, OurReview, NoBotReviewVisible
  <1>5. WithheldInv' /\ ProcessedNamesTheReview'
    BY DEF IInv, WithheldInv, OurReview, HoldsPermit, ProcessedNamesTheReview
  <1> QED BY <1>1, <1>2, <1>3, <1>4, <1>5 DEF IInv

-----------------------------------------------------------------------------
(* The invariant, and what follows from it. *)

\* The invariant holds when the stream record is delivered.
LEMMA InitEstablishes == Init => IInv
  <1> SUFFICES ASSUME Init PROVE IInv
    OBVIOUS
  <1> USE ConstantsAssumption DEF Init
  <1>1. TypeOK
    <2>1. intent \in Intent \cup {None}
      BY DEF LegacyIntent, Intent, Keys
    <2>2. cand \in [Keys -> Candidate \cup {None}]
      BY DEF LegacyCandidate, Candidate
    <2>3. pr \in PullRequest
      BY DEF PullRequest
    <2>4. reviews \in Seq([key : Keys \cup {Foreign}, commit : Heads])
      <3> DEFINE old == [key |-> Foreign, commit |-> ItemHead]
      <3>1. old \in [key : Keys \cup {Foreign}, commit : Heads]
        OBVIOUS
      <3>2. reviews = <<>> \/ reviews = <<old>>
        OBVIOUS
      <3> DEFINE All == [key : Keys \cup {Foreign}, commit : Heads]
      <3> HIDE DEF old, All
      <3>3. old \in All
        BY <3>1 DEF All
      <3>4. <<>> \in Seq(All) /\ <<old>> \in Seq(All)
        BY <3>3
      <3> QED BY <3>2, <3>4 DEF All
    <2>5. pc \in [Owners -> Steps] /\ moves \in 0..MaxMoves
      BY DEF Steps
    <2> QED BY <2>1, <2>2, <2>3, <2>4, <2>5 DEF TypeOK
  <1>2. SnapshotInv /\ OwnerInSync
    BY DEF SnapshotInv, OwnerInSync
  <1>3. PermitInv
    BY DEF PermitInv, HoldsPermit
  <1>4. ~OurReview /\ Len(reviews) <= 1
    BY DEF OurReview
  <1>5. ReviewInv
    BY <1>4 DEF ReviewInv
  <1>6. WithheldInv /\ ProcessedNamesTheReview
    BY DEF WithheldInv, ProcessedNamesTheReview
  <1> QED BY <1>1, <1>2, <1>3, <1>5, <1>6 DEF IInv

\* The invariant is about the variables alone.
LEMMA StutterKeeps == IInv /\ UNCHANGED vars => IInv'
  BY DEF vars, itemVars, envVars, IInv, TypeOK, SnapshotInv, OwnerInSync,
         PermitInv, HoldsPermit, ReviewInv, OurReview, NoBotReviewVisible,
         WithheldInv, ProcessedNamesTheReview

\* Every step of a live invocation keeps the invariant.
LEMMA StepKeeps ==
  ASSUME IInv, NEW o \in Owners, Step(o)
  PROVE  IInv'
  BY SkipStaleKeeps, ClaimPhaseKeeps, VerifyClaimKeeps, StartCheckpointKeeps,
     GenerateKeeps, PreCheckKeeps, PreflightKeeps, PersistIntentKeeps,
     RecoverKeeps, ReCheckKeeps, ReflightKeeps, MarkDispatchingKeeps,
     FreshDispositionKeeps, PostReviewKeeps, ReconcileKeeps,
     StoreReceiptKeeps, ZeroWriteAbortKeeps, SuppressNoticeKeeps,
     DryRunCheckKeeps, DryRunCommitKeeps, ReleaseForRetryKeeps,
     MarkTerminalErrorKeeps, MarkSupersededKeeps
  DEF Step

\* Every step of the system keeps the invariant.
LEMMA NextKeeps == IInv /\ [Next]_vars => IInv'
  BY StepKeeps, ClaimUnavailableKeeps, CrashKeeps, PullRequestMovesKeeps,
     StutterKeeps
  DEF Next

\* IInv, the inductive invariant: control points agree with the snapshots in
\* hand, the current owner's snapshot is fresh, and one permit exists at most.
THEOREM Inductive == Spec => []IInv
  <1> QED BY InitEstablishes, NextKeeps, PTL DEF Spec

\* Every variable keeps its type.
THEOREM TypeCorrect == Spec => []TypeOK
  <1>1. IInv => TypeOK
    BY DEF IInv
  <1> QED BY <1>1, Inductive, PTL

\* However many deliveries run at once, and wherever they crash, the bot
\* writes at most one review (publish_prepared_transaction, recover_pending).
THEOREM NeverTwoReviews == Spec => []AtMostOneReview
  <1>1. IInv => AtMostOneReview
    BY DEF IInv, ReviewInv, AtMostOneReview
  <1> QED BY <1>1, Inductive, PTL

\* A PROCESSED item names the one review that exists (store_terminal_receipt).
THEOREM ReceiptIsTrue == Spec => []ProcessedNamesTheReview
  <1>1. IInv => ProcessedNamesTheReview
    BY DEF IInv
  <1> QED BY <1>1, Inductive, PTL

\* publication_post_started = False means no review exists and none can be
\* written any more (_commit_known_zero_write_abort and its siblings).
THEOREM NoPostIsProof == Spec => []NoPostIsHonest
  <1>1. IInv => NoPostIsHonest
    BY DEF IInv, WithheldInv, HoldsPermit, NoPostIsHonest
  <1> QED BY <1>1, Inductive, PTL

\* A review on GitHub always has its dispatching intent on the item.
THEOREM NoReviewForgotten == Spec => []ReviewIsAccountedFor
  <1>1. IInv => ReviewIsAccountedFor
    <2> SUFFICES ASSUME IInv, OurReview PROVE ReviewIsAccountedFor
      BY DEF ReviewIsAccountedFor
    <2>1. /\ intent # None /\ intent.state = "dispatching"
          /\ reviews[1] = [key |-> intent.key, commit |-> ItemHead]
          /\ Len(reviews) <= 1
      BY DEF IInv, ReviewInv
    <2>2. DOMAIN reviews \subseteq {1}
      BY <2>1 DEF IInv, TypeOK
    <2>3. status \notin {"SUPERSEDED", "PROCESSED_DRYRUN"}
      BY DEF IInv, WithheldInv
    <2> QED BY <2>1, <2>2, <2>3 DEF ReviewIsAccountedFor
  <1> QED BY <1>1, Inductive, PTL

-----------------------------------------------------------------------------
(* What a step may never do. *)

\* The steps that leave the intent alone.
LEMMA IntentUntouched ==
  ASSUME NEW o \in Owners, Step(o) \/ ClaimUnavailable(o) \/ Crash(o),
         ~PersistIntent(o), ~Recover(o), ~MarkDispatching(o)
  PROVE  intent' = intent
  BY DEF Step, ClaimUnavailable, Crash, SkipStale, ClaimPhase, VerifyClaim,
         StartCheckpoint, Generate, PreCheck, ReCheck, PrePublishCheck,
         Preflight, Reflight, AssertNoBotReview, FreshDisposition, PostReview,
         Reconcile, StoreReceipt, ZeroWriteAbort, SuppressNotice,
         CommitWithoutPost, DryRunCheck, DryRunCommit, ReleaseForRetry,
         MarkTerminalError, MarkSuperseded, EndItem, itemVars

\* The intent never disappears, never names another candidate, and never
\* leaves dispatching again (begin_recovery, mark_dispatching).
THEOREM IntentIsALatch == Spec => IntentOnlyAdvances
  <1> DEFINE Advances ==
        intent # None =>
          /\ intent' # None /\ intent'.key = intent.key
          /\ intent.state = "dispatching" => intent'.state = "dispatching"
  <1>1. ASSUME IInv, NEW o \in Owners, Step(o) \/ ClaimUnavailable(o) \/ Crash(o)
        PROVE  Advances
    <2>1. CASE PersistIntent(o)
      BY <2>1 DEF PersistIntent
    <2>2. CASE Recover(o)
      <3>1. CASE HoldsIntent(o)
        <4> DEFINE new == [intent EXCEPT !.recovery = tries[o], !.owner = o]
        <4>1. intent = held[o] /\ intent # None /\ intent' = new
          BY <2>2, <3>1, <1>1 DEF Recover, HoldsIntent, IInv, SnapshotInv
        <4>2. new \in Intent /\ new.key = intent.key /\ new.state = intent.state
          BY <4>1, <1>1 DEF IInv, TypeOK, Intent, Keys
        <4> QED BY <4>1, <4>2, NoneAssumption
      <3>2. CASE ~HoldsIntent(o)
        BY <2>2, <3>2 DEF Recover
      <3> QED BY <3>1, <3>2
    <2>3. CASE MarkDispatching(o)
      <3>1. CASE HoldsIntent(o) /\ held[o].state = "prepared"
        <4> DEFINE new == [intent EXCEPT !.state = "dispatching", !.owner = o]
        <4>1. intent = held[o] /\ intent # None /\ intent' = new
          BY <2>3, <3>1, <1>1
          DEF MarkDispatching, HoldsIntent, IInv, SnapshotInv
        <4>2. new \in Intent /\ new.key = intent.key /\ new.state = "dispatching"
          BY <4>1, <1>1 DEF IInv, TypeOK, Intent, Keys
        <4> QED BY <4>1, <4>2, NoneAssumption
      <3>2. CASE ~(HoldsIntent(o) /\ held[o].state = "prepared")
        BY <2>3, <3>2 DEF MarkDispatching
      <3> QED BY <3>1, <3>2
    <2>4. CASE ~PersistIntent(o) /\ ~Recover(o) /\ ~MarkDispatching(o)
      BY <1>1, <2>4, IntentUntouched
    <2> QED BY <2>1, <2>2, <2>3, <2>4
  <1>2. IInv /\ [Next]_vars => Advances
    <2>1. ASSUME PullRequestMoves \/ UNCHANGED vars PROVE intent' = intent
      BY <2>1 DEF PullRequestMoves, vars, itemVars
    <2> QED BY <1>1, <2>1 DEF Next
  <1>3. [][Advances]_vars => IntentOnlyAdvances
    BY PTL DEF IntentOnlyAdvances
  <1>4. IInv /\ [Next]_vars => [Advances]_vars
    BY <1>2
  <1> QED BY <1>3, <1>4, Inductive, PTL DEF Spec

\* Once an item is terminal nothing that decides its outcome moves again:
\* every write of persistence.py is conditional on the expected status.
THEOREM TerminalIsForever == Spec => TerminalIsFinal
  <1> DEFINE Frozen == (status \in TerminalStatus) =>
                         UNCHANGED <<status, receipt, intent, noPost>>
  <1>1. ExpectedStatus \notin TerminalStatus
    BY ConstantsAssumption DEF TerminalStatus
  <1>2. ASSUME NEW o \in Owners, Step(o) \/ ClaimUnavailable(o) \/ Crash(o)
        PROVE  Frozen
    BY <1>1, <1>2
    DEF Step, ClaimUnavailable, Crash, SkipStale, ClaimPhase, VerifyClaim,
        StartCheckpoint, Generate, PreCheck, ReCheck, PrePublishCheck,
        Preflight, Reflight, AssertNoBotReview, PersistIntent, Recover,
        MarkDispatching, FreshDisposition, PostReview, Reconcile,
        StoreReceipt, ZeroWriteAbort, SuppressNotice, CommitWithoutPost,
        DryRunCheck, DryRunCommit, ReleaseForRetry, MarkTerminalError,
        MarkSuperseded, EndItem, itemVars, HoldsIntent, OwnsPhase
  <1>3. [Next]_vars => [Frozen]_vars
    <2>1. ASSUME PullRequestMoves \/ UNCHANGED vars PROVE Frozen
      BY <2>1 DEF PullRequestMoves, vars, itemVars
    <2> QED BY <1>2, <2>1 DEF Next
  <1> QED BY <1>3, PTL DEF Spec, TerminalIsFinal

-----------------------------------------------------------------------------
(***************************************************************************)
(* Proof that only publishable candidates reach GitHub, for every set of   *)
(* deliveries and heads: a notice of a failed or cancelled run stays       *)
(* private, and a post-merge follow-up is posted only for an item that was *)
(* admitted while its pull request was open.                               *)
(*                                                                         *)
(* What GitHub shows was posted from a snapshot, the snapshot was read or  *)
(* written with the intent, and the intent names a candidate.  PostableInv *)
(* follows the candidate along that way; IInv ties snapshot and step.      *)
(***************************************************************************)

\* The candidate of key k may be posted.
MayBePosted(k) ==
  /\ cand[k] # None /\ cand[k].mode = "final"
  /\ cand[k].kind = "post_merge_follow_up" => admitted

Unwritten == {"precheck", "preflight", "persist"}
Snapshot  == {"recheck", "reflight", "mark", "fresh", "post"}

\* What invocation o is about to post may be posted.
OwnerPostable(o) ==
  /\ pc[o] \in Unwritten => MayBePosted(o)
  /\ pc[o] \in Snapshot => MayBePosted(held[o].key)
  /\ held[o] # None => cand[held[o].key] # None

PostableInv ==
  /\ \A k \in Keys : cand[k] # None /\ cand[k].mode = "final" => MayBePosted(k)
  /\ intent # None => cand[intent.key] # None
  /\ \A o \in Owners : OwnerPostable(o)
  /\ OnlyPublishableIsPosted

-----------------------------------------------------------------------------

LEMMA PostableInit == Init => PostableInv
  <1> SUFFICES ASSUME Init PROVE PostableInv
    OBVIOUS
  <1>1. \A k \in Keys : cand[k] # None => cand[k].mode # "final"
    BY DEF Init, LegacyCandidate
  <1>2. intent # None => cand[intent.key] # None
    BY NoneAssumption DEF Init, LegacyIntent, LegacyCandidate, Candidate, Keys
  <1>3. \A o \in Owners : OwnerPostable(o)
    BY DEF Init, OwnerPostable, Unwritten, Snapshot
  <1>4. \A i \in DOMAIN reviews : reviews[i].key = Foreign
    BY DEF Init
  <1> QED BY <1>1, <1>2, <1>3, <1>4 DEF PostableInv, OnlyPublishableIsPosted

\* Where no candidate is written and no admission withdrawn, what may be posted
\* stays so.
LEMMA PostableStays ==
  ASSUME NEW k, MayBePosted(k), cand' = cand, admitted => admitted'
  PROVE  MayBePosted(k)'
  BY DEF MayBePosted

\* A step of o that writes no candidate, posts nothing and binds the intent, if
\* it writes it, to a candidate that exists: what the others know is untouched.
LEMMA OwnStep ==
  ASSUME IInv, PostableInv, NEW o \in Owners, NEW s, Goto(o, s),
         cand' = cand, reviews' = reviews, admitted => admitted',
         intent' # None => cand[intent'.key] # None,
         \A q \in Owners \ {o} : held'[q] = held[q],
         OwnerPostable(o)'
  PROVE  PostableInv'
  <1>1. \A k \in Keys : (cand[k] # None /\ cand[k].mode = "final" => MayBePosted(k))'
    BY DEF PostableInv, MayBePosted
  <1>2. (intent # None => cand[intent.key] # None)'
    OBVIOUS
  <1>3. \A q \in Owners : OwnerPostable(q)'
    <2> TAKE q \in Owners
    <2>1. CASE q # o
      <3>1. pc'[q] = pc[q] /\ held'[q] = held[q]
        BY <2>1 DEF Goto, IInv, TypeOK
      <3> QED BY <3>1, PostableStays DEF PostableInv, OwnerPostable
    <2> QED BY <2>1
  <1>4. OnlyPublishableIsPosted'
    BY DEF PostableInv, OnlyPublishableIsPosted
  <1> QED BY <1>1, <1>2, <1>3, <1>4 DEF PostableInv

\* A step that moves o's control point and nothing the invariant reads.
LEMMA QuietStep ==
  ASSUME IInv, PostableInv, NEW o \in Owners, NEW s, Goto(o, s),
         UNCHANGED <<cand, admitted, intent, reviews, held>>,
         s \in Unwritten => pc[o] \in Unwritten,
         s \in Snapshot => pc[o] \in Snapshot
  PROVE  PostableInv'
  <1>1. pc'[o] = s
    BY DEF Goto, IInv, TypeOK
  <1>2. OwnerPostable(o)'
    BY <1>1, PostableStays DEF PostableInv, OwnerPostable
  <1> QED BY <1>2, OwnStep DEF PostableInv

-----------------------------------------------------------------------------
(* The steps that only move a control point.                                *)

LEMMA ChecksKeepPostable ==
  ASSUME IInv, PostableInv, NEW o \in Owners,
         \/ PreCheck(o) \/ ReCheck(o) \/ Preflight(o) \/ Reflight(o)
         \/ FreshDisposition(o) \/ Reconcile(o) \/ DryRunCheck(o)
  PROVE  PostableInv'
  <1> USE DEF Unwritten, Snapshot, itemVars
  <1>1. CASE PreCheck(o)
    <2>1. PICK s \in {"retry", "abandon", "supersede", "preflight"} : Goto(o, s)
      BY <1>1, VerdictRange DEF PreCheck, PrePublishCheck
    <2> QED BY <1>1, <2>1, QuietStep DEF PreCheck, PrePublishCheck
  <1>2. CASE ReCheck(o)
    <2>1. PICK s \in {"retry", "abandon", "supersede", "abort", "reflight"} : Goto(o, s)
      BY <1>2, VerdictRange DEF ReCheck, PrePublishCheck
    <2> QED BY <1>2, <2>1, QuietStep DEF ReCheck, PrePublishCheck
  <1>3. CASE Preflight(o)
    <2>1. PICK s \in {"persist", "abandon", "retry"} : Goto(o, s)
      BY <1>3 DEF Preflight, AssertNoBotReview
    <2> QED BY <1>3, <2>1, QuietStep DEF Preflight, AssertNoBotReview
  <1>4. CASE Reflight(o)
    <2>1. PICK s \in {"mark", "abandon", "retry"} : Goto(o, s)
      BY <1>4 DEF Reflight, AssertNoBotReview
    <2> QED BY <1>4, <2>1, QuietStep DEF Reflight, AssertNoBotReview
  <1>5. CASE FreshDisposition(o)
    <2>1. PICK s \in {"post", "abort", "retry", "supersede"} : Goto(o, s)
      BY <1>5 DEF FreshDisposition
    <2> QED BY <1>5, <2>1, QuietStep DEF FreshDisposition
  <1>6. CASE Reconcile(o)
    <2>1. PICK s \in {"receipt", "unknown", "abandon", "retry"} : Goto(o, s)
      BY <1>6 DEF Reconcile
    <2> QED BY <1>6, <2>1, QuietStep DEF Reconcile
  <1>7. CASE DryRunCheck(o)
    <2>1. PICK s \in {"drycommit", "abandon", "supersede", "retry"} : Goto(o, s)
      BY <1>7 DEF DryRunCheck
    <2> QED BY <1>7, <2>1, QuietStep DEF DryRunCheck
  <1> QED BY <1>1, <1>2, <1>3, <1>4, <1>5, <1>6, <1>7

\* Claims, terminal writes and ends: the candidate, the intent, the snapshot
\* and GitHub are left alone, and the step ends outside the publishing stretch.
LEMMA EndsKeepPostable ==
  ASSUME IInv, PostableInv, NEW o \in Owners,
         \/ SkipStale(o) \/ ClaimUnavailable(o) \/ Crash(o) \/ ClaimPhase(o)
         \/ StoreReceipt(o) \/ ZeroWriteAbort(o) \/ SuppressNotice(o)
         \/ DryRunCommit(o) \/ ReleaseForRetry(o) \/ MarkTerminalError(o)
         \/ MarkSuperseded(o)
  PROVE  PostableInv'
  <1>1. PICK s \in {"done", "unclaimed", "crashed", "claimed", "retry", "abandon", "failed"} :
          Goto(o, s)
    BY DEF SkipStale, ClaimUnavailable, Crash, ClaimPhase, StoreReceipt, ZeroWriteAbort,
           SuppressNotice, CommitWithoutPost, DryRunCommit, ReleaseForRetry,
           MarkTerminalError, MarkSuperseded, EndItem
  <1>2. UNCHANGED <<cand, admitted, intent, reviews, held>>
    BY DEF SkipStale, ClaimUnavailable, Crash, ClaimPhase, StoreReceipt, ZeroWriteAbort,
           SuppressNotice, CommitWithoutPost, DryRunCommit, ReleaseForRetry,
           MarkTerminalError, MarkSuperseded, EndItem, itemVars
  <1> QED BY <1>1, <1>2, QuietStep DEF Unwritten, Snapshot

\* The admission is only ever made, never withdrawn.
LEMMA StartKeepsPostable ==
  ASSUME IInv, PostableInv, NEW o \in Owners, StartCheckpoint(o)
  PROVE  PostableInv'
  <1>1. PICK s \in {"generate", "supersede", "retry"} : Goto(o, s)
    BY DEF StartCheckpoint
  <1>2. /\ UNCHANGED <<cand, intent, reviews, held>>
        /\ admitted => admitted'
    BY DEF StartCheckpoint
  <1>3. OwnerPostable(o)'
    BY <1>1, <1>2 DEF Goto, IInv, TypeOK, PostableInv, OwnerPostable, Unwritten, Snapshot
  <1> QED BY <1>1, <1>2, <1>3, OwnStep DEF PostableInv

-----------------------------------------------------------------------------
(* The steps the candidate passes through.                                  *)

\* A candidate is made final, and a follow-up only of an admitted item.
LEMMA GenerateKeepsPostable ==
  ASSUME IInv, PostableInv, NEW o \in Owners, Generate(o)
  PROVE  PostableInv'
  <1>1. CASE cand' = cand
    <2>1. PICK s \in {"supersede", "retry", "abandon", "drycheck", "precheck"} : Goto(o, s)
      BY DEF Generate
    <2>2. UNCHANGED <<admitted, intent, reviews, held>>
      BY DEF Generate, itemVars
    <2>3. s = "precheck" => MayBePosted(o)
      <3>1. CASE s = "precheck"
        <4>1. PICK kind \in {"ordinary_review", "post_merge_follow_up"} :
                /\ kind = "post_merge_follow_up" => admitted
                /\ cand' = [cand EXCEPT ![o] = [kind |-> kind, mode |-> "final"]]
          BY <2>1, <3>1 DEF Generate, Goto, IInv, TypeOK
        <4>2. cand[o] = [kind |-> kind, mode |-> "final"]
          BY <4>1, <1>1 DEF IInv, TypeOK, Keys
        <4>3. cand[o] \in Candidate
          BY <4>2 DEF Candidate
        <4> QED BY <4>1, <4>2, <4>3, NoneAssumption DEF MayBePosted
      <3> QED BY <3>1
    <2>4. OwnerPostable(o)'
      BY <1>1, <2>1, <2>2, <2>3, PostableStays
      DEF Goto, IInv, TypeOK, PostableInv, OwnerPostable, Unwritten, Snapshot
    <2> QED BY <1>1, <2>1, <2>2, <2>4, OwnStep DEF PostableInv
  <1>2. CASE cand' # cand
    <2>1. PICK kind \in {"ordinary_review", "post_merge_follow_up"}, s \in {"precheck", "drycheck"} :
            /\ kind = "post_merge_follow_up" => admitted
            /\ cand' = [cand EXCEPT ![o] = [kind |-> kind, mode |-> "final"]]
            /\ Goto(o, s)
      BY <1>2 DEF Generate
    <2>2. UNCHANGED <<admitted, intent, reviews, held>>
      BY DEF Generate, itemVars
    <2>3. cand'[o] = [kind |-> kind, mode |-> "final"]
      BY <2>1 DEF IInv, TypeOK, Keys
    <2>4. [kind |-> kind, mode |-> "final"] \in Candidate
      BY DEF Candidate
    <2>5. MayBePosted(o)'
      BY <2>1, <2>2, <2>3, <2>4, NoneAssumption DEF MayBePosted
    <2>6. \A k : k # o /\ cand[k] # None => cand'[k] = cand[k]
      BY <2>1 DEF IInv, TypeOK
    <2>7. \A k : MayBePosted(k) => MayBePosted(k)'
      BY <2>2, <2>5, <2>6 DEF MayBePosted
    <2>8. \A k : cand[k] # None => cand'[k] # None
      BY <2>5, <2>6 DEF MayBePosted
    <2>9. \A k \in Keys : (cand[k] # None /\ cand[k].mode = "final" => MayBePosted(k))'
      BY <2>1, <2>5, <2>7 DEF IInv, TypeOK, PostableInv
    <2>10. \A q \in Owners : OwnerPostable(q)'
      BY <2>1, <2>2, <2>5, <2>7, <2>8
      DEF Goto, IInv, TypeOK, PostableInv, OwnerPostable, Unwritten, Snapshot
    <2>11. OnlyPublishableIsPosted'
      BY <2>2, <2>7 DEF PostableInv, OnlyPublishableIsPosted, MayBePosted
    <2> QED BY <2>2, <2>8, <2>9, <2>10, <2>11 DEF PostableInv
  <1> QED BY <1>1, <1>2

\* The snapshot is read from the intent.
LEMMA VerifyKeepsPostable ==
  ASSUME IInv, PostableInv, NEW o \in Owners, VerifyClaim(o)
  PROVE  PostableInv'
  <1>1. PICK s \in {"recover", "abandon", "start", "failed"} : Goto(o, s)
    BY DEF VerifyClaim
  <1>2. /\ UNCHANGED <<cand, admitted, intent, reviews>>
        /\ held' = held \/ held' = [held EXCEPT ![o] = intent]
    BY DEF VerifyClaim, Hold, itemVars
  <1>3. \A q \in Owners \ {o} : held'[q] = held[q]
    BY <1>2 DEF IInv, TypeOK
  <1>4. OwnerPostable(o)'
    BY <1>1, <1>2 DEF Goto, IInv, TypeOK, PostableInv, OwnerPostable, Unwritten, Snapshot
  <1> QED BY <1>1, <1>2, <1>3, <1>4, OwnStep DEF PostableInv

\* The intent is written for the invocation's own candidate.
LEMMA PersistKeepsPostable ==
  ASSUME IInv, PostableInv, NEW o \in Owners, PersistIntent(o)
  PROVE  PostableInv'
  <1>1. /\ UNCHANGED <<cand, admitted, reviews>>
        /\ MayBePosted(o)
    BY DEF PersistIntent, PostableInv, OwnerPostable, Unwritten
  <1>2. CASE intent' = intent /\ held' = held /\ Goto(o, "abandon")
    BY <1>1, <1>2, QuietStep DEF Unwritten, Snapshot
  <1>3. CASE ~ (intent' = intent /\ held' = held /\ Goto(o, "abandon"))
    <2>1. PICK s \in {"recheck", "retry"} :
            /\ Goto(o, s)
            /\ intent' = [key |-> o, state |-> "prepared", recovery |-> 0, owner |-> o]
            /\ held' = [held EXCEPT ![o] = intent']
      BY <1>3 DEF PersistIntent, Hold
    <2>2. held'[o] = intent' /\ intent'.key = o
      BY <2>1 DEF IInv, TypeOK
    <2>3. \A q \in Owners \ {o} : held'[q] = held[q]
      BY <2>1 DEF IInv, TypeOK
    <2>4. MayBePosted(o)'
      BY <1>1, PostableStays
    <2>5. OwnerPostable(o)'
      BY <1>1, <2>1, <2>2, <2>4
      DEF Goto, IInv, TypeOK, OwnerPostable, Unwritten, Snapshot, MayBePosted
    <2>6. cand[intent'.key] # None
      BY <1>1, <2>2 DEF MayBePosted
    <2> QED BY <1>1, <2>1, <2>3, <2>5, <2>6, OwnStep
  <1> QED BY <1>2, <1>3

\* Recovery goes on with a prepared candidate only if it is final; an unknown
\* one that is dispatching is only looked for, never posted.
LEMMA RecoverKeepsPostable ==
  ASSUME IInv, PostableInv, NEW o \in Owners, Recover(o)
  PROVE  PostableInv'
  <1>1. UNCHANGED <<cand, admitted, reviews>>
    BY DEF Recover
  <1>2. CASE ~ HoldsIntent(o)
    <2>1. Goto(o, "abandon") /\ intent' = intent /\ held' = held
      BY <1>2 DEF Recover
    <2> QED BY <1>1, <2>1, QuietStep DEF Unwritten, Snapshot
  <1>3. CASE HoldsIntent(o)
    <2> DEFINE new == [held[o] EXCEPT !.recovery = tries[o], !.owner = o]
    <2>1. held[o] \in Intent
      BY DEF Recover, IInv, SnapshotInv, TypeOK
    <2>2. PICK k \in Keys : new.key = k /\ held[o].key = k
      BY <2>1 DEF Intent
    <2>3. intent' = new /\ held' = [held EXCEPT ![o] = intent']
      BY <1>3 DEF Recover, Hold
    <2>4. held'[o] = new /\ \A q \in Owners \ {o} : held'[q] = held[q]
      BY <2>3 DEF IInv, TypeOK
    <2>5. cand[k] # None
      BY <2>1, <2>2, NoneAssumption DEF PostableInv, OwnerPostable
    <2>6. PICK s \in {"retry", "reconcile", "suppress", "recheck", "drycommit"} :
            Goto(o, s) /\ (s = "recheck" => cand[held[o].key].mode = "final")
      BY <1>3 DEF Recover, Goto, IInv, TypeOK
    <2>7. s = "recheck" => MayBePosted(k)'
      BY <1>1, <2>2, <2>5, <2>6, PostableStays DEF PostableInv
    <2>8. held'[o].key = k /\ (intent' # None => cand[intent'.key] # None)
      BY <2>2, <2>3, <2>4, <2>5
    <2>9. OwnerPostable(o)'
      BY <1>1, <2>5, <2>6, <2>7, <2>8
      DEF Goto, IInv, TypeOK, OwnerPostable, Unwritten, Snapshot
    <2> QED BY <1>1, <2>4, <2>6, <2>8, <2>9, OwnStep
  <1> QED BY <1>2, <1>3

\* Marking keeps the candidate the snapshot names.
LEMMA MarkKeepsPostable ==
  ASSUME IInv, PostableInv, NEW o \in Owners, MarkDispatching(o)
  PROVE  PostableInv'
  <1>1. /\ UNCHANGED <<cand, admitted, reviews>>
        /\ MayBePosted(held[o].key)
    BY DEF MarkDispatching, PostableInv, OwnerPostable, Snapshot
  <1>2. CASE ~ (HoldsIntent(o) /\ held[o].state = "prepared")
    <2>1. Goto(o, "abandon") /\ intent' = intent /\ held' = held
      BY <1>2 DEF MarkDispatching
    <2> QED BY <1>1, <2>1, QuietStep DEF Unwritten, Snapshot
  <1>3. CASE HoldsIntent(o) /\ held[o].state = "prepared"
    <2> DEFINE new == [held[o] EXCEPT !.state = "dispatching", !.owner = o]
    <2>1. held[o] \in Intent
      BY <1>3 DEF MarkDispatching, HoldsIntent, IInv, SnapshotInv, TypeOK
    <2>2. PICK k \in Keys : new.key = k /\ held[o].key = k
      BY <2>1 DEF Intent
    <2>3. intent' = new /\ held' = [held EXCEPT ![o] = intent']
      BY <1>3 DEF MarkDispatching, Hold
    <2>4. held'[o] = new /\ \A q \in Owners \ {o} : held'[q] = held[q]
      BY <2>3 DEF IInv, TypeOK
    <2>5. PICK s \in {"fresh", "retry"} : Goto(o, s)
      BY <1>3 DEF MarkDispatching
    <2>6. MayBePosted(k)' /\ cand[k] # None
      BY <1>1, <2>2, PostableStays DEF MayBePosted
    <2>7. held'[o].key = k /\ (intent' # None => cand[intent'.key] # None)
      BY <2>2, <2>3, <2>4, <2>6
    <2>8. OwnerPostable(o)'
      BY <1>1, <2>5, <2>6, <2>7
      DEF Goto, IInv, TypeOK, OwnerPostable, Unwritten, Snapshot
    <2> QED BY <1>1, <2>4, <2>5, <2>7, <2>8, OwnStep
  <1> QED BY <1>2, <1>3

\* The review carries the key of a candidate that may be posted.
LEMMA PostKeepsPostable ==
  ASSUME IInv, PostableInv, NEW o \in Owners, PostReview(o)
  PROVE  PostableInv'
  <1>1. PICK s \in {"reconcile", "abandon"} : Goto(o, s)
    BY DEF PostReview
  <1>2. UNCHANGED <<cand, admitted, intent, held>>
    BY DEF PostReview, itemVars
  <1>3. CASE reviews' = reviews
    BY <1>1, <1>2, <1>3, QuietStep DEF Unwritten, Snapshot
  <1>4. CASE reviews' = Append(reviews, [key |-> held[o].key, commit |-> ItemHead])
    <2> DEFINE posted == [key |-> held[o].key, commit |-> ItemHead]
    <2>1. MayBePosted(held[o].key)
      BY DEF PostReview, PostableInv, OwnerPostable, Snapshot
    <2>2. \A i \in DOMAIN reviews' : reviews'[i] = posted \/ (i \in DOMAIN reviews /\ reviews'[i] = reviews[i])
      BY <1>4 DEF IInv, TypeOK
    <2>3. \A i \in DOMAIN reviews' : reviews'[i].key # Foreign => MayBePosted(reviews'[i].key)
      BY <2>1, <2>2 DEF PostableInv, OnlyPublishableIsPosted, MayBePosted
    <2>4. OnlyPublishableIsPosted'
      BY <1>2, <2>3 DEF OnlyPublishableIsPosted, MayBePosted
    <2>5. \A q \in Owners : OwnerPostable(q)'
      BY <1>1, <1>2, PostableStays
      DEF Goto, IInv, TypeOK, PostableInv, OwnerPostable, Unwritten, Snapshot
    <2> QED BY <1>2, <2>4, <2>5 DEF PostableInv, MayBePosted
  <1> QED BY <1>3, <1>4 DEF PostReview

LEMMA PostableStep == IInv /\ PostableInv /\ [Next]_vars => PostableInv'
  <1>1. ASSUME IInv, PostableInv, NEW o \in Owners,
               Step(o) \/ ClaimUnavailable(o) \/ Crash(o)
        PROVE  PostableInv'
    BY <1>1, ChecksKeepPostable, EndsKeepPostable, StartKeepsPostable,
       GenerateKeepsPostable, VerifyKeepsPostable, PersistKeepsPostable,
       RecoverKeepsPostable, MarkKeepsPostable, PostKeepsPostable
    DEF Step
  <1>2. ASSUME PostableInv, PullRequestMoves \/ UNCHANGED vars
        PROVE  PostableInv'
    BY <1>2 DEF PullRequestMoves, vars, itemVars, PostableInv, OwnerPostable,
                OnlyPublishableIsPosted, MayBePosted
  <1> QED BY <1>1, <1>2 DEF Next

\* Whatever is retried or recovered, no notice of a failed or cancelled run is
\* ever posted, and no follow-up of an item that was not admitted open.
THEOREM PrivateStaysPrivate == Spec => []OnlyPublishableIsPosted
  <1>1. Spec => []PostableInv
    BY PostableInit, PostableStep, Inductive, PTL DEF Spec
  <1>2. PostableInv => OnlyPublishableIsPosted
    BY DEF PostableInv
  <1> QED BY <1>1, <1>2, PTL

-----------------------------------------------------------------------------
(***************************************************************************)
(* Proof that the publication transaction implements AtMostOnceWrite, for  *)
(* every set of deliveries and heads and every attempt bound: each step of *)
(* each invocation grants, uses, forfeits or renounces the one permission, *)
(* or leaves it alone.                                                     *)
(*                                                                         *)
(* Under IInv the abstract variables depend on four facts: does an         *)
(* invocation hold the permit, is the intent dispatching, is there a       *)
(* review of ours, and how the item stands.  The lemmas of the first part  *)
(* turn these facts into abstract steps; those of the second say what each *)
(* group of steps does to them.                                            *)
(***************************************************************************)

Holder == \E o \in Owners : HoldsPermit(o)

Marked == intent # None /\ intent.state = "dispatching"

Writes == Cardinality({i \in DOMAIN reviews : reviews[i].key # Foreign})

AbstractStep == [Abstract!Next]_(Abstract!vars)

-----------------------------------------------------------------------------
(* The abstract variables, from the four facts.                             *)

\* A listing of at most one review counts one if it is not an older one.
LEMMA CountIs ==
  ASSUME NEW S, NEW R \in Seq(S), Len(R) <= 1
  PROVE  Cardinality({i \in DOMAIN R : R[i].key # Foreign})
           = IF \E i \in DOMAIN R : R[i].key # Foreign THEN 1 ELSE 0
  <1> DEFINE ours == {i \in DOMAIN R : R[i].key # Foreign}
  <1>1. DOMAIN R \subseteq {1}
    <2>1. Len(R) \in Nat /\ DOMAIN R = 1 .. Len(R)
      OBVIOUS
    <2> QED BY <2>1
  <1>2. CASE \E i \in DOMAIN R : R[i].key # Foreign
    <2>1. ours = {1}
      BY <1>1, <1>2
    <2> QED BY <2>1, <1>2, FS_Singleton
  <1>3. CASE ~ \E i \in DOMAIN R : R[i].key # Foreign
    <2>1. ours = {}
      BY <1>3
    <2> QED BY <2>1, <1>3, FS_EmptySet
  <1> QED BY <1>2, <1>3

LEMMA WritesAre ==
  ASSUME IInv, IInv'
  PROVE  /\ Writes = IF OurReview THEN 1 ELSE 0
         /\ Writes' = IF OurReview' THEN 1 ELSE 0
  <1> DEFINE All == [key : Keys \cup {Foreign}, commit : Heads]
  <1>1. reviews \in Seq(All) /\ Len(reviews) <= 1
    BY DEF IInv, TypeOK, ReviewInv
  <1>2. reviews' \in Seq(All) /\ Len(reviews') <= 1
    BY DEF IInv, TypeOK, ReviewInv
  <1> HIDE DEF All
  <1> QED BY <1>1, <1>2, CountIs DEF Writes, OurReview

\* Who holds the permit has marked the intent and not yet posted.
LEMMA HolderIsAlone ==
  ASSUME IInv
  PROVE  /\ Holder => Marked /\ ~ OurReview
         /\ OurReview => Marked
  BY DEF IInv, PermitInv, ReviewInv, Holder, Marked, OurReview

\* Nothing moves, or the holder stops.
LEMMA Forfeits ==
  ASSUME IInv, IInv', Marked' <=> Marked, reviews' = reviews, Verdict' = Verdict,
         Holder' => Holder
  PROVE  AbstractStep
  <1>1. Writes' = Writes
    BY DEF Writes
  <1>2. CASE Holder' <=> Holder
    <2>1. Permit' = Permit
      BY <1>2 DEF Permit, Holder, Marked
    <2> QED BY <1>1, <2>1 DEF AbstractStep, Abstract!vars, Writes
  <1>3. CASE Holder /\ ~ Holder'
    <2>1. Permit = "granted" /\ Permit' = "spent"
      BY <1>3, HolderIsAlone DEF Permit, Holder, Marked
    <2> QED BY <1>1, <2>1 DEF AbstractStep, Abstract!Next, Abstract!Forfeit, Writes
  <1> QED BY <1>2, <1>3

\* The item ends, and what is left to write is settled or given up.
LEMMA Ends ==
  ASSUME IInv, IInv', NEW o \in Owners, OwnsPhase(o),
         UNCHANGED <<intent, reviews>>, Holder' => Holder,
         \/ Verdict' = "unknown"
         \/ Verdict' = "published" /\ OurReview
         \/ Verdict' = "withheld" /\ ~ OurReview /\ ~ Holder' /\ (Marked => Holder)
  PROVE  AbstractStep
  <1>1. Verdict = "open"
    BY ConstantsAssumption DEF Verdict, OwnsPhase, IInv, WithheldInv
  <1>2. Writes' = Writes /\ Writes = IF OurReview THEN 1 ELSE 0
    BY WritesAre DEF Writes
  <1>3. Permit \in {"absent", "granted", "spent"}
    BY DEF Permit
  <1>4. Permit' = IF Permit = "granted" /\ ~ Holder' THEN "spent" ELSE Permit
    BY HolderIsAlone DEF Permit, Holder, Marked
  <1>5. CASE Verdict' = "unknown"
    BY <1>1, <1>2, <1>4, <1>5 DEF AbstractStep, Abstract!Next, Abstract!GiveUp, Writes
  <1>6. CASE Verdict' = "published" /\ OurReview
    <2>1. Permit' = Permit
      BY <1>4, <1>6, HolderIsAlone DEF Permit, Holder
    <2> QED BY <1>1, <1>2, <1>6, <2>1
            DEF AbstractStep, Abstract!Next, Abstract!Publish, Writes
  <1>7. CASE Verdict' = "withheld" /\ ~ OurReview /\ ~ Holder' /\ (Marked => Holder)
    <2>1. Permit \in {"absent", "granted"}
      BY <1>7 DEF Permit, Holder, Marked
    <2> QED BY <1>1, <1>2, <1>4, <1>7, <2>1
            DEF AbstractStep, Abstract!Next, Abstract!Withhold, Writes
  <1> QED BY <1>5, <1>6, <1>7

\* What o does to its own control point and snapshot is all there is to say
\* about who holds the permit.
LEMMA HolderIsOwn ==
  ASSUME IInv, NEW o \in Owners, NEW s, Goto(o, s),
         \A q \in Owners \ {o} : held'[q] = held[q]
  PROVE  /\ Holder' => Holder \/ HoldsPermit(o)'
         /\ HoldsPermit(o) /\ ~ HoldsPermit(o)' => ~ Holder'
         /\ pc'[o] = s
  <1>1. pc'[o] = s /\ \A q \in Owners \ {o} : pc'[q] = pc[q]
    BY DEF Goto, IInv, TypeOK
  <1>2. \A q \in Owners \ {o} : HoldsPermit(q)' = HoldsPermit(q)
    BY <1>1 DEF HoldsPermit
  <1>3. \A q \in Owners : HoldsPermit(o) /\ HoldsPermit(q) => o = q
    BY DEF IInv, PermitInv
  <1> QED BY <1>1, <1>2, <1>3 DEF Holder

\* A step that leaves the item, the intent and GitHub alone and brings o no
\* permit.
LEMMA Quiet ==
  ASSUME IInv, IInv', NEW o \in Owners, NEW s, Goto(o, s),
         UNCHANGED <<status, noPost, intent, reviews>>,
         \A q \in Owners \ {o} : held'[q] = held[q],
         HoldsPermit(o)' => HoldsPermit(o)
  PROVE  AbstractStep
  <1>1. Holder' => Holder
    BY HolderIsOwn DEF Holder
  <1>2. Verdict' = Verdict /\ Marked' = Marked
    BY DEF Verdict, Marked
  <1> QED BY <1>1, <1>2, Forfeits

\* In particular one that goes where no permit is held, or keeps the permit.
LEMMA QuietTo ==
  ASSUME IInv, IInv', NEW o \in Owners, NEW s, Goto(o, s),
         UNCHANGED <<status, noPost, intent, reviews, held>>,
         \/ HoldsPermit(o)
         \/ s \notin {"fresh", "post", "abort", "supersede"}
         \/ s \in {"abort", "supersede"} /\ (held[o] = None \/ held[o].state = "prepared")
  PROVE  AbstractStep
  <1>1. HoldsPermit(o)' => HoldsPermit(o)
    BY HolderIsOwn DEF HoldsPermit
  <1> QED BY <1>1, Quiet

-----------------------------------------------------------------------------
(* The steps of an invocation.                                              *)

\* Before the intent is marked there is no permit to hold, and after it only
\* the one that marked it moves on with the permit or drops it.
LEMMA ChecksAreQuiet ==
  ASSUME IInv, IInv', NEW o \in Owners,
         \/ StartCheckpoint(o) \/ Generate(o) \/ PreCheck(o) \/ ReCheck(o)
         \/ Preflight(o) \/ Reflight(o) \/ FreshDisposition(o) \/ DryRunCheck(o)
  PROVE  AbstractStep
  <1>1. UNCHANGED <<status, noPost, intent, reviews, held>>
    BY DEF StartCheckpoint, Generate, PreCheck, ReCheck, PrePublishCheck, Preflight,
           Reflight, AssertNoBotReview, FreshDisposition, DryRunCheck, itemVars
  <1>2. CASE StartCheckpoint(o)
    <2>1. PICK s \in {"generate", "supersede", "retry"} : Goto(o, s)
      BY <1>2 DEF StartCheckpoint
    <2> QED BY <1>1, <1>2, <2>1, QuietTo DEF StartCheckpoint, IInv, SnapshotInv
  <1>3. CASE Generate(o)
    <2>1. PICK s \in {"supersede", "retry", "abandon", "drycheck", "precheck"} : Goto(o, s)
      BY <1>3 DEF Generate
    <2> QED BY <1>1, <1>3, <2>1, QuietTo DEF Generate, IInv, SnapshotInv
  <1>4. CASE PreCheck(o)
    <2>1. PICK s \in {"retry", "abandon", "supersede", "preflight"} : Goto(o, s)
      BY <1>4, VerdictRange DEF PreCheck, PrePublishCheck
    <2> QED BY <1>1, <1>4, <2>1, QuietTo DEF PreCheck, IInv, SnapshotInv
  <1>5. CASE ReCheck(o)
    <2>1. PICK s \in {"retry", "abandon", "supersede", "abort", "reflight"} : Goto(o, s)
      BY <1>5, VerdictRange DEF ReCheck, PrePublishCheck
    <2> QED BY <1>1, <1>5, <2>1, QuietTo DEF ReCheck, IInv, SnapshotInv
  <1>6. CASE Preflight(o) \/ Reflight(o)
    <2>1. PICK s \in {"persist", "mark", "abandon", "retry"} : Goto(o, s)
      BY <1>6 DEF Preflight, Reflight, AssertNoBotReview
    <2> QED BY <1>1, <2>1, QuietTo
  <1>7. CASE FreshDisposition(o)
    <2>1. PICK s \in {"post", "abort", "retry", "supersede"} : Goto(o, s)
      BY <1>7 DEF FreshDisposition
    <2> QED BY <1>1, <1>7, <2>1, QuietTo DEF FreshDisposition, HoldsPermit
  <1>8. CASE DryRunCheck(o)
    <2>1. PICK s \in {"drycommit", "abandon", "supersede", "retry"} : Goto(o, s)
      BY <1>8 DEF DryRunCheck
    <2> QED BY <1>1, <1>8, <2>1, QuietTo DEF DryRunCheck, IInv, SnapshotInv
  <1> QED BY <1>2, <1>3, <1>4, <1>5, <1>6, <1>7, <1>8

\* Deliveries that claim, stop or only look bring no permit.
LEMMA RestIsQuiet ==
  ASSUME IInv, IInv', NEW o \in Owners,
         \/ SkipStale(o) \/ ClaimUnavailable(o) \/ Crash(o) \/ ClaimPhase(o)
         \/ Reconcile(o) \/ ReleaseForRetry(o) \/ VerifyClaim(o)
  PROVE  AbstractStep
  <1>1. PICK s \in {"done", "unclaimed", "crashed", "claimed", "receipt", "unknown",
                    "abandon", "retry", "failed", "recover", "start"} : Goto(o, s)
    BY DEF SkipStale, ClaimUnavailable, Crash, ClaimPhase, Reconcile, ReleaseForRetry,
           VerifyClaim
  <1>2. /\ UNCHANGED <<status, noPost, intent, reviews>>
        /\ held' = held \/ held' = [held EXCEPT ![o] = intent]
    BY DEF SkipStale, ClaimUnavailable, Crash, ClaimPhase, Reconcile, ReleaseForRetry,
           VerifyClaim, Hold, itemVars
  <1>3. \A q \in Owners \ {o} : held'[q] = held[q]
    BY <1>2 DEF IInv, TypeOK
  <1>4. ~ HoldsPermit(o)'
    BY <1>1, HolderIsOwn, <1>3 DEF HoldsPermit
  <1> QED BY <1>1, <1>2, <1>3, <1>4, Quiet

\* Writing the intent, and taking it over, do not mark it.
LEMMA IntentIsQuiet ==
  ASSUME IInv, IInv', NEW o \in Owners, PersistIntent(o) \/ Recover(o)
  PROVE  AbstractStep
  <1>1. PICK s \in {"recheck", "retry", "abandon", "reconcile", "suppress", "drycommit"} :
          Goto(o, s)
    BY DEF PersistIntent, Recover
  <1>2. UNCHANGED <<status, noPost, reviews>>
    BY DEF PersistIntent, Recover
  <1>3. held' = held \/ held' = [held EXCEPT ![o] = intent']
    BY DEF PersistIntent, Recover, Hold
  <1>4. \A q \in Owners \ {o} : held'[q] = held[q]
    BY <1>3 DEF IInv, TypeOK
  <1>5. ~ HoldsPermit(o)'
    BY <1>1, <1>4, HolderIsOwn DEF HoldsPermit
  <1>6. Marked' <=> Marked
    <2>1. CASE intent' = intent
      BY <2>1 DEF Marked
    <2>2. CASE PersistIntent(o) /\ intent' # intent
      BY <2>2, NoneAssumption DEF PersistIntent, Marked
    <2>3. CASE Recover(o) /\ intent' # intent
      <3>1. /\ intent = held[o] /\ held[o] \in Intent
            /\ intent' = [held[o] EXCEPT !.recovery = tries[o], !.owner = o]
        BY <2>3 DEF Recover, HoldsIntent, IInv, TypeOK, SnapshotInv
      <3>2. intent'.state = held[o].state /\ intent' \in Intent
        <4>1. tries[o] \in Nat /\ o \in Keys
          BY DEF IInv, TypeOK, Keys
        <4> QED BY <3>1, <4>1 DEF Intent
      <3> QED BY <3>1, <3>2, NoneAssumption DEF Marked
    <2> QED BY <2>1, <2>2, <2>3
  <1>7. Verdict' = Verdict
    BY <1>2 DEF Verdict
  <1> QED BY <1>2, <1>5, <1>6, <1>7, <1>1, <1>4, HolderIsOwn, Forfeits

\* The step that marks the intent grants the permit, or spends it at once.
LEMMA MarkGrants ==
  ASSUME IInv, IInv', NEW o \in Owners, MarkDispatching(o)
  PROVE  AbstractStep
  <1>1. UNCHANGED <<status, noPost, reviews>>
    BY DEF MarkDispatching
  <1>2. CASE ~ (HoldsIntent(o) /\ held[o].state = "prepared")
    <2>1. Goto(o, "abandon") /\ UNCHANGED <<intent, held>>
      BY <1>2 DEF MarkDispatching
    <2> QED BY <1>1, <2>1, QuietTo
  <1>3. CASE HoldsIntent(o) /\ held[o].state = "prepared"
    <2>1. /\ intent = held[o] /\ held[o] \in Intent /\ o \in Keys
          /\ intent' = [held[o] EXCEPT !.state = "dispatching", !.owner = o]
      BY <1>3 DEF MarkDispatching, HoldsIntent, IInv, TypeOK, SnapshotInv, Keys
    <2>2. intent' \in Intent /\ intent'.state = "dispatching"
      BY <2>1 DEF Intent
    <2>3. ~ Marked /\ Marked'
      BY <1>3, <2>1, <2>2, NoneAssumption DEF Marked
    <2>4. Permit = "absent" /\ Permit' \in {"granted", "spent"}
      BY <2>3, HolderIsAlone DEF Permit, Holder, Marked
    <2>5. Verdict = "open" /\ Verdict' = "open"
      BY <1>1, <1>3, ConstantsAssumption
      DEF Verdict, HoldsIntent, OwnsPhase, IInv, WithheldInv
    <2> QED BY <1>1, <2>4, <2>5 DEF AbstractStep, Abstract!Next, Abstract!Grant
  <1> QED BY <1>2, <1>3

\* The one call to GitHub uses the permit, whether or not its effect happens.
LEMMA PostWrites ==
  ASSUME IInv, IInv', NEW o \in Owners, PostReview(o)
  PROVE  AbstractStep
  <1>1. PICK s \in {"reconcile", "abandon"} : Goto(o, s)
    BY DEF PostReview
  <1>2. UNCHANGED <<status, noPost, intent, held>>
    BY DEF PostReview, itemVars
  <1>3. CASE reviews' = reviews
    BY <1>1, <1>2, <1>3, QuietTo
  <1>4. CASE reviews' = Append(reviews, [key |-> held[o].key, commit |-> ItemHead])
    <2> DEFINE posted == [key |-> held[o].key, commit |-> ItemHead]
    <2>1. HoldsPermit(o) /\ ~ HoldsPermit(o)'
      BY <1>1, <1>2, HolderIsOwn DEF PostReview, HoldsPermit
    <2>2. Permit = "granted" /\ Permit' = "spent"
      <3>1. Holder /\ ~ Holder' /\ Marked
        BY <1>1, <1>2, <2>1, HolderIsOwn, HolderIsAlone DEF Holder
      <3> QED BY <1>2, <3>1 DEF Permit, Holder, Marked
    <2>3. reviews = <<>>
      BY <2>1 DEF IInv, PermitInv
    <2>4. held[o].key # Foreign
      BY ConstantsAssumption DEF PostReview, IInv, SnapshotInv, TypeOK, Intent, Keys
    <2>5. ~ OurReview /\ OurReview'
      <3>1. reviews' = <<posted>>
        BY <1>4, <2>3
      <3> QED BY <2>3, <2>4, <3>1 DEF OurReview
    <2>6. Writes = 0 /\ Writes' = 1
      BY <2>5, WritesAre
    <2>7. Verdict' = Verdict
      BY <1>2 DEF Verdict
    <2> QED BY <2>2, <2>6, <2>7 DEF AbstractStep, Abstract!Next, Abstract!Write, Writes
  <1> QED BY <1>3, <1>4 DEF PostReview

\* The receipt is written where the review was seen.
LEMMA ReceiptPublishes ==
  ASSUME IInv, IInv', NEW o \in Owners, StoreReceipt(o)
  PROVE  AbstractStep
  <1>1. PICK s \in {"done", "retry", "abandon"} : Goto(o, s)
    BY DEF StoreReceipt
  <1>2. UNCHANGED <<noPost, intent, reviews, held>>
    BY DEF StoreReceipt
  <1>3. CASE status' = status
    BY <1>1, <1>2, <1>3, QuietTo
  <1>4. CASE status' # status
    <2>1. OwnsPhase(o) /\ status' = "PROCESSED"
      BY <1>4 DEF StoreReceipt, HoldsIntent, Finish
    <2>2. Verdict' = "published"
      BY <1>2, <2>1, ConstantsAssumption DEF Verdict, OwnsPhase, IInv, WithheldInv
    <2>3. OurReview
      <3> DEFINE k == held[o].key
      <3>1. /\ k # Foreign
            /\ reviews = <<[key |-> k, commit |-> ItemHead]>>
        BY ConstantsAssumption
        DEF StoreReceipt, IInv, SnapshotInv, ReviewInv, TypeOK, Intent, Keys
      <3> HIDE DEF k
      <3>2. DOMAIN reviews = {1} /\ reviews[1].key = k
        BY <3>1
      <3> QED BY <3>1, <3>2 DEF OurReview
    <2>4. Holder' => Holder
      BY <1>1, <1>2, HolderIsOwn DEF HoldsPermit
    <2> QED BY <1>2, <2>1, <2>2, <2>3, <2>4, Ends
  <1> QED BY <1>3, <1>4

\* An item ends without a review only where no permit was granted, or by the
\* hand of the one that holds it.
LEMMA Withholds ==
  ASSUME IInv, IInv', NEW o \in Owners, OwnsPhase(o), intent = held[o],
         NEW s \in {"done", "retry"}, Goto(o, s),
         UNCHANGED <<intent, reviews, held>>, Verdict' = "withheld",
         Marked => HoldsPermit(o)
  PROVE  AbstractStep
  <1>1. ~ HoldsPermit(o)' /\ (Holder' => Holder)
    BY HolderIsOwn DEF HoldsPermit
  <1>2. ~ OurReview /\ (Marked => Holder)
    BY HolderIsAlone DEF Holder
  <1>3. ~ Holder'
    <2>1. CASE Marked
      BY <1>1, <2>1, HolderIsOwn
    <2>2. CASE ~ Marked
      BY <1>1, <2>2, HolderIsAlone
    <2> QED BY <2>1, <2>2
  <1> QED BY <1>1, <1>2, <1>3, Ends

\* The known-zero-write abort, the suppressed notice and the dry run.
LEMMA NoPostWithholds ==
  ASSUME IInv, IInv', NEW o \in Owners,
         ZeroWriteAbort(o) \/ SuppressNotice(o) \/ DryRunCommit(o)
  PROVE  AbstractStep
  <1> USE DEF ZeroWriteAbort, SuppressNotice, CommitWithoutPost, DryRunCommit
  <1>1. PICK s \in {"done", "retry", "abandon"} : Goto(o, s)
    OBVIOUS
  <1>2. UNCHANGED <<intent, reviews, held>>
    OBVIOUS
  <1>3. CASE status' = status
    <2>1. noPost' = noPost
      BY <1>3, ConstantsAssumption DEF HoldsIntent, OwnsPhase, Finish
    <2> QED BY <1>1, <1>2, <1>3, <2>1, QuietTo
  <1>4. CASE status' # status
    <2>1. /\ OwnsPhase(o) /\ s \in {"done", "retry"}
          /\ status' = "PROCESSED_DRYRUN" \/ (status' \in {"SUPERSEDED", "ERROR"} /\ noPost')
      BY <1>1, <1>4 DEF HoldsIntent, Finish, Goto, IInv, TypeOK
    <2>2. intent = held[o]
      BY <1>4 DEF HoldsIntent, OwnsPhase, IInv, OwnerInSync, Ended
    <2>3. Verdict' = "withheld"
      BY <2>1, ConstantsAssumption DEF Verdict
    <2>4. Marked => HoldsPermit(o)
      BY <2>2 DEF Marked, HoldsPermit, IInv, SnapshotInv
    <2> QED BY <1>1, <1>2, <2>1, <2>2, <2>3, <2>4, Withholds
  <1> QED BY <1>3, <1>4

\* The failure handler's two terminal writes.
LEMMA HandlerEnds ==
  ASSUME IInv, IInv', NEW o \in Owners, MarkTerminalError(o) \/ MarkSuperseded(o)
  PROVE  AbstractStep
  <1> USE DEF MarkTerminalError, MarkSuperseded, EndItem
  <1>1. Goto(o, "done") /\ UNCHANGED <<noPost, intent, reviews, held>>
    OBVIOUS
  <1>2. CASE ~ OwnsPhase(o)
    <2>1. status' = status
      BY <1>2
    <2> QED BY <1>1, <2>1, QuietTo
  <1>3. CASE OwnsPhase(o) /\ MarkTerminalError(o)
    <2>1. status' = "ERROR" /\ ~ noPost'
      BY <1>1, <1>3 DEF Finish, OwnsPhase, IInv, WithheldInv
    <2>2. Verdict' = "unknown"
      BY <2>1, ConstantsAssumption DEF Verdict
    <2>3. Holder' => Holder
      BY <1>1, HolderIsOwn DEF HoldsPermit
    <2> QED BY <1>1, <1>3, <2>2, <2>3, Ends
  <1>4. CASE OwnsPhase(o) /\ MarkSuperseded(o)
    <2>1. pc[o] = "supersede" /\ status' = "SUPERSEDED"
      BY <1>4 DEF Finish
    <2>2. Verdict' = "withheld"
      BY <2>1, ConstantsAssumption DEF Verdict
    <2>3. intent = held[o]
      BY <1>4, <2>1 DEF OwnsPhase, IInv, OwnerInSync, Ended
    <2>4. Marked => HoldsPermit(o)
      BY <2>1, <2>3 DEF Marked, HoldsPermit
    <2> QED BY <1>1, <1>4, <2>2, <2>3, <2>4, Withholds
  <1> QED BY <1>2, <1>3, <1>4

-----------------------------------------------------------------------------

LEMMA AbstractInit == Init => Abstract!Init
  <1> SUFFICES ASSUME Init PROVE Abstract!Init
    OBVIOUS
  <1>1. Permit = "absent"
    BY DEF Init, Permit, HoldsPermit, LegacyIntent
  <1>2. Verdict = "open"
    BY ConstantsAssumption DEF Init, Verdict
  <1>3. {i \in DOMAIN reviews : reviews[i].key # Foreign} = {}
    BY DEF Init
  <1> QED BY <1>1, <1>2, <1>3, FS_EmptySet DEF Abstract!Init

LEMMA StepIsAbstract == IInv /\ [Next]_vars => AbstractStep
  <1>1. ASSUME IInv, IInv', NEW o \in Owners,
               Step(o) \/ ClaimUnavailable(o) \/ Crash(o)
        PROVE  AbstractStep
    BY <1>1, ChecksAreQuiet, RestIsQuiet, IntentIsQuiet, MarkGrants, PostWrites,
       ReceiptPublishes, NoPostWithholds, HandlerEnds
    DEF Step
  <1>2. ASSUME IInv, IInv', PullRequestMoves \/ UNCHANGED vars
        PROVE  AbstractStep
    <2>1. UNCHANGED <<status, noPost, intent, reviews, pc, held>>
      BY <1>2 DEF PullRequestMoves, vars, itemVars
    <2>2. Verdict' = Verdict /\ Marked' = Marked /\ Holder' = Holder
      BY <2>1 DEF Verdict, Marked, Holder, HoldsPermit
    <2> QED BY <1>2, <2>1, <2>2, Forfeits
  <1> QED BY <1>1, <1>2, NextKeeps DEF Next

\* The transaction implements the single-use permission: whatever is redelivered,
\* taken over or crashed, each step of publish_prepared_transaction and
\* recover_pending is a step of AtMostOnceWrite or leaves it alone.
THEOREM Implementation == Spec => ImplementsAtMostOnceWrite
  <1> QED BY AbstractInit, StepIsAbstract, Inductive, PTL
          DEF Spec, ImplementsAtMostOnceWrite, Abstract!Spec, AbstractStep
=============================================================================

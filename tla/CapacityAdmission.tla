-------------------------- MODULE CapacityAdmission --------------------------
(***************************************************************************)
(* Free-review capacity: one DynamoDB sentinel per China Standard Time day  *)
(* holds a counter for the deployment, a counter per repository, the set of *)
(* admitted runs and the owner of each repository's one notice.             *)
(*                                                                         *)
(* A context phase consumes capacity before its first paid call.  Deliveries *)
(* are repeated, take each other's claim over, lose replies and crash; the  *)
(* day may change between any two steps, and a deployment may change the     *)
(* policy between two invocations.                                          *)
(*                                                                         *)
(* Sources: pipeline_capacity.py, and run_context_phase in orchestrator.py  *)
(* from the capacity gate on.  How the notice itself reaches GitHub is      *)
(* PublicationTransaction; how a call is paid for is ProviderDispatch.      *)
(***************************************************************************)
EXTENDS Integers, FiniteSets

CONSTANTS
  Runs,        \* admission ids: repository, pull request, run, head, succession
  Repos,
  RepoOf,      \* the repository of each run
  Successors,  \* the runs created by requeue_head_successor
  Policies,    \* [repo, global] limits of the policies that may be deployed
  LastDay,     \* bound: days the model runs for
  Owners,      \* invocations (aws_request_id)
  None

\* CapacityPolicy.__post_init__ : a repository bound needs a global one.
ASSUME PoliciesAssumption ==
  /\ \A p \in Policies : p.repo \in Nat /\ p.global \in Nat
                         /\ (p.repo > 0 => p.global > 0)
  /\ RepoOf \in [Runs -> Repos] /\ Successors \subseteq Runs
  /\ IsFiniteSet(Runs) /\ LastDay \in Nat \ {0}
  /\ None \notin Runs \cup Owners \cup Policies \cup Nat

VARIABLES
  today,
  ids,          \* capacity_admission_ids of each day's sentinel
  repoCount,    \* capacity_repo_<digest>
  globalCount,  \* capacity_global_count
  noticeOwner,  \* capacity_notice_owner_<digest>
  outcome,      \* how each run's item left the context phase
  blockedOn,    \* the window it was turned away for
  claim,        \* owner of each item's phase claim
  paid,         \* runs that have bought a model call
  pc, on, policy, window

sentinelVars == <<ids, repoCount, globalCount, noticeOwner>>
itemVars     == <<outcome, blockedOn, claim>>
workVars     == <<on, policy, window>>
vars == <<today, sentinelVars, itemVars, paid, pc, workVars>>

Days == 1..LastDay

RunsOf(r) == {run \in Runs : RepoOf[run] = r}

Enabled(p) == p.repo > 0 \/ p.global > 0

Owns(o) == outcome[on[o]] = "live" /\ claim[on[o]] = o

Goto(o, step) == pc' = [pc EXCEPT ![o] = step]

Steps == {"idle", "consume", "admit", "read", "notice", "speak", "silence",
          "work", "gone"}

-----------------------------------------------------------------------------
Init ==
  /\ today = 1
  /\ ids = [d \in Days |-> {}] /\ globalCount = [d \in Days |-> 0]
  /\ repoCount = [d \in Days |-> [r \in Repos |-> 0]]
  /\ noticeOwner = [d \in Days |-> [r \in Repos |-> None]]
  /\ outcome = [run \in Runs |-> "live"]
  /\ blockedOn = [run \in Runs |-> None]
  /\ claim = [run \in Runs |-> None]
  /\ paid = {}
  /\ pc = [o \in Owners |-> "idle"] /\ on = [o \in Owners |-> None]
  /\ policy = [o \in Owners |-> None] /\ window = [o \in Owners |-> None]

\* A delivery of a pending item takes its claim; it has passed the skip gates.
ClaimPhase(o) ==
  /\ pc[o] = "idle"
  /\ \E run \in Runs, p \in Policies :
       /\ outcome[run] = "live"
       /\ claim' = [claim EXCEPT ![run] = o]
       /\ on' = [on EXCEPT ![o] = run]
       /\ policy' = [policy EXCEPT ![o] = p]
  /\ Goto(o, "consume")
  /\ UNCHANGED <<today, sentinelVars, outcome, blockedOn, paid, window>>

\* consume reads the clock once; what follows may land after midnight.
Consume(o) ==
  /\ pc[o] = "consume"
  /\ window' = [window EXCEPT ![o] = today]
  /\ Goto(o, IF Enabled(policy[o]) THEN "admit" ELSE "work")
  /\ UNCHANGED <<today, sentinelVars, itemVars, paid, on, policy>>

\* Faulty: a retry is charged again.
CanAdmitAgain(run, d, p) ==
  /\ p.repo > 0 => repoCount[d][RepoOf[run]] < p.repo
  /\ p.global > 0 => globalCount[d] < p.global

\* Faulty: off by one at the limit.
CanAdmitOneMore(run, d, p) ==
  /\ run \notin ids[d]
  /\ p.repo > 0 => repoCount[d][RepoOf[run]] <= p.repo
  /\ p.global > 0 => globalCount[d] <= p.global

\* The condition of _admit_once's single update.
CanAdmit(run, d, p) ==
  /\ run \notin ids[d]
  /\ p.repo > 0 => repoCount[d][RepoOf[run]] < p.repo
  /\ p.global > 0 => globalCount[d] < p.global

\* A refused update is followed by a separate read of the sentinel.  A reply
\* that is lost fails the phase, whether or not the update has landed.
AdmitOnce(o) ==
  LET run == on[o]  d == window[o]  p == policy[o] IN
  /\ pc[o] = "admit"
  /\ IF CanAdmit(run, d, p)
     THEN /\ ids' = [ids EXCEPT ![d] = @ \cup {run}]
          /\ repoCount' = IF p.repo > 0
                          THEN [repoCount EXCEPT ![d][RepoOf[run]] = @ + 1]
                          ELSE repoCount
          /\ globalCount' = IF p.global > 0
                            THEN [globalCount EXCEPT ![d] = @ + 1]
                            ELSE globalCount
          /\ Goto(o, "work")
     ELSE Goto(o, "read") /\ UNCHANGED <<ids, repoCount, globalCount>>
  /\ UNCHANGED <<today, noticeOwner, itemVars, paid, workVars>>

\* Faulty: an earlier admission of the run is not looked up.
ReadSentinelForLimits(o) ==
  LET run == on[o]  d == window[o] IN
  /\ pc[o] = "read"
  /\ Goto(o, IF run \notin Successors
               /\ repoCount[d][RepoOf[run]] >= policy[o].repo
             THEN "notice" ELSE "silence")
  /\ UNCHANGED <<today, sentinelVars, itemVars, paid, workVars>>

\* Admitted before, out of repository capacity, or out of global capacity.
ReadSentinel(o) ==
  LET run == on[o]  d == window[o]  p == policy[o]
      repoFull == p.repo > 0 /\ repoCount[d][RepoOf[run]] >= p.repo IN
  /\ pc[o] = "read"
  /\ \/ run \in ids[d] /\ Goto(o, "work")
     \/ run \notin ids[d] /\ repoFull /\ run \notin Successors /\ Goto(o, "notice")
     \/ run \notin ids[d] /\ (run \in Successors \/ ~repoFull) /\ Goto(o, "silence")
  /\ UNCHANGED <<today, sentinelVars, itemVars, paid, workVars>>

\* Faulty: every refused run speaks.
ClaimNoticeAlways(o) ==
  /\ pc[o] = "notice" /\ Goto(o, "speak")
  /\ noticeOwner' = [noticeOwner EXCEPT ![window[o]][RepoOf[on[o]]] = on[o]]
  /\ UNCHANGED <<today, ids, repoCount, globalCount, itemVars, paid, workVars>>

\* _claim_notice: absent, or owned by this very admission.
ClaimNotice(o) ==
  LET run == on[o]  d == window[o]  r == RepoOf[run] IN
  /\ pc[o] = "notice"
  /\ IF noticeOwner[d][r] \in {None, run}
     THEN noticeOwner' = [noticeOwner EXCEPT ![d][r] = run] /\ Goto(o, "speak")
     ELSE Goto(o, "silence") /\ UNCHANGED noticeOwner
  /\ UNCHANGED <<today, ids, repoCount, globalCount, itemVars, paid, workVars>>

\* The write that ends the run here needs the claim; a lost one is retried.
EndRun(o, how) ==
  /\ Owns(o)
  /\ outcome' = [outcome EXCEPT ![on[o]] = how]
  /\ claim' = [claim EXCEPT ![on[o]] = None]
  /\ Goto(o, "gone")
  /\ UNCHANGED <<today, sentinelVars, paid, workVars>>

\* commit_terminal_result stores the notice's intent, mark_superseded does not
\* speak.
TurnAway(o) ==
  /\ \/ pc[o] = "speak" /\ EndRun(o, "notified")
     \/ pc[o] = "silence" /\ EndRun(o, "silenced")
  /\ blockedOn' = [blockedOn EXCEPT ![on[o]] = window[o]]

\* Route and everything after it: fenced by the claim.
BuyModelCall(o) ==
  /\ pc[o] = "work" /\ Owns(o)
  /\ paid' = paid \cup {on[o]}
  /\ UNCHANGED <<today, sentinelVars, itemVars, pc, workVars>>

\* store_context, a route skip, a lifecycle stop or a terminal error.
LeavePhase(o) ==
  /\ pc[o] \notin {"idle", "gone"}
  /\ EndRun(o, "left")
  /\ UNCHANGED blockedOn

\* A retryable failure releases the claim.
ReleaseClaim(o) ==
  /\ pc[o] \notin {"idle", "gone"}
  /\ claim' = IF Owns(o) THEN [claim EXCEPT ![on[o]] = None] ELSE claim
  /\ Goto(o, "gone")
  /\ UNCHANGED <<today, sentinelVars, outcome, blockedOn, paid, workVars>>

Crash(o) ==
  /\ pc[o] \notin {"idle", "gone"}
  /\ Goto(o, "gone")
  /\ UNCHANGED <<today, sentinelVars, itemVars, paid, workVars>>

Midnight ==
  /\ today < LastDay /\ today' = today + 1
  /\ UNCHANGED <<sentinelVars, itemVars, paid, pc, workVars>>

Next ==
  \/ Midnight
  \/ \E o \in Owners :
       \/ ClaimPhase(o) \/ Consume(o) \/ AdmitOnce(o) \/ ReadSentinel(o)
       \/ ClaimNotice(o) \/ TurnAway(o) \/ BuyModelCall(o) \/ LeavePhase(o)
       \/ ReleaseClaim(o) \/ Crash(o)

Spec == Init /\ [][Next]_vars

-----------------------------------------------------------------------------
TypeOK ==
  /\ today \in Days
  /\ ids \in [Days -> SUBSET Runs]
  /\ repoCount \in [Days -> [Repos -> Nat]] /\ globalCount \in [Days -> Nat]
  /\ noticeOwner \in [Days -> [Repos -> Runs \cup {None}]]
  /\ outcome \in [Runs -> {"live", "notified", "silenced", "left"}]
  /\ blockedOn \in [Runs -> Days \cup {None}]
  /\ claim \in [Runs -> Owners \cup {None}]
  /\ paid \subseteq Runs
  /\ pc \in [Owners -> Steps]
  /\ on \in [Owners -> Runs \cup {None}]
  /\ policy \in [Owners -> Policies \cup {None}]
  /\ window \in [Owners -> Days \cup {None}]

\* _admit_once charges both counters and remembers the run in one step: no
\* retry, lost reply or refusal by the other bound leaves them apart, so each
\* counter is the number of runs it admitted.
CountersAreAdmissions ==
  \A d \in Days :
    /\ globalCount[d] = Cardinality(ids[d])
    /\ \A r \in Repos : repoCount[d][r] <= Cardinality(ids[d] \cap RunsOf(r))
    /\ (\A p \in Policies : p.repo > 0) =>
         \A r \in Repos : repoCount[d][r] = Cardinality(ids[d] \cap RunsOf(r))

\* However many deliveries race for the last place of a day, no more runs are
\* admitted than the most generous policy deployed that day allows.
DailyLimits ==
  \A d \in Days :
    /\ ids[d] # {} => \E p \in Policies : Cardinality(ids[d]) <= p.global
    /\ \A r \in Repos :
         repoCount[d][r] > 0 => \E p \in Policies : repoCount[d][r] <= p.repo

\* A repository gets at most one capacity notice a day, whatever crashed
\* between claiming and storing it, and never one for a head successor.
OneNoticePerDay ==
  LET notified == {run \in Runs : outcome[run] = "notified"} IN
  /\ \A x, y \in notified :
       RepoOf[x] = RepoOf[y] /\ blockedOn[x] = blockedOn[y] => x = y
  /\ notified \cap Successors = {}

\* While only one policy has been deployed, a run is turned away only for a day
\* that has no place for it and never admitted it, although the refusal, the
\* read that explains it and the write that ends the run are three steps
\* (consume).
Full(run, d, p) ==
  \/ p.repo > 0 /\ repoCount[d][RepoOf[run]] >= p.repo
  \/ p.global > 0 /\ globalCount[d] >= p.global

Deployed  == {policy[o] : o \in Owners} \ {None}
OnePolicy == \A p, q \in Deployed : p = q

TurnedAwayWasFull ==
  OnePolicy =>
    \A run \in Runs :
      outcome[run] \in {"notified", "silenced"} =>
        /\ run \notin ids[blockedOn[run]]
        /\ \E p \in Deployed : Full(run, blockedOn[run], p)

\* Where capacity is bounded, no model call is bought before some day has
\* admitted the run: consume comes before Route on every path and redelivery.
PaidRunsAreAdmitted ==
  (\A p \in Policies : Enabled(p)) => paid \subseteq UNION {ids[d] : d \in Days}

\* docs/CONFIGURATION.md: "an over-capacity pull request costs no model call".
OverCapacityCostsNothing ==
  \A run \in Runs : outcome[run] \in {"notified", "silenced"} => run \notin paid

-----------------------------------------------------------------------------
(* The inductive invariant behind these properties.                         *)

\* What an invocation past the gate may rely on.
WorkInv ==
  \A o \in Owners :
    /\ pc[o] = "idle" => policy[o] = None
    /\ pc[o] # "idle" => on[o] # None /\ policy[o] # None
    /\ pc[o] \in Steps \ {"idle", "consume", "gone"} => window[o] # None
    /\ pc[o] \in {"admit", "read", "notice", "speak", "silence"} =>
         Enabled(policy[o])
    /\ pc[o] = "work" /\ Enabled(policy[o]) => on[o] \in ids[window[o]]
    /\ pc[o] \in {"notice", "speak"} => on[o] \notin Successors
    /\ pc[o] = "speak" => noticeOwner[window[o]][RepoOf[on[o]]] = on[o]

\* A refusal stays justified: counters do not fall and, under one policy, a
\* full day admits nobody.
RefusalInv ==
  OnePolicy =>
    \A o \in Owners :
      /\ pc[o] \in {"read", "notice", "speak", "silence"} =>
           on[o] \in ids[window[o]] \/ Full(on[o], window[o], policy[o])
      /\ pc[o] \in {"notice", "speak", "silence"} =>
           on[o] \notin ids[window[o]]

OutcomeInv ==
  \A run \in Runs :
    /\ outcome[run] \in {"notified", "silenced"} => blockedOn[run] # None
    /\ outcome[run] = "notified" =>
         /\ noticeOwner[blockedOn[run]][RepoOf[run]] = run
         /\ run \notin Successors

CapacityInv ==
  /\ TypeOK /\ CountersAreAdmissions /\ DailyLimits /\ WorkInv /\ RefusalInv
  /\ OutcomeInv /\ TurnedAwayWasFull /\ PaidRunsAreAdmitted
=============================================================================

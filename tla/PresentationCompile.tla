------------------------ MODULE PresentationCompile ------------------------
(***************************************************************************)
(* compile_presentation_object and what it calls: from the object the      *)
(* Final model call returned to a publishable review, or to a failure      *)
(* kind.  The model owns the judgement; this code only decides which items *)
(* their evidence can carry, and drops the rest without changing the       *)
(* verdict.                                                                *)
(*                                                                         *)
(* A text is the set of CI checks it repeats (name with state, or          *)
(* diagnostic): nothing else of its wording matters here.  P0 and P1 are   *)
(* treated alike by all of this code and are both "P1".  "defect" is every *)
(* category but test-gap, question and note, and the last two are "note".  *)
(* Diagrams, suggestions, confidence and pr_type are left out, and so are  *)
(* path-existence observations, which carry no code of their own.          *)
(***************************************************************************)
EXTENDS Naturals, Sequences, FiniteSets, SequencesExt, Subsequences

CONSTANTS
  Catalog,       \* evidence id -> what the entry says it is
  Restorable,    \* a misspelt id -> the one catalog id it can only mean
  ChangedPaths,  \* paths the diff touches
  NoPath,        \* the empty file_path
  HeadlineCap,   \* MAX_HEADLINE_FINDINGS
  InlineCap      \* MAX_INLINE_FINDINGS

Refs == DOMAIN Catalog
CI   == {r \in Refs : Catalog[r].source = "ci"}

CodeCoverage == {"changed_region", "file_slice", "full_file"}
Sources      == {"diff", "pfr", "ci", "author"}
Coverages    == CodeCoverage \cup {"search_snippet", "directory_inventory", "non_repository"}

ASSUME CatalogAssumption ==
  /\ \A r \in Refs :
       /\ Catalog[r].source \in Sources /\ Catalog[r].coverage \in Coverages
       /\ Catalog[r].hit \in BOOLEAN /\ Catalog[r].exact \in BOOLEAN
       /\ Catalog[r].diagnosed \in BOOLEAN
  /\ Refs \cup DOMAIN Restorable \subseteq STRING
  /\ DOMAIN Restorable \cap Refs = {}
  /\ \A r \in DOMAIN Restorable : Restorable[r] \in Refs \ CI
  /\ NoPath \notin ChangedPaths
  /\ HeadlineCap \in Nat /\ InlineCap \in Nat \ {0}

Verdicts == {"clear", "verification_needed", "blocking"}

\* What the model returns, and what a review is: the same object.
Text == SUBSET CI

Finding ==
  [name : STRING, form : {"ok", "badrep", "invalid", "long"}, priority : {"P1", "P2"},
   category : {"defect", "test-gap", "note"}, action : {"fix", "later", "none"},
   path : STRING, snippet : {"post", "near", "deleted", "wrong", "none"},
   placement : {"inline", "headline", "collapsed"},
   rep : {"semantic", "exact_postimage", "exact_full_file"},
   required : SUBSET STRING, supporting : SUBSET STRING,
   head : Text, body : Text, ask : Text]

Unknown ==
  [name : STRING, form : {"ok", "invalid"}, fact : Text, ask : Text, refs : Seq(STRING)]

Check == [form : {"ok", "invalid"}, text : Text, refs : SUBSET STRING]

Presentation ==
  [form : {"object", "misshapen", "unparsable", "undecided", "unsafe"},
   verdict : Verdicts, summary : Text, advice : Seq(Text),
   findings : Seq(Finding), unknowns : Seq(Unknown), checks : Seq(Check)]

\* The evidence of a moment: the ids in the catalog, and the CI checks that
\* differ from what the model was shown.
Context == [known : SUBSET Refs, changed : SUBSET CI]

\* The text repeats what one of these checks reported.
Repeats(text, refs) == text \cap refs # {}

\* The text repeats the diagnostic of check r.
Diagnoses(text, r) == r \in text /\ Catalog[r].diagnosed

-----------------------------------------------------------------------------
(* Evidence admission, in a context c.                                      *)

Resolved(c, r) ==
  IF r \notin c.known /\ r \in DOMAIN Restorable /\ Restorable[r] \in c.known
  THEN Restorable[r] ELSE r

\* A supporting outcome, on the queued head.
Usable(r) == Catalog[r].hit /\ Catalog[r].exact

\* Mutant of Admissible: a changed check still counts.
AdmissibleOnceShown(c, r) == r \in c.known /\ Usable(r)

Admissible(c, r) == r \in c.known \ c.changed /\ Usable(r)

AdmitSupporting(c, refs) == {r \in {Resolved(c, x) : x \in refs} : Admissible(c, r)}

\* One dead reference rejects the item; unknown ones only if no other is left.
AdmitRequired(c, refs) ==
  LET named == {Resolved(c, x) : x \in refs}
      found == named \cap c.known
  IN  [refs    |-> found,
       dead    |-> \E r \in found : ~ Admissible(c, r),
       unknown |-> named # {} /\ found = {}]

\* Unknowns and checks: the first reference that is not admissible decides.
FirstBad(c, refs) == SelectInSeq(refs, LAMBDA r : ~ Admissible(c, Resolved(c, r)))

AdmitListed(c, refs) ==
  LET n == FirstBad(c, refs)
  IN  [refs    |-> [i \in DOMAIN refs |-> Resolved(c, refs[i])],
       dead    |-> n # 0 /\ Resolved(c, refs[n]) \in c.known,
       unknown |-> n # 0 /\ Resolved(c, refs[n]) \notin c.known]

KnownPaths(c) ==
  (ChangedPaths \cup
     {Catalog[r].path : r \in {x \in c.known : /\ Catalog[x].hit
                                               /\ Catalog[x].coverage # "non_repository"}})
    \ {NoPath}

-----------------------------------------------------------------------------
(* What a finding's evidence can carry.                                     *)

CarriesCode(r, path) ==
  /\ Catalog[r].source \in {"diff", "pfr"}
  /\ Catalog[r].coverage \in CodeCoverage \cup {"search_snippet"}
  /\ NoPath \in {path, Catalog[r].path} \/ Catalog[r].path = path

DeletedSupport(refs) ==
  {r \in refs : Catalog[r].source = "pfr" /\ Usable(r) /\ Catalog[r].coverage \in {"file_slice", "full_file", "search_snippet"}}

ExactRepresentation(g) ==
  \E r \in g.required :
    /\ Catalog[r].path = g.path
    /\ \/ /\ g.rep = "exact_postimage"
          /\ <<Catalog[r].source, Catalog[r].coverage>> = <<"diff", "changed_region">>
       \/ /\ Catalog[r].source = "pfr" /\ Catalog[r].coverage = "full_file"
       \/ /\ g.rep = "exact_postimage"
          /\ <<Catalog[r].source, Catalog[r].coverage>> = <<"pfr", "file_slice">>

\* A failed policy check, which no file is behind: its diagnostic carries it.
IsPolicyFailure(g, prose) ==
  /\ g.path = NoPath /\ g.snippet = "none" /\ g.placement # "inline"
  /\ g.required # {} /\ g.required \subseteq CI
  /\ \E r \in g.required : Diagnoses(prose, r)

\* prose: the text the public finding shows.
Capability(g, prose) ==
  LET ci     == g.required \cap CI
      own    == {r \in g.required : CarriesCode(r, g.path)}
      lent   == {r \in g.supporting : Usable(r) /\ CarriesCode(r, g.path)}
      indep  == IF ci # {} /\ own = {} THEN lent ELSE own
      policy == IsPolicyFailure(g, prose)
      scope  == CASE g.snippet = "deleted" -> DeletedSupport(g.required) # {}
                  [] g.snippet = "post"    -> g.path \in ChangedPaths
                  [] OTHER -> policy \/ \E r \in g.required : CarriesCode(r, NoPath)
      exact  == g.rep = "semantic" \/ (g.snippet = "post" /\ ExactRepresentation(g))
  IN  [policy   |-> policy,
       rejected |-> IF indep = {} /\ ~ policy THEN ci ELSE {},
       scope    |-> scope,
       exact    |-> exact,
       critical |-> /\ scope /\ exact
                    /\ IF g.snippet = "deleted" THEN DeletedSupport(g.required) # {}
                       ELSE indep # {} \/ policy]

Prose(f) == f.head \cup f.body \cup f.ask

\* Mutant of WeakFor: a rejected CI dependency is not weak.
WeakInScope(k) == ~ k.scope \/ ~ k.exact

WeakFor(k) == k.rejected # {} \/ ~ k.scope \/ ~ k.exact

-----------------------------------------------------------------------------
(* _normalize_finding.                                                      *)

Substantive(f) == f.category # "note"

Carries(verdict, f) == verdict = "blocking" /\ Substantive(f)

\* A snippet that is unique in the diff is restored, any other one dropped.
Anchored(snippet) ==
  CASE snippet \in {"post", "near"} -> "post"
    [] snippet = "deleted" -> "deleted"
    [] OTHER -> "none"

\* P2 supporting evidence that names the anchor exactly becomes required.
Promoted(verdict, f, required, supporting) ==
  {r \in supporting :
     /\ Carries(verdict, f) /\ f.priority = "P2" /\ f.category # "test-gap"
     /\ Anchored(f.snippet) = "post" /\ required = {}
     /\ Catalog[r].coverage \in {"changed_region", "full_file"}
     /\ Catalog[r].path = f.path}

Placed(f, required) ==
  CASE f.placement = "inline" /\ Anchored(f.snippet) # "post" ->
         IF f.priority = "P1" THEN "headline" ELSE "collapsed"
    [] f.placement = "inline" /\ required = {} -> "collapsed"
    [] OTHER -> f.placement

\* The finding with the references, anchor and placement that were admitted.
Cited(verdict, f, named, lent) ==
  LET promoted == Promoted(verdict, f, named, lent)
  IN  [f EXCEPT !.required = named \cup promoted, !.supporting = lent \ promoted,
                !.snippet = Anchored(@), !.placement = Placed(f, named \cup promoted)]

\* A quotation that is nowhere in the diff becomes a semantic claim, if that is
\* enough to carry the item.
Represented(verdict, f, g) ==
  LET semantic == [g EXCEPT !.rep = "semantic"]
      k == Capability(semantic, Prose(f))
  IN  IF /\ f.snippet = "wrong" /\ g.rep # "semantic"
         /\ IF f.priority = "P1" \/ Carries(verdict, f) THEN k.critical
            ELSE ~ WeakFor(k) /\ g.required # {}
      THEN semantic ELSE g

Admitted(c, verdict, f) ==
  LET named == AdmitRequired(c, f.required).refs
      lent  == AdmitSupporting(c, f.supporting) \ (CI \cup named)
  IN  Represented(verdict, f, Cited(verdict, f, named, lent))

\* An optional P2 too weak for its scope stays as an unverified note.
Demoted(g, k) ==
  [g EXCEPT !.required = {}, !.supporting = (g.required \cup g.supporting) \ k.rejected,
            !.placement = "collapsed"]

\* Why a finding f, admitted as g, is dropped, in the order the code asks.  at:
\* the severity of the issue it leaves; orphans: a clear summary may have rested
\* on it.
Losses(c, verdict, i, f, need, g, k) ==
  LET optional == f.priority = "P2" /\ ~ (verdict = "blocking" /\ i = 1)
  IN << [if |-> f.form = "badrep",  at |-> "item", orphans |-> FALSE],
        [if |-> f.form = "invalid", at |-> "item", orphans |-> TRUE],
        [if |-> verdict = "clear" /\ f.action = "none", at |-> "quiet", orphans |-> FALSE],
        [if |-> verdict = "blocking" /\ f.category = "test-gap" /\ f.action = "later",
         at |-> "item", orphans |-> FALSE],
        [if |-> IF f.path = NoPath THEN f.placement = "inline" ELSE f.path \notin KnownPaths(c),
         at |-> "item", orphans |-> TRUE],
        [if |-> need.dead, at |-> IF optional THEN "surface" ELSE "item", orphans |-> TRUE],
        [if |-> need.unknown, at |-> IF optional THEN "surface" ELSE "truth", orphans |-> TRUE],
        [if |-> f.priority = "P1" /\ need.refs = {}, at |-> "item", orphans |-> FALSE],
        [if |-> f.priority = "P2" /\ g.required \cup g.supporting = {},
         at |-> "quiet", orphans |-> TRUE],
        [if |-> f.priority = "P1" /\ ~ k.critical, at |-> "item", orphans |-> FALSE],
        [if |-> f.priority = "P2" /\ WeakFor(k) /\ Carries(verdict, f),
         at |-> "item", orphans |-> FALSE],
        [if |-> f.priority = "P2" /\ WeakFor(k) /\ Demoted(g, k).supporting = {},
         at |-> "quiet", orphans |-> TRUE] >>

Fate(c, verdict, i, f) ==
  LET Judge(g, k, losses) ==
        LET met == {n \in DOMAIN losses : losses[n].if}
        IN  [kept    |-> met = {},
             at      |-> IF met = {} THEN "none" ELSE losses[Min(met)].at,
             orphans |-> met # {} /\ losses[Min(met)].orphans,
             item    |-> IF g.priority = "P2" /\ WeakFor(k) THEN Demoted(g, k) ELSE g]
      Weigh(g, k) ==
        Judge(g, k, Losses(c, verdict, i, f, AdmitRequired(c, f.required), g, k))
      Read(g) == Weigh(g, Capability(g, Prose(f)))
  IN  Read(Admitted(c, verdict, f))

-----------------------------------------------------------------------------
(* The whole object.                                                        *)

Fates(c, d) == [i \in DOMAIN d.findings |-> Fate(c, d.verdict, i, d.findings[i])]

\* Identity for duplicates: placement and representation do not count.
Fingerprint(item) ==
  [x \in DOMAIN item \ {"placement", "rep"} |-> item[x]]

\* The kept items of a list of fates, the first of equal ones only.
Survivors(fates) ==
  LET first(i) == \A j \in 1 .. i - 1 :
                     ~ (fates[j].kept /\ Fingerprint(fates[j].item) = Fingerprint(fates[i].item))
      kept == At(fates, {i \in DOMAIN fates : fates[i].kept /\ first(i)})
  IN  [i \in DOMAIN kept |-> kept[i].item]

\* The findings whose loss is the loss of the decision.
Deciding(d) ==
  LET carriers == {i \in DOMAIN d.findings : Carries(d.verdict, d.findings[i])}
      critical == {i \in carriers : d.findings[i].priority = "P1"}
  IN  IF critical # {} THEN critical
      ELSE {i \in carriers : \A j \in carriers : i <= j}

TruthAt(fates) == {i \in DOMAIN fates : fates[i].at = "truth"}

\* Deciding findings dropped before the compiler stopped, if it did.
Lost(d, fates) ==
  {i \in Deciding(d) : ~ fates[i].kept /\ \A j \in TruthAt(fates) : i < j}

\* Lost ones that leave a diagnostic a repair may act on.
Diagnosed(d, fates) == {i \in Lost(d, fates) : fates[i].at # "surface"}

\* Positions of the retained findings that block.
Blocking(verdict, findings) ==
  LET able     == {i \in DOMAIN findings : Carries(verdict, findings[i]) /\ findings[i].required # {}}
      critical == {i \in able : findings[i].priority = "P1"}
  IN  IF critical # {} THEN critical ELSE {i \in able : \A j \in able : i <= j}

UnknownFate(c, verdict, u) ==
  LET need == AdmitListed(c, u.refs)
      soft == verdict # "verification_needed"
  IN  [kept |-> u.form = "ok" /\ ~ need.dead /\ ~ need.unknown,
       at   |-> CASE u.form # "ok" -> "item"
                  [] need.dead    -> IF soft THEN "surface" ELSE "item"
                  [] need.unknown -> IF soft THEN "surface" ELSE "truth"
                  [] OTHER -> "none",
       item |-> [u EXCEPT !.refs = need.refs]]

UnknownFates(c, d) == [i \in DOMAIN d.unknowns |-> UnknownFate(c, d.verdict, d.unknowns[i])]

KeptChecks(c, d) ==
  LET admitted(k) == [k EXCEPT !.refs = {Resolved(c, r) : r \in @}]
      sound(k) == k.form = "ok" /\ k.refs # {} /\ \A r \in admitted(k).refs : Admissible(c, r)
      kept == At(d.checks, {i \in DOMAIN d.checks : sound(d.checks[i])})
  IN  [i \in DOMAIN kept |-> admitted(kept[i])]

\* A clear whose summary may have rested on a removed item says no more than
\* a check observed directly, or nothing.
ClearSummary(checks) ==
  LET direct(k) == \A r \in k.refs : Catalog[r].source # "ci" /\ Catalog[r].coverage \in CodeCoverage
      n == SelectInSeq(checks, direct)
  IN  IF n = 0 THEN {} ELSE checks[n].text

\* Headline and inline places, in order and up to their caps.
Shown(findings, blocking) ==
  LET inline == {i \in DOMAIN findings : findings[i].placement = "inline"}
      extra  == inline \ blocking
      fit    == (inline \cap blocking) \cup {i \in extra : \A j \in extra : i <= j}
      over(i) ==
        CASE findings[i].placement = "headline" ->
               Cardinality({j \in 1 .. i - 1 : findings[j].placement = "headline"}) >= HeadlineCap
          [] findings[i].placement = "inline" ->
               i \notin fit \/ Cardinality({j \in fit : j < i}) >= InlineCap
          [] OTHER -> FALSE
  IN  [i \in DOMAIN findings |-> IF over(i) THEN [findings[i] EXCEPT !.placement = "collapsed"]
                                 ELSE findings[i]]

NotCritical(findings) == At(findings, {i \in DOMAIN findings : findings[i].priority # "P1"})

\* The presentation that is kept and rendered.
Presented(d, items, unknowns, checks, orphaned) ==
  LET verify   == d.verdict = "verification_needed" /\ unknowns # <<>>
      findings == IF verify THEN NotCritical(items) ELSE items
      blocking == Blocking(d.verdict, findings)
      lead     == findings[Min(blocking)]
  IN  [form     |-> d.form,
       verdict  |-> d.verdict,
       findings |-> Shown(findings, blocking),
       unknowns |-> unknowns,
       checks   |-> checks,
       summary  |-> CASE blocking # {} -> lead.head
                      [] verify   -> unknowns[1].fact
                      [] orphaned -> ClearSummary(checks)
                      [] OTHER    -> d.summary,
       advice   |-> CASE blocking # {} -> <<lead.ask>>
                      [] verify   -> <<unknowns[1].ask>>
                      [] orphaned -> <<>>
                      [] OTHER    -> d.advice]

\* An item a clear summary may have rested on was removed.
Orphaned(d, fates, unknownFates) ==
  /\ d.verdict = "clear"
  /\ \/ \E i \in DOMAIN fates : fates[i].orphans
     \/ \E i \in DOMAIN unknownFates : ~ unknownFates[i].kept

Normalized(c, d, fates, unknownFates) ==
  Presented(d, Survivors(fates), Survivors(unknownFates), KeptChecks(c, d),
            Orphaned(d, fates, unknownFates))

-----------------------------------------------------------------------------
(* Prose that repeats a CI check the review only leans on.                  *)

Spoken(d) == d.summary \cup UNION {d.advice[i] : i \in DOMAIN d.advice}

CoreProse(d) == Spoken(d) \cup UNION {Prose(d.findings[i]) : i \in DOMAIN d.findings}

CheckCI(d) == UNION {d.checks[i].refs : i \in DOMAIN d.checks} \cap CI

RequiredCI(d) == UNION {d.findings[i].required : i \in DOMAIN d.findings} \cap CI

LeantOn(d) == CheckCI(d) \ RequiredCI(d)

TaintedFindings(d) ==
  {i \in DOMAIN d.findings : Repeats(Prose(d.findings[i]), CheckCI(d) \ d.findings[i].required)}

Tainted(d) == Repeats(Spoken(d), LeantOn(d)) \/ TaintedFindings(d) # {}

TaintCarriers(d) ==
  {i \in DOMAIN d.findings : Substantive(d.findings[i]) /\ d.findings[i].required # {}}

SummaryTainted(d) == Repeats(d.summary, LeantOn(d))

\* The text the summary is replaced by, as a set of at most one text.
SummarySource(d) ==
  CASE d.verdict = "clear" -> {{}}
    [] d.verdict = "blocking" ->
         {d.findings[i].head : i \in {j \in TaintCarriers(d) : \A k \in TaintCarriers(d) : j <= k}}
    [] OTHER -> {d.unknowns[i].fact : i \in DOMAIN d.unknowns \cap {1}}

OnlyCarrier(d, i) == d.verdict = "blocking" /\ TaintCarriers(d) = {i}

\* Mutant of BodyOnly: the analysis shrinks whatever is tainted.
BodyAnyway(d, i) == TRUE

\* The only carrier keeps its headline; its analysis shrinks to that.
BodyOnly(d, i) ==
  ~ Repeats(d.findings[i].head \cup d.findings[i].ask, CheckCI(d) \ d.findings[i].required)

-----------------------------------------------------------------------------
(* The public projection and its strict contract.                           *)

\* elect_primary_inline: a blocking review with no inline finding gets one.
Elected(verdict, findings, blocking) ==
  LET able == {i \in DOMAIN findings : /\ findings[i].category = "defect"
                                       /\ findings[i].required # {}
                                       /\ findings[i].snippet = "post"}
      rank(i) == <<IF i \in blocking THEN 0 ELSE 1, IF findings[i].priority = "P1" THEN 0 ELSE 1, i>>
      before(i, j) == \/ rank(i)[1] < rank(j)[1]
                      \/ rank(i)[1] = rank(j)[1] /\ rank(i)[2] < rank(j)[2]
                      \/ rank(i)[1] = rank(j)[1] /\ rank(i)[2] = rank(j)[2] /\ i <= j
      inline == {i \in DOMAIN findings : findings[i].placement = "inline"}
  IN  IF verdict # "blocking" \/ inline # {} THEN findings
      ELSE [i \in DOMAIN findings |->
              IF i \in able /\ \A j \in able : before(i, j)
              THEN [findings[i] EXCEPT !.placement = "inline"] ELSE findings[i]]

CitationsAccepted(g, k) ==
  /\ g.required \cup g.supporting # {} /\ g.required \cap g.supporting = {}
  /\ \A r \in g.required \cup g.supporting : Usable(r)
  /\ g.path = NoPath => g.placement # "inline" /\ (g.priority = "P2" \/ k.policy)

\* A finding of the public review; a blocking one does not show its action.
FindingAccepted(g, blocks) ==
  LET k == Capability(g, IF blocks THEN g.head \cup g.body ELSE Prose(g))
      verified == g.required # {}
  IN  /\ CitationsAccepted(g, k)
      /\ k.rejected = {}
      /\ blocks => verified
      /\ g.placement = "inline" => g.snippet = "post" /\ verified
      /\ verified => k.scope
      /\ verified /\ g.priority = "P1" => k.critical

CapsHold(findings, blocking) ==
  LET at(p) == {i \in DOMAIN findings : findings[i].placement = p}
  IN  /\ Cardinality(at("headline")) <= HeadlineCap
      /\ Cardinality(at("inline")) <= InlineCap
      /\ Cardinality(at("inline") \ blocking) <= 1

\* The verdict is the one the public items imply.
Related(verdict, unknowns, blocking) ==
  verdict = IF blocking # {} THEN "blocking"
            ELSE IF verdict = "verification_needed" /\ unknowns # <<>> THEN "verification_needed"
            ELSE "clear"

\* Mutant of Contradicts: only a request for verification is looked at.
ContradictsVerification(verdict, findings) ==
  /\ verdict = "verification_needed"
  /\ \E i \in DOMAIN findings : findings[i].priority = "P1"

Contradicts(verdict, findings) ==
  /\ verdict # "blocking"
  /\ \E i \in DOMAIN findings : findings[i].priority = "P1"

ContractAccepts(p) ==
  LET blocking == Blocking(p.verdict, p.findings)
      public   == Elected(p.verdict, p.findings, blocking)
  IN  /\ \A i \in DOMAIN public : FindingAccepted(public[i], i \in blocking)
      /\ CapsHold(public, blocking)
      /\ Related(p.verdict, p.unknowns, blocking)

-----------------------------------------------------------------------------
(* The result.                                                              *)

Readable(d) == d.form \in {"object", "misshapen", "unsafe"}

\* What stops the compilation, in order; d is already contracted.
\* p: what is left of it.
Failures(c, d, fates, unknownFates, p) ==
  LET blocking == Blocking(d.verdict, p.findings)
  IN << [if |-> d.form \in {"unparsable", "misshapen", "undecided"}, kind |-> "representation"],
        [if |-> d.form = "unsafe", kind |-> "unsafe_public_text"],
        [if |-> Tainted(d), kind |-> "supporting_ci_core_prose_tainted"],
        [if |-> TruthAt(fates) # {}, kind |-> "out_of_catalog_material_evidence"],
        [if |-> blocking # {} /\ p.findings[Min(blocking)].form = "long",
         kind |-> "blocking_decision_contraction_failed"],
        [if |-> TruthAt(unknownFates) # {}, kind |-> "out_of_catalog_material_evidence"],
        [if |-> Repeats(CoreProse(p), c.changed), kind |-> "changed_ci_core_prose_tainted"],
        [if |-> Contradicts(d.verdict, p.findings), kind |-> "decision_finding_contradiction"],
        [if |-> d.verdict = "blocking" /\ blocking = {}, kind |-> "deciding_item_loss"],
        [if |-> d.verdict = "verification_needed" /\ p.unknowns = <<>>, kind |-> "deciding_item_loss"],
        [if |-> ~ ContractAccepts(p), kind |-> "public_projection_failure"] >>

\* Everything but these carries an issue of severity truth.
NotTruth == {"representation", "deciding_item_loss", "none"}

Result(d, fates, p, failures) ==
  LET failed == {i \in DOMAIN failures : failures[i].if}
      whole  == d.form = "object" /\ ~ Tainted(d)
  IN  [publishable |-> failed = {},
       kind        |-> IF failed = {} THEN "none" ELSE failures[Min(failed)].kind,
       lost        |-> IF whole THEN Lost(d, fates) ELSE {},
       diagnosed   |-> IF whole THEN Diagnosed(d, fates) ELSE {},
       review      |-> IF failed = {} THEN p ELSE d]

Concluded(c, d, fates, unknownFates, p) ==
  Result(d, fates, p, Failures(c, d, fates, unknownFates, p))

Projected(c, d, fates, unknownFates) ==
  Concluded(c, d, fates, unknownFates, Normalized(c, d, fates, unknownFates))

Compile(c, d) == Projected(c, d, Fates(c, d), UnknownFates(c, d))
=============================================================================
